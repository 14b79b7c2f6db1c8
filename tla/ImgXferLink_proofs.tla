------------------------- MODULE ImgXferLink_proofs -------------------------
(***************************************************************************)
(* Proofs about the two systems that close ImgXfer.  In ImgXferLink the    *)
(* handlers are ImgXfer's, chunks advance with the bytes on the wire, and, *)
(* while the card answers in time, at most one message of the handshake is *)
(* on its way, which fits COMMMC's state and the card's.  In ImgXferIdle   *)
(* they are ImgXfer's too, and the guard is patient.                       *)
(***************************************************************************)
EXTENDS ImgXferLink, ImgXferIdle, ImgXfer_proofs, SequenceTheorems

-----------------------------------------------------------------------------
(***************************************************************************)
(* Queues.                                                                 *)
(***************************************************************************)
LEMMA PostIs ==
  ASSUME NEW S, NEW p \in Seq(S), NEW m \in Seq(S)
  PROVE  /\ Post(p, m) \in Seq(S)
         /\ Len(Post(p, m)) <= Len(p) + Len(m)
         /\ \A i \in 1 .. Len(Post(p, m)) :
              Post(p, m)[i] = IF i <= Len(p) THEN p[i] ELSE m[i - Len(p)]
<1> DEFINE q == p \o m
           n == IF Len(q) < PipeDepth THEN Len(q) ELSE PipeDepth
<1>1. q \in Seq(S) /\ Len(q) = Len(p) + Len(m) /\ Len(p) \in Nat /\ Len(m) \in Nat
  OBVIOUS
<1>2. n \in Nat /\ n <= Len(q)
  BY <1>1, LinkAssumption
<1>3. \A i \in 1 .. Len(q) : q[i] = IF i <= Len(p) THEN p[i] ELSE m[i - Len(p)]
  OBVIOUS
<1>4. Post(p, m) = SubSeq(q, 1, n)
  BY DEF Post
<1> HIDE DEF q, n
<1>5. /\ SubSeq(q, 1, n) \in Seq(S) /\ Len(SubSeq(q, 1, n)) = n
      /\ \A i \in 1 .. n : SubSeq(q, 1, n)[i] = q[i]
  BY <1>1, <1>2
<1> QED
  BY <1>1, <1>2, <1>3, <1>4, <1>5

LEMMA TailIs ==
  ASSUME NEW S, NEW q \in Seq(S), q # <<>>
  PROVE  /\ Head(q) \in S /\ Head(q) = q[1] /\ 1 \in DOMAIN q
         /\ Tail(q) \in Seq(S) /\ Len(Tail(q)) = Len(q) - 1
         /\ \A i \in DOMAIN Tail(q) : i + 1 \in DOMAIN q /\ Tail(q)[i] = q[i + 1]
OBVIOUS

LEMMA AppendIs ==
  ASSUME NEW S, NEW q \in Seq(S), NEW m \in S
  PROVE  /\ Append(q, m) \in Seq(S) /\ DOMAIN Append(q, m) = 1 .. Len(q) + 1
         /\ Append(q, m)[Len(q) + 1] = m
         /\ \A i \in 1 .. Len(q) : Append(q, m)[i] = q[i]
         /\ Len(q) \in Nat /\ DOMAIN q = 1 .. Len(q)
OBVIOUS

-----------------------------------------------------------------------------
(***************************************************************************)
(* Types of the messages on their way, and that every handler is ImgXfer's. *)
(***************************************************************************)
CardMsgs ==
  [type : {"IMG_REQUEST"}]
    \cup [type : {"BEGIN_ACK"}, status : {0, 1}, chunk : AckChunks]
    \cup [type : {"CHUNK_ACK"}, status : {0, 1}, idx : Index]
    \cup [type : {"RESULT"}, status : {0, 1}, photo : Photos \cup {NoPhoto}]

CommMsgs ==
  CardMsgs \cup [type : {"DS_COMP"}, file : Photos]
           \cup [type : {"SPI_DONE"}, idx : Index, status : {0, 1}]

CanMsgs == {m \in Messages : m.type # "SPI_TX"}

IoMsgs == Messages \cup [type : {"SEND_HEARTBEAT", "SEND_HK"}]

CardTypes ==
  /\ card.open \in BOOLEAN
  /\ card.photo \in Photos \cup {NoPhoto}
  /\ card.armed \in Index \cup {NoChunk}
  /\ card = [open |-> card.open, photo |-> card.photo, chunk |-> card.chunk,
             armed |-> card.armed, got |-> card.got]

LinkTypes ==
  /\ IInv
  /\ commPipe \in Seq(CommMsgs)
  /\ ioPipe \in Seq(IoMsgs)
  /\ toCard \in Seq(CanMsgs)
  /\ fromCard \in Seq(CardMsgs)
  /\ CardTypes

LEMMA HandlerIs ==
  ASSUME NEW m \in CommMsgs, Handle(m)
  PROVE  Next
<1>1. CASE m.type = "DS_COMP"
  <2>1. m.file \in Photos /\ OnDsFileComplete(m.file)
    BY <1>1 DEF Handle, CommMsgs, CardMsgs
  <2> QED
    BY <2>1 DEF Next
<1>2. CASE m.type = "IMG_REQUEST"
  BY <1>2 DEF Handle, Next
<1>3. CASE m.type = "BEGIN_ACK"
  <2>1. m.status \in {0, 1} /\ m.chunk \in AckChunks /\ OnBeginAck(FALSE, m.status, m.chunk)
    BY <1>3 DEF Handle, CommMsgs, CardMsgs
  <2> QED
    BY <2>1 DEF Next
<1>4. CASE m.type = "CHUNK_ACK"
  <2>1. m.status \in {0, 1} /\ m.idx \in Index /\ OnChunkAck(FALSE, m.status, m.idx)
    BY <1>4 DEF Handle, CommMsgs, CardMsgs
  <2> QED
    BY <2>1 DEF Next
<1>5. CASE m.type = "SPI_DONE"
  <2>1. m.status \in {0, 1} /\ m.idx \in Index /\ OnSpiDone(m.status, m.idx)
    BY <1>5 DEF Handle, CommMsgs, CardMsgs
  <2> QED
    BY <2>1 DEF Next
<1>6. CASE m.type = "RESULT"
  <2>1. m.status \in {0, 1} /\ OnResult(m.status)
    BY <1>6 DEF Handle, CommMsgs, CardMsgs
  <2> QED
    BY <2>1 DEF Next
<1> QED
  BY <1>1, <1>2, <1>3, <1>4, <1>5, <1>6 DEF Handle

\* What is posted to CANIOMC is what the handler sent, or nothing.
LEMMA PostSentIs ==
  ASSUME ioPipe \in Seq(IoMsgs), sent' \in Seq(Messages), PostSent
  PROVE  ioPipe' \in Seq(IoMsgs)
<1>1. sent' \in Seq(IoMsgs)
  BY DEF IoMsgs
<1> QED
  BY <1>1, PostIs DEF PostSent, PostIo

LEMMA PollIs ==
  ASSUME LinkTypes, PollAndPublish
  PROVE  commPipe' \in Seq(CommMsgs) /\ fromCard' \in Seq(CardMsgs)
<1>1. fromCard \in Seq(CommMsgs)
  BY DEF LinkTypes, CommMsgs
<1> QED
  BY <1>1, PostIs DEF LinkTypes, PollAndPublish

LEMMA CommStepTypes ==
  ASSUME LinkTypes, CommStep
  PROVE  Next /\ LinkTypes'
<1>1. Head(commPipe) \in CommMsgs /\ commPipe' \in Seq(CommMsgs)
  BY TailIs DEF LinkTypes, CommStep
<1>2. Next
  BY <1>1, HandlerIs DEF CommStep
<1>3. IInv'
  BY <1>2, NextIInv DEF LinkTypes
<1>4. ioPipe' \in Seq(IoMsgs)
  BY <1>3, PostSentIs DEF LinkTypes, CommStep, IInv, TypeOK
<1> QED
  BY <1>1, <1>2, <1>3, <1>4 DEF LinkTypes, CommStep, CardTypes

LEMMA CommTickTypes ==
  ASSUME LinkTypes, CommTick
  PROVE  Next /\ LinkTypes'
<1>1. Next
  BY DEF CommTick, Next
<1>2. IInv'
  BY <1>1, NextIInv DEF LinkTypes
<1>3. ioPipe' \in Seq(IoMsgs)
  BY <1>2, PostSentIs DEF LinkTypes, CommTick, IInv, TypeOK
<1> QED
  BY <1>1, <1>2, <1>3 DEF LinkTypes, CommTick, CardTypes

LEMMA SameXfer ==
  ASSUME IInv, UNCHANGED vars
  PROVE  IInv'
BY NextIInv

LEMMA IoSendCanTypes ==
  ASSUME LinkTypes, IoSendCan
  PROVE  LinkTypes'
<1>1. Head(ioPipe) \in CanMsgs /\ ioPipe' \in Seq(IoMsgs)
  <2>1. Head(ioPipe) \in IoMsgs /\ ioPipe' \in Seq(IoMsgs)
    BY TailIs DEF LinkTypes, IoSendCan
  <2> QED
    BY <2>1 DEF IoSendCan, IoMsgs, CanMsgs
<1>2. toCard' \in Seq(CanMsgs)
  <2>1. toCard \in Seq(CanMsgs)
    BY DEF LinkTypes
  <2>2. Append(toCard, Head(ioPipe)) \in Seq(CanMsgs)
    BY <1>1, <2>1, AppendIs
  <2> QED
    BY <2>1, <2>2 DEF IoSendCan, CanSend
<1>3. commPipe' \in Seq(CommMsgs) /\ fromCard' \in Seq(CardMsgs)
  BY PollIs DEF IoSendCan
<1>4. IInv' /\ CardTypes'
  BY SameXfer DEF LinkTypes, IoSendCan, CardTypes
<1> QED
  BY <1>1, <1>2, <1>3, <1>4 DEF LinkTypes

LEMMA IoOtherTypes ==
  ASSUME LinkTypes, NEW type, IoOther(type)
  PROVE  LinkTypes'
<1>1. ioPipe' \in Seq(IoMsgs)
  BY TailIs DEF LinkTypes, IoOther
<1>2. IInv' /\ CardTypes'
  BY SameXfer DEF LinkTypes, IoOther, CardTypes
<1> QED
  BY <1>1, <1>2 DEF LinkTypes, IoOther

LEMMA IoPollTypes ==
  ASSUME LinkTypes, IoPoll
  PROVE  LinkTypes'
<1>1. commPipe' \in Seq(CommMsgs) /\ fromCard' \in Seq(CardMsgs)
  BY PollIs DEF IoPoll
<1>2. IInv' /\ CardTypes'
  BY SameXfer DEF LinkTypes, IoPoll, CardTypes
<1> QED
  BY <1>1, <1>2 DEF LinkTypes, IoPoll

LEMMA IoSpiTxTypes ==
  ASSUME LinkTypes, IoSpiTx
  PROVE  LinkTypes'
<1> DEFINE m == Head(ioPipe)
<1>1. ioPipe' \in Seq(IoMsgs) /\ m \in IoMsgs
  BY TailIs DEF LinkTypes, IoSpiTx
<1>2. m.idx \in Index
  BY <1>1 DEF IoMsgs, Messages, IoSpiTx
<1>3. \A s \in {0, 1} : <<SpiDoneMsg(m.idx, s)>> \in Seq(CommMsgs)
  BY <1>2 DEF SpiDoneMsg, CommMsgs
<1>4. commPipe' \in Seq(CommMsgs)
  <2>1. commPipe \in Seq(CommMsgs)
    BY DEF LinkTypes
  <2>2. \A s \in {0, 1} : Post(commPipe, <<SpiDoneMsg(m.idx, s)>>) \in Seq(CommMsgs)
    BY <1>3, <2>1, PostIs
  <2> QED
    BY <2>1, <2>2 DEF IoSpiTx
<1>5. CardTypes'
  BY DEF LinkTypes, IoSpiTx, SpiWrite, CardReceives, CardTypes
<1>6. IInv'
  BY SameXfer DEF LinkTypes, IoSpiTx
<1> QED
  BY <1>1, <1>4, <1>5, <1>6 DEF LinkTypes, IoSpiTx

LEMMA CardStepTypes ==
  ASSUME LinkTypes, CardStep
  PROVE  LinkTypes'
<1> DEFINE m == Head(toCard)
<1>1. toCard' \in Seq(CanMsgs) /\ m \in CanMsgs
  BY TailIs DEF LinkTypes, CardStep
<1>2. IInv'
  BY SameXfer DEF LinkTypes, CardStep
<1>3. ASSUME card' = IdleCard PROVE CardTypes'
  BY <1>3 DEF IdleCard, CardTypes
<1>4. ASSUME NEW r \in CardMsgs, fromCard' = Append(fromCard, r) PROVE fromCard' \in Seq(CardMsgs)
  BY <1>4, AppendIs DEF LinkTypes
<1>5. CASE m.type = "BEGIN"
  <2>1. m.photo \in Photos
    BY <1>1, <1>5 DEF CanMsgs, Messages
  <2>2. OnBegin(m)
    BY <1>5 DEF CardStep
  <2>3. CardTypes'
    <3>1. CASE card' = IdleCard
      BY <1>3, <3>1
    <3>2. ASSUME NEW chunk \in CardChunks,
                 card' = [open |-> TRUE, photo |-> m.photo, chunk |-> chunk,
                          armed |-> NoChunk, got |-> <<>>]
          PROVE  CardTypes'
      BY <2>1, <3>2 DEF CardTypes
    <3> QED
      BY <2>2, <3>1, <3>2 DEF OnBegin
  <2>4. \A c \in CardChunks : [type |-> "BEGIN_ACK", status |-> 0, chunk |-> c] \in CardMsgs
    BY LinkAssumption DEF CardMsgs
  <2>5. [type |-> "BEGIN_ACK", status |-> 1, chunk |-> 0] \in CardMsgs
    BY LinkAssumption DEF CardMsgs
  <2>6. fromCard' \in Seq(CardMsgs)
    BY <1>4, <2>2, <2>4, <2>5 DEF OnBegin, Reply
  <2> QED
    BY <1>1, <1>2, <2>3, <2>6 DEF LinkTypes, CardStep
<1>6. CASE m.type = "CHUNK_READY"
  <2>1. m.idx \in Index
    BY <1>1, <1>6 DEF CanMsgs, Messages
  <2>2. OnChunkReady(m)
    BY <1>6 DEF CardStep
  <2>3. CardTypes'
    BY <2>1, <2>2 DEF LinkTypes, OnChunkReady, CardTypes
  <2>4. \A s \in {0, 1} : [type |-> "CHUNK_ACK", status |-> s, idx |-> m.idx] \in CardMsgs
    BY <2>1 DEF CardMsgs
  <2>5. fromCard' \in Seq(CardMsgs)
    BY <1>4, <2>2, <2>4 DEF OnChunkReady, Reply
  <2> QED
    BY <1>1, <1>2, <2>3, <2>5 DEF LinkTypes, CardStep
<1>7. CASE m.type = "END"
  <2>1. OnEnd
    BY <1>7 DEF CardStep
  <2>2. \A s \in {0, 1} : [type |-> "RESULT", status |-> s, photo |-> card.photo] \in CardMsgs
    BY DEF LinkTypes, CardTypes, CardMsgs
  <2>3. fromCard' \in Seq(CardMsgs)
    BY <1>4, <2>1, <2>2 DEF OnEnd, Reply
  <2> QED
    BY <1>1, <1>2, <1>3, <2>1, <2>3 DEF LinkTypes, CardStep, OnEnd
<1>8. CASE m.type = "ABORT"
  BY <1>1, <1>2, <1>3, <1>8 DEF LinkTypes, CardStep
<1> QED
  BY <1>5, <1>6, <1>7, <1>8 DEF CardStep

LEMMA OthersTypes ==
  ASSUME LinkTypes, CardRequests \/ LoseFromCard \/ DsCompletes \/ WakeIo
  PROVE  LinkTypes' /\ UNCHANGED vars
<1>1. IInv' /\ CardTypes' /\ UNCHANGED vars
  BY SameXfer DEF LinkTypes, CardRequests, LoseFromCard, DsCompletes, WakeIo, CardTypes
<1>2. fromCard' \in Seq(CardMsgs)
  <2>1. [type |-> "IMG_REQUEST"] \in CardMsgs /\ fromCard \in Seq(CardMsgs)
    BY DEF CardMsgs, LinkTypes
  <2>2. Append(fromCard, [type |-> "IMG_REQUEST"]) \in Seq(CardMsgs)
    BY <2>1, AppendIs
  <2>3. fromCard # <<>> => Tail(fromCard) \in Seq(CardMsgs)
    BY <2>1, TailIs
  <2> QED
    BY <2>1, <2>2, <2>3 DEF CardRequests, Reply, LoseFromCard, DsCompletes, WakeIo
<1>3. commPipe' \in Seq(CommMsgs)
  <2>1. \A f \in Photos : <<[type |-> "DS_COMP", file |-> f]>> \in Seq(CommMsgs)
    BY DEF CommMsgs
  <2>2. commPipe \in Seq(CommMsgs)
    BY DEF LinkTypes
  <2>3. \A f \in Photos : Post(commPipe, <<[type |-> "DS_COMP", file |-> f]>>) \in Seq(CommMsgs)
    BY <2>1, <2>2, PostIs
  <2> QED
    BY <2>2, <2>3 DEF CardRequests, LoseFromCard, DsCompletes, WakeIo
<1>4. ioPipe' \in Seq(IoMsgs)
  <2>1. \A t \in {"SEND_HEARTBEAT", "SEND_HK"} : <<[type |-> t]>> \in Seq(IoMsgs)
    BY DEF IoMsgs
  <2>2. ioPipe \in Seq(IoMsgs)
    BY DEF LinkTypes
  <2>3. \A t \in {"SEND_HEARTBEAT", "SEND_HK"} : Post(ioPipe, <<[type |-> t]>>) \in Seq(IoMsgs)
    BY <2>1, <2>2, PostIs
  <2> QED
    BY <2>2, <2>3 DEF CardRequests, LoseFromCard, DsCompletes, WakeIo, PostIo
<1>5. toCard' \in Seq(CanMsgs)
  BY DEF LinkTypes, CardRequests, LoseFromCard, DsCompletes, WakeIo
<1> QED
  BY <1>1, <1>2, <1>3, <1>4, <1>5 DEF LinkTypes

LEMMA LinkTypesInit == LinkInit => LinkTypes
BY InitIInv DEF LinkInit, LinkTypes, CardTypes, IdleCard

LEMMA LinkTypesNext ==
  ASSUME LinkTypes, [LinkNext]_linkVars
  PROVE  [Next]_vars /\ LinkTypes'
<1>1. CASE CommStep \/ CommTick
  BY <1>1, CommStepTypes, CommTickTypes
<1>2. CASE IoSendCan \/ IoPoll \/ IoSpiTx \/ CardStep
  BY <1>2, IoSendCanTypes, IoPollTypes, IoSpiTxTypes, CardStepTypes
  DEF IoSendCan, IoPoll, IoSpiTx, CardStep
<1>3. CASE IoBeat
  BY <1>3, IoOtherTypes
  DEF IoBeat, CANIOMC_APP_SEND_HEARTBEAT, CANIOMC_APP_SEND_HK_TO_SB, IoOther
<1>4. CASE CardRequests \/ LoseFromCard \/ DsCompletes \/ WakeIo
  BY <1>4, OthersTypes
<1>5. CASE UNCHANGED linkVars
  <2>1. IInv' /\ UNCHANGED vars
    BY <1>5, SameXfer DEF LinkTypes, linkVars
  <2> QED
    BY <1>5, <2>1 DEF LinkTypes, CardTypes, linkVars
<1> QED
  BY <1>1, <1>2, <1>3, <1>4, <1>5 DEF LinkNext, Work, Rest

\* Closed by the pipes, CANIOMC, CAN, SPI and the card, COMMMC's state machine takes
\* no step ImgXfer does not allow, so all that is proved of ImgXfer holds here.
THEOREM LinkImplementsImgXfer == LinkSpec => Spec
<1>1. LinkInit => Init
  BY DEF LinkInit
<1> QED
  BY <1>1, LinkTypesInit, LinkTypesNext, PTL DEF LinkSpec, Spec

\* Over real pipes, buses and a card COMMMC delivers images: a transfer counted as
\* sent had every byte of one photo confirmed, in file order.
COROLLARY LinkDeliversImages == LinkSpec => DeliversImages
BY LinkImplementsImgXfer, ImgXferImplementsImageDelivery

-----------------------------------------------------------------------------
(***************************************************************************)
(* What a handler does, as its surroundings see it.                        *)
(***************************************************************************)

\* The message the transfer waits for.
Answers(m) ==
  \/ state = "WAIT_BEGIN_ACK" /\ m.type = "BEGIN_ACK"
  \/ state = "WAIT_CHUNK_ACK" /\ m.type = "CHUNK_ACK"
  \/ state = "WAIT_SPI_DONE"  /\ m.type = "SPI_DONE"
  \/ state = "WAIT_RESULT"    /\ m.type = "RESULT"

\* The transfer neither starts nor goes on.
Stays == state' = state /\ sent' = <<>> /\ UNCHANGED <<xferFile, chunkSize, handed, okCount>>

Ends(m) ==
  /\ state = "IDLE" \/ Answers(m)
  /\ state' = "IDLE"
  /\ sent' = <<>> \/ sent' = <<AbortMsg>>
  /\ okCount' # okCount => m.type = "RESULT" /\ m.status = 0

Starts ==
  /\ state = "IDLE" /\ state' = "WAIT_BEGIN_ACK"
  /\ handed' = <<>>
  /\ xferFile' \in Photos
  /\ sent' = <<BeginMsg(xferFile', PhotoSize[xferFile'], MaxChunk)>>
  /\ UNCHANGED okCount

Accepted(m) ==
  /\ state = "WAIT_BEGIN_ACK" /\ state' = "WAIT_CHUNK_ACK"
  /\ m.status = 0
  /\ m.chunk \in 1 .. MaxChunk => chunkSize' = m.chunk
  /\ sent' = <<ChunkReadyMsg(0)>>
  /\ UNCHANGED <<xferFile, handed, okCount>>

Hands(m) ==
  /\ state = "WAIT_CHUNK_ACK" /\ state' = "WAIT_SPI_DONE"
  /\ m.status = 0
  /\ LET piece == Piece(curChunk, totalSize, chunkSize) IN
     /\ sent' = <<[type |-> "SPI_TX", idx |-> m.idx, photo |-> xferFile, piece |-> piece]>>
     /\ handed' = Append(handed, piece)
  /\ UNCHANGED <<xferFile, chunkSize, okCount>>

GoesOn(m) ==
  /\ state = "WAIT_SPI_DONE"
  /\ m.status = 0
  /\ \/ state' = "WAIT_CHUNK_ACK" /\ sent' = <<ChunkReadyMsg(curChunk + 1)>>
     \/ state' = "WAIT_RESULT" /\ sent' = <<EndMsg>>
  /\ UNCHANGED <<xferFile, chunkSize, handed, okCount>>

Handled(m) ==
  \/ ~ Answers(m) /\ Stays
  \/ Ends(m)
  \/ m.type = "IMG_REQUEST" /\ Starts
  \/ m.type = "BEGIN_ACK" /\ Accepted(m)
  \/ m.type = "CHUNK_ACK" /\ Hands(m)
  \/ m.type = "SPI_DONE" /\ GoesOn(m)

LEMMA AbortEnds ==
  ASSUME Abort
  PROVE  state' = "IDLE" /\ (sent' = <<>> \/ sent' = <<AbortMsg>>) /\ UNCHANGED okCount
BY DEF Abort, Close, CountErr, Quiet, Send

LEMMA IgnoreStays ==
  ASSUME Ignore
  PROVE  Stays
BY DEF Ignore, Quiet, params, counters, Stays

LEMMA HandlerDoes ==
  ASSUME IInv, NEW m \in CommMsgs, Handle(m)
  PROVE  Handled(m)
<1>1. CASE m.type = "DS_COMP"
  <2>1. ~ Answers(m)
    BY <1>1 DEF Answers
  <2>2. Stays
    BY <1>1 DEF Handle, OnDsFileComplete, Stays, Quiet, params, counters
  <2> QED
    BY <2>1, <2>2 DEF Handled
<1>2. CASE m.type = "IMG_REQUEST"
  <2>1. ~ Answers(m)
    BY <1>2 DEF Answers
  <2>2. CASE Ignore
    BY <2>1, <2>2, IgnoreStays DEF Handled
  <2>3. CASE StartTransfer /\ Abort
    BY <2>3, AbortEnds DEF StartTransfer, Handled, Ends
  <2>4. CASE StartTransfer /\ ~ Abort
    <3>1. xferFile' = lastPhoto /\ lastPhoto \in Photos
      BY <2>4 DEF StartTransfer, IInv, TypeOK
    <3>2. Starts
      BY <2>4, <3>1 DEF StartTransfer, Starts, Send, counters
    <3> QED
      BY <1>2, <3>2 DEF Handled
  <2> QED
    BY <1>2, <2>2, <2>3, <2>4 DEF Handle, OnRequest
<1>3. CASE m.type = "BEGIN_ACK"
  <2>1. OnBeginAck(FALSE, m.status, m.chunk)
    BY <1>3 DEF Handle
  <2>2. CASE state # "WAIT_BEGIN_ACK"
    BY <1>3, <2>1, <2>2, IgnoreStays DEF OnBeginAck, Answers, Handled
  <2>3. CASE state = "WAIT_BEGIN_ACK" /\ Abort
    BY <1>3, <2>3, AbortEnds DEF Handled, Ends, Answers
  <2>4. CASE state = "WAIT_BEGIN_ACK" /\ ~ Abort
    <3>1. Accepted(m)
      BY <2>1, <2>4 DEF OnBeginAck, AdoptChunk, Accepted, Send, counters
    <3> QED
      BY <1>3, <3>1 DEF Handled
  <2> QED
    BY <2>2, <2>3, <2>4
<1>4. CASE m.type = "CHUNK_ACK"
  <2>1. OnChunkAck(FALSE, m.status, m.idx)
    BY <1>4 DEF Handle
  <2>2. CASE state # "WAIT_CHUNK_ACK"
    BY <1>4, <2>1, <2>2, IgnoreStays DEF OnChunkAck, Answers, Handled
  <2>3. CASE state = "WAIT_CHUNK_ACK" /\ Abort
    BY <1>4, <2>3, AbortEnds DEF Handled, Ends, Answers
  <2>4. CASE state = "WAIT_CHUNK_ACK" /\ ~ Abort
    <3>1. Hands(m)
      BY <2>1, <2>4 DEF OnChunkAck, SendSpiChunk, SpiTxMsg, Hands, Send, counters, params
    <3> QED
      BY <1>4, <3>1 DEF Handled
  <2> QED
    BY <2>2, <2>3, <2>4
<1>5. CASE m.type = "SPI_DONE"
  <2>1. OnSpiDone(m.status, m.idx)
    BY <1>5 DEF Handle
  <2>2. CASE state # "WAIT_SPI_DONE"
    BY <1>5, <2>1, <2>2, IgnoreStays DEF OnSpiDone, Answers, Handled
  <2>3. CASE state = "WAIT_SPI_DONE" /\ Abort
    BY <1>5, <2>3, AbortEnds DEF Handled, Ends, Answers
  <2>4. CASE state = "WAIT_SPI_DONE" /\ ~ Abort
    <3>1. GoesOn(m)
      BY <2>1, <2>4 DEF OnSpiDone, GoesOn, Send, counters, params
    <3> QED
      BY <1>5, <3>1 DEF Handled
  <2> QED
    BY <2>2, <2>3, <2>4
<1>6. CASE m.type = "RESULT"
  <2>1. OnResult(m.status)
    BY <1>6 DEF Handle
  <2>2. CASE state # "WAIT_RESULT"
    BY <1>6, <2>1, <2>2, IgnoreStays DEF OnResult, Answers, Handled
  <2>3. CASE state = "WAIT_RESULT"
    <3>1. Ends(m)
      BY <1>6, <2>1, <2>3 DEF OnResult, Close, Quiet, CountErr, Ends, Answers
    <3> QED
      BY <3>1 DEF Handled
  <2> QED
    BY <2>2, <2>3
<1> QED
  BY <1>1, <1>2, <1>3, <1>4, <1>5, <1>6 DEF Handle

\* The idle tick only counts, or gives up.
LEMMA TickDoes ==
  ASSUME state # "IDLE", OnTick
  PROVE  /\ UNCHANGED <<handed, okCount>>
         /\ \/ Stays
            \/ state' = "IDLE" /\ (sent' = <<>> \/ sent' = <<AbortMsg>>)
<1>1. CASE Abort
  BY <1>1, AbortEnds DEF OnTick
<1>2. CASE ~ Abort
  BY <1>2 DEF OnTick, Quiet, params, counters, Stays
<1> QED
  BY <1>1, <1>2

-----------------------------------------------------------------------------
(***************************************************************************)
(* The messages of a type in a queue.                                      *)
(***************************************************************************)
Of(q, t)  == {q[i] : i \in {j \in DOMAIN q : q[j].type = t}}
One(q, t) == \A i, j \in DOMAIN q : q[i].type = t /\ q[j].type = t => i = j

LEMMA TailOf ==
  ASSUME NEW S, NEW q \in Seq(S), q # <<>>, NEW t
  PROVE  /\ Of(Tail(q), t) \subseteq Of(q, t)
         /\ One(q, t) => One(Tail(q), t)
         /\ Head(q).type = t => Head(q) \in Of(q, t)
         /\ One(q, t) /\ Head(q).type = t => Of(Tail(q), t) = {}
<1>1. /\ Head(q) = q[1] /\ 1 \in DOMAIN q
      /\ \A i \in DOMAIN Tail(q) : i + 1 \in DOMAIN q /\ Tail(q)[i] = q[i + 1]
      /\ DOMAIN Tail(q) \subseteq Nat \ {0}
  BY TailIs
<1> DEFINE r == Tail(q)
<1> HIDE DEF r
<1>2. Of(r, t) \subseteq Of(q, t)
  BY <1>1 DEF Of, r
<1>3. One(q, t) => One(r, t)
  <2> SUFFICES ASSUME One(q, t), NEW i \in DOMAIN r, NEW j \in DOMAIN r,
                      r[i].type = t, r[j].type = t
               PROVE  i = j
    BY DEF One
  <2>1. i + 1 = j + 1
    BY <1>1 DEF One, r
  <2> QED
    BY <1>1, <2>1 DEF r
<1>4. Head(q).type = t => Head(q) \in Of(q, t)
  BY <1>1 DEF Of
<1>5. ASSUME One(q, t), Head(q).type = t, NEW i \in DOMAIN r, r[i].type = t PROVE FALSE
  <2>1. i + 1 = 1
    BY <1>1, <1>5 DEF One, r
  <2> QED
    BY <1>1, <1>5, <2>1 DEF r
<1> QED
  BY <1>2, <1>3, <1>4, <1>5 DEF Of, r

LEMMA PostOf ==
  ASSUME NEW S, NEW p \in Seq(S), NEW m \in Seq(S), NEW t
  PROVE  /\ Of(Post(p, m), t) \subseteq Of(p, t) \cup Of(m, t)
         /\ One(p, t) /\ Of(m, t) = {} => One(Post(p, m), t)
         /\ Of(p, t) = {} /\ Len(m) <= 1 => One(Post(p, m), t)
<1> DEFINE q == Post(p, m)
<1>1. /\ q \in Seq(S) /\ Len(q) <= Len(p) + Len(m)
      /\ \A i \in 1 .. Len(q) : q[i] = IF i <= Len(p) THEN p[i] ELSE m[i - Len(p)]
  BY PostIs
<1> HIDE DEF q
<1>2. /\ DOMAIN q = 1 .. Len(q) /\ DOMAIN p = 1 .. Len(p) /\ DOMAIN m = 1 .. Len(m)
      /\ Len(q) \in Nat /\ Len(p) \in Nat /\ Len(m) \in Nat
  BY <1>1
<1>3. \A i \in DOMAIN q : \/ i \in DOMAIN p /\ q[i] = p[i]
                          \/ i - Len(p) \in DOMAIN m /\ q[i] = m[i - Len(p)]
  BY <1>1, <1>2
<1>4. Of(q, t) \subseteq Of(p, t) \cup Of(m, t)
  BY <1>3 DEF Of
<1>5. ASSUME One(p, t), Of(m, t) = {}, NEW i \in DOMAIN q, NEW j \in DOMAIN q,
             q[i].type = t, q[j].type = t
      PROVE  i = j
  BY <1>3, <1>5 DEF Of, One
<1>6. ASSUME Of(p, t) = {}, Len(m) <= 1, NEW i \in DOMAIN q, NEW j \in DOMAIN q,
             q[i].type = t, q[j].type = t
      PROVE  i = j
  <2>1. i - Len(p) \in DOMAIN m /\ j - Len(p) \in DOMAIN m
    BY <1>3, <1>6 DEF Of
  <2> QED
    BY <1>2, <1>6, <2>1
<1> QED
  BY <1>4, <1>5, <1>6 DEF One, q

LEMMA FewOf ==
  ASSUME NEW t
  PROVE  /\ Of(<<>>, t) = {} /\ Len(<<>>) = 0
         /\ \A x : /\ Of(<<x>>, t) \subseteq {x} /\ Len(<<x>>) = 1
                   /\ x.type # t => Of(<<x>>, t) = {}
BY DEF Of

\* What the handler sent reaches CANIOMC's pipe once, or not at all.
LEMMA PostSentOf ==
  ASSUME ioPipe \in Seq(IoMsgs), sent' \in Seq(Messages), PostSent, NEW t
  PROVE  /\ Of(ioPipe', t) \subseteq Of(ioPipe, t) \cup Of(sent', t)
         /\ One(ioPipe, t) /\ Of(sent', t) = {} => One(ioPipe', t)
         /\ Of(ioPipe, t) = {} /\ Len(sent') <= 1 => One(ioPipe', t)
<1>1. sent' \in Seq(IoMsgs)
  BY DEF IoMsgs
<1>2. CASE ioPipe' = ioPipe
  <2>1. Of(ioPipe, t) = {} => One(ioPipe, t)
    BY DEF Of, One
  <2> QED
    BY <1>2, <2>1
<1>3. CASE ioPipe' = Post(ioPipe, sent')
  BY <1>1, <1>3, PostOf
<1> QED
  BY <1>2, <1>3 DEF PostSent, PostIo

-----------------------------------------------------------------------------
(***************************************************************************)
(* Chunks advance with the bytes on the wire.  At most one order to write  *)
(* and at most one notice of a write are under way, never both, and only   *)
(* while COMMMC waits for the notice: so the notice it takes is this       *)
(* chunk's.                                                                *)
(***************************************************************************)
WireIs ==
  /\ state = "WAIT_BEGIN_ACK" => wire = <<>>
  /\ state \in {"WAIT_CHUNK_ACK", "WAIT_RESULT"} => wire = handed
  /\ state = "WAIT_SPI_DONE" => wire = handed \/ wire = Front(handed)

OneSpi ==
  /\ One(ioPipe, "SPI_TX") /\ One(commPipe, "SPI_DONE")
  /\ Of(ioPipe, "SPI_TX") = {} \/ Of(commPipe, "SPI_DONE") = {}
  /\ \A m \in Of(ioPipe, "SPI_TX") :
       state = "WAIT_SPI_DONE" /\ handed = Append(wire, m.piece)
  /\ \A m \in Of(commPipe, "SPI_DONE") :
       state = "WAIT_SPI_DONE" /\ (m.status = 0 => wire = handed)

WireInv == LinkTypes /\ WireIs /\ OneSpi

\* Steps that leave the transfer alone and put no SPI message into a pipe.
LEMMA WireKept ==
  ASSUME WireIs, OneSpi, UNCHANGED <<state, handed, wire>>,
         One(ioPipe', "SPI_TX"), Of(ioPipe', "SPI_TX") \subseteq Of(ioPipe, "SPI_TX"),
         One(commPipe', "SPI_DONE"), Of(commPipe', "SPI_DONE") \subseteq Of(commPipe, "SPI_DONE")
  PROVE  WireIs' /\ OneSpi'
<1>1. WireIs'
  BY DEF WireIs
<1>2. OneSpi'
  BY DEF OneSpi
<1> QED
  BY <1>1, <1>2

\* Nothing about SPI is under way.
LEMMA WireClear ==
  ASSUME Of(ioPipe', "SPI_TX") = {}, Of(commPipe', "SPI_DONE") = {}
  PROVE  OneSpi'
BY DEF OneSpi, Of, One

LEMMA CommStepWire ==
  ASSUME WireInv, CommStep
  PROVE  WireIs' /\ OneSpi'
<1> DEFINE m == Head(commPipe)
<1>1. LinkTypes' /\ sent' \in Seq(Messages) /\ handed' \in Seq(Pieces)
  BY CommStepTypes DEF WireInv, LinkTypes, IInv, TypeOK
<1>2. /\ commPipe \in Seq(CommMsgs) /\ commPipe # <<>> /\ ioPipe \in Seq(IoMsgs) /\ IInv
      /\ commPipe' = Tail(commPipe) /\ PostSent
  BY DEF WireInv, LinkTypes, CommStep
<1>3. m \in CommMsgs /\ Handled(m)
  BY <1>2, TailIs, HandlerDoes DEF CommStep
<1>4. /\ One(commPipe, "SPI_DONE") => One(commPipe', "SPI_DONE")
      /\ Of(commPipe', "SPI_DONE") \subseteq Of(commPipe, "SPI_DONE")
      /\ m.type = "SPI_DONE" => m \in Of(commPipe, "SPI_DONE")
      /\ m.type = "SPI_DONE" /\ One(commPipe, "SPI_DONE") => Of(commPipe', "SPI_DONE") = {}
  BY <1>2, TailOf
<1>5. /\ Of(ioPipe', "SPI_TX") \subseteq Of(ioPipe, "SPI_TX") \cup Of(sent', "SPI_TX")
      /\ One(ioPipe, "SPI_TX") /\ Of(sent', "SPI_TX") = {} => One(ioPipe', "SPI_TX")
      /\ Of(ioPipe, "SPI_TX") = {} /\ Len(sent') <= 1 => One(ioPipe', "SPI_TX")
  BY <1>1, <1>2, PostSentOf
<1>6. state # "WAIT_SPI_DONE" => Of(ioPipe, "SPI_TX") = {} /\ Of(commPipe, "SPI_DONE") = {}
  BY DEF WireInv, OneSpi
<1>7. wire' = IF state = "IDLE" THEN <<>> ELSE wire
  BY DEF CommStep, ResetWire
<1>8. m.type = "SPI_DONE" => Of(ioPipe, "SPI_TX") = {} /\ Of(commPipe', "SPI_DONE") = {}
  BY <1>4 DEF WireInv, OneSpi
<1> HIDE DEF m
<1>10. CASE ~ Answers(m) /\ Stays
  <2>1. Of(sent', "SPI_TX") = {}
    BY <1>10, FewOf DEF Stays
  <2>2. CASE state = "IDLE"
    <3>1. OneSpi'
      BY <1>4, <1>5, <1>6, <2>1, <2>2, WireClear
    <3> QED
      BY <1>10, <2>2, <3>1 DEF Stays, WireIs
  <2>3. CASE state # "IDLE"
    BY <1>4, <1>5, <1>7, <1>10, <2>1, <2>3, WireKept DEF Stays, WireInv, OneSpi
  <2> QED
    BY <2>2, <2>3
<1>11. CASE Ends(m)
  <2>1. Of(sent', "SPI_TX") = {}
    BY <1>11, FewOf DEF Ends, AbortMsg
  <2>2. Of(ioPipe, "SPI_TX") = {} /\ Of(commPipe', "SPI_DONE") = {}
    BY <1>4, <1>6, <1>8, <1>11 DEF Ends, Answers
  <2>3. OneSpi'
    BY <1>5, <2>1, <2>2, WireClear
  <2> QED
    BY <1>11, <2>3 DEF Ends, WireIs
<1>12. CASE Starts
  <2>1. Of(sent', "SPI_TX") = {}
    BY <1>12, FewOf DEF Starts, BeginMsg
  <2>2. OneSpi'
    BY <1>4, <1>5, <1>6, <1>12, <2>1, WireClear DEF Starts
  <2> QED
    BY <1>7, <1>12, <2>2 DEF Starts, WireIs
<1>13. CASE Accepted(m)
  <2>1. Of(sent', "SPI_TX") = {}
    <3>1. \E x : sent' = <<x>> /\ x.type = "CHUNK_READY"
      BY <1>13 DEF Accepted, ChunkReadyMsg
    <3> QED
      BY <3>1, FewOf
  <2>2. OneSpi'
    BY <1>4, <1>5, <1>6, <1>13, <2>1, WireClear DEF Accepted
  <2>3. handed = <<>> /\ wire = <<>>
    BY <1>2, <1>13 DEF Accepted, IInv, Position, TypeOK, WireInv, WireIs
  <2> QED
    BY <1>7, <1>13, <2>2, <2>3 DEF Accepted, WireIs
<1>14. CASE Hands(m)
  <2> DEFINE piece == Piece(curChunk, totalSize, chunkSize)
  <2>1. wire' = wire /\ wire = handed /\ handed' = Append(wire, piece) /\ wire \in Seq(Pieces)
    BY <1>2, <1>7, <1>14 DEF Hands, WireInv, WireIs, IInv, TypeOK
  <2>2. Front(Append(wire, piece)) = wire
    <3>1. /\ Append(wire, piece) \in Seq(Pieces \cup {piece}) /\ wire \in Seq(Pieces \cup {piece})
          /\ Len(Append(wire, piece)) = Len(wire) + 1
          /\ \A i \in 1 .. Len(wire) : Append(wire, piece)[i] = wire[i]
      BY <2>1
    <3> HIDE DEF piece
    <3>2. SubSeq(Append(wire, piece), 1, Len(wire)) = wire
      BY <3>1
    <3> QED
      BY <2>1, <3>1, <3>2 DEF Front
  <2>3. WireIs'
    BY <1>14, <2>1, <2>2 DEF Hands, WireIs
  <2>4. Of(ioPipe, "SPI_TX") = {} /\ Of(commPipe', "SPI_DONE") = {} /\ One(commPipe', "SPI_DONE")
    BY <1>4, <1>6, <1>14 DEF Hands, WireInv, OneSpi
  <2>5. PICK x : sent' = <<x>> /\ x.piece = piece
    BY <1>14 DEF Hands
  <2>6. Of(sent', "SPI_TX") \subseteq {x} /\ Len(sent') = 1
    BY <2>5, FewOf
  <2>7. \A n \in Of(ioPipe', "SPI_TX") : n.piece = piece
    BY <1>5, <2>4, <2>5, <2>6
  <2>8. One(ioPipe', "SPI_TX")
    BY <1>5, <2>4, <2>6
  <2> HIDE DEF piece
  <2>9. OneSpi'
    BY <1>14, <2>1, <2>4, <2>7, <2>8 DEF Hands, OneSpi
  <2> QED
    BY <2>3, <2>9
<1>15. CASE m.type = "SPI_DONE" /\ GoesOn(m)
  <2>1. Of(sent', "SPI_TX") = {}
    <3>1. \E x : sent' = <<x>> /\ x.type \in {"CHUNK_READY", "END"}
      BY <1>15 DEF GoesOn, ChunkReadyMsg, EndMsg
    <3> QED
      BY <3>1, FewOf
  <2>2. OneSpi'
    BY <1>5, <1>8, <1>15, <2>1, WireClear
  <2>3. wire = handed
    BY <1>4, <1>15 DEF GoesOn, WireInv, OneSpi
  <2> QED
    BY <1>7, <1>15, <2>2, <2>3 DEF GoesOn, WireIs
<1> QED
  BY <1>3, <1>10, <1>11, <1>12, <1>13, <1>14, <1>15 DEF Handled

LEMMA CommTickWire ==
  ASSUME WireInv, CommTick
  PROVE  WireIs' /\ OneSpi'
<1>1. LinkTypes' /\ sent' \in Seq(Messages)
  BY CommTickTypes DEF WireInv, LinkTypes, IInv, TypeOK
<1>2. state # "IDLE" /\ OnTick /\ PostSent /\ UNCHANGED <<commPipe, wire>> /\ ioPipe \in Seq(IoMsgs)
  BY DEF CommTick, WireInv, LinkTypes
<1>3. Of(ioPipe, "SPI_TX") = {} /\ Of(commPipe', "SPI_DONE") = {}
  BY FewOf DEF CommTick
<1>4. /\ UNCHANGED handed
      /\ \/ state' = state /\ sent' = <<>>
         \/ state' = "IDLE" /\ (sent' = <<>> \/ sent' = <<AbortMsg>>)
  BY <1>2, TickDoes DEF Stays
<1>5. Of(sent', "SPI_TX") = {}
  BY <1>4, FewOf DEF AbortMsg
<1>6. Of(ioPipe', "SPI_TX") = {}
  BY <1>1, <1>2, <1>3, <1>5, PostSentOf
<1>7. OneSpi'
  BY <1>3, <1>6, WireClear
<1>8. WireIs'
  BY <1>2, <1>4 DEF WireInv, WireIs
<1> QED
  BY <1>7, <1>8

LEMMA PollWire ==
  ASSUME WireInv, PollAndPublish
  PROVE  One(commPipe', "SPI_DONE") /\ Of(commPipe', "SPI_DONE") \subseteq Of(commPipe, "SPI_DONE")
<1>1. commPipe \in Seq(CommMsgs) /\ fromCard \in Seq(CardMsgs)
  BY DEF WireInv, LinkTypes
<1>2. fromCard \in Seq(CommMsgs)
  BY <1>1 DEF CommMsgs
<1>3. Of(fromCard, "SPI_DONE") = {}
  BY <1>1 DEF Of, CardMsgs
<1> QED
  BY <1>1, <1>2, <1>3, PostOf DEF PollAndPublish, WireInv, OneSpi

LEMMA IoWire ==
  ASSUME WireInv, IoSendCan \/ IoBeat \/ IoPoll
  PROVE  WireIs' /\ OneSpi'
<1>1. ioPipe \in Seq(IoMsgs) /\ UNCHANGED <<state, handed, wire>>
  BY DEF WireInv, LinkTypes, IoSendCan, IoBeat, CANIOMC_APP_SEND_HEARTBEAT,
         CANIOMC_APP_SEND_HK_TO_SB, IoOther, IoPoll, vars, hist
<1>2. One(ioPipe', "SPI_TX") /\ Of(ioPipe', "SPI_TX") \subseteq Of(ioPipe, "SPI_TX")
  <2>1. One(ioPipe, "SPI_TX")
    BY DEF WireInv, OneSpi
  <2>2. ioPipe' = ioPipe \/ (ioPipe # <<>> /\ ioPipe' = Tail(ioPipe))
    BY DEF IoSendCan, IoBeat, CANIOMC_APP_SEND_HEARTBEAT, CANIOMC_APP_SEND_HK_TO_SB,
           IoOther, IoPoll
  <2>3. ioPipe # <<>> => /\ Of(Tail(ioPipe), "SPI_TX") \subseteq Of(ioPipe, "SPI_TX")
                         /\ One(Tail(ioPipe), "SPI_TX")
    BY <1>1, <2>1, TailOf
  <2> QED
    BY <2>1, <2>2, <2>3
<1>3. One(commPipe', "SPI_DONE") /\ Of(commPipe', "SPI_DONE") \subseteq Of(commPipe, "SPI_DONE")
  BY PollWire DEF WireInv, OneSpi, IoSendCan, IoBeat, CANIOMC_APP_SEND_HEARTBEAT,
         CANIOMC_APP_SEND_HK_TO_SB, IoOther, IoPoll
<1> QED
  BY <1>1, <1>2, <1>3, WireKept DEF WireInv

LEMMA IoSpiTxWire ==
  ASSUME WireInv, IoSpiTx
  PROVE  WireIs' /\ OneSpi'
<1> DEFINE m == Head(ioPipe)
<1>1. ioPipe \in Seq(IoMsgs) /\ ioPipe # <<>> /\ m.type = "SPI_TX" /\ ioPipe' = Tail(ioPipe)
      /\ commPipe \in Seq(CommMsgs) /\ UNCHANGED <<state, handed>>
  BY DEF WireInv, LinkTypes, IoSpiTx, vars
<1>2. m \in Of(ioPipe, "SPI_TX") /\ Of(ioPipe', "SPI_TX") = {}
  BY <1>1, TailOf DEF WireInv, OneSpi
<1>3. state = "WAIT_SPI_DONE" /\ handed = Append(wire, m.piece) /\ Of(commPipe, "SPI_DONE") = {}
  BY <1>2 DEF WireInv, OneSpi
<1>4. m \in IoMsgs /\ m.idx \in Index
  BY <1>1, TailIs DEF IoMsgs, Messages
<1>5. \A s \in {0, 1} : SpiDoneMsg(m.idx, s) \in CommMsgs
  BY <1>4 DEF SpiDoneMsg, CommMsgs
<1>6. One(ioPipe', "SPI_TX")
  BY <1>2 DEF Of, One
<1> HIDE DEF m
<1>7. ASSUME NEW s \in {0, 1}, commPipe' = Post(commPipe, <<SpiDoneMsg(m.idx, s)>>)
      PROVE  /\ One(commPipe', "SPI_DONE")
             /\ \A n \in Of(commPipe', "SPI_DONE") : n.status = s
  <2> DEFINE x == SpiDoneMsg(m.idx, s)
  <2>1. x \in CommMsgs /\ x.status = s
    BY <1>5 DEF SpiDoneMsg
  <2> HIDE DEF x
  <2>2. <<x>> \in Seq(CommMsgs) /\ Of(<<x>>, "SPI_DONE") \subseteq {x} /\ Len(<<x>>) = 1
    <3>1. <<x>> \in Seq(CommMsgs) /\ Len(<<x>>) = 1
      BY <2>1
    <3> QED
      BY <3>1, FewOf
  <2>3. /\ Of(Post(commPipe, <<x>>), "SPI_DONE") \subseteq Of(commPipe, "SPI_DONE") \cup Of(<<x>>, "SPI_DONE")
        /\ Of(commPipe, "SPI_DONE") = {} /\ Len(<<x>>) <= 1 => One(Post(commPipe, <<x>>), "SPI_DONE")
    BY <1>1, <2>2, PostOf
  <2> QED
    BY <1>3, <1>7, <2>1, <2>2, <2>3 DEF x
<1>8. CASE SpiWrite(m, TRUE)
  <2>1. wire' = handed
    BY <1>3, <1>8 DEF SpiWrite
  <2>2. \/ commPipe' = commPipe
        \/ commPipe' = Post(commPipe, <<SpiDoneMsg(m.idx, 0)>>)
        \/ commPipe' = Post(commPipe, <<SpiDoneMsg(m.idx, 1)>>)
    BY DEF IoSpiTx, m
  <2>3. One(commPipe', "SPI_DONE")
    BY <1>7, <2>2 DEF WireInv, OneSpi
  <2> QED
    BY <1>1, <1>2, <1>3, <1>6, <2>1, <2>3 DEF WireIs, OneSpi
<1>9. CASE ~ SpiWrite(m, TRUE)
  <2>1. wire' = wire /\ commPipe' = Post(commPipe, <<SpiDoneMsg(m.idx, 1)>>)
    BY <1>9 DEF IoSpiTx, SpiWrite, m
  <2>2. One(commPipe', "SPI_DONE") /\ \A n \in Of(commPipe', "SPI_DONE") : n.status = 1
    BY <1>7, <2>1
  <2>3. WireIs'
    BY <1>1, <2>1 DEF WireInv, WireIs
  <2> QED
    BY <1>1, <1>2, <1>3, <1>6, <2>2, <2>3 DEF OneSpi
<1> QED
  BY <1>8, <1>9

LEMMA OthersWire ==
  ASSUME WireInv, CardStep \/ CardRequests \/ LoseFromCard \/ DsCompletes \/ WakeIo
  PROVE  WireIs' /\ OneSpi'
<1>1. UNCHANGED <<state, handed, wire>> /\ ioPipe \in Seq(IoMsgs) /\ commPipe \in Seq(CommMsgs)
  BY DEF WireInv, LinkTypes, CardStep, CardRequests, LoseFromCard, DsCompletes, WakeIo, vars, hist
<1>2. One(ioPipe', "SPI_TX") /\ Of(ioPipe', "SPI_TX") \subseteq Of(ioPipe, "SPI_TX")
  <2>1. CASE ioPipe' = ioPipe
    BY <2>1 DEF WireInv, OneSpi
  <2>2. ASSUME NEW t \in {"SEND_HEARTBEAT", "SEND_HK"}, ioPipe' = Post(ioPipe, <<[type |-> t]>>)
        PROVE  One(ioPipe', "SPI_TX") /\ Of(ioPipe', "SPI_TX") \subseteq Of(ioPipe, "SPI_TX")
    <3>1. <<[type |-> t]>> \in Seq(IoMsgs) /\ Of(<<[type |-> t]>>, "SPI_TX") = {}
      BY FewOf DEF IoMsgs
    <3> QED
      BY <1>1, <2>2, <3>1, PostOf DEF WireInv, OneSpi
  <2> QED
    BY <2>1, <2>2 DEF CardStep, CardRequests, LoseFromCard, DsCompletes, WakeIo, PostIo
<1>3. One(commPipe', "SPI_DONE") /\ Of(commPipe', "SPI_DONE") \subseteq Of(commPipe, "SPI_DONE")
  <2>1. CASE commPipe' = commPipe
    BY <2>1 DEF WireInv, OneSpi
  <2>2. ASSUME NEW f \in Photos, commPipe' = Post(commPipe, <<[type |-> "DS_COMP", file |-> f]>>)
        PROVE  One(commPipe', "SPI_DONE") /\ Of(commPipe', "SPI_DONE") \subseteq Of(commPipe, "SPI_DONE")
    <3>1. <<[type |-> "DS_COMP", file |-> f]>> \in Seq(CommMsgs)
          /\ Of(<<[type |-> "DS_COMP", file |-> f]>>, "SPI_DONE") = {}
      <4> DEFINE x == [type |-> "DS_COMP", file |-> f]
      <4>1. x \in CommMsgs /\ x.type # "SPI_DONE"
        BY DEF CommMsgs
      <4> HIDE DEF x
      <4>2. <<x>> \in Seq(CommMsgs)
        BY <4>1
      <4>3. Of(<<x>>, "SPI_DONE") = {}
        BY <4>1, FewOf
      <4> QED
        BY <4>2, <4>3 DEF x
    <3>2. One(commPipe, "SPI_DONE")
      BY DEF WireInv, OneSpi
    <3> DEFINE s == <<[type |-> "DS_COMP", file |-> f]>>
    <3> HIDE DEF s
    <3>3. s \in Seq(CommMsgs) /\ Of(s, "SPI_DONE") = {}
      BY <3>1 DEF s
    <3>4. /\ Of(Post(commPipe, s), "SPI_DONE") \subseteq Of(commPipe, "SPI_DONE") \cup Of(s, "SPI_DONE")
          /\ One(Post(commPipe, s), "SPI_DONE")
      BY <1>1, <3>2, <3>3, PostOf
    <3> QED
      BY <2>2, <3>3, <3>4 DEF s
  <2> QED
    BY <2>1, <2>2 DEF CardStep, CardRequests, LoseFromCard, DsCompletes, WakeIo
<1> QED
  BY <1>1, <1>2, <1>3, WireKept DEF WireInv

LEMMA WireInvInit == LinkInit => WireInv
<1> SUFFICES ASSUME LinkInit PROVE WireInv
  OBVIOUS
<1>1. Of(ioPipe, "SPI_TX") = {} /\ Of(commPipe, "SPI_DONE") = {}
      /\ One(ioPipe, "SPI_TX") /\ One(commPipe, "SPI_DONE")
  BY DEF LinkInit, Of, One
<1> QED
  BY <1>1, LinkTypesInit DEF LinkInit, Init, WireInv, WireIs, OneSpi

LEMMA WireInvNext ==
  ASSUME WireInv, [LinkNext]_linkVars
  PROVE  WireInv'
<1>1. LinkTypes'
  BY LinkTypesNext DEF WireInv
<1>2. CASE UNCHANGED linkVars
  <2>1. UNCHANGED <<state, handed, wire, ioPipe, commPipe>>
    BY <1>2 DEF linkVars, vars, hist
  <2>2. WireIs' /\ OneSpi'
    BY <2>1, WireKept DEF WireInv, OneSpi
  <2> QED
    BY <1>1, <2>2 DEF WireInv
<1>3. CASE Work
  BY <1>1, <1>3, CommStepWire, CommTickWire, IoWire, IoSpiTxWire, OthersWire DEF Work, WireInv
<1>4. CASE CardRequests \/ LoseFromCard \/ DsCompletes \/ WakeIo
  BY <1>1, <1>4, OthersWire DEF WireInv
<1> QED
  BY <1>2, <1>3, <1>4 DEF LinkNext, Rest

LEMMA WireInvariance == LinkSpec => []WireInv
BY WireInvInit, WireInvNext, PTL DEF LinkSpec

\* Whatever is lost, dropped, late or refused: whenever COMMMC has asked for the next
\* chunk or for the result, the chunks clocked out on SPI are those it handed over.
THEOREM NeverAheadOfTheWire == LinkSpec => []OnWireBeforeAdvance
<1>1. WireInv => OnWireBeforeAdvance
  BY DEF WireInv, WireIs, OnWireBeforeAdvance
<1> QED
  BY <1>1, WireInvariance, PTL

-----------------------------------------------------------------------------
(***************************************************************************)
(* The marks of a queue: its messages that belong to the handshake.  A     *)
(* queue within another has no mark the other has not, in the same order.  *)
(***************************************************************************)
Marked(m) == m.type \in {"BEGIN", "CHUNK_READY", "SPI_TX", "END", "ABORT",
                         "BEGIN_ACK", "CHUNK_ACK", "SPI_DONE", "RESULT"}
Places(q) == {i \in DOMAIN q : Marked(q[i])}
Marks(q)  == {q[i] : i \in Places(q)}

\* At most one mark besides ABORTs, and ABORTs only ahead of a BEGIN.
Fine(q) ==
  \A i, j \in Places(q) : i < j => q[i].type = "ABORT" /\ q[j].type \in {"ABORT", "BEGIN"}

Within(r, q) ==
  \E h \in [Places(r) -> DOMAIN q] :
    /\ \A i \in Places(r) : r[i] = q[h[i]]
    /\ \A i, j \in Places(r) : i < j => h[i] < h[j]

LEMMA WithinIsFine ==
  ASSUME NEW r, NEW q, Within(r, q)
  PROVE  Marks(r) \subseteq Marks(q) /\ (Fine(q) => Fine(r))
<1>1. PICK h \in [Places(r) -> DOMAIN q] :
        /\ \A i \in Places(r) : r[i] = q[h[i]]
        /\ \A i, j \in Places(r) : i < j => h[i] < h[j]
  BY DEF Within
<1>2. \A i \in Places(r) : h[i] \in Places(q)
  BY <1>1 DEF Places
<1> QED
  BY <1>1, <1>2 DEF Marks, Fine

LEMMA WithinItself ==
  ASSUME NEW S, NEW q \in Seq(S)
  PROVE  Within(q, q)
<1> DEFINE h == [i \in Places(q) |-> i]
<1>1. h \in [Places(q) -> DOMAIN q]
  BY DEF Places
<1> QED
  BY <1>1 DEF Within

\* Taking the first message out of the second part of a path, or moving it to the end
\* of the first part.
LEMMA WithinMoved ==
  ASSUME NEW S, NEW p \in Seq(S), NEW q \in Seq(S), q # <<>>
  PROVE  Within(p \o Tail(q), p \o q) /\ Within(Append(p, Head(q)) \o Tail(q), p \o q)
<1> DEFINE w == p \o q
           r == p \o Tail(q)
           s == Append(p, Head(q)) \o Tail(q)
<1>1. /\ Len(p) \in Nat /\ Len(q) \in Nat /\ Len(q) > 0
      /\ w \in Seq(S) /\ DOMAIN w = 1 .. Len(p) + Len(q)
      /\ \A i \in DOMAIN w : w[i] = IF i <= Len(p) THEN p[i] ELSE q[i - Len(p)]
  OBVIOUS
<1>2. /\ DOMAIN r = 1 .. Len(p) + Len(q) - 1
      /\ \A i \in DOMAIN r : r[i] = IF i <= Len(p) THEN p[i] ELSE q[i + 1 - Len(p)]
  OBVIOUS
<1>3. /\ DOMAIN s = 1 .. Len(p) + Len(q)
      /\ \A i \in DOMAIN s : s[i] = IF i <= Len(p) THEN p[i] ELSE q[i - Len(p)]
  OBVIOUS
<1> HIDE DEF w, r, s
<1>4. Within(r, w)
  <2> DEFINE h == [i \in Places(r) |-> IF i <= Len(p) THEN i ELSE i + 1]
  <2>1. h \in [Places(r) -> DOMAIN w]
    BY <1>1, <1>2 DEF Places
  <2>2. \A i \in Places(r) : r[i] = w[h[i]]
    BY <1>1, <1>2 DEF Places
  <2>3. \A i, j \in Places(r) : i < j => h[i] < h[j]
    BY <1>1, <1>2 DEF Places
  <2> HIDE DEF h
  <2> QED
    BY <2>1, <2>2, <2>3 DEF Within
<1>5. Within(s, w)
  <2> DEFINE h == [i \in Places(s) |-> i]
  <2>1. h \in [Places(s) -> DOMAIN w] /\ \A i \in Places(s) : s[i] = w[h[i]]
    BY <1>1, <1>3 DEF Places
  <2> QED
    BY <2>1 DEF Within
<1> QED
  BY <1>4, <1>5 DEF w, r, s

LEMMA WithinTaken ==
  ASSUME NEW S, NEW p \in Seq(S), NEW q \in Seq(S), p # <<>>
  PROVE  Within(Tail(p) \o q, p \o q)
<1> DEFINE w == p \o q
           r == Tail(p) \o q
<1>1. /\ Len(p) \in Nat /\ Len(q) \in Nat /\ Len(p) > 0
      /\ DOMAIN w = 1 .. Len(p) + Len(q)
      /\ DOMAIN r = 1 .. Len(p) + Len(q) - 1
      /\ \A i \in DOMAIN r : r[i] = w[i + 1]
  OBVIOUS
<1> HIDE DEF w, r
<1> DEFINE h == [i \in Places(r) |-> i + 1]
<1>2. h \in [Places(r) -> DOMAIN w] /\ \A i \in Places(r) : r[i] = w[h[i]]
  BY <1>1 DEF Places
<1>3. \A i, j \in Places(r) : i < j => h[i] < h[j]
  BY <1>1 DEF Places
<1> HIDE DEF h
<1>4. Within(r, w)
  BY <1>2, <1>3 DEF Within
<1> QED
  BY <1>4 DEF w, r

\* The longer queue begins with the marks of the shorter one.
LEMMA WithinPrefix ==
  ASSUME NEW r, NEW w, NEW n \in Nat, DOMAIN r = 1 .. n,
         \A i \in DOMAIN r : i \in DOMAIN w /\ r[i] = w[i]
  PROVE  Within(r, w)
<1> DEFINE h == [i \in Places(r) |-> i]
<1>1. h \in [Places(r) -> DOMAIN w] /\ \A i \in Places(r) : r[i] = w[h[i]]
  BY DEF Places
<1> QED
  BY <1>1 DEF Within

LEMMA WithinPosted ==
  ASSUME NEW S, NEW p \in Seq(S), NEW q \in Seq(S)
  PROVE  /\ Within(Post(p, q) \o <<>>, p \o q)
         /\ Within(p \o Post(q, <<>>), p \o q)
         /\ \A x \in S : /\ Within(p \o Post(q, <<x>>), Append(p \o q, x))
                         /\ Within(p \o Append(q, x), Append(p \o q, x))
<1>1. /\ Len(p) \in Nat /\ Len(q) \in Nat
      /\ DOMAIN (p \o q) = 1 .. Len(p) + Len(q)
      /\ \A i \in DOMAIN (p \o q) : (p \o q)[i] = IF i <= Len(p) THEN p[i] ELSE q[i - Len(p)]
  OBVIOUS
<1>2. Within(Post(p, q) \o <<>>, p \o q)
  <2> DEFINE r == Post(p, q)
  <2>1. /\ r \in Seq(S) /\ Len(r) <= Len(p) + Len(q)
        /\ \A i \in 1 .. Len(r) : r[i] = IF i <= Len(p) THEN p[i] ELSE q[i - Len(p)]
    BY PostIs
  <2> HIDE DEF r
  <2>2. r \o <<>> = r /\ DOMAIN r = 1 .. Len(r) /\ Len(r) \in Nat
    BY <2>1
  <2>3. \A i \in DOMAIN r : i \in DOMAIN (p \o q) /\ r[i] = (p \o q)[i]
    BY <1>1, <2>1, <2>2
  <2>4. Within(r, p \o q)
    BY <2>2, <2>3, WithinPrefix
  <2> QED
    BY <2>2, <2>4 DEF r
<1>3. Within(p \o Post(q, <<>>), p \o q)
  <2> DEFINE r == Post(q, <<>>)
  <2>1. /\ r \in Seq(S) /\ Len(r) <= Len(q)
        /\ \A i \in 1 .. Len(r) : r[i] = q[i]
    <3>1. /\ r \in Seq(S) /\ Len(r) <= Len(q) + Len(<<>>)
          /\ \A i \in 1 .. Len(r) : r[i] = IF i <= Len(q) THEN q[i] ELSE <<>>[i - Len(q)]
      <4>1. <<>> \in Seq(S)
        OBVIOUS
      <4> QED
        BY <4>1, PostIs
    <3> HIDE DEF r
    <3> QED
      BY <1>1, <3>1
  <2> HIDE DEF r
  <2>2. /\ Len(r) \in Nat /\ DOMAIN (p \o r) = 1 .. Len(p) + Len(r) /\ Len(p) + Len(r) \in Nat
        /\ \A i \in DOMAIN (p \o r) : (p \o r)[i] = IF i <= Len(p) THEN p[i] ELSE r[i - Len(p)]
    BY <2>1
  <2>3. \A i \in DOMAIN (p \o r) : i \in DOMAIN (p \o q) /\ (p \o r)[i] = (p \o q)[i]
    BY <1>1, <2>1, <2>2
  <2> QED
    BY <2>2, <2>3, WithinPrefix DEF r
<1>4. ASSUME NEW x \in S
      PROVE  /\ Within(p \o Post(q, <<x>>), Append(p \o q, x))
             /\ Within(p \o Append(q, x), Append(p \o q, x))
  <2> DEFINE w == Append(p \o q, x)
             r == Post(q, <<x>>)
             s == Append(q, x)
  <2>1. /\ DOMAIN w = 1 .. Len(p) + Len(q) + 1
        /\ \A i \in DOMAIN w : w[i] = IF i <= Len(p) THEN p[i]
                                      ELSE IF i <= Len(p) + Len(q) THEN q[i - Len(p)] ELSE x
    OBVIOUS
  <2>2. /\ r \in Seq(S) /\ Len(r) <= Len(q) + 1
        /\ \A i \in 1 .. Len(r) : r[i] = IF i <= Len(q) THEN q[i] ELSE x
    <3>1. /\ r \in Seq(S) /\ Len(r) <= Len(q) + Len(<<x>>)
          /\ \A i \in 1 .. Len(r) : r[i] = IF i <= Len(q) THEN q[i] ELSE <<x>>[i - Len(q)]
      <4>1. <<x>> \in Seq(S)
        OBVIOUS
      <4> QED
        BY <4>1, PostIs
    <3> HIDE DEF r
    <3>2. Len(r) \in Nat /\ Len(<<x>>) = 1 /\ <<x>>[1] = x
      BY <3>1
    <3> QED
      BY <1>1, <3>1, <3>2
  <2>3. /\ s \in Seq(S) /\ Len(s) = Len(q) + 1
        /\ \A i \in 1 .. Len(s) : s[i] = IF i <= Len(q) THEN q[i] ELSE x
    OBVIOUS
  <2> HIDE DEF w, r, s
  <2>4. ASSUME NEW v \in Seq(S), Len(v) <= Len(q) + 1,
               \A i \in 1 .. Len(v) : v[i] = IF i <= Len(q) THEN q[i] ELSE x
        PROVE  Within(p \o v, w)
    <3>1. /\ Len(v) \in Nat /\ DOMAIN (p \o v) = 1 .. Len(p) + Len(v) /\ Len(p) + Len(v) \in Nat
          /\ \A i \in DOMAIN (p \o v) : (p \o v)[i] = IF i <= Len(p) THEN p[i] ELSE v[i - Len(p)]
      OBVIOUS
    <3>2. \A i \in DOMAIN (p \o v) : i \in DOMAIN w /\ (p \o v)[i] = w[i]
      BY <1>1, <2>1, <2>4, <3>1
    <3> QED
      BY <3>1, <3>2, WithinPrefix
  <2>5. Within(p \o r, w)
    BY <2>2, <2>4
  <2>6. Len(s) <= Len(q) + 1
    BY <1>1, <2>3
  <2>7. Within(p \o s, w)
    BY <2>3, <2>4, <2>6
  <2> QED
    BY <2>5, <2>7 DEF w, r, s
<1> QED
  BY <1>2, <1>3, <1>4

\* What is not a mark does not count, wherever it is put.
LEMMA WithinUnmarked ==
  ASSUME NEW S, NEW r, NEW q \in Seq(S), NEW x \in S, ~ Marked(x), Within(r, Append(q, x))
  PROVE  Within(r, q)
<1> DEFINE w == Append(q, x)
<1>1. PICK h \in [Places(r) -> DOMAIN w] :
        /\ \A i \in Places(r) : r[i] = w[h[i]]
        /\ \A i, j \in Places(r) : i < j => h[i] < h[j]
  BY DEF Within
<1>2. /\ DOMAIN w = 1 .. Len(q) + 1 /\ w[Len(q) + 1] = x /\ Len(q) \in Nat
      /\ \A i \in 1 .. Len(q) : w[i] = q[i]
      /\ DOMAIN q = 1 .. Len(q)
  BY AppendIs
<1> HIDE DEF w
<1>3. ASSUME NEW i \in Places(r) PROVE h[i] \in DOMAIN q /\ r[i] = q[h[i]]
  <2>1. r[i] = w[h[i]] /\ Marked(r[i]) /\ h[i] \in 1 .. Len(q) + 1
    BY <1>1, <1>2 DEF Places
  <2>2. h[i] # Len(q) + 1
    BY <1>2, <2>1
  <2> QED
    BY <1>2, <2>1, <2>2
<1>4. h \in [Places(r) -> DOMAIN q]
  BY <1>1, <1>3
<1> QED
  BY <1>1, <1>3, <1>4 DEF Within

LEMMA WithinInserted ==
  ASSUME NEW S, NEW p \in Seq(S), NEW q \in Seq(S), NEW x \in S
  PROVE  /\ ~ Marked(x) => Within(Post(p, <<x>>) \o q, p \o q)
         /\ Marks(p \o q) = {} =>
              Marks(Post(p, <<x>>) \o q) \subseteq {x} /\ Fine(Post(p, <<x>>) \o q)
<1> DEFINE w == p \o q
           v == Post(p, <<x>>)
           r == v \o q
<1>1. /\ Len(p) \in Nat /\ Len(q) \in Nat
      /\ DOMAIN w = 1 .. Len(p) + Len(q)
      /\ \A i \in DOMAIN w : w[i] = IF i <= Len(p) THEN p[i] ELSE q[i - Len(p)]
  OBVIOUS
<1>2. /\ v \in Seq(S) /\ Len(v) \in Nat /\ Len(v) <= Len(p) + 1
      /\ \A i \in 1 .. Len(v) : v[i] = IF i <= Len(p) THEN p[i] ELSE x
  <2>1. <<x>> \in Seq(S) /\ Len(<<x>>) = 1 /\ <<x>>[1] = x
    OBVIOUS
  <2>2. /\ v \in Seq(S) /\ Len(v) <= Len(p) + Len(<<x>>)
        /\ \A i \in 1 .. Len(v) : v[i] = IF i <= Len(p) THEN p[i] ELSE <<x>>[i - Len(p)]
    BY <2>1, PostIs
  <2> HIDE DEF v
  <2> QED
    BY <1>1, <2>1, <2>2
<1> HIDE DEF v
<1>3. /\ DOMAIN r = 1 .. Len(v) + Len(q)
      /\ \A i \in DOMAIN r : r[i] = IF i <= Len(v) THEN v[i] ELSE q[i - Len(v)]
  BY <1>2
<1> HIDE DEF w, r
<1> DEFINE at(i) == IF i <= Len(v) THEN i ELSE i - Len(v) + Len(p)
<1>4. ASSUME NEW i \in DOMAIN r, ~ (i = Len(p) + 1 /\ i = Len(v))
      PROVE  at(i) \in DOMAIN w /\ r[i] = w[at(i)]
  <2>1. i \in 1 .. Len(v) + Len(q)
    BY <1>3, <1>4
  <2>2. CASE i <= Len(v)
    <3>1. i \in 1 .. Len(p)
      BY <1>1, <1>2, <1>4, <2>1, <2>2
    <3>2. r[i] = v[i] /\ v[i] = p[i] /\ at(i) = i
      BY <1>2, <1>3, <2>1, <2>2, <3>1
    <3> QED
      BY <1>1, <3>1, <3>2
  <2>3. CASE ~ (i <= Len(v))
    <3>1. r[i] = q[i - Len(v)] /\ at(i) = i - Len(v) + Len(p)
      BY <1>3, <2>1, <2>3
    <3>2. at(i) \in Len(p) + 1 .. Len(p) + Len(q) /\ at(i) - Len(p) = i - Len(v)
      BY <1>1, <1>2, <2>1, <2>3
    <3> HIDE DEF at
    <3>3. at(i) \in DOMAIN w /\ w[at(i)] = q[at(i) - Len(p)]
      BY <1>1, <3>2
    <3> QED
      BY <3>1, <3>2, <3>3
  <2> QED
    BY <2>2, <2>3
<1>5. ASSUME Len(p) + 1 = Len(v) PROVE Len(v) \in DOMAIN r /\ r[Len(v)] = x
  BY <1>1, <1>2, <1>3, <1>5
<1>6. ASSUME ~ Marked(x) PROVE Within(r, w)
  <2>1. \A i \in Places(r) : i \in DOMAIN r /\ ~ (i = Len(p) + 1 /\ i = Len(v))
    BY <1>5, <1>6 DEF Places
  <2> DEFINE h == [i \in Places(r) |-> at(i)]
  <2>2. h \in [Places(r) -> DOMAIN w] /\ \A i \in Places(r) : r[i] = w[h[i]]
    BY <1>4, <2>1
  <2>3. ASSUME NEW i \in Places(r), NEW j \in Places(r), i < j PROVE h[i] < h[j]
    <3>1. i \in 1 .. Len(v) + Len(q) /\ j \in 1 .. Len(v) + Len(q)
      BY <1>3, <2>1
    <3>2. i <= Len(v) => i <= Len(p)
      BY <1>1, <1>2, <2>1, <3>1
    <3> QED
      BY <1>1, <1>2, <2>3, <3>1, <3>2
  <2> HIDE DEF h
  <2> QED
    BY <2>2, <2>3 DEF Within
<1>7. ASSUME Marks(w) = {}
      PROVE  Marks(r) \subseteq {x} /\ Fine(r)
  <2>1. \A i \in DOMAIN w : ~ Marked(w[i])
    BY <1>7 DEF Marks, Places
  <2>2. \A i \in Places(r) : i = Len(p) + 1 /\ i = Len(v)
    BY <1>4, <2>1 DEF Places
  <2>3. \A i \in Places(r) : r[i] = x
    BY <1>5, <2>2
  <2>4. \A i, j \in Places(r) : ~ (i < j)
    BY <1>1, <2>2
  <2> QED
    BY <2>3, <2>4 DEF Marks, Fine
<1> QED
  BY <1>6, <1>7 DEF w, r, v

LEMMA AppendedMarks ==
  ASSUME NEW S, NEW q \in Seq(S), NEW x \in S, NEW r, Within(r, Append(q, x))
  PROVE  /\ Marks(r) \subseteq Marks(q) \cup {x}
         /\ Marks(q) = {} => Fine(r)
         /\ (\A m \in Marks(q) : m.type = "ABORT") /\ x.type \in {"ABORT", "BEGIN"} => Fine(r)
<1> DEFINE w == Append(q, x)
<1>1. /\ DOMAIN w = 1 .. Len(q) + 1 /\ w[Len(q) + 1] = x /\ Len(q) \in Nat
      /\ \A i \in 1 .. Len(q) : w[i] = q[i]
      /\ DOMAIN q = 1 .. Len(q)
  BY AppendIs
<1>2. Marks(r) \subseteq Marks(w) /\ (Fine(w) => Fine(r))
  BY WithinIsFine
<1> HIDE DEF w
<1>3. \A i \in Places(w) : i = Len(q) + 1 \/ (i \in Places(q) /\ w[i] = q[i])
  BY <1>1 DEF Places
<1>4. Marks(w) \subseteq Marks(q) \cup {x}
  BY <1>1, <1>3 DEF Marks
<1>5. ASSUME Marks(q) = {} PROVE Fine(w)
  <2>1. Places(q) = {}
    BY <1>5 DEF Marks
  <2> QED
    BY <1>1, <1>3, <2>1 DEF Fine
<1>6. ASSUME \A m \in Marks(q) : m.type = "ABORT", x.type \in {"ABORT", "BEGIN"}
      PROVE  Fine(w)
  <2> SUFFICES ASSUME NEW i \in Places(w), NEW j \in Places(w), i < j
               PROVE  w[i].type = "ABORT" /\ w[j].type \in {"ABORT", "BEGIN"}
    BY DEF Fine
  <2>1. i \in 1 .. Len(q) + 1 /\ j \in 1 .. Len(q) + 1
    BY <1>1 DEF Places
  <2>2. i \in Places(q) /\ w[i] = q[i]
    BY <1>1, <1>3, <2>1
  <2>3. w[i].type = "ABORT"
    BY <1>6, <2>2 DEF Marks
  <2>4. w[j] = x \/ (j \in Places(q) /\ w[j] = q[j])
    BY <1>1, <1>3
  <2> QED
    BY <1>6, <2>3, <2>4 DEF Marks
<1> QED
  BY <1>2, <1>4, <1>5, <1>6

\* A mark that is taken leaves none behind: at the front of the path, unless it is an
\* ABORT; in the middle, unless it is an ABORT or a BEGIN.
LEMMA TakenMark ==
  ASSUME NEW S, NEW p \in Seq(S), NEW q \in Seq(S), Fine(p \o q)
  PROVE  /\ p # <<>> /\ Marked(Head(p)) =>
              /\ Head(p) \in Marks(p \o q)
              /\ Head(p).type # "ABORT" => Marks(Tail(p) \o q) = {}
         /\ q # <<>> /\ Marked(Head(q)) =>
              /\ Head(q) \in Marks(p \o q)
              /\ Head(q).type \notin {"ABORT", "BEGIN"} => Marks(p \o Tail(q)) = {}
<1> DEFINE w == p \o q
<1>1. /\ Len(p) \in Nat /\ Len(q) \in Nat
      /\ DOMAIN w = 1 .. Len(p) + Len(q)
      /\ \A i \in DOMAIN w : w[i] = IF i <= Len(p) THEN p[i] ELSE q[i - Len(p)]
  OBVIOUS
<1>2. ASSUME p # <<>>, Marked(Head(p))
      PROVE  /\ Head(p) \in Marks(w)
             /\ Head(p).type # "ABORT" => Marks(Tail(p) \o q) = {}
  <2> DEFINE r == Tail(p) \o q
  <2>1. /\ Len(p) > 0 /\ Head(p) = p[1]
        /\ DOMAIN r = 1 .. Len(p) + Len(q) - 1
        /\ \A i \in DOMAIN r : r[i] = w[i + 1]
    BY <1>2
  <2> HIDE DEF w, r
  <2>2. 1 \in Places(w) /\ w[1] = Head(p)
    BY <1>1, <1>2, <2>1 DEF Places
  <2>3. ASSUME Head(p).type # "ABORT", NEW i \in Places(r) PROVE FALSE
    <3>1. i + 1 \in Places(w) /\ 1 < i + 1
      BY <1>1, <2>1, <2>3 DEF Places
    <3> QED
      BY <2>2, <2>3, <3>1 DEF Fine, w
  <2> QED
    BY <2>2, <2>3 DEF Marks, r
<1>3. ASSUME q # <<>>, Marked(Head(q))
      PROVE  /\ Head(q) \in Marks(w)
             /\ Head(q).type \notin {"ABORT", "BEGIN"} => Marks(p \o Tail(q)) = {}
  <2> DEFINE r == p \o Tail(q)
             k == Len(p) + 1
  <2>1. /\ Len(q) > 0 /\ Head(q) = q[1]
        /\ DOMAIN r = 1 .. Len(p) + Len(q) - 1
        /\ \A i \in DOMAIN r : r[i] = IF i <= Len(p) THEN w[i] ELSE w[i + 1]
    BY <1>3
  <2> HIDE DEF w, r
  <2>2. k \in Places(w) /\ w[k] = Head(q)
    BY <1>1, <1>3, <2>1 DEF Places
  <2>3. ASSUME Head(q).type \notin {"ABORT", "BEGIN"}, NEW i \in Places(r) PROVE FALSE
    <3>1. PICK j \in Places(w) : j < k \/ k < j
      <4>1. i \in 1 .. Len(p) + Len(q) - 1 /\ Marked(r[i])
        BY <2>1, <2>3 DEF Places
      <4>2. CASE i <= Len(p)
        BY <1>1, <2>1, <4>1, <4>2 DEF Places
      <4>3. CASE ~ (i <= Len(p))
        <5>1. i + 1 \in DOMAIN w /\ r[i] = w[i + 1] /\ k < i + 1
          BY <1>1, <2>1, <4>1, <4>3
        <5> QED
          BY <4>1, <5>1 DEF Places
      <4> QED
        BY <4>2, <4>3
    <3> QED
      BY <2>2, <2>3, <3>1 DEF Fine, w
  <2> QED
    BY <2>2, <2>3 DEF Marks, r
<1> QED
  BY <1>2, <1>3

LEMMA BehindAbort ==
  ASSUME NEW S, NEW p \in Seq(S), NEW q \in Seq(S), Fine(p \o q),
         p # <<>>, Head(p).type = "ABORT"
  PROVE  \A n \in Marks(Tail(p) \o q) : n.type \in {"ABORT", "BEGIN"}
<1> DEFINE w == p \o q
           r == Tail(p) \o q
<1>1. /\ Len(p) \in Nat /\ Len(q) \in Nat /\ Len(p) > 0
      /\ DOMAIN w = 1 .. Len(p) + Len(q)
      /\ DOMAIN r = 1 .. Len(p) + Len(q) - 1
      /\ \A i \in DOMAIN r : r[i] = w[i + 1]
      /\ w[1] = Head(p)
  OBVIOUS
<1>2. Fine(w)
  OBVIOUS
<1> HIDE DEF w, r
<1>3. 1 \in Places(w)
  BY <1>1 DEF Places, Marked
<1>4. ASSUME NEW i \in Places(r) PROVE r[i].type \in {"ABORT", "BEGIN"}
  <2>1. i + 1 \in Places(w) /\ r[i] = w[i + 1] /\ 1 < i + 1
    BY <1>1, <1>4 DEF Places
  <2> QED
    BY <1>2, <1>3, <2>1 DEF Fine
<1> QED
  BY <1>4 DEF Marks, r

-----------------------------------------------------------------------------
(***************************************************************************)
(* The handshake while the card answers in time.  Of the messages on their *)
(* way to CANIOMC and the card, and of those on their way back, at most    *)
(* one belongs to the transfer; it is what COMMMC's state waits for, and   *)
(* fits what the card knows.  An ABORT is overtaken by nothing, so it can  *)
(* only end a transfer that COMMMC has already given up.                   *)
(***************************************************************************)
Path == toCard \o ioPipe
Back == commPipe \o fromCard

Usable == CardChunks \subseteq 1 .. MaxChunk

\* The card's transfer is this one.
CardIs == card.photo = xferFile /\ (Usable => card.chunk = chunkSize)

Fits(m) ==
  \/ m.type = "BEGIN" /\ state = "WAIT_BEGIN_ACK" /\ m.photo = xferFile
  \/ m.type = "BEGIN_ACK" /\ state = "WAIT_BEGIN_ACK"
     /\ (m.status = 0 => m.chunk \in CardChunks /\ card.photo = xferFile /\ card.chunk = m.chunk)
  \/ m.type = "CHUNK_READY" /\ state = "WAIT_CHUNK_ACK" /\ (card.open => CardIs)
  \/ m.type = "CHUNK_ACK" /\ state = "WAIT_CHUNK_ACK" /\ (card.open => CardIs)
     /\ (m.status = 0 => CardIs /\ card.armed = m.idx)
  \/ m.type = "SPI_TX" /\ state = "WAIT_SPI_DONE"
     /\ CardIs /\ card.armed = m.idx /\ m.photo = xferFile
  \/ m.type = "SPI_DONE" /\ state = "WAIT_SPI_DONE" /\ (card.open => CardIs)
  \/ m.type = "END" /\ state = "WAIT_RESULT" /\ (card.open => CardIs)
  \/ m.type = "RESULT" /\ state = "WAIT_RESULT" /\ (m.status = 0 => m.photo = xferFile)

Flight ==
  /\ Fine(Path) /\ Fine(Back)
  /\ \A m \in Marks(Path) \cup Marks(Back) : m.type # "ABORT" => Fits(m)
  /\ Marks(Path) = {} \/ Marks(Back) = {}

\* Without CANIOMC nothing is sent and nothing is read.
Unanswered == ~ CANIOMC_runs => ioPipe = <<>> /\ toCard = <<>> /\ Marks(fromCard) = {}

LinkInv == LinkTypes /\ Unanswered /\ (~ late => Flight)

LEMMA QueueTypes ==
  ASSUME LinkTypes
  PROVE  /\ toCard \in Seq(IoMsgs) /\ ioPipe \in Seq(IoMsgs) /\ Path \in Seq(IoMsgs)
         /\ commPipe \in Seq(CommMsgs) /\ fromCard \in Seq(CommMsgs) /\ Back \in Seq(CommMsgs)
         /\ \A m \in Marks(Back) : m.type \in {"BEGIN_ACK", "CHUNK_ACK", "SPI_DONE", "RESULT"}
<1>1. toCard \in Seq(IoMsgs) /\ ioPipe \in Seq(IoMsgs)
  BY DEF LinkTypes, CanMsgs, IoMsgs
<1>2. commPipe \in Seq(CommMsgs) /\ fromCard \in Seq(CommMsgs)
  BY DEF LinkTypes, CommMsgs
<1>3. Back \in Seq(CommMsgs)
  BY <1>2 DEF Back
<1>4. \A m \in Marks(Back) : m \in CommMsgs /\ Marked(m)
  BY <1>3 DEF Marks, Places
<1>5. \A m \in CommMsgs : Marked(m) => m.type \in {"BEGIN_ACK", "CHUNK_ACK", "SPI_DONE", "RESULT"}
  BY DEF CommMsgs, CardMsgs, Marked
<1> QED
  BY <1>1, <1>2, <1>3, <1>4, <1>5 DEF Path

\* What fits is a mark of an active transfer.
LEMMA IdleFits ==
  ASSUME state = "IDLE", NEW m
  PROVE  ~ Fits(m)
BY DEF Fits

\* Steps that leave both sides of the transfer alone and add no mark.
LEMMA FlightKept ==
  ASSUME Flight, UNCHANGED <<state, xferFile, chunkSize, card>>,
         Within(Path', Path), Within(Back', Back)
  PROVE  Flight'
<1>1. Fine(Path') /\ Fine(Back') /\ Marks(Path') \subseteq Marks(Path) /\ Marks(Back') \subseteq Marks(Back)
  BY WithinIsFine DEF Flight
<1>2. \A m : Fits(m) => Fits(m)'
  BY DEF Fits, CardIs
<1>3. \A m \in Marks(Path') \cup Marks(Back') : m.type # "ABORT" => Fits(m)'
  BY <1>1, <1>2 DEF Flight
<1> QED
  BY <1>1, <1>3 DEF Flight

\* What the handler sent comes last on the way to the card, or is dropped.
LEMMA PathSent ==
  ASSUME LinkTypes, sent' \in Seq(Messages), PostSent, UNCHANGED toCard, Fine(Path)
  PROVE  /\ sent' = <<>> => Marks(Path') \subseteq Marks(Path) /\ Fine(Path')
         /\ \A x : sent' = <<x>> =>
              /\ Marks(Path') \subseteq Marks(Path) \cup {x}
              /\ Marks(Path) = {} => Fine(Path')
              /\ (\A m \in Marks(Path) : m.type = "ABORT") /\ x.type \in {"ABORT", "BEGIN"}
                   => Fine(Path')
<1>1. toCard \in Seq(IoMsgs) /\ ioPipe \in Seq(IoMsgs) /\ Path \in Seq(IoMsgs)
  BY QueueTypes
<1>2. Path' = toCard \o ioPipe'
  BY DEF Path
<1>3. ioPipe' = ioPipe \/ ioPipe' = Post(ioPipe, sent')
  BY DEF PostSent, PostIo
<1>4. ASSUME sent' = <<>> PROVE Marks(Path') \subseteq Marks(Path) /\ Fine(Path')
  <2>1. CASE ioPipe' = ioPipe
    BY <1>2, <2>1 DEF Path
  <2>2. CASE ioPipe' = Post(ioPipe, <<>>)
    <3>1. Within(Path', Path)
      BY <1>1, <1>2, <2>2, WithinPosted DEF Path
    <3> QED
      BY <3>1, WithinIsFine
  <2> QED
    BY <1>3, <1>4, <2>1, <2>2
<1>5. ASSUME NEW x, sent' = <<x>>
      PROVE  /\ Marks(Path') \subseteq Marks(Path) \cup {x}
             /\ Marks(Path) = {} => Fine(Path')
             /\ (\A m \in Marks(Path) : m.type = "ABORT") /\ x.type \in {"ABORT", "BEGIN"}
                  => Fine(Path')
  <2>1. CASE ioPipe' = ioPipe
    BY <1>2, <2>1 DEF Path
  <2>2. CASE ioPipe' = Post(ioPipe, <<x>>)
    <3>1. x \in IoMsgs
      <4>1. x = sent'[1] /\ 1 \in DOMAIN sent'
        BY <1>5
      <4>2. x \in Messages
        BY <4>1
      <4> QED
        BY <4>2 DEF IoMsgs
    <3>2. Within(Path', Append(Path, x))
      BY <1>1, <1>2, <2>2, <3>1, WithinPosted DEF Path
    <3> QED
      BY <1>1, <3>1, <3>2, AppendedMarks
  <2> QED
    BY <1>3, <1>5, <2>1, <2>2
<1> QED
  BY <1>4, <1>5

LEMMA CommStepFlight ==
  ASSUME LinkTypes, Flight, CommStep
  PROVE  Flight'
<1> DEFINE m == Head(commPipe)
<1>1. LinkTypes' /\ sent' \in Seq(Messages)
  BY CommStepTypes DEF LinkTypes, IInv, TypeOK
<1>2. /\ commPipe # <<>> /\ commPipe' = Tail(commPipe) /\ PostSent
      /\ UNCHANGED <<toCard, fromCard, card>>
  BY DEF CommStep
<1>3. /\ commPipe \in Seq(CommMsgs) /\ fromCard \in Seq(CommMsgs)
      /\ \A b \in Marks(Back) : b.type \in {"BEGIN_ACK", "CHUNK_ACK", "SPI_DONE", "RESULT"}
  BY QueueTypes
<1>4. m \in CommMsgs /\ Handled(m)
  BY <1>2, <1>3, TailIs, HandlerDoes DEF CommStep, LinkTypes
<1>5. Back' = Tail(commPipe) \o fromCard
  BY <1>2 DEF Back
<1>6. Marks(Back') \subseteq Marks(Back) /\ Fine(Back')
  <2>1. Within(Back', Back)
    BY <1>2, <1>3, <1>5, WithinTaken DEF Back
  <2> QED
    BY <2>1, WithinIsFine DEF Flight
<1>7. Marked(m) => Marks(Back') = {} /\ Marks(Path) = {} /\ Fits(m)
  <2>1. Fine(commPipe \o fromCard)
    BY DEF Flight, Back
  <2>2. Marked(m) => /\ m \in Marks(Back)
                     /\ m.type # "ABORT" => Marks(Back') = {}
    BY <1>2, <1>3, <1>5, <2>1, TakenMark DEF Back
  <2> QED
    BY <1>3, <2>2 DEF Flight
<1>8. /\ sent' = <<>> => Marks(Path') \subseteq Marks(Path) /\ Fine(Path')
      /\ \A x : sent' = <<x>> =>
           /\ Marks(Path') \subseteq Marks(Path) \cup {x}
           /\ Marks(Path) = {} => Fine(Path')
           /\ (\A n \in Marks(Path) : n.type = "ABORT") /\ x.type \in {"ABORT", "BEGIN"}
                => Fine(Path')
  BY <1>1, <1>2, PathSent DEF Flight
<1>9. state = "IDLE" => Marks(Back) = {} /\ \A n \in Marks(Path) : n.type = "ABORT"
  BY <1>3, IdleFits DEF Flight
<1> HIDE DEF m
\* The handler sent one mark that fits, after one that was taken.
<1>10. ASSUME NEW x, sent' = <<x>>, Marked(m), Fits(x)' PROVE Flight'
  <2>1. Marks(Path') \subseteq {x} /\ Fine(Path') /\ Marks(Back') = {}
    BY <1>7, <1>8, <1>10
  <2> QED
    BY <1>6, <1>10, <2>1 DEF Flight
<1>11. CASE ~ Answers(m) /\ Stays
  <2>1. ~ Marked(m)
    <3>1. Fits(m) /\ m \in CommMsgs => Answers(m)
      BY DEF Fits, Answers, CommMsgs, CardMsgs
    <3> QED
      BY <1>4, <1>7, <1>11, <3>1
  <2>2. \A n : Fits(n) => Fits(n)'
    BY <1>2, <1>11 DEF Stays, Fits, CardIs
  <2>3. Marks(Path') \subseteq Marks(Path) /\ Fine(Path')
    BY <1>8, <1>11 DEF Stays
  <2>4. \A n \in Marks(Path') \cup Marks(Back') : n.type # "ABORT" => Fits(n)'
    BY <1>6, <2>2, <2>3 DEF Flight
  <2> QED
    BY <1>6, <2>3, <2>4 DEF Flight
<1>12. CASE Ends(m)
  <2>1. Answers(m) => Marked(m)
    BY DEF Answers, Marked
  <2>2. Marks(Back') = {} /\ \A n \in Marks(Path) : n.type = "ABORT"
    BY <1>6, <1>7, <1>9, <1>12, <2>1 DEF Ends
  <2>3. Fine(Path') /\ \A n \in Marks(Path') : n.type = "ABORT"
    <3>1. CASE sent' = <<>>
      BY <1>8, <2>2, <3>1
    <3>2. CASE sent' = <<AbortMsg>>
      <4>1. AbortMsg.type = "ABORT"
        BY DEF AbortMsg
      <4> QED
        BY <1>8, <2>2, <3>2, <4>1
    <3> QED
      BY <1>12, <3>1, <3>2 DEF Ends
  <2> QED
    BY <1>6, <2>2, <2>3 DEF Flight
<1>13. CASE Starts
  <2>1. PICK x : sent' = <<x>> /\ x.type = "BEGIN" /\ x.photo = xferFile'
    BY <1>13 DEF Starts, BeginMsg
  <2>2. Marks(Back') = {} /\ \A n \in Marks(Path) : n.type = "ABORT"
    BY <1>6, <1>9, <1>13 DEF Starts
  <2>3. Fine(Path') /\ Marks(Path') \subseteq Marks(Path) \cup {x}
    BY <1>8, <2>1, <2>2
  <2>4. Fits(x)'
    BY <1>13, <2>1 DEF Starts, Fits
  <2> QED
    BY <1>6, <2>2, <2>3, <2>4 DEF Flight
<1>14. CASE m.type = "BEGIN_ACK" /\ Accepted(m)
  <2>1. Marked(m) /\ Fits(m)
    BY <1>7, <1>14 DEF Marked
  <2>2. m.chunk \in CardChunks /\ card.photo = xferFile /\ card.chunk = m.chunk
    BY <1>14, <2>1 DEF Fits, Accepted
  <2>3. CardIs'
    BY <1>2, <1>14, <2>2 DEF Accepted, CardIs, Usable
  <2>4. PICK x : sent' = <<x>> /\ x.type = "CHUNK_READY"
    BY <1>14 DEF Accepted, ChunkReadyMsg
  <2>5. Fits(x)'
    BY <1>14, <2>3, <2>4 DEF Accepted, Fits
  <2> QED
    BY <1>10, <2>1, <2>4, <2>5
<1>15. CASE m.type = "CHUNK_ACK" /\ Hands(m)
  <2>1. Marked(m) /\ Fits(m)
    BY <1>7, <1>15 DEF Marked
  <2>2. CardIs /\ card.armed = m.idx
    BY <1>15, <2>1 DEF Fits, Hands
  <2>3. CardIs'
    BY <1>2, <1>15, <2>2 DEF Hands, CardIs
  <2>4. PICK x : sent' = <<x>> /\ x.type = "SPI_TX" /\ x.idx = m.idx /\ x.photo = xferFile
    BY <1>15 DEF Hands
  <2>5. Fits(x)'
    BY <1>2, <1>15, <2>2, <2>3, <2>4 DEF Hands, Fits
  <2> QED
    BY <1>10, <2>1, <2>4, <2>5
<1>16. CASE m.type = "SPI_DONE" /\ GoesOn(m)
  <2>1. Marked(m) /\ Fits(m)
    BY <1>7, <1>16 DEF Marked
  <2>2. card.open => CardIs
    BY <1>16, <2>1 DEF Fits
  <2>3. card'.open => CardIs'
    BY <1>2, <1>16, <2>2 DEF GoesOn, CardIs
  <2>4. PICK x : /\ sent' = <<x>>
                 /\ \/ x.type = "CHUNK_READY" /\ state' = "WAIT_CHUNK_ACK"
                    \/ x.type = "END" /\ state' = "WAIT_RESULT"
    BY <1>16 DEF GoesOn, ChunkReadyMsg, EndMsg
  <2>5. Fits(x)'
    BY <2>3, <2>4 DEF Fits
  <2> QED
    BY <1>10, <2>1, <2>4, <2>5
<1> QED
  BY <1>4, <1>11, <1>12, <1>13, <1>14, <1>15, <1>16 DEF Handled

\* The idle tick finds nothing of the transfer on its way, unless the card was late.
LEMMA CommTickFlight ==
  ASSUME LinkTypes, Unanswered, CommTick, ~ late'
  PROVE  Flight'
<1>1. LinkTypes' /\ sent' \in Seq(Messages)
  BY CommTickTypes DEF LinkTypes, IInv, TypeOK
<1>2. /\ commPipe = <<>> /\ ioPipe = <<>> /\ toCard = <<>> /\ (CANIOMC_runs => fromCard = <<>>)
      /\ UNCHANGED <<commPipe, toCard, fromCard>> /\ PostSent /\ state # "IDLE" /\ OnTick
  BY DEF CommTick
<1>3. Marks(<<>>) = {} /\ Fine(<<>>)
  BY DEF Marks, Places, Fine
<1>4. Path = <<>> /\ Back' = fromCard
  <2>1. fromCard \in Seq(CardMsgs)
    BY DEF LinkTypes
  <2> QED
    BY <1>2, <2>1 DEF Path, Back
<1>5. Marks(Back') = {}
  BY <1>2, <1>3, <1>4 DEF Unanswered
<1>6. Fine(Back')
  BY <1>5 DEF Marks, Fine
<1>7. sent' = <<>> \/ sent' = <<AbortMsg>>
  BY <1>2, TickDoes DEF Stays
<1>8. Fine(Path)
  BY <1>3, <1>4
<1>9. Fine(Path') /\ \A n \in Marks(Path') : n.type = "ABORT"
  <2>1. CASE sent' = <<>>
    BY <1>1, <1>2, <1>3, <1>4, <1>8, <2>1, PathSent
  <2>2. CASE sent' = <<AbortMsg>>
    <3>1. AbortMsg.type = "ABORT"
      BY DEF AbortMsg
    <3>2. Fine(Path') /\ Marks(Path') \subseteq {AbortMsg}
      BY <1>1, <1>2, <1>3, <1>4, <1>8, <2>2, PathSent
    <3> QED
      BY <3>1, <3>2
  <2> QED
    BY <1>7, <2>1, <2>2
<1> QED
  BY <1>5, <1>6, <1>9 DEF Flight

LEMMA PollFlight ==
  ASSUME LinkTypes, PollAndPublish
  PROVE  Within(Back', Back)
<1>1. commPipe \in Seq(CommMsgs) /\ fromCard \in Seq(CommMsgs)
  BY QueueTypes
<1>2. Back' = Post(commPipe, fromCard) \o <<>>
  BY DEF Back, PollAndPublish
<1> QED
  BY <1>1, <1>2, WithinPosted DEF Back

LEMMA IoFlight ==
  ASSUME LinkTypes, Flight, IoSendCan \/ IoBeat \/ IoPoll
  PROVE  Flight'
<1>1. /\ toCard \in Seq(IoMsgs) /\ ioPipe \in Seq(IoMsgs) /\ Path \in Seq(IoMsgs)
      /\ Back \in Seq(CommMsgs)
  BY QueueTypes
<1>2. UNCHANGED <<state, xferFile, chunkSize, card>>
  BY DEF IoSendCan, IoBeat, CANIOMC_APP_SEND_HEARTBEAT, CANIOMC_APP_SEND_HK_TO_SB,
         IoOther, IoPoll, vars, params
<1>3. \/ UNCHANGED Path
      \/ ioPipe # <<>> /\ Path' = toCard \o Tail(ioPipe)
      \/ ioPipe # <<>> /\ Path' = Append(toCard, Head(ioPipe)) \o Tail(ioPipe)
  BY DEF Path, IoSendCan, CanSend, IoBeat, CANIOMC_APP_SEND_HEARTBEAT,
         CANIOMC_APP_SEND_HK_TO_SB, IoOther, IoPoll
<1>4. Within(Path', Path)
  BY <1>1, <1>3, WithinItself, WithinMoved DEF Path
<1>5. Within(Back', Back)
  <2>1. CASE UNCHANGED Back
    BY <1>1, <2>1, WithinItself
  <2>2. CASE PollAndPublish
    BY <2>2, PollFlight
  <2> QED
    BY <2>1, <2>2 DEF Back, IoSendCan, IoBeat, CANIOMC_APP_SEND_HEARTBEAT,
                      CANIOMC_APP_SEND_HK_TO_SB, IoOther, IoPoll
<1> QED
  BY <1>2, <1>4, <1>5, FlightKept

LEMMA IoSpiTxFlight ==
  ASSUME LinkTypes, Flight, IoSpiTx
  PROVE  Flight'
<1> DEFINE m == Head(ioPipe)
<1>1. /\ toCard \in Seq(IoMsgs) /\ ioPipe \in Seq(IoMsgs)
      /\ commPipe \in Seq(CommMsgs) /\ fromCard \in Seq(CommMsgs)
  BY QueueTypes
<1>2. /\ ioPipe # <<>> /\ m.type = "SPI_TX" /\ ioPipe' = Tail(ioPipe)
      /\ UNCHANGED <<state, xferFile, chunkSize, toCard, fromCard>>
  BY DEF IoSpiTx, vars, params
<1>3. m \in Marks(Path) /\ Marks(Path') = {}
  <2>1. Fine(toCard \o ioPipe) /\ Marked(m) /\ m.type \notin {"ABORT", "BEGIN"}
    BY <1>2 DEF Flight, Path, Marked
  <2>2. Path' = toCard \o Tail(ioPipe)
    BY <1>2 DEF Path
  <2> QED
    BY <1>1, <1>2, <2>1, <2>2, TakenMark DEF Path
<1>4. Fits(m) /\ Marks(Back) = {}
  BY <1>2, <1>3 DEF Flight
<1>5. state' = "WAIT_SPI_DONE" /\ CardIs
  BY <1>2, <1>4 DEF Fits
<1>6. card'.photo = card.photo /\ card'.chunk = card.chunk
  BY DEF LinkTypes, CardTypes, IoSpiTx, SpiWrite, CardReceives
<1>7. CardIs'
  BY <1>2, <1>5, <1>6 DEF CardIs
<1>8. Fine(Path')
  BY <1>3 DEF Marks, Fine
<1>9. \/ commPipe' = commPipe
      \/ commPipe' = Post(commPipe, <<SpiDoneMsg(m.idx, 0)>>)
      \/ commPipe' = Post(commPipe, <<SpiDoneMsg(m.idx, 1)>>)
  BY DEF IoSpiTx
<1>10. \A s \in {0, 1} : SpiDoneMsg(m.idx, s) \in CommMsgs /\ SpiDoneMsg(m.idx, s).type = "SPI_DONE"
  <2>1. m \in IoMsgs
    BY <1>1, <1>2, TailIs
  <2>2. m.idx \in Index
    BY <1>2, <2>1 DEF IoMsgs, Messages
  <2> QED
    BY <2>2 DEF SpiDoneMsg, CommMsgs
<1> HIDE DEF m
<1>11. CASE commPipe' = commPipe
  <2>1. Back' = Back
    BY <1>2, <1>11 DEF Back
  <2> QED
    BY <1>3, <1>4, <1>8, <2>1 DEF Flight
<1>12. ASSUME NEW x \in CommMsgs, x.type = "SPI_DONE", commPipe' = Post(commPipe, <<x>>)
       PROVE  Flight'
  <2>1. Back' = Post(commPipe, <<x>>) \o fromCard
    BY <1>2, <1>12 DEF Back
  <2>2. Marks(Back') \subseteq {x} /\ Fine(Back')
    <3>1. Marks(commPipe \o fromCard) = {}
      BY <1>4 DEF Back
    <3>2. /\ Marks(Post(commPipe, <<x>>) \o fromCard) \subseteq {x}
          /\ Fine(Post(commPipe, <<x>>) \o fromCard)
      BY <1>1, <3>1, WithinInserted
    <3> QED
      BY <2>1, <3>2
  <2>3. Fits(x)'
    BY <1>5, <1>7, <1>12 DEF Fits
  <2> QED
    BY <1>3, <1>8, <2>2, <2>3 DEF Flight
<1> QED
  BY <1>9, <1>10, <1>11, <1>12

LEMMA CardStepFlight ==
  ASSUME LinkTypes, Flight, CardStep
  PROVE  Flight'
<1> DEFINE m == Head(toCard)
<1>1. /\ toCard \in Seq(IoMsgs) /\ ioPipe \in Seq(IoMsgs) /\ Path \in Seq(IoMsgs)
      /\ commPipe \in Seq(CommMsgs) /\ fromCard \in Seq(CommMsgs) /\ Back \in Seq(CommMsgs)
  BY QueueTypes
<1>2. /\ toCard # <<>> /\ toCard' = Tail(toCard)
      /\ UNCHANGED <<state, xferFile, chunkSize, commPipe, ioPipe>>
  BY DEF CardStep, vars, params
<1>3. m \in CanMsgs /\ Marked(m)
  <2>1. m \in CanMsgs
    BY <1>2, TailIs DEF LinkTypes
  <2> QED
    BY <2>1 DEF CanMsgs, Messages, Marked
<1>4. m \in Marks(Path) /\ (m.type # "ABORT" => Marks(Path') = {}) /\ Within(Path', Path)
  <2>1. Fine(toCard \o ioPipe)
    BY DEF Flight, Path
  <2>2. Path' = Tail(toCard) \o ioPipe
    BY <1>2 DEF Path
  <2> QED
    BY <1>1, <1>2, <1>3, <2>1, <2>2, TakenMark, WithinTaken DEF Path
<1>5. Marks(Back) = {} /\ (m.type # "ABORT" => Fits(m))
  BY <1>4 DEF Flight
<1>6. Fine(Path') /\ Marks(Path') \subseteq Marks(Path)
  BY <1>4, WithinIsFine DEF Flight
<1> HIDE DEF m
\* The card answers the one mark there is.
<1>7. ASSUME NEW r \in CardMsgs, m.type # "ABORT", fromCard' = Append(fromCard, r), Fits(r)'
      PROVE  Flight'
  <2>1. r \in CommMsgs
    BY DEF CommMsgs
  <2>2. Back' = commPipe \o Append(fromCard, r)
    BY <1>2, <1>7 DEF Back
  <2>3. Within(Back', Append(Back, r))
    BY <1>1, <2>1, <2>2, WithinPosted DEF Back
  <2>4. Marks(Back') \subseteq {r} /\ Fine(Back')
    BY <1>1, <1>5, <2>1, <2>3, AppendedMarks
  <2> QED
    BY <1>4, <1>6, <1>7, <2>4 DEF Flight
<1>8. CASE m.type = "BEGIN"
  <2>1. OnBegin(m)
    BY <1>8 DEF CardStep, m
  <2>2. state' = "WAIT_BEGIN_ACK" /\ m.photo = xferFile'
    BY <1>2, <1>5, <1>8 DEF Fits
  <2>3. ASSUME NEW c \in CardChunks, NEW r,
               card' = [open |-> TRUE, photo |-> m.photo, chunk |-> c, armed |-> NoChunk, got |-> <<>>],
               r = [type |-> "BEGIN_ACK", status |-> 0, chunk |-> c], Reply(r)
        PROVE  Flight'
    <3>1. r \in CardMsgs
      BY <2>3, LinkAssumption DEF CardMsgs
    <3>2. r.type = "BEGIN_ACK" /\ r.chunk = c /\ card'.photo = m.photo /\ card'.chunk = c
      BY <2>3
    <3>3. Fits(r)'
      BY <2>2, <3>2 DEF Fits
    <3> QED
      BY <1>7, <1>8, <2>3, <3>1, <3>3 DEF Reply
  <2>4. ASSUME NEW r, r = [type |-> "BEGIN_ACK", status |-> 1, chunk |-> 0], Reply(r)
        PROVE  Flight'
    <3>1. r \in CardMsgs
      BY <2>4, LinkAssumption DEF CardMsgs
    <3>2. r.type = "BEGIN_ACK" /\ r.status = 1
      BY <2>4
    <3>3. Fits(r)'
      BY <2>2, <3>2 DEF Fits
    <3> QED
      BY <1>7, <1>8, <2>4, <3>1, <3>3 DEF Reply
  <2> QED
    BY <2>1, <2>3, <2>4 DEF OnBegin
<1>9. CASE m.type = "CHUNK_READY"
  <2> DEFINE ready == card.open /\ m.idx = Len(card.got) % IdxMod
  <2>0. PICK r : r = [type |-> "CHUNK_ACK", status |-> IF ready THEN 0 ELSE 1, idx |-> m.idx]
    OBVIOUS
  <2>1. Reply(r) /\ card' = IF ready THEN [card EXCEPT !.armed = m.idx] ELSE card
    BY <1>9, <2>0 DEF CardStep, OnChunkReady, m
  <2>2. m.idx \in Index
    BY <1>3, <1>9 DEF CanMsgs, Messages
  <2>3. r \in CardMsgs
    BY <2>0, <2>2 DEF CardMsgs
  <2>4. state' = "WAIT_CHUNK_ACK" /\ (card.open => CardIs)
    BY <1>2, <1>5, <1>9 DEF Fits
  <2>5. card'.photo = card.photo /\ card'.chunk = card.chunk /\ card'.open = card.open
    BY <2>1 DEF LinkTypes, CardTypes
  <2>6. card'.open => CardIs'
    BY <1>2, <2>4, <2>5 DEF CardIs
  <2>7. ready => card'.armed = m.idx /\ card.open
    BY <2>1 DEF LinkTypes, CardTypes
  <2>8. r.type = "CHUNK_ACK" /\ r.idx = m.idx /\ (r.status = 0 => ready)
    BY <2>0
  <2> HIDE DEF ready
  <2>9. Fits(r)'
    BY <2>4, <2>5, <2>6, <2>7, <2>8 DEF Fits
  <2> QED
    BY <1>7, <1>9, <2>1, <2>3, <2>9 DEF Reply
<1>10. CASE m.type = "END"
  <2>0. PICK r : r = [type |-> "RESULT", status |-> IF CardHolds(card.photo) THEN 0 ELSE 1,
                      photo |-> card.photo]
    OBVIOUS
  <2>1. Reply(r) /\ card' = IdleCard
    BY <1>10, <2>0 DEF CardStep, OnEnd, m
  <2>2. r \in CardMsgs
    BY <2>0 DEF LinkTypes, CardTypes, CardMsgs
  <2>3. state' = "WAIT_RESULT" /\ (card.open => CardIs)
    BY <1>2, <1>5, <1>10 DEF Fits
  <2>4. r.type = "RESULT" /\ r.photo = card.photo /\ (r.status = 0 => card.open)
    BY <2>0 DEF CardHolds
  <2>5. Fits(r)'
    BY <1>2, <2>3, <2>4 DEF Fits, CardIs
  <2> QED
    BY <1>7, <1>10, <2>1, <2>2, <2>5 DEF Reply
<1>11. CASE m.type = "ABORT"
  <2>1. UNCHANGED fromCard
    BY <1>11 DEF CardStep, m
  <2>2. Back' = Back
    BY <1>2, <2>1 DEF Back
  \* Behind an ABORT there can only be a BEGIN, which no card refutes.
  <2>3. \A n \in Marks(Path') : n.type \in {"ABORT", "BEGIN"}
    BY <1>1, <1>2, <1>11, BehindAbort DEF Flight, Path, m
  <2>4. \A n : n.type = "BEGIN" /\ Fits(n) => Fits(n)'
    BY <1>2 DEF Fits
  <2>5. \A n \in Marks(Path') : n.type # "ABORT" => Fits(n)'
    BY <1>6, <2>3, <2>4 DEF Flight
  <2>6. Fine(Back') /\ Marks(Back') = {}
    BY <1>5, <2>2 DEF Flight
  <2> QED
    BY <1>6, <2>5, <2>6 DEF Flight
<1> QED
  BY <1>8, <1>9, <1>10, <1>11 DEF CardStep, m

LEMMA OthersFlight ==
  ASSUME LinkTypes, Flight, CardRequests \/ LoseFromCard \/ DsCompletes \/ WakeIo
  PROVE  Flight'
<1>1. /\ toCard \in Seq(IoMsgs) /\ ioPipe \in Seq(IoMsgs) /\ Path \in Seq(IoMsgs)
      /\ commPipe \in Seq(CommMsgs) /\ fromCard \in Seq(CommMsgs) /\ Back \in Seq(CommMsgs)
  BY QueueTypes
<1>2. UNCHANGED <<state, xferFile, chunkSize, card>>
  BY DEF CardRequests, LoseFromCard, DsCompletes, WakeIo, vars, params
<1>3. CASE CardRequests
  <2> DEFINE r == [type |-> "IMG_REQUEST"]
  <2>1. r \in CommMsgs /\ ~ Marked(r)
    BY DEF CommMsgs, CardMsgs, Marked
  <2>2. UNCHANGED Path /\ Back' = commPipe \o Append(fromCard, r)
    BY <1>3 DEF CardRequests, Reply, Path, Back
  <2> HIDE DEF r
  <2>3. Within(Back', Append(Back, r))
    BY <1>1, <2>1, <2>2, WithinPosted DEF Back
  <2>4. Within(Back', Back)
    BY <1>1, <2>1, <2>3, WithinUnmarked
  <2> QED
    BY <1>1, <1>2, <2>2, <2>4, WithinItself, FlightKept
<1>4. CASE LoseFromCard
  <2>1. UNCHANGED Path /\ fromCard # <<>> /\ Back' = commPipe \o Tail(fromCard)
    BY <1>4 DEF LoseFromCard, Path, Back
  <2>2. Within(Back', Back)
    BY <1>1, <2>1, WithinMoved DEF Back
  <2> QED
    BY <1>1, <1>2, <2>1, <2>2, WithinItself, FlightKept
<1>5. CASE DsCompletes
  <2>1. PICK f \in Photos : commPipe' = Post(commPipe, <<[type |-> "DS_COMP", file |-> f]>>)
    BY <1>5 DEF DsCompletes
  <2> DEFINE r == [type |-> "DS_COMP", file |-> f]
  <2>2. r \in CommMsgs /\ ~ Marked(r)
    BY DEF CommMsgs, Marked
  <2>3. UNCHANGED Path /\ Back' = Post(commPipe, <<r>>) \o fromCard
    BY <1>5, <2>1 DEF DsCompletes, Path, Back
  <2> HIDE DEF r
  <2>4. Within(Back', Back)
    BY <1>1, <2>2, <2>3, WithinInserted DEF Back
  <2> QED
    BY <1>1, <1>2, <2>3, <2>4, WithinItself, FlightKept
<1>6. CASE WakeIo
  <2>1. PICK t \in {"SEND_HEARTBEAT", "SEND_HK"} :
          ioPipe' = ioPipe \/ ioPipe' = Post(ioPipe, <<[type |-> t]>>)
    BY <1>6 DEF WakeIo, PostIo
  <2> DEFINE r == [type |-> t]
  <2>2. r \in IoMsgs /\ ~ Marked(r)
    BY DEF IoMsgs, Marked
  <2>3. UNCHANGED Back /\ (Path' = Path \/ Path' = toCard \o Post(ioPipe, <<r>>))
    BY <1>6, <2>1 DEF WakeIo, Path, Back
  <2> HIDE DEF r
  <2>4. Within(Path', Path)
    <3>1. CASE Path' = Path
      BY <1>1, <3>1, WithinItself
    <3>2. CASE Path' = toCard \o Post(ioPipe, <<r>>)
      <4>1. Within(Path', Append(Path, r))
        BY <1>1, <2>2, <3>2, WithinPosted DEF Path
      <4> QED
        BY <1>1, <2>2, <4>1, WithinUnmarked
    <3> QED
      BY <2>3, <3>1, <3>2
  <2> QED
    BY <1>1, <1>2, <2>3, <2>4, WithinItself, FlightKept
<1> QED
  BY <1>3, <1>4, <1>5, <1>6

\* Only the card puts messages into its queue, and it is asked nothing.
LEMMA UnansweredNext ==
  ASSUME LinkTypes, Unanswered, LinkNext
  PROVE  Unanswered'
<1> SUFFICES ASSUME ~ CANIOMC_runs'
             PROVE  ioPipe' = <<>> /\ toCard' = <<>> /\ Marks(fromCard') = {}
  BY DEF Unanswered
<1>1. UNCHANGED drivers
  BY DEF LinkNext, Work, CommStep, CommTick, IoSendCan, IoBeat, CANIOMC_APP_SEND_HEARTBEAT,
         CANIOMC_APP_SEND_HK_TO_SB, IoOther, IoPoll, IoSpiTx, CardStep, CardRequests,
         LoseFromCard, DsCompletes, WakeIo, Rest, linkVars
<1>2. ~ CANIOMC_runs /\ ioPipe = <<>> /\ toCard = <<>> /\ Marks(fromCard) = {}
  BY <1>1 DEF CANIOMC_runs, Unanswered
<1>3. fromCard \in Seq(CommMsgs)
  BY QueueTypes
<1>4. CASE CommStep \/ CommTick
  BY <1>2, <1>4 DEF CommStep, CommTick, PostSent, PostIo
<1>5. CASE CardRequests
  <2> DEFINE r == [type |-> "IMG_REQUEST"]
  <2>1. r \in CommMsgs /\ ~ Marked(r)
    BY DEF CommMsgs, CardMsgs, Marked
  <2>2. fromCard' = Append(fromCard, r) /\ ioPipe' = ioPipe /\ toCard' = toCard
    BY <1>5 DEF CardRequests, Reply
  <2> HIDE DEF r
  <2>3. fromCard' \in Seq(CommMsgs)
    BY <1>3, <2>1, <2>2, AppendIs
  <2>4. Within(fromCard', fromCard)
    BY <1>3, <2>1, <2>2, <2>3, WithinItself, WithinUnmarked
  <2> QED
    BY <1>2, <2>2, <2>4, WithinIsFine
<1>6. CASE LoseFromCard
  <2>1. fromCard # <<>> /\ fromCard' = Tail(fromCard) /\ ioPipe' = ioPipe /\ toCard' = toCard
    BY <1>6 DEF LoseFromCard
  <2>2. \A i \in DOMAIN Tail(fromCard) : i + 1 \in DOMAIN fromCard /\ Tail(fromCard)[i] = fromCard[i + 1]
    BY <1>3, <2>1, TailIs
  <2>3. Marks(Tail(fromCard)) \subseteq Marks(fromCard)
    BY <2>2 DEF Marks, Places
  <2> QED
    BY <1>2, <2>1, <2>3
<1>7. CASE DsCompletes \/ WakeIo \/ Rest
  BY <1>2, <1>7 DEF DsCompletes, WakeIo, PostIo, Rest, linkVars
<1>8. ~ (IoSendCan \/ IoBeat \/ IoPoll \/ IoSpiTx \/ CardStep)
  BY <1>2 DEF IoSendCan, IoBeat, CANIOMC_APP_SEND_HEARTBEAT, CANIOMC_APP_SEND_HK_TO_SB,
              IoOther, IoPoll, IoSpiTx, CardStep
<1> QED
  BY <1>4, <1>5, <1>6, <1>7, <1>8 DEF LinkNext, Work

LEMMA LinkInvInit == LinkInit => LinkInv
<1> SUFFICES ASSUME LinkInit PROVE LinkInv
  OBVIOUS
<1>1. Marks(<<>>) = {} /\ Fine(<<>>)
  BY DEF Marks, Places, Fine
<1>2. Path = <<>> /\ Back = <<>> /\ ioPipe = <<>> /\ toCard = <<>> /\ fromCard = <<>>
  BY DEF LinkInit, Path, Back
<1>3. LinkTypes
  BY LinkTypesInit
<1> QED
  BY <1>1, <1>2, <1>3 DEF LinkInv, Unanswered, Flight

LEMMA LinkInvNext ==
  ASSUME LinkInv, [LinkNext]_linkVars
  PROVE  LinkInv'
<1>1. LinkTypes'
  BY LinkTypesNext DEF LinkInv
<1>2. CASE UNCHANGED linkVars
  <2>1. UNCHANGED <<state, xferFile, chunkSize, card, late, drivers, Path, Back,
                    ioPipe, toCard, fromCard>>
    BY <1>2 DEF linkVars, vars, params, hist, Path, Back
  <2>2. Unanswered'
    BY <2>1 DEF LinkInv, Unanswered, CANIOMC_runs
  <2>3. ~ late => Within(Path', Path) /\ Within(Back', Back)
    <3>1. Path \in Seq(IoMsgs) /\ Back \in Seq(CommMsgs)
      BY QueueTypes DEF LinkInv
    <3> QED
      BY <2>1, <3>1, WithinItself
  <2>4. ~ late' => Flight'
    BY <2>1, <2>3, FlightKept DEF LinkInv
  <2> QED
    BY <1>1, <2>2, <2>4 DEF LinkInv
<1>3. CASE LinkNext
  <2>1. Unanswered'
    BY <1>3, UnansweredNext DEF LinkInv
  <2>2. CASE CommTick
    BY <1>1, <2>1, <2>2, CommTickFlight DEF LinkInv
  <2>3. CASE ~ CommTick /\ ~ Rest
    <3>1. UNCHANGED late
      BY <1>3, <2>3
      DEF LinkNext, Work, CommStep, IoSendCan, IoBeat, CANIOMC_APP_SEND_HEARTBEAT,
          CANIOMC_APP_SEND_HK_TO_SB, IoOther, IoPoll, IoSpiTx, CardStep, CardRequests,
          LoseFromCard, DsCompletes, WakeIo, hist
    <3>2. ~ late => Flight'
      BY <1>3, <2>3, CommStepFlight, IoFlight, IoSpiTxFlight, CardStepFlight, OthersFlight
      DEF LinkInv, LinkNext, Work
    <3> QED
      BY <1>1, <2>1, <3>1, <3>2 DEF LinkInv
  <2> QED
    BY <1>2, <2>2, <2>3 DEF Rest
<1> QED
  BY <1>2, <1>3

LEMMA LinkInvariance == LinkSpec => []LinkInv
BY LinkInvInit, LinkInvNext, PTL DEF LinkSpec

\* With a card whose chunk sizes COMMMC can adopt, and that answers in time, a slice is
\* clocked out only to a card armed for it, of that photo and of the size COMMMC cuts.
THEOREM SlicesAgreed ==
  ASSUME CardChunks \subseteq 1 .. MaxChunk
  PROVE  LinkSpec => []SidesAgree
<1>1. LinkInv => SidesAgree
  <2> SUFFICES ASSUME LinkInv, ~ late, NEW i \in DOMAIN ioPipe, ioPipe[i].type = "SPI_TX"
               PROVE  /\ card.armed = ioPipe[i].idx
                      /\ card.photo = ioPipe[i].photo
                      /\ card.chunk = chunkSize
    BY DEF SidesAgree
  <2>1. toCard \in Seq(IoMsgs) /\ ioPipe \in Seq(IoMsgs)
    BY QueueTypes DEF LinkInv
  <2>2. Len(toCard) + i \in DOMAIN Path /\ Path[Len(toCard) + i] = ioPipe[i]
    BY <2>1 DEF Path
  <2>3. ioPipe[i] \in Marks(Path)
    BY <2>2 DEF Marks, Places, Marked
  <2>4. Fits(ioPipe[i])
    BY <2>3 DEF LinkInv, Flight
  <2> QED
    BY <2>4 DEF Fits, CardIs, Usable
<1> QED
  BY <1>1, LinkInvariance, PTL

\* While the card answers in time, only the verdict on the photo that was sent counts as
\* a success.
THEOREM VerdictIsThisPhotos == LinkSpec => SuccessIsThisPhotos
<1> DEFINE Step == ~ late /\ okCount' # okCount => Head(commPipe).photo = xferFile
<1>1. LinkInv /\ [LinkNext]_linkVars => Step
  <2> SUFFICES ASSUME LinkInv, [LinkNext]_linkVars, ~ late, okCount' # okCount
               PROVE  Head(commPipe).photo = xferFile
    OBVIOUS
  <2>1. ~ UNCHANGED vars
    BY DEF vars, counters
  <2>2. CommStep \/ CommTick
    BY <2>1 DEF LinkNext, Work, IoSendCan, IoBeat, CANIOMC_APP_SEND_HEARTBEAT,
          CANIOMC_APP_SEND_HK_TO_SB, IoOther, IoPoll, IoSpiTx, CardStep, CardRequests,
          LoseFromCard, DsCompletes, WakeIo, Rest, linkVars
  <2>3. ~ CommTick
    BY TickDoes DEF CommTick
  <2> DEFINE m == Head(commPipe)
  <2>4. /\ commPipe \in Seq(CommMsgs) /\ fromCard \in Seq(CommMsgs) /\ commPipe # <<>>
        /\ m \in CommMsgs /\ Handled(m)
    <3>1. commPipe \in Seq(CommMsgs) /\ fromCard \in Seq(CommMsgs) /\ commPipe # <<>>
      BY <2>2, <2>3, QueueTypes DEF LinkInv, CommStep
    <3>2. m \in CommMsgs
      BY <3>1, TailIs
    <3> QED
      BY <2>2, <2>3, <3>1, <3>2, HandlerDoes DEF LinkInv, LinkTypes, CommStep
  <2> HIDE DEF m
  <2>5. m.type = "RESULT" /\ m.status = 0
    BY <2>4 DEF Handled, Stays, Ends, Starts, Accepted, Hands, GoesOn
  <2>6. m \in Marks(Back)
    <3>1. Fine(commPipe \o fromCard) /\ Marked(m)
      BY <2>5 DEF LinkInv, Flight, Back, Marked
    <3> QED
      BY <2>4, <3>1, TakenMark DEF Back, m
  <2>7. Fits(m)
    BY <2>5, <2>6 DEF LinkInv, Flight
  <2>8. m.photo = xferFile
    BY <2>5, <2>7 DEF Fits
  <2> QED
    BY <2>8 DEF m
<1>2. LinkInv /\ [LinkNext]_linkVars => [Step]_linkVars
  BY <1>1
<1> QED
  BY <1>2, LinkInvariance, PTL DEF LinkSpec, SuccessIsThisPhotos


-----------------------------------------------------------------------------
(***************************************************************************)
(* COMMMC's clock: ImgXferIdle.  The seconds without an answer are at      *)
(* least those of the receive timeouts counted since, and of the current   *)
(* wait.                                                                   *)
(***************************************************************************)
ClockTypes == idle \in 0 .. SBTimeout /\ waited \in Nat

Patient ==
  state \in Active => waited > WaitLimit \/ waited >= stuckTicks * SBTimeout + idle

IdleInv == IInv /\ ClockTypes /\ Patient

\* Where the wait starts afresh and the transfer gets an answer or goes on as it was.
LEMMA FreshWait ==
  ASSUME ClockTypes, Patient, idle' = 0, TypeOK,
         \/ waited' = 0 /\ (state' \in Active => stuckTicks' = 0)
         \/ waited' = waited /\ (state' \in Active => state \in Active /\ stuckTicks' = stuckTicks)
  PROVE  ClockTypes' /\ Patient'
<1>1. SBTimeout \in Nat \ {0} /\ waited \in Nat /\ idle \in Nat /\ WaitLimit \in Nat
  BY ClockAssumption DEF ClockTypes
<1>2. stuckTicks \in Nat
  BY WidthsAssumption DEF TypeOK
<1>3. stuckTicks * SBTimeout \in Nat /\ 0 * SBTimeout = 0
  BY <1>1, <1>2, Successor, ZeroTimes
<1>4. ClockTypes'
  BY <1>1 DEF ClockTypes
<1>5. ASSUME state' \in Active
      PROVE  waited' > WaitLimit \/ waited' >= stuckTicks' * SBTimeout + idle'
  <2>1. CASE waited' = 0 /\ stuckTicks' = 0
    BY <1>1, <1>3, <2>1
  <2>2. CASE waited' = waited /\ state \in Active /\ stuckTicks' = stuckTicks
    <3>1. waited > WaitLimit \/ waited >= stuckTicks * SBTimeout + idle
      BY <2>2 DEF Patient
    <3>2. stuckTicks' * SBTimeout = stuckTicks * SBTimeout
      BY <2>2
    <3>3. PICK n \in Nat : n = stuckTicks * SBTimeout
      BY <1>3
    <3> QED
      BY <1>1, <2>2, <3>1, <3>2, <3>3
  <2> QED
    BY <1>5, <2>1, <2>2
<1> QED
  BY <1>4, <1>5 DEF Patient

\* What the transfer's steps are to ImgXfer, and to the guard.
LEMMA TransferIs ==
  ASSUME IInv, NewPhoto \/ Request \/ Answer \/ Retry
  PROVE  /\ Next
         /\ \/ waited' = 0 /\ (state' \in Active => stuckTicks' = 0)
            \/ waited' = waited /\ (state' \in Active => state \in Active /\ stuckTicks' = stuckTicks)
<1>1. curChunk % IdxMod \in Index
  BY IndexCast DEF IInv, TypeOK
<1>2. CASE NewPhoto
  BY <1>2 DEF NewPhoto, OnDsFileComplete, Next
<1>3. CASE Request
  BY <1>3 DEF Request, StartTransfer, OnRequest, Next
<1>4. CASE Retry
  BY <1>4 DEF Retry, OnRequest, StartTransfer, Ignore, Next
<1>5. CASE Answer
  <2>1. ASSUME state = "WAIT_BEGIN_ACK", NEW chunk \in AckChunks, OnBeginAck(FALSE, 0, chunk)
        PROVE  Next /\ (state' \in Active => stuckTicks' = 0)
    BY <2>1 DEF OnBeginAck, Next
  <2>2. ASSUME state = "WAIT_CHUNK_ACK", OnChunkAck(FALSE, 0, curChunk % IdxMod)
        PROVE  Next /\ (state' \in Active => stuckTicks' = 0)
    BY <1>1, <2>2 DEF OnChunkAck, Abort, Close, Active, Next
  <2>3. ASSUME state = "WAIT_SPI_DONE", OnSpiDone(0, curChunk % IdxMod)
        PROVE  Next /\ (state' \in Active => stuckTicks' = 0)
    BY <1>1, <2>3 DEF OnSpiDone, Next
  <2>4. ASSUME state = "WAIT_RESULT", OnResult(0)
        PROVE  Next /\ (state' \in Active => stuckTicks' = 0)
    BY <2>4 DEF OnResult, Close, Active, Next
  <2> QED
    BY <1>5, <2>1, <2>2, <2>3, <2>4 DEF Answer
<1> QED
  BY <1>2, <1>3, <1>4, <1>5

\* A receive that times out has waited SBTimeout seconds.
LEMMA TimeoutWaits ==
  ASSUME TypeOK, ClockTypes, Patient, Timeout, state \in Active
  PROVE  waited > WaitLimit \/ waited >= (stuckTicks + 1) * SBTimeout
<1>1. SBTimeout \in Nat /\ waited \in Nat /\ stuckTicks \in Nat /\ idle = SBTimeout
  BY ClockAssumption, WidthsAssumption DEF ClockTypes, TypeOK, Timeout
<1>2. /\ (stuckTicks + 1) * SBTimeout = stuckTicks * SBTimeout + SBTimeout
      /\ stuckTicks * SBTimeout \in Nat
  BY <1>1, Successor
<1> QED
  BY <1>1, <1>2 DEF Patient

LEMMA TimeoutPatient ==
  ASSUME IdleInv, Timeout
  PROVE  ClockTypes' /\ Patient'
<1>1. TypeOK /\ SBTimeout \in Nat \ {0} /\ waited \in Nat /\ waited' = waited /\ idle' = 0
  BY ClockAssumption DEF IdleInv, IInv, ClockTypes, Timeout
<1>2. ClockTypes'
  BY <1>1 DEF ClockTypes
<1>3. ASSUME state' \in Active
      PROVE  waited' > WaitLimit \/ waited' >= stuckTicks' * SBTimeout + idle'
  <2>1. state \in Active /\ stuckTicks' = stuckTicks + 1
    BY <1>1, <1>3 DEF Timeout, OnTick, Ignore, TypeOK, States, Active
  <2>2. waited > WaitLimit \/ waited >= (stuckTicks + 1) * SBTimeout
    BY <1>1, <2>1, TimeoutWaits DEF IdleInv
  <2>3. (stuckTicks + 1) * SBTimeout \in Nat
    BY <1>1, <2>1, Successor, WidthsAssumption DEF TypeOK
  <2>4. PICK n \in Nat : n = (stuckTicks + 1) * SBTimeout
    BY <2>3
  <2>5. stuckTicks' * SBTimeout + idle' = n
    BY <1>1, <2>1, <2>4
  <2> QED
    BY <1>1, <2>2, <2>4, <2>5
<1> QED
  BY <1>2, <1>3 DEF Patient

LEMMA ClockPatient ==
  ASSUME IdleInv, Clock
  PROVE  ClockTypes' /\ Patient'
<1>1. /\ SBTimeout \in Nat /\ WaitLimit \in Nat /\ waited \in Nat /\ idle \in 0 .. SBTimeout
      /\ stuckTicks \in Nat
  BY ClockAssumption, WidthsAssumption DEF IdleInv, ClockTypes, IInv, TypeOK
<1>2. /\ idle' = idle + 1 /\ idle < SBTimeout
      /\ waited' = IF state = "IDLE" THEN 0
                   ELSE IF waited <= WaitLimit THEN waited + 1 ELSE waited
      /\ state' = state /\ stuckTicks' = stuckTicks
  BY DEF Clock, vars
<1>3. ClockTypes'
  BY <1>1, <1>2 DEF ClockTypes
<1>4. PICK n \in Nat : n = stuckTicks * SBTimeout
  BY <1>1, Successor
<1>5. stuckTicks' * SBTimeout = n
  BY <1>2, <1>4
<1>6. state \in Active => state # "IDLE" /\ (waited > WaitLimit \/ waited >= n + idle)
  BY <1>4 DEF IdleInv, Patient, Active
<1>7. state' \in Active => waited' > WaitLimit \/ waited' >= n + idle'
  BY <1>1, <1>2, <1>6
<1> QED
  BY <1>3, <1>5, <1>7 DEF Patient

LEMMA IdleInvInit == IdleInit => IdleInv
<1>1. IdleInit => ClockTypes /\ Patient
  BY ClockAssumption DEF IdleInit, Init, ClockTypes, Patient, Active
<1> QED
  BY <1>1, InitIInv DEF IdleInit, IdleInv

LEMMA IdleInvNext ==
  IdleInv /\ [IdleNext]_idleVars => [Next]_vars /\ IdleInv'
<1> SUFFICES ASSUME IdleInv, [IdleNext]_idleVars PROVE [Next]_vars /\ IdleInv'
  OBVIOUS
<1>1. IInv /\ TypeOK /\ ClockTypes /\ Patient
  BY DEF IdleInv, IInv
<1>2. ASSUME UNCHANGED vars, idle' = 0, waited' = waited PROVE [Next]_vars /\ IdleInv'
  <2>1. ClockTypes' /\ Patient'
    BY <1>1, <1>2, FreshWait DEF vars
  <2> QED
    BY <1>1, <1>2, <2>1, NextIInv DEF IdleInv
<1>3. ASSUME UNCHANGED vars, idle' = idle, waited' = waited PROVE [Next]_vars /\ IdleInv'
  <2>1. ClockTypes' /\ Patient'
    BY <1>1, <1>3 DEF vars, ClockTypes, Patient
  <2> QED
    BY <1>1, <1>3, <2>1, NextIInv DEF IdleInv
<1>4. CASE WakeUps
  BY <1>2, <1>3, <1>4 DEF WakeUps, OnWakeUps, Receive
<1>5. CASE TlmDue \/ Stray
  BY <1>2, <1>5 DEF TlmDue, Stray, Receive
<1>6. CASE Transfer
  <2>1. idle' = 0 /\ (NewPhoto \/ Request \/ Answer \/ Retry)
    BY <1>6 DEF Transfer, Receive
  <2>2. Next
    BY <1>1, <2>1, TransferIs
  <2>3. \/ waited' = 0 /\ (state' \in Active => stuckTicks' = 0)
        \/ waited' = waited /\ (state' \in Active => state \in Active /\ stuckTicks' = stuckTicks)
    BY <1>1, <2>1, TransferIs
  <2>4. ClockTypes' /\ Patient'
    BY <1>1, <2>1, <2>3, FreshWait
  <2> QED
    BY <1>1, <2>2, <2>4, NextIInv DEF IdleInv
<1>7. CASE Timeout
  <2>1. Next
    BY <1>7 DEF Timeout, Next
  <2> QED
    BY <1>1, <1>7, <2>1, TimeoutPatient, NextIInv DEF IdleInv
<1>8. CASE Clock
  <2>1. UNCHANGED vars
    BY <1>8 DEF Clock
  <2> QED
    BY <1>1, <1>8, <2>1, ClockPatient, NextIInv DEF IdleInv
<1>9. CASE UNCHANGED idleVars
  BY <1>3, <1>9 DEF idleVars
<1> QED
  BY <1>4, <1>5, <1>6, <1>7, <1>8, <1>9 DEF IdleNext

LEMMA IdleInvariance == IdleSpec => []IdleInv
<1>1. IdleInv /\ [IdleNext]_idleVars => IdleInv'
  BY IdleInvNext
<1> QED
  BY <1>1, IdleInvInit, PTL DEF IdleSpec

\* Under COMMMC's clock, with all that arrives on its own, the state machine takes no
\* step ImgXfer does not allow either.
THEOREM IdleImplementsImgXfer == IdleSpec => Spec
<1>1. IdleInit => Init
  BY DEF IdleInit
<1>2. IdleInv /\ [IdleNext]_idleVars => [Next]_vars
  BY IdleInvNext
<1> QED
  BY <1>1, <1>2, IdleInvariance, PTL DEF IdleSpec, Spec

\* The guard gives the card the time it promises: MaxStuckTicks receive timeouts
\* without an answer, for any schedule, lag, delays and stray messages
\* (COMMMC_ImgXferOnTick, and every place that resets XferStuckTicks).
THEOREM GuardIsPatient == IdleSpec => NotAbortedEarly
<1> DEFINE Early ==
             Timeout /\ state \in Active /\ state' = "IDLE" =>
               waited >= MaxStuckTicks * SBTimeout \/ waited > WaitLimit
<1>1. IdleInv => Early
  <2> SUFFICES ASSUME IdleInv, Timeout, state \in Active, state' = "IDLE"
               PROVE  waited >= MaxStuckTicks * SBTimeout \/ waited > WaitLimit
    OBVIOUS
  <2>1. TypeOK /\ ClockTypes /\ Patient
    BY DEF IdleInv, IInv
  <2>2. stuckTicks \in Nat /\ MaxStuckTicks \in Nat /\ SBTimeout \in Nat /\ waited \in Nat
    BY <2>1, WidthsAssumption, ClockAssumption DEF TypeOK, ClockTypes
  <2>3. MaxStuckTicks <= stuckTicks + 1
    BY <2>2 DEF Timeout, OnTick, Active
  <2>4. MaxStuckTicks * SBTimeout <= (stuckTicks + 1) * SBTimeout
    BY <2>2, <2>3, Monotone
  <2>5. MaxStuckTicks * SBTimeout \in Nat /\ (stuckTicks + 1) * SBTimeout \in Nat
    BY <2>2, Successor
  <2>6. waited > WaitLimit \/ waited >= (stuckTicks + 1) * SBTimeout
    BY <2>1, TimeoutWaits
  <2> QED
    BY <2>2, <2>4, <2>5, <2>6
<1>2. IdleInv => [Early]_idleVars
  BY <1>1
<1> QED
  BY <1>2, IdleInvariance, PTL DEF IdleSpec, NotAbortedEarly
=============================================================================
