--------------------------- MODULE CanSegmentation --------------------------
(***************************************************************************)
(* CANIOMC's segmentation and reassembly engine (canIOMC_segmentation.c)   *)
(* on the shared CAN bus.                                                  *)
(*                                                                         *)
(* A stream is one (sender, receiver, message id).  Its node cuts each     *)
(* message into frames the way CANIO_SendSegmented does and the bus keeps  *)
(* a stream's frames in order, while the frames of different streams       *)
(* interleave freely.  A frame can be lost, and a node can stop half way   *)
(* through a message: a failed CANIO_HAL_Send, a reset.  CANIOMC feeds     *)
(* every frame to CANIO_FeedFrame; messages for other nodes are dropped    *)
(* only once they are reassembled, so they too use slots.                  *)
(*                                                                         *)
(* A frame's eight bytes are represented by the message it belongs to and  *)
(* its place in it; buffers are counted in frames.                         *)
(***************************************************************************)
EXTENDS Integers, Sequences, FiniteSets

CONSTANTS
  Streams,
  FramesOf,   \* frames in a message of each stream: its length, divided by 8
  NumSlots,   \* CANIO_MAX_REASSEMBLY_SLOTS
  BufFrames,  \* CANIO_REASSEMBLY_BUF_SIZE / 8
  NoStream,   \* the stream of a slot never used
  MsgMod,     \* bound: messages of a stream are told apart modulo this
  MaxBurst    \* the longest run of frames a stream loses

ASSUME SegmentationAssumption ==
  /\ IsFiniteSet(Streams)
  /\ FramesOf \in [Streams -> Nat \ {0}]
  /\ NumSlots \in Nat \ {0}
  /\ BufFrames \in Nat \ {0}
  /\ NoStream \notin Streams
  /\ MsgMod \in Nat \ {0, 1}
  /\ MaxBurst \in Nat

VARIABLES
  slots,   \* RxSlots
  result,  \* what the last CANIO_FeedFrame returned
  msg,     \* the message each stream's node is sending
  next,    \* the number of its next frame
  burst,   \* frames the stream has just lost in a row
  intact   \* history: has every frame sent of the message so far arrived and been taken?

txVars == <<msg, next, burst, intact>>
vars   == <<slots, result, txVars>>

Slots    == 1 .. NumSlots
FreeSlot == [active |-> FALSE, stream |-> NoStream, buf |-> <<>>]

Pending    == [status |-> "PENDING", stream |-> NoStream, buf |-> <<>>]
NoSlot     == [status |-> "NO_SLOT", stream |-> NoStream, buf |-> <<>>]
Overflow   == [status |-> "OVERFLOW", stream |-> NoStream, buf |-> <<>>]
Done(s, b) == [status |-> "SUCCESS", stream |-> s, buf |-> b]

Init ==
  /\ slots = [i \in Slots |-> FreeSlot]
  /\ result = Pending
  /\ msg = [s \in Streams |-> 0]
  /\ next = [s \in Streams |-> 1]
  /\ burst = [s \in Streams |-> 0]
  /\ intact = [s \in Streams |-> TRUE]

-----------------------------------------------------------------------------
(***************************************************************************)
(* Sending: CANIO_SendSegmented.                                           *)
(***************************************************************************)
SeqType(k, n) ==
  CASE n = 1 -> "SINGLE"
    [] n > 1 /\ k = 1 -> "FIRST"
    [] n > 1 /\ k = n -> "LAST"
    [] OTHER -> "CONT"

Part(m, k)     == [msg |-> m, k |-> k]
NextFrame(s)   == [stream |-> s, type |-> SeqType(next[s], FramesOf[s]),
                   part |-> Part(msg[s], next[s])]
WholeMsg(s, m) == [k \in 1 .. FramesOf[s] |-> Part(m, k)]

NextMessage(s) ==
  /\ msg' = [msg EXCEPT ![s] = (@ + 1) % MsgMod]
  /\ next' = [next EXCEPT ![s] = 1]

\* After its last frame the node goes on to its next message.
Advance(s) ==
  IF next[s] = FramesOf[s] THEN NextMessage(s)
  ELSE next' = [next EXCEPT ![s] = @ + 1] /\ UNCHANGED msg

-----------------------------------------------------------------------------
(***************************************************************************)
(* Receiving: CANIO_FeedFrame.                                             *)
(***************************************************************************)
Lowest(S) == CHOOSE i \in S : \A j \in S : i <= j

\* Mutant: any slot in use will do.
HoldingAny(s) == {i \in Slots : slots[i].active}

Holding(s) == {i \in Slots : slots[i].active /\ slots[i].stream = s}
Idle       == {i \in Slots : ~ slots[i].active}
Fits(i)    == Len(slots[i].buf) + 1 <= BufFrames

\* Mutant: the end of the buffer is not looked at.
AppendAlways(i, part) == [slots EXCEPT ![i].buf = Append(@, part)]

\* AppendToSlot: what does not fit is left out.
AppendTo(i, part) ==
  IF Fits(i) THEN [slots EXCEPT ![i].buf = Append(@, part)] ELSE slots

\* Mutants: a slot left over is kept beside the new one; it is carried on with.
FeedFirstKeeping(f) ==
  IF Idle = {}
  THEN result' = NoSlot /\ UNCHANGED slots
  ELSE /\ slots' = [slots EXCEPT ![Lowest(Idle)] =
                       [active |-> TRUE, stream |-> f.stream, buf |-> <<f.part>>]]
       /\ result' = Pending
FeedFirstResuming(f) ==
  IF Holding(f.stream) # {}
  THEN slots' = AppendTo(Lowest(Holding(f.stream)), f.part) /\ result' = Pending
  ELSE FeedFirstKeeping(f)

\* A slot left over from an earlier message of the stream is discarded first,
\* so the search for a free one may find it again.
FeedFirst(f) ==
  LET stale == Holding(f.stream)
      freed == IF stale = {} THEN slots
               ELSE [slots EXCEPT ![Lowest(stale)].active = FALSE]
      idle  == {i \in Slots : ~ freed[i].active}
  IN IF idle = {}
     THEN slots' = freed /\ result' = NoSlot
     ELSE /\ slots' = [freed EXCEPT ![Lowest(idle)] =
                         [active |-> TRUE, stream |-> f.stream, buf |-> <<f.part>>]]
          /\ result' = Pending

\* The continuation's sequence count is stored in the slot and never looked at,
\* and whether it fitted is not looked at either.
FeedCont(f) ==
  LET held == Holding(f.stream) IN
  /\ slots' = IF held = {} THEN slots ELSE AppendTo(Lowest(held), f.part)
  /\ result' = Pending

\* Mutant: the slot is given back only when the message is returned.
FeedLastHolding(f) ==
  LET held == Holding(f.stream)
      i    == Lowest(held)
  IN IF held = {} \/ ~ Fits(i)
     THEN result' = (IF held = {} THEN Pending ELSE Overflow) /\ UNCHANGED slots
     ELSE /\ slots' = [slots EXCEPT ![i].active = FALSE]
          /\ result' = Done(f.stream, Append(slots[i].buf, f.part))

FeedLast(f) ==
  LET held == Holding(f.stream)
      i    == Lowest(held)
  IN IF held = {}
     THEN result' = Pending /\ UNCHANGED slots
     ELSE /\ slots' = [AppendTo(i, f.part) EXCEPT ![i].active = FALSE]
          /\ result' = IF Fits(i) THEN Done(f.stream, Append(slots[i].buf, f.part))
                       ELSE Overflow

FeedFrame(f) ==
  \/ f.type = "SINGLE" /\ result' = Done(f.stream, <<f.part>>) /\ UNCHANGED slots
  \/ f.type = "FIRST"  /\ FeedFirst(f)
  \/ f.type = "CONT"   /\ FeedCont(f)
  \/ f.type = "LAST"   /\ FeedLast(f)

-----------------------------------------------------------------------------
\* The stream's next frame arrives at CANIOMC.
Arrive(s) ==
  /\ FeedFrame(NextFrame(s))
  /\ Advance(s)
  /\ burst' = [burst EXCEPT ![s] = 0]
  /\ intact' = [intact EXCEPT ![s] = next'[s] = 1 \/ (@ /\ result'.status # "NO_SLOT")]

\* The frame is lost on its way.
Lose(s) ==
  /\ burst[s] < MaxBurst
  /\ Advance(s)
  /\ burst' = [burst EXCEPT ![s] = @ + 1]
  /\ intact' = [intact EXCEPT ![s] = next'[s] = 1]
  /\ result' = Pending
  /\ UNCHANGED slots

\* The node sends nothing more of this message.
StopShort(s) ==
  /\ next[s] > 1
  /\ burst[s] < MaxBurst
  /\ NextMessage(s)
  /\ burst' = [burst EXCEPT ![s] = @ + 1]
  /\ intact' = [intact EXCEPT ![s] = TRUE]
  /\ result' = Pending
  /\ UNCHANGED slots

Next == \E s \in Streams : Arrive(s) \/ Lose(s) \/ StopShort(s)

Spec == Init /\ [][Next]_vars

-----------------------------------------------------------------------------
(***************************************************************************)
(* Properties.                                                             *)
(***************************************************************************)
Parts == [msg : 0 .. MsgMod - 1, k : Nat \ {0}]

TypeOK ==
  /\ slots \in [Slots -> [active : BOOLEAN, stream : Streams \cup {NoStream}, buf : Seq(Parts)]]
  /\ \A i \in Slots : Len(slots[i].buf) <= BufFrames
  /\ result \in [status : {"PENDING", "NO_SLOT", "OVERFLOW", "SUCCESS"},
                 stream : Streams \cup {NoStream}, buf : Seq(Parts)]
  /\ msg \in [Streams -> 0 .. MsgMod - 1]
  /\ \A s \in Streams : next[s] \in 1 .. FramesOf[s]
  /\ burst \in [Streams -> 0 .. MaxBurst]
  /\ intact \in [Streams -> BOOLEAN]

\* A stream never holds two slots, so FindSlot's first match is the only one and
\* a message cut short costs a slot only until the stream's next one.
OneSlotPerStream == \A s \in Streams : Cardinality(Holding(s)) <= 1

\* A message is refused for want of a slot only if more streams than there are
\* slots have one under way or have lost the end of their last, the refused one
\* among them: slots do not leak, whatever is lost or cut short.
Unfinished == {s \in Streams : FramesOf[s] > 1 /\ (next[s] > 1 \/ burst[s] > 0)}

RefusedOnlyWhenFull == result.status = "NO_SLOT" => Cardinality(Unfinished) > NumSlots

\* PollAndPublishCanRx publishes telemetry that is long enough for its message; all
\* frames but the last are full, so counting frames is counting bytes.  Heartbeats
\* and routed messages are single frames here, and need no check.
Published == result.status = "SUCCESS" /\ Len(result.buf) >= FramesOf[result.stream]

\* Which message of its stream that is; MsgMod, which is none, if it is no whole one.
Identity ==
  LET m == result.buf[1].msg
  IN IF result.buf = WholeMsg(result.stream, m) THEN m ELSE MsgMod

Delivered == IF Published THEN <<result.stream, Identity>> ELSE <<>>

Channel == INSTANCE MessageChannel WITH sending <- msg, delivered <- Delivered

\* Given that no two frames in a row of a stream are lost, what is published is the
\* message its node has just sent, whole, with nothing of another message in it,
\* and no message is published twice, late or out of order.
DeliversMessages == Channel!CSpec

\* A message all of whose frames arrived, the first of them not refused, and that
\* fits the buffer, is delivered with its last frame, whole, whatever the other
\* streams do in between, those that are refused and those that overflow included.
ArrivedIsDelivered ==
  [][ \A s \in Streams :
        /\ next[s] = FramesOf[s] /\ intact[s] /\ burst'[s] = 0
        /\ next'[s] = 1 /\ FramesOf[s] \in 2 .. BufFrames
        => result' = Done(s, WholeMsg(s, msg[s])) ]_vars

\* CANIO_FeedFrame's contract: when it returns CFE_SUCCESS the message is complete.
SuccessIsComplete ==
  result.status = "SUCCESS" =>
    \E m \in 0 .. MsgMod - 1 : result.buf = WholeMsg(result.stream, m)
=============================================================================
