----------------------- MODULE CanSegmentation_proofs -----------------------
(***************************************************************************)
(* Theorems about CanSegmentation, for any streams, message lengths, slots *)
(* and buffer.  A frame touches the slot of its own stream and no other    *)
(* (the Effect lemmas, one for each kind of frame); what the slots hold    *)
(* then follows from what the stream's node has sent.                      *)
(***************************************************************************)
EXTENDS CanSegmentation, FiniteSetTheorems, WellFoundedInduction, TLAPS

\* Every set of slots that is not empty has a lowest one.
LEMMA LowestOne ==
  ASSUME NEW S \in SUBSET Slots, S # {}
  PROVE  Lowest(S) \in S
<1> DEFINE R == OpToRel(<, Nat)
<1>1. IsWellFoundedOn(R, Nat)
  BY NatLessThanWellFounded, Zenon
<1>2. \A x, y \in Nat : <<x, y>> \in R <=> x < y
  BY SMT DEF OpToRel
<1>3. S \subseteq Nat
  BY SegmentationAssumption DEF Slots
<1> HIDE DEF R
<1>4. PICK n \in S : \A m \in S : ~ <<m, n>> \in R
  BY <1>1, <1>3, WFMin, Zenon
<1>5. \A m \in S : n <= m
  <2>1. n \in Nat /\ \A m \in S : m \in Nat /\ ~ m < n
    BY <1>2, <1>3, <1>4, Zenon
  <2> QED
    BY <2>1
<1> QED
  BY <1>5 DEF Lowest

-----------------------------------------------------------------------------
Slot == [active : BOOLEAN, stream : Streams \cup {NoStream}, buf : Seq(Parts)]

SlotsTyped ==
  /\ slots \in [Slots -> Slot]
  /\ \A i \in Slots : Len(slots[i].buf) <= BufFrames

ResultTyped ==
  result \in [status : {"PENDING", "NO_SLOT", "OVERFLOW", "SUCCESS"},
              stream : Streams \cup {NoStream}, buf : Seq(Parts)]

NodesTyped ==
  /\ msg \in [Streams -> 0 .. MsgMod - 1]
  /\ next \in [Streams -> Nat]
  /\ \A s \in Streams : next[s] \in 1 .. FramesOf[s]
  /\ burst \in [Streams -> 0 .. MaxBurst]
  /\ intact \in [Streams -> BOOLEAN]

\* No two slots in use are of one stream.
OneEach ==
  \A i, j \in Slots :
    slots[i].active /\ slots[j].active /\ slots[i].stream = slots[j].stream => i = j

\* Only messages of several frames take slots.
OnlyLong ==
  \A i \in Slots : slots[i].active =>
    slots[i].stream \in Streams /\ FramesOf[slots[i].stream] > 1

SegInv == SlotsTyped /\ ResultTyped /\ NodesTyped /\ OneEach /\ OnlyLong

Ours(s)  == Part(msg[s], next[s])
Holds(i, s) == slots[i].active /\ slots[i].stream = s

\* What every frame of s leaves as it should be.
Kept(s) ==
  /\ SlotsTyped' /\ ResultTyped' /\ OneEach' /\ OnlyLong'
  /\ \A i \in Slots : slots[i].active /\ slots[i].stream # s => slots'[i] = slots[i]
  /\ \A i \in Slots : slots'[i].active /\ slots'[i].stream # s => slots'[i] = slots[i]

LEMMA OursTyped ==
  ASSUME NodesTyped, NEW s \in Streams
  PROVE  Ours(s) \in Parts /\ next[s] \in Nat \ {0} /\ FramesOf[s] \in Nat \ {0}
BY SegmentationAssumption DEF NodesTyped, Ours, Part, Parts

\* With one slot for a stream the search finds that slot.
LEMMA HeldOne ==
  ASSUME OneEach, NEW s, NEW i \in Slots, Holds(i, s)
  PROVE  Holding(s) # {} /\ Lowest(Holding(s)) = i
<1>1. i \in Holding(s) /\ Holding(s) \in SUBSET Slots
  BY DEF Holding, Holds
<1>2. Lowest(Holding(s)) \in Holding(s)
  BY <1>1, LowestOne, Zenon
<1> QED
  BY <1>1, <1>2 DEF Holding, Holds, OneEach

LEMMA SingleEffect ==
  ASSUME SegInv, NEW s \in Streams, FramesOf[s] = 1, FeedFrame(NextFrame(s))
  PROVE  /\ Kept(s) /\ UNCHANGED slots
         /\ result' = Done(s, <<Part(msg[s], 1)>>)
<1>1. next[s] = 1 /\ Ours(s) \in Parts
  BY OursTyped DEF SegInv, NodesTyped
<1>2. NextFrame(s).type = "SINGLE" /\ NextFrame(s).part = Ours(s) /\ NextFrame(s).stream = s
  BY <1>1 DEF NextFrame, SeqType, Ours
<1>3. UNCHANGED slots /\ result' = Done(s, <<Ours(s)>>)
  BY <1>2 DEF FeedFrame
<1> QED
  BY <1>1, <1>3 DEF Kept, SegInv, SlotsTyped, ResultTyped, OneEach, OnlyLong, Done, Ours

\* A first frame leaves its stream one slot, with that frame alone in it; it is
\* refused only if every slot holds another stream.
LEMMA FirstEffect ==
  ASSUME SegInv, NEW s \in Streams, FramesOf[s] > 1, next[s] = 1, FeedFrame(NextFrame(s))
  PROVE  /\ Kept(s)
         /\ \/ /\ result' = Pending
               /\ \E i \in Slots : slots'[i] =
                    [active |-> TRUE, stream |-> s, buf |-> <<Part(msg[s], 1)>>]
            \/ /\ result' = NoSlot
               /\ \A i \in Slots : slots[i].active /\ slots[i].stream # s
               /\ UNCHANGED slots
<1> DEFINE freed == IF Holding(s) = {} THEN slots
                    ELSE [slots EXCEPT ![Lowest(Holding(s))].active = FALSE]
           idle  == {i \in Slots : ~ freed[i].active}
           full  == [active |-> TRUE, stream |-> s, buf |-> <<Ours(s)>>]
<1>1. Ours(s) \in Parts /\ Ours(s) = Part(msg[s], 1) /\ FramesOf[s] \in Nat
  BY OursTyped DEF SegInv, Ours
<1>2. NextFrame(s).type = "FIRST" /\ NextFrame(s).part = Ours(s) /\ NextFrame(s).stream = s
  BY <1>1 DEF NextFrame, SeqType, Ours
<1>3. \/ idle = {} /\ slots' = freed /\ result' = NoSlot
      \/ /\ idle # {} /\ result' = Pending
         /\ slots' = [freed EXCEPT ![Lowest(idle)] = full]
  BY <1>2 DEF FeedFrame, FeedFirst
<1>4. /\ freed \in [Slots -> Slot]
      /\ \A i \in Slots : /\ freed[i].active <=> slots[i].active /\ slots[i].stream # s
                          /\ freed[i].stream = slots[i].stream
                          /\ freed[i].buf = slots[i].buf
                          /\ (freed[i].active => freed[i] = slots[i])
                          /\ (slots[i].active /\ slots[i].stream # s => freed[i] = slots[i])
  <2>1. CASE Holding(s) = {}
    BY <2>1 DEF SegInv, SlotsTyped, Holding, Slot
  <2>2. CASE Holding(s) # {}
    <3>1. Holding(s) \in SUBSET Slots /\ \A i \in Holding(s) : Holds(i, s)
      BY DEF Holding, Holds
    <3>2. PICK h \in Slots : Holds(h, s) /\ Lowest(Holding(s)) = h
      BY <2>2, <3>1, LowestOne, Zenon
    <3>3. \A i \in Slots : Holds(i, s) => i = h
      BY <3>2 DEF SegInv, OneEach, Holds
    <3>4. freed = [slots EXCEPT ![h].active = FALSE]
      BY <2>2, <3>2
    <3>5. slots \in [Slots -> Slot] /\ slots[h] \in Slot
      BY DEF SegInv, SlotsTyped
    <3>6. /\ freed \in [Slots -> Slot]
          /\ \A i \in Slots \ {h} : freed[i] = slots[i]
          /\ ~ freed[h].active /\ freed[h].stream = slots[h].stream
          /\ freed[h].buf = slots[h].buf
      BY <3>4, <3>5 DEF Slot
    <3> HIDE DEF freed
    <3> QED
      BY <3>2, <3>3, <3>6 DEF Holds
  <2> QED
    BY <2>1, <2>2
<1> HIDE DEF freed
<1>5. full \in Slot /\ Len(full.buf) = 1 /\ 1 <= BufFrames
  BY <1>1, SegmentationAssumption DEF Slot
<1>6. CASE idle = {}
  <2>1. \A i \in Slots : slots[i].active /\ slots[i].stream # s
    BY <1>4, <1>6
  <2>2. slots' = slots
    <3>1. slots' = freed /\ \A i \in Slots : freed[i] = slots[i]
      BY <1>3, <1>4, <1>6, <2>1
    <3> QED
      BY <3>1, <1>4 DEF SegInv, SlotsTyped
  <2>3. result' = NoSlot
    BY <1>3, <1>6
  <2> QED
    BY <2>1, <2>2, <2>3 DEF Kept, SegInv, SlotsTyped, ResultTyped, OneEach, OnlyLong, NoSlot
<1>7. CASE idle # {}
  <2>1. PICK e \in Slots : e = Lowest(idle) /\ ~ freed[e].active
    <3>1. idle \in SUBSET Slots
      OBVIOUS
    <3>2. Lowest(idle) \in idle
      BY <1>7, <3>1, LowestOne, Zenon
    <3> QED
      BY <3>2
  <2>2. result' = Pending /\ slots' = [freed EXCEPT ![e] = full]
    BY <1>3, <1>7, <2>1
  <2>3. slots'[e] = full /\ \A i \in Slots \ {e} : slots'[i] = freed[i]
    BY <2>2, <1>4
  <2>4. SlotsTyped'
    BY <2>2, <2>3, <1>4, <1>5 DEF SlotsTyped, SegInv
  <2>5. OneEach' /\ OnlyLong'
    BY <2>3, <1>4 DEF SegInv, OneEach, OnlyLong
  <2>6. /\ \A i \in Slots : slots[i].active /\ slots[i].stream # s => slots'[i] = slots[i]
        /\ \A i \in Slots : slots'[i].active /\ slots'[i].stream # s => slots'[i] = slots[i]
    <3>1. ASSUME NEW i \in Slots, i # e
          PROVE  /\ slots[i].active /\ slots[i].stream # s => slots'[i] = slots[i]
                 /\ slots'[i].active /\ slots'[i].stream # s => slots'[i] = slots[i]
      BY <2>3, <1>4, <3>1
    <3>2. ~ (slots[e].active /\ slots[e].stream # s)
      BY <2>1, <1>4
    <3>3. slots'[e].stream = s
      BY <2>3
    <3> QED
      BY <3>1, <3>2, <3>3
  <2>7. ResultTyped'
    BY <2>2 DEF ResultTyped, Pending
  <2> QED
    BY <2>2, <2>3, <2>4, <2>5, <2>6, <2>7, <1>1 DEF Kept
<1> QED
  BY <1>6, <1>7

\* A continuation is appended to its stream's slot if it fits.
LEMMA ContEffect ==
  ASSUME SegInv, NEW s \in Streams, next[s] > 1, next[s] < FramesOf[s],
         FeedFrame(NextFrame(s))
  PROVE  /\ Kept(s)
         /\ result' = Pending
         /\ \A i \in Slots : Holds(i, s)' <=> Holds(i, s)
         /\ \A i \in Slots : Holds(i, s) => slots'[i].buf =
              IF Fits(i) THEN Append(slots[i].buf, Ours(s)) ELSE slots[i].buf
<1>1. Ours(s) \in Parts /\ next[s] \in Nat /\ FramesOf[s] \in Nat
  BY OursTyped DEF SegInv
<1>2. NextFrame(s).type = "CONT" /\ NextFrame(s).part = Ours(s) /\ NextFrame(s).stream = s
  BY <1>1 DEF NextFrame, SeqType, Ours
<1>3. /\ result' = Pending
      /\ slots' = IF Holding(s) = {} THEN slots ELSE AppendTo(Lowest(Holding(s)), Ours(s))
  BY <1>2 DEF FeedFrame, FeedCont
<1>4. ResultTyped'
  BY <1>3 DEF ResultTyped, Pending
<1>5. CASE Holding(s) = {}
  BY <1>3, <1>4, <1>5 DEF Kept, SegInv, SlotsTyped, OneEach, OnlyLong, Holding, Holds
<1>6. CASE Holding(s) # {}
  <2>1. PICK h \in Slots : Holds(h, s) /\ Lowest(Holding(s)) = h
    BY <1>6, LowestOne, Zenon DEF Holding, Holds
  <2>2. \A i \in Slots : Holds(i, s) => i = h
    BY <2>1 DEF SegInv, OneEach, Holds
  <2>3. slots' = IF Fits(h) THEN [slots EXCEPT ![h].buf = Append(@, Ours(s))] ELSE slots
    BY <1>3, <1>6, <2>1 DEF AppendTo
  <2>4. slots \in [Slots -> Slot] /\ slots[h] \in Slot /\ slots[h].buf \in Seq(Parts)
    BY DEF SegInv, SlotsTyped, Slot
  <2>5. /\ slots' \in [Slots -> Slot]
        /\ \A i \in Slots \ {h} : slots'[i] = slots[i]
        /\ slots'[h].active = slots[h].active /\ slots'[h].stream = slots[h].stream
        /\ slots'[h].buf = IF Fits(h) THEN Append(slots[h].buf, Ours(s)) ELSE slots[h].buf
    <3>1. Append(slots[h].buf, Ours(s)) \in Seq(Parts)
      BY <2>4, <1>1
    <3>2. CASE Fits(h)
      BY <2>3, <2>4, <3>1, <3>2 DEF Slot
    <3>3. CASE ~ Fits(h)
      BY <2>3, <2>4, <3>3
    <3> QED
      BY <3>2, <3>3
  <2>6. Len(slots'[h].buf) <= BufFrames
    BY <2>4, <2>5, <1>1 DEF Fits, SegInv, SlotsTyped
  <2>7. SlotsTyped'
    BY <2>5, <2>6 DEF SegInv, SlotsTyped
  <2>8. OneEach' /\ OnlyLong'
    BY <2>5 DEF SegInv, OneEach, OnlyLong
  <2>9. \A i \in Slots : /\ Holds(i, s)' <=> Holds(i, s)
                         /\ Holds(i, s) => i = h
    BY <2>1, <2>2, <2>5 DEF Holds
  <2> QED
    BY <2>1, <2>5, <2>7, <2>8, <2>9, <1>3, <1>4 DEF Kept, Holds
<1> QED
  BY <1>5, <1>6

\* A last frame takes its stream's slot out of use; if the frame fitted, the slot's
\* contents and it are the message.
LEMMA LastEffect ==
  ASSUME SegInv, NEW s \in Streams, next[s] > 1, next[s] = FramesOf[s],
         FeedFrame(NextFrame(s))
  PROVE  /\ Kept(s)
         /\ result'.status # "NO_SLOT"
         /\ \A i \in Slots : ~ Holds(i, s)'
         /\ \A i \in Slots : Holds(i, s) /\ Fits(i) =>
              result' = Done(s, Append(slots[i].buf, Ours(s)))
         /\ result'.status = "SUCCESS" => \E i \in Slots :
              Holds(i, s) /\ result' = Done(s, Append(slots[i].buf, Ours(s)))
<1>1. Ours(s) \in Parts /\ next[s] \in Nat /\ FramesOf[s] \in Nat
  BY OursTyped DEF SegInv
<1>2. NextFrame(s).type = "LAST" /\ NextFrame(s).part = Ours(s) /\ NextFrame(s).stream = s
  BY <1>1 DEF NextFrame, SeqType, Ours
<1>3. FeedLast(NextFrame(s))
  BY <1>2 DEF FeedFrame
<1>4. CASE Holding(s) = {}
  <2>1. UNCHANGED slots /\ result' = Pending /\ \A i \in Slots : ~ Holds(i, s)
    BY <1>2, <1>3, <1>4 DEF FeedLast, Holding, Holds
  <2> QED
    BY <2>1 DEF Kept, SegInv, SlotsTyped, ResultTyped, OneEach, OnlyLong, Holds, Pending
<1>5. CASE Holding(s) # {}
  <2>1. PICK h \in Slots : Holds(h, s) /\ Lowest(Holding(s)) = h
    BY <1>5, LowestOne, Zenon DEF Holding, Holds
  <2>2. \A i \in Slots : Holds(i, s) => i = h
    BY <2>1 DEF SegInv, OneEach, Holds
  <2>3. /\ slots' = [AppendTo(h, Ours(s)) EXCEPT ![h].active = FALSE]
        /\ result' = IF Fits(h) THEN Done(s, Append(slots[h].buf, Ours(s))) ELSE Overflow
    BY <1>2, <1>3, <1>5, <2>1 DEF FeedLast
  <2>4. slots \in [Slots -> Slot] /\ slots[h] \in Slot /\ slots[h].buf \in Seq(Parts)
    BY DEF SegInv, SlotsTyped, Slot
  <2>5. /\ slots' \in [Slots -> Slot]
        /\ \A i \in Slots \ {h} : slots'[i] = slots[i]
        /\ ~ slots'[h].active
        /\ slots'[h].buf = IF Fits(h) THEN Append(slots[h].buf, Ours(s)) ELSE slots[h].buf
    <3>1. Append(slots[h].buf, Ours(s)) \in Seq(Parts)
      BY <2>4, <1>1
    <3>2. CASE Fits(h)
      <4>1. slots' = [[slots EXCEPT ![h].buf = Append(@, Ours(s))] EXCEPT ![h].active = FALSE]
        BY <2>3, <3>2 DEF AppendTo
      <4> QED
        BY <4>1, <2>4, <3>1, <3>2 DEF Slot
    <3>3. CASE ~ Fits(h)
      <4>1. slots' = [slots EXCEPT ![h].active = FALSE]
        BY <2>3, <3>3 DEF AppendTo
      <4> QED
        BY <4>1, <2>4, <3>3 DEF Slot
    <3> QED
      BY <3>2, <3>3
  <2>6. Len(slots'[h].buf) <= BufFrames
    BY <2>4, <2>5, <1>1 DEF Fits, SegInv, SlotsTyped
  <2>7. SlotsTyped'
    BY <2>5, <2>6 DEF SegInv, SlotsTyped
  <2>8. OneEach' /\ OnlyLong'
    BY <2>5 DEF SegInv, OneEach, OnlyLong
  <2>9. ResultTyped'
    <3>1. Append(slots[h].buf, Ours(s)) \in Seq(Parts)
      BY <2>4, <1>1
    <3> QED
      BY <2>3, <3>1 DEF ResultTyped, Done, Overflow
  <2>10. \A i \in Slots : ~ Holds(i, s)'
    BY <2>2, <2>5 DEF Holds
  <2>11. \A i \in Slots : /\ slots[i].active /\ slots[i].stream # s => slots'[i] = slots[i]
                          /\ slots'[i].active => slots'[i] = slots[i]
    BY <2>1, <2>5 DEF Holds
  <2> QED
    BY <2>1, <2>2, <2>3, <2>7, <2>8, <2>9, <2>10, <2>11 DEF Kept, Done, Overflow
<1> QED
  BY <1>4, <1>5

-----------------------------------------------------------------------------
LEMMA InitSeg == Init => SegInv
<1> SUFFICES ASSUME Init PROVE SegInv
  OBVIOUS
<1>1. FreeSlot \in Slot /\ Len(FreeSlot.buf) = 0 /\ ~ FreeSlot.active
  BY DEF FreeSlot, Slot
<1>2. SlotsTyped /\ OneEach /\ OnlyLong
  BY <1>1, SegmentationAssumption DEF Init, SlotsTyped, OneEach, OnlyLong
<1>3. ResultTyped
  BY DEF Init, ResultTyped, Pending
<1>4. NodesTyped
  BY SegmentationAssumption DEF Init, NodesTyped
<1> QED
  BY <1>2, <1>3, <1>4 DEF SegInv

\* What the step of s does to the nodes, by the frame it is at.
LEMMA AdvanceEffect ==
  ASSUME NodesTyped, NEW s \in Streams, Advance(s)
  PROVE  /\ msg' \in [Streams -> 0 .. MsgMod - 1] /\ next' \in [Streams -> Nat]
         /\ \A t \in Streams : next'[t] \in 1 .. FramesOf[t]
         /\ \A t \in Streams \ {s} : next'[t] = next[t] /\ msg'[t] = msg[t]
         /\ next[s] = FramesOf[s] => next'[s] = 1
         /\ next[s] # FramesOf[s] => next'[s] = next[s] + 1 /\ msg' = msg
<1>1. FramesOf \in [Streams -> Nat \ {0}] /\ MsgMod \in Nat \ {0, 1}
  BY SegmentationAssumption
<1>2. CASE next[s] = FramesOf[s]
  <2>1. /\ msg' = [msg EXCEPT ![s] = (@ + 1) % MsgMod]
        /\ next' = [next EXCEPT ![s] = 1]
    BY <1>2 DEF Advance, NextMessage
  <2>2. (msg[s] + 1) % MsgMod \in 0 .. MsgMod - 1
    BY <1>1 DEF NodesTyped
  <2> QED
    BY <1>1, <1>2, <2>1, <2>2 DEF NodesTyped
<1>3. CASE next[s] # FramesOf[s]
  <2>1. next' = [next EXCEPT ![s] = @ + 1] /\ msg' = msg
    BY <1>3 DEF Advance
  <2>2. /\ next \in [Streams -> Nat] /\ msg \in [Streams -> 0 .. MsgMod - 1]
        /\ \A t \in Streams : next[t] \in 1 .. FramesOf[t]
    BY DEF NodesTyped
  <2>3. next'[s] = next[s] + 1 /\ next[s] + 1 \in 1 .. FramesOf[s]
    BY <1>1, <1>3, <2>1, <2>2
  <2>4. \A t \in Streams \ {s} : next'[t] = next[t]
    BY <2>1, <2>2
  <2> QED
    BY <1>3, <2>1, <2>2, <2>3, <2>4
<1> QED
  BY <1>2, <1>3

LEMMA StopEffect ==
  ASSUME NodesTyped, NEW s \in Streams, NextMessage(s)
  PROVE  /\ msg' \in [Streams -> 0 .. MsgMod - 1] /\ next' \in [Streams -> Nat]
         /\ \A t \in Streams : next'[t] \in 1 .. FramesOf[t]
         /\ \A t \in Streams \ {s} : next'[t] = next[t] /\ msg'[t] = msg[t]
         /\ next'[s] = 1
<1>1. FramesOf \in [Streams -> Nat \ {0}] /\ MsgMod \in Nat \ {0, 1}
  BY SegmentationAssumption
<1>2. (msg[s] + 1) % MsgMod \in 0 .. MsgMod - 1
  BY <1>1 DEF NodesTyped
<1>3. /\ msg' = [msg EXCEPT ![s] = (@ + 1) % MsgMod]
      /\ next' = [next EXCEPT ![s] = 1]
  BY DEF NextMessage
<1>4. /\ next \in [Streams -> Nat] /\ msg \in [Streams -> 0 .. MsgMod - 1]
      /\ \A t \in Streams : next[t] \in 1 .. FramesOf[t]
  BY DEF NodesTyped
<1>5. 1 \in 1 .. FramesOf[s]
  BY <1>1
<1> QED
  BY <1>2, <1>3, <1>4, <1>5

\* The four kinds of frame.
LEMMA ArriveKeeps ==
  ASSUME SegInv, NEW s \in Streams, FeedFrame(NextFrame(s))
  PROVE  Kept(s)
<1>1. next[s] \in 1 .. FramesOf[s] /\ FramesOf[s] \in Nat
  BY SegmentationAssumption DEF SegInv, NodesTyped
<1>2. CASE FramesOf[s] = 1
  BY <1>2, SingleEffect
<1>3. CASE FramesOf[s] > 1 /\ next[s] = 1
  BY <1>3, FirstEffect
<1>4. CASE next[s] > 1 /\ next[s] < FramesOf[s]
  BY <1>4, ContEffect
<1>5. CASE next[s] > 1 /\ next[s] = FramesOf[s]
  BY <1>5, LastEffect
<1> QED
  BY <1>1, <1>2, <1>3, <1>4, <1>5

LEMMA NextSeg == SegInv /\ [Next]_vars => SegInv'
<1> SUFFICES ASSUME SegInv, [Next]_vars PROVE SegInv'
  OBVIOUS
<1>1. CASE UNCHANGED vars
  BY <1>1 DEF vars, txVars, SegInv, SlotsTyped, ResultTyped, NodesTyped, OneEach, OnlyLong
<1>2. ASSUME NEW s \in Streams, Arrive(s) PROVE SegInv'
  <2>1. Kept(s)
    BY <1>2, ArriveKeeps DEF Arrive
  <2>2. burst' \in [Streams -> 0 .. MaxBurst] /\ intact' \in [Streams -> BOOLEAN]
    BY <1>2, SegmentationAssumption DEF Arrive, SegInv, NodesTyped
  <2>3. NodesTyped'
    BY <1>2, <2>2, AdvanceEffect DEF Arrive, SegInv, NodesTyped
  <2> QED
    BY <2>1, <2>3 DEF SegInv, Kept
<1>3. ASSUME NEW s \in Streams, Lose(s) PROVE SegInv'
  <2>1. burst' \in [Streams -> 0 .. MaxBurst] /\ intact' \in [Streams -> BOOLEAN]
    BY <1>3, SegmentationAssumption DEF Lose, SegInv, NodesTyped
  <2>2. NodesTyped'
    BY <1>3, <2>1, AdvanceEffect DEF Lose, SegInv, NodesTyped
  <2>3. ResultTyped'
    BY <1>3 DEF Lose, Pending, ResultTyped
  <2> QED
    BY <1>3, <2>2, <2>3 DEF SegInv, Lose, SlotsTyped, OneEach, OnlyLong
<1>4. ASSUME NEW s \in Streams, StopShort(s) PROVE SegInv'
  <2>1. burst' \in [Streams -> 0 .. MaxBurst] /\ intact' \in [Streams -> BOOLEAN]
    BY <1>4, SegmentationAssumption DEF StopShort, SegInv, NodesTyped
  <2>2. NodesTyped'
    BY <1>4, <2>1, StopEffect DEF StopShort, SegInv, NodesTyped
  <2>3. ResultTyped'
    BY <1>4 DEF StopShort, Pending, ResultTyped
  <2> QED
    BY <1>4, <2>2, <2>3 DEF SegInv, StopShort, SlotsTyped, OneEach, OnlyLong
<1> QED
  BY <1>1, <1>2, <1>3, <1>4 DEF Next

THEOREM SegInvariance == Spec => []SegInv
BY InitSeg, NextSeg, PTL DEF Spec

\* Slots, results and nodes keep their types, and no slot's contents outgrow the
\* buffer, whatever is lost (canIOMC_segmentation.c, AppendToSlot).
THEOREM TypesCorrect == Spec => []TypeOK
<1>1. SegInv => TypeOK
  BY DEF SegInv, SlotsTyped, ResultTyped, NodesTyped, TypeOK, Slot
<1> QED
  BY <1>1, SegInvariance, PTL

\* FindSlot's first match is the only one (CANIO_FeedFrame discards what is left of
\* a stream's earlier message when a new one begins).
THEOREM SlotsNotDoubled == Spec => []OneSlotPerStream
<1>1. SegInv => OneSlotPerStream
  <2> SUFFICES ASSUME SegInv, NEW s \in Streams PROVE Cardinality(Holding(s)) <= 1
    BY DEF OneSlotPerStream
  <2>1. CASE Holding(s) = {}
    BY <2>1, FS_EmptySet
  <2>2. CASE Holding(s) # {}
    <3>1. PICK i : Holding(s) = {i}
      BY <2>2 DEF SegInv, OneEach, Holding
    <3>2. Cardinality(Holding(s)) = 1
      BY <3>1, FS_Singleton
    <3> QED
      BY <3>2
  <2> QED
    BY <2>1, <2>2
<1> QED
  BY <1>1, SegInvariance, PTL

-----------------------------------------------------------------------------
(***************************************************************************)
(* What a slot holds.  A buffer is as long as the frames sent so far only  *)
(* if it is exactly them; a slot is left over at the start of a message    *)
(* only right after a loss, and then the first frame is not lost as well.  *)
(***************************************************************************)
Upto(s) == [k \in 1 .. next[s] - 1 |-> Part(msg[s], k)]

Sound ==
  \A s \in Streams : \A i \in Slots : Holds(i, s) =>
    /\ next[s] = 1 => burst[s] >= 1
    /\ next[s] > 1 => /\ Len(slots[i].buf) < next[s]
                      /\ Len(slots[i].buf) = next[s] - 1 => slots[i].buf = Upto(s)

LEMMA AppendUpto ==
  ASSUME NodesTyped, NEW s \in Streams, next[s] < FramesOf[s], next'[s] = next[s] + 1, msg' = msg
  PROVE  Append(Upto(s), Ours(s)) = Upto(s)'
<1>1. next[s] \in Nat \ {0}
  BY OursTyped
<1>2. Upto(s)' = [k \in 1 .. next[s] |-> Part(msg[s], k)]
  BY <1>1 DEF Upto
<1>3. Append(Upto(s), Ours(s)) = [k \in 1 .. next[s] |-> Part(msg[s], k)]
  BY <1>1 DEF Upto, Ours
<1> QED
  BY <1>2, <1>3

LEMMA AppendWhole ==
  ASSUME NodesTyped, NEW s \in Streams, next[s] = FramesOf[s]
  PROVE  Append(Upto(s), Ours(s)) = WholeMsg(s, msg[s])
<1>1. next[s] \in Nat \ {0}
  BY OursTyped
<1> QED
  BY <1>1 DEF Upto, Ours, WholeMsg

\* A frame of s leaves the other streams' slots as they were.
LEMMA OthersSound ==
  ASSUME Sound, NEW s \in Streams, NEW t \in Streams \ {s}, NEW i \in Slots, Holds(i, t)',
         slots'[i] = slots[i], next'[t] = next[t], msg'[t] = msg[t], burst'[t] = burst[t]
  PROVE  /\ next'[t] = 1 => burst'[t] >= 1
         /\ next'[t] > 1 => /\ Len(slots'[i].buf) < next'[t]
                            /\ Len(slots'[i].buf) = next'[t] - 1 => slots'[i].buf = Upto(t)'
<1>1. Holds(i, t) /\ Upto(t)' = Upto(t)
  BY DEF Holds, Upto
<1> QED
  BY <1>1 DEF Sound

\* What the step publishes, if anything, is the message s is at the end of.
PublishesOwn(s) == Published' => next[s] = FramesOf[s] /\ result' = Done(s, WholeMsg(s, msg[s]))

LEMMA ArriveSound ==
  ASSUME SegInv, Sound, NEW s \in Streams, Arrive(s)
  PROVE  Sound' /\ PublishesOwn(s)
<1>0. Kept(s) /\ NodesTyped /\ FeedFrame(NextFrame(s))
  BY ArriveKeeps DEF Arrive, SegInv
<1>1. next[s] \in Nat \ {0} /\ FramesOf[s] \in Nat \ {0} /\ next[s] <= FramesOf[s] /\ Ours(s) \in Parts
  BY OursTyped DEF SegInv, NodesTyped
<1>2. /\ \A t \in Streams \ {s} : next'[t] = next[t] /\ msg'[t] = msg[t] /\ burst'[t] = burst[t]
      /\ next[s] = FramesOf[s] => next'[s] = 1
      /\ next[s] # FramesOf[s] => next'[s] = next[s] + 1 /\ msg' = msg
      /\ msg[s] \in 0 .. MsgMod - 1
  <2>1. burst \in [Streams -> 0 .. MaxBurst] /\ burst' = [burst EXCEPT ![s] = 0]
    BY DEF Arrive, SegInv, NodesTyped
  <2>2. msg[s] \in 0 .. MsgMod - 1
    BY DEF SegInv, NodesTyped
  <2> QED
    BY <2>1, <2>2, AdvanceEffect DEF Arrive, SegInv
<1> DEFINE Mine(i) == /\ next'[s] = 1 => burst'[s] >= 1
                      /\ next'[s] > 1 => /\ Len(slots'[i].buf) < next'[s]
                                         /\ Len(slots'[i].buf) = next'[s] - 1 => slots'[i].buf = Upto(s)'
<1>3. ASSUME \A i \in Slots : Holds(i, s)' => Mine(i)
      PROVE  Sound'
  <2> SUFFICES ASSUME NEW t \in Streams, NEW i \in Slots, Holds(i, t)'
               PROVE  /\ next'[t] = 1 => burst'[t] >= 1
                      /\ next'[t] > 1 => /\ Len(slots'[i].buf) < next'[t]
                                         /\ Len(slots'[i].buf) = next'[t] - 1 => slots'[i].buf = Upto(t)'
    BY DEF Sound
  <2>1. CASE t = s
    BY <1>3, <2>1
  <2>2. CASE t # s
    <3>1. slots'[i] = slots[i]
      BY <1>0, <2>2 DEF Kept, Holds
    <3> QED
      BY <1>2, <2>2, <3>1, OthersSound
  <2> QED
    BY <2>1, <2>2
<1>4. CASE FramesOf[s] = 1
  <2>1. result' = Done(s, <<Part(msg[s], 1)>>)
    BY <1>0, <1>4, SingleEffect
  <2>2. <<Part(msg[s], 1)>> = WholeMsg(s, msg[s])
    BY <1>4 DEF WholeMsg
  <2>3. \A i \in Slots : ~ Holds(i, s)'
    BY <1>0, <1>4 DEF Kept, OnlyLong, Holds
  <2> QED
    BY <1>1, <1>3, <1>4, <2>1, <2>2, <2>3 DEF PublishesOwn
<1>5. CASE FramesOf[s] > 1 /\ next[s] = 1
  <2>1. next'[s] = 2 /\ msg' = msg
    BY <1>1, <1>2, <1>5
  <2>2. CASE /\ result' = Pending
             /\ \E i \in Slots : slots'[i] =
                  [active |-> TRUE, stream |-> s, buf |-> <<Part(msg[s], 1)>>]
    <3>1. PICK i \in Slots : slots'[i] =
                  [active |-> TRUE, stream |-> s, buf |-> <<Part(msg[s], 1)>>]
      BY <2>2
    <3>2. \A j \in Slots : Holds(j, s)' => j = i
      BY <1>0, <3>1 DEF Kept, OneEach, Holds
    <3>3. Upto(s)' = <<Part(msg[s], 1)>>
      BY <2>1 DEF Upto
    <3>4. Mine(i)
      BY <2>1, <3>1, <3>3
    <3> QED
      BY <1>3, <2>2, <3>2, <3>4 DEF PublishesOwn, Published, Pending
  <2>3. CASE /\ result' = NoSlot
             /\ \A i \in Slots : slots[i].active /\ slots[i].stream # s
             /\ UNCHANGED slots
    BY <1>3, <2>3 DEF PublishesOwn, Published, NoSlot, Holds
  <2> QED
    BY <1>0, <1>5, <2>2, <2>3, FirstEffect
<1>6. CASE next[s] > 1 /\ next[s] < FramesOf[s]
  <2>1. /\ result' = Pending
        /\ \A i \in Slots : Holds(i, s)' <=> Holds(i, s)
        /\ \A i \in Slots : Holds(i, s) => slots'[i].buf =
             IF Fits(i) THEN Append(slots[i].buf, Ours(s)) ELSE slots[i].buf
    BY <1>0, <1>6, ContEffect
  <2>2. next'[s] = next[s] + 1 /\ msg' = msg
    BY <1>1, <1>2, <1>6
  <2>3. ASSUME NEW i \in Slots, Holds(i, s)' PROVE Mine(i)
    <3>1. /\ Len(slots[i].buf) < next[s]
          /\ Len(slots[i].buf) = next[s] - 1 => slots[i].buf = Upto(s)
          /\ slots[i].buf \in Seq(Parts)
      BY <1>6, <2>1, <2>3 DEF Sound, SegInv, SlotsTyped, Slot
    <3>2. CASE Fits(i)
      <4>1. slots'[i].buf = Append(slots[i].buf, Ours(s)) /\ Len(slots'[i].buf) = Len(slots[i].buf) + 1
        <5>1. slots'[i].buf = Append(slots[i].buf, Ours(s))
          BY <2>1, <2>3, <3>2
        <5>2. Len(Append(slots[i].buf, Ours(s))) = Len(slots[i].buf) + 1
          BY <1>1, <3>1
        <5> QED
          BY <5>1, <5>2
      <4>2. Len(slots'[i].buf) = next'[s] - 1 => slots'[i].buf = Append(Upto(s), Ours(s))
        <5>1. Len(slots'[i].buf) = next'[s] - 1 => Len(slots[i].buf) = next[s] - 1
          <6>1. Len(slots[i].buf) \in Nat
            BY <3>1
          <6> QED
            BY <1>1, <2>2, <4>1, <6>1
        <5> QED
          BY <3>1, <4>1, <5>1
      <4>3. Append(Upto(s), Ours(s)) = Upto(s)'
        BY <1>0, <1>6, <2>2, AppendUpto
      <4> QED
        BY <1>1, <2>2, <3>1, <4>1, <4>2, <4>3
    <3>3. CASE ~ Fits(i)
      BY <1>1, <2>1, <2>2, <2>3, <3>1, <3>3
    <3> QED
      BY <3>2, <3>3
  <2> QED
    BY <1>3, <2>1, <2>3 DEF PublishesOwn, Published, Pending
<1>7. CASE next[s] > 1 /\ next[s] = FramesOf[s]
  <2>1. /\ \A i \in Slots : ~ Holds(i, s)'
        /\ result'.status = "SUCCESS" => \E i \in Slots :
             Holds(i, s) /\ result' = Done(s, Append(slots[i].buf, Ours(s)))
    BY <1>0, <1>7, LastEffect
  <2>2. ASSUME Published'
        PROVE  result' = Done(s, WholeMsg(s, msg[s]))
    <3>1. PICK i \in Slots : Holds(i, s) /\ result' = Done(s, Append(slots[i].buf, Ours(s)))
      BY <2>1, <2>2 DEF Published
    <3>2. slots[i].buf \in Seq(Parts)
      BY DEF SegInv, SlotsTyped, Slot
    <3>3. Len(slots[i].buf) + 1 >= FramesOf[s] /\ result'.stream = s
      BY <1>1, <2>2, <3>1, <3>2 DEF Published, Done
    <3>4. slots[i].buf = Upto(s)
      BY <1>1, <1>7, <3>1, <3>2, <3>3 DEF Sound
    <3> QED
      BY <1>0, <1>7, <3>1, <3>4, AppendWhole
  <2> QED
    BY <1>3, <1>7, <2>1, <2>2 DEF PublishesOwn
<1> QED
  BY <1>1, <1>4, <1>5, <1>6, <1>7

LEMMA LoseSound ==
  ASSUME MaxBurst <= 1, SegInv, Sound, NEW s \in Streams, Lose(s) \/ StopShort(s)
  PROVE  Sound' /\ PublishesOwn(s)
<1>1. /\ next[s] \in Nat \ {0} /\ FramesOf[s] \in Nat \ {0} /\ next[s] <= FramesOf[s]
      /\ MaxBurst \in Nat /\ burst \in [Streams -> 0 .. MaxBurst] /\ NodesTyped
  BY OursTyped, SegmentationAssumption DEF SegInv, NodesTyped
<1>2. /\ UNCHANGED slots /\ result' = Pending
      /\ burst' = [burst EXCEPT ![s] = @ + 1] /\ burst[s] < MaxBurst
  BY DEF Lose, StopShort
<1>3. burst[s] = 0 /\ burst'[s] = 1 /\ \A t \in Streams \ {s} : burst'[t] = burst[t]
  BY <1>1, <1>2
<1>4. /\ \A t \in Streams \ {s} : next'[t] = next[t] /\ msg'[t] = msg[t]
      /\ next'[s] = 1 \/ next'[s] = next[s] + 1
  BY <1>1, AdvanceEffect, StopEffect DEF Lose, StopShort
<1>5. \A i \in Slots : Holds(i, s) => next[s] > 1 /\ Len(slots[i].buf) < next[s]
  BY <1>1, <1>3 DEF Sound
<1>6. \A i \in Slots : Len(slots[i].buf) \in Nat
  BY DEF SegInv, SlotsTyped, Slot
<1>7. Sound'
  <2> SUFFICES ASSUME NEW t \in Streams, NEW i \in Slots, Holds(i, t)'
               PROVE  /\ next'[t] = 1 => burst'[t] >= 1
                      /\ next'[t] > 1 => /\ Len(slots'[i].buf) < next'[t]
                                         /\ Len(slots'[i].buf) = next'[t] - 1 => slots'[i].buf = Upto(t)'
    BY DEF Sound
  <2>1. CASE t = s
    <3>1. Holds(i, s) /\ slots'[i] = slots[i]
      BY <1>2, <2>1 DEF Holds
    <3> QED
      BY <1>1, <1>3, <1>4, <1>5, <1>6, <2>1, <3>1
  <2>2. CASE t # s
    BY <1>2, <1>3, <1>4, <2>2, OthersSound
  <2> QED
    BY <2>1, <2>2
<1> QED
  BY <1>2, <1>7 DEF PublishesOwn, Published, Pending

\* A step is a step of the channel: the stream's message is over and is handed over
\* or not, or nothing is handed over.
LEMMA StepOfChannel ==
  ASSUME SegInv, NEW s \in Streams, PublishesOwn(s),
         \/ Advance(s)
         \/ NextMessage(s) /\ ~ Published'
  PROVE  Channel!CNext
<1>1. /\ next[s] \in Nat \ {0} /\ FramesOf[s] \in Nat \ {0}
      /\ MsgMod \in Nat \ {0, 1} /\ msg \in [Streams -> 0 .. MsgMod - 1]
  BY OursTyped, SegmentationAssumption DEF SegInv, NodesTyped
<1>2. ~ Published' => Delivered' = <<>>
  BY DEF Delivered
<1>3. ASSUME Published' PROVE next[s] = FramesOf[s] /\ Delivered' = <<s, msg[s]>>
  <2>1. next[s] = FramesOf[s] /\ result' = Done(s, WholeMsg(s, msg[s]))
    BY <1>3 DEF PublishesOwn
  <2>2. result'.stream = s /\ result'.buf = WholeMsg(s, msg[s])
    BY <2>1 DEF Done
  <2>3. result'.buf[1].msg = msg[s]
    BY <1>1, <2>2 DEF WholeMsg, Part
  <2>4. Identity' = msg[s]
    BY <2>2, <2>3 DEF Identity, WholeMsg
  <2> QED
    BY <1>3, <2>1, <2>2, <2>4 DEF Delivered
<1>4. CASE NextMessage(s)
  <2>1. msg' = [msg EXCEPT ![s] = (@ + 1) % MsgMod]
    BY <1>4 DEF NextMessage
  <2>2. Delivered' \in {<<>>, <<s, msg[s]>>}
    BY <1>2, <1>3
  <2> QED
    BY <2>1, <2>2 DEF Channel!CNext, Channel!Finish, Channel!Nothing
<1>5. CASE ~ NextMessage(s)
  <2>1. next[s] # FramesOf[s] /\ msg' = msg
    BY <1>5 DEF Advance
  <2> QED
    BY <1>2, <1>3, <2>1 DEF Channel!CNext, Channel!InBetween, Channel!Nothing
<1> QED
  BY <1>4, <1>5

\* As long as no two frames of a stream in a row are lost, CANIO_SendSegmented,
\* CANIO_FeedFrame and PollAndPublishCanRx's length checks are together a channel
\* that hands over each message whole, in order and once, or never.
THEOREM ImplementsMessageChannel ==
  ASSUME MaxBurst <= 1 PROVE Spec => DeliversMessages
<1>1. Init => SegInv /\ Sound /\ Channel!CInit
  <2>1. Init => Sound
    BY SegmentationAssumption DEF Init, Sound, Holds, FreeSlot
  <2>2. Init => Channel!CInit
    BY DEF Init, Channel!CInit, Channel!Nothing, Delivered, Published, Pending
  <2> QED
    BY <2>1, <2>2, InitSeg
<1>2. SegInv /\ Sound /\ [Next]_vars =>
        SegInv' /\ Sound' /\ [Channel!CNext]_(Channel!cVars)
  <2>1. ASSUME Sound, UNCHANGED vars PROVE Sound' /\ UNCHANGED Channel!cVars
    <3>1. \A s \in Streams : \A i \in Slots : (Holds(i, s)' <=> Holds(i, s)) /\ Upto(s)' = Upto(s)
      BY <2>1 DEF vars, txVars, Holds, Upto
    <3>2. Sound'
      BY <2>1, <3>1 DEF vars, txVars, Sound
    <3> QED
      BY <2>1, <3>2 DEF vars, txVars, Channel!cVars, Delivered, Published, Identity, WholeMsg
  <2>2. ASSUME SegInv, Sound, NEW s \in Streams, Arrive(s) PROVE Sound' /\ Channel!CNext
    <3>1. Sound' /\ PublishesOwn(s) /\ Advance(s)
      BY <2>2, ArriveSound DEF Arrive
    <3> QED
      BY <2>2, <3>1, StepOfChannel
  <2>3. ASSUME SegInv, Sound, NEW s \in Streams, Lose(s) PROVE Sound' /\ Channel!CNext
    <3>1. Sound' /\ PublishesOwn(s) /\ Advance(s)
      BY <2>3, LoseSound DEF Lose
    <3> QED
      BY <2>3, <3>1, StepOfChannel
  <2>4. ASSUME SegInv, Sound, NEW s \in Streams, StopShort(s) PROVE Sound' /\ Channel!CNext
    <3>1. Sound' /\ PublishesOwn(s) /\ NextMessage(s)
      BY <2>4, LoseSound DEF StopShort
    <3>2. ~ Published'
      BY <2>4 DEF StopShort, Published, Pending
    <3> QED
      BY <2>4, <3>1, <3>2, StepOfChannel
  <2> QED
    BY <2>1, <2>2, <2>3, <2>4, NextSeg DEF Next
<1> QED
  BY <1>1, <1>2, PTL DEF Spec, DeliversMessages, Channel!CSpec

-----------------------------------------------------------------------------
(***************************************************************************)
(* Refusal, whatever the number of streams and of slots.                   *)
(***************************************************************************)
\* A slot in use is its stream's message under way, or what is left of its last.
Accounted == \A i \in Slots : slots[i].active => slots[i].stream \in Unfinished

\* Streams that have a slot each, and one more.
LEMMA MoreThanSlots ==
  ASSUME NEW U \in SUBSET Streams, NEW s \in U, NEW f \in [Slots -> U \ {s}],
         \A x, y \in Slots : f[x] = f[y] => x = y
  PROVE  Cardinality(U) > NumSlots
<1> DEFINE others == U \ {s}
<1>1. IsFiniteSet(U)
  BY FS_Subset, SegmentationAssumption
<1>2. /\ IsFiniteSet(others) /\ Cardinality(others) = Cardinality(U) - 1
      /\ Cardinality(U) \in Nat
  BY <1>1, FS_RemoveElement, FS_CardinalityType
<1>3. IsFiniteSet(Slots) /\ Cardinality(Slots) = NumSlots
  BY FS_Interval, SegmentationAssumption DEF Slots
<1> HIDE DEF others
<1>4. ASSUME Cardinality(others) < Cardinality(Slots) PROVE FALSE
  <2>1. f \in [Slots -> others]
    BY DEF others
  <2>2. \E x, y \in Slots : x # y /\ f[x] = f[y]
    BY <1>2, <1>3, <1>4, <2>1, FS_PigeonHole
  <2> QED
    BY <2>2
<1>5. NumSlots \in Nat
  BY SegmentationAssumption
<1> QED
  BY <1>2, <1>3, <1>4, <1>5

\* The nodes of the other streams are as they were.
LEMMA ArriveNodes ==
  ASSUME SegInv, NEW s \in Streams, Arrive(s)
  PROVE  /\ next[s] \in Nat \ {0} /\ FramesOf[s] \in Nat \ {0} /\ next[s] <= FramesOf[s]
         /\ \A t \in Streams \ {s} : /\ next'[t] = next[t] /\ msg'[t] = msg[t]
                                     /\ burst'[t] = burst[t] /\ intact'[t] = intact[t]
         /\ next[s] = FramesOf[s] => next'[s] = 1
         /\ next[s] # FramesOf[s] => next'[s] = next[s] + 1 /\ msg' = msg
         /\ next'[s] # 1 /\ intact'[s] => intact[s] /\ result'.status # "NO_SLOT"
<1>1. /\ intact \in [Streams -> BOOLEAN] /\ burst \in [Streams -> 0 .. MaxBurst]
      /\ intact' = [intact EXCEPT ![s] = next'[s] = 1 \/ (@ /\ result'.status # "NO_SLOT")]
      /\ burst' = [burst EXCEPT ![s] = 0]
  BY DEF Arrive, SegInv, NodesTyped
<1>2. /\ \A t \in Streams \ {s} : next'[t] = next[t] /\ msg'[t] = msg[t]
      /\ next[s] = FramesOf[s] => next'[s] = 1
      /\ next[s] # FramesOf[s] => next'[s] = next[s] + 1 /\ msg' = msg
  BY AdvanceEffect DEF Arrive, SegInv
<1>3. \A t \in Streams \ {s} : intact'[t] = intact[t] /\ burst'[t] = burst[t]
  BY <1>1
<1>4. next'[s] # 1 /\ intact'[s] => intact[s] /\ result'.status # "NO_SLOT"
  BY <1>1, Zenon
<1>5. next[s] \in Nat \ {0} /\ FramesOf[s] \in Nat \ {0} /\ next[s] <= FramesOf[s]
  BY OursTyped, SegmentationAssumption DEF SegInv, NodesTyped
<1> QED
  BY <1>2, <1>3, <1>4, <1>5

LEMMA LoseNodes ==
  ASSUME SegInv, NEW s \in Streams, Lose(s) \/ StopShort(s)
  PROVE  /\ UNCHANGED slots /\ result' = Pending /\ burst'[s] \in Nat \ {0}
         /\ \A t \in Streams \ {s} : /\ next'[t] = next[t] /\ msg'[t] = msg[t]
                                     /\ burst'[t] = burst[t] /\ intact'[t] = intact[t]
         /\ next'[s] = 1 \/ ~ intact'[s]
<1>1. /\ UNCHANGED slots /\ result' = Pending
      /\ burst' = [burst EXCEPT ![s] = @ + 1]
      /\ NodesTyped /\ burst \in [Streams -> 0 .. MaxBurst] /\ MaxBurst \in Nat
      /\ intact \in [Streams -> BOOLEAN]
  BY SegmentationAssumption DEF Lose, StopShort, SegInv, NodesTyped
<1>2. burst'[s] \in Nat \ {0} /\ \A t \in Streams \ {s} : burst'[t] = burst[t]
  BY <1>1
<1>3. /\ \A t \in Streams \ {s} : next'[t] = next[t] /\ msg'[t] = msg[t]
      /\ Lose(s) \/ next'[s] = 1
  BY <1>1, AdvanceEffect, StopEffect DEF Lose, StopShort
<1>4. /\ \A t \in Streams \ {s} : intact'[t] = intact[t]
      /\ next'[s] = 1 \/ ~ intact'[s]
  <2>1. CASE Lose(s)
    <3>1. intact' = [intact EXCEPT ![s] = next'[s] = 1]
      BY <2>1 DEF Lose
    <3>2. \A t \in Streams \ {s} : intact'[t] = intact[t]
      BY <1>1, <3>1
    <3>3. next'[s] = 1 \/ ~ intact'[s]
      BY <1>1, <3>1, Zenon
    <3> QED
      BY <3>2, <3>3
  <2>2. CASE StopShort(s)
    <3>1. intact' = [intact EXCEPT ![s] = TRUE] /\ next'[s] = 1
      BY <1>1, <2>2, StopEffect DEF StopShort
    <3> QED
      BY <1>1, <3>1
  <2> QED
    BY <2>1, <2>2
<1> QED
  BY <1>1, <1>2, <1>3, <1>4

\* Slots of streams that the step leaves alone.
LEMMA OthersAccounted ==
  ASSUME Accounted, NEW s \in Streams, NEW i \in Slots,
         slots'[i].active, slots'[i].stream # s, slots'[i] = slots[i],
         \A t \in Streams \ {s} : next'[t] = next[t] /\ burst'[t] = burst[t]
  PROVE  slots'[i].stream \in Unfinished'
<1>1. slots'[i].stream \in Unfinished
  BY DEF Accounted
<1> QED
  BY <1>1 DEF Unfinished

LEMMA ArriveAccounted ==
  ASSUME SegInv, Accounted, NEW s \in Streams, Arrive(s)
  PROVE  Accounted' /\ RefusedOnlyWhenFull'
<1>0. Kept(s) /\ FeedFrame(NextFrame(s))
  BY ArriveKeeps DEF Arrive
<1>1. /\ next[s] \in Nat \ {0} /\ FramesOf[s] \in Nat \ {0} /\ next[s] <= FramesOf[s]
      /\ \A t \in Streams \ {s} : next'[t] = next[t] /\ burst'[t] = burst[t]
      /\ next[s] # FramesOf[s] => next'[s] = next[s] + 1
  BY ArriveNodes
<1>2. ASSUME \A i \in Slots : Holds(i, s)' => s \in Unfinished'
      PROVE  Accounted'
  <2> SUFFICES ASSUME NEW i \in Slots, slots'[i].active PROVE slots'[i].stream \in Unfinished'
    BY DEF Accounted
  <2>1. CASE slots'[i].stream = s
    BY <1>2, <2>1 DEF Holds
  <2>2. CASE slots'[i].stream # s
    <3>1. slots'[i] = slots[i]
      BY <1>0, <2>2 DEF Kept
    <3> QED
      BY <1>1, <2>2, <3>1, OthersAccounted
  <2> QED
    BY <2>1, <2>2
<1>3. CASE FramesOf[s] = 1
  <2>1. \A i \in Slots : ~ Holds(i, s)'
    BY <1>0, <1>3 DEF Kept, OnlyLong, Holds
  <2>2. result'.status = "SUCCESS"
    BY <1>0, <1>3, SingleEffect DEF Done
  <2> QED
    BY <1>2, <2>1, <2>2 DEF RefusedOnlyWhenFull
<1>4. CASE FramesOf[s] > 1 /\ next[s] = 1
  <2>1. s \in Unfinished'
    BY <1>1, <1>4 DEF Unfinished
  <2>2. Accounted'
    BY <1>2, <2>1
  <2>3. RefusedOnlyWhenFull'
    <3> SUFFICES ASSUME result'.status = "NO_SLOT"
                 PROVE  Cardinality(Unfinished') > NumSlots
      BY DEF RefusedOnlyWhenFull
    <3>1. UNCHANGED slots /\ \A i \in Slots : slots[i].active /\ slots[i].stream # s
      <4>1. result' # Pending
        BY DEF Pending
      <4> QED
        BY <1>0, <1>4, <4>1, FirstEffect, Zenon
    <3>2. PICK f : f = [i \in Slots |-> slots[i].stream]
      OBVIOUS
    <3>3. \A i \in Slots : slots[i].stream \in Unfinished' \ {s}
      BY <2>2, <3>1 DEF Accounted
    <3>4. f \in [Slots -> Unfinished' \ {s}]
      BY <3>2, <3>3
    <3>5. \A x, y \in Slots : f[x] = f[y] => x = y
      BY <3>1, <3>2 DEF SegInv, OneEach
    <3>6. Unfinished' \in SUBSET Streams
      BY DEF Unfinished
    <3> QED
      BY <2>1, <3>4, <3>5, <3>6, MoreThanSlots
  <2> QED
    BY <2>2, <2>3
<1>5. CASE next[s] > 1 /\ next[s] < FramesOf[s]
  <2>1. s \in Unfinished' /\ result' = Pending
    BY <1>0, <1>1, <1>5, ContEffect DEF Unfinished
  <2> QED
    BY <1>2, <2>1 DEF RefusedOnlyWhenFull, Pending
<1>6. CASE next[s] > 1 /\ next[s] = FramesOf[s]
  <2>1. result'.status # "NO_SLOT" /\ \A i \in Slots : ~ Holds(i, s)'
    BY <1>0, <1>6, LastEffect
  <2> QED
    BY <1>2, <2>1 DEF RefusedOnlyWhenFull
<1> QED
  BY <1>1, <1>3, <1>4, <1>5, <1>6

LEMMA LoseAccounted ==
  ASSUME SegInv, Accounted, NEW s \in Streams, Lose(s) \/ StopShort(s)
  PROVE  Accounted' /\ RefusedOnlyWhenFull'
<1>1. /\ UNCHANGED slots /\ result' = Pending /\ burst'[s] \in Nat \ {0}
      /\ \A t \in Streams \ {s} : next'[t] = next[t] /\ burst'[t] = burst[t]
  BY LoseNodes
<1>2. ASSUME NEW i \in Slots, slots'[i].active PROVE slots'[i].stream \in Unfinished'
  <2>1. CASE slots'[i].stream = s
    BY <1>1, <1>2, <2>1 DEF SegInv, OnlyLong, Unfinished
  <2>2. CASE slots'[i].stream # s
    BY <1>1, <1>2, <2>2, OthersAccounted
  <2> QED
    BY <2>1, <2>2
<1> QED
  BY <1>1, <1>2 DEF Accounted, RefusedOnlyWhenFull, Pending

\* A first frame is refused only when more streams than there are slots have a
\* message under way or lost the end of one: CANIO_FeedFrame leaks no slot.
THEOREM RefusedOnlyWhenFullHolds == Spec => []RefusedOnlyWhenFull
<1> DEFINE I == SegInv /\ Accounted /\ RefusedOnlyWhenFull
<1>1. Init => I
  <2>1. Init => Accounted /\ RefusedOnlyWhenFull
    BY DEF Init, Accounted, FreeSlot, RefusedOnlyWhenFull, Pending
  <2> QED
    BY <2>1, InitSeg
<1>2. I /\ [Next]_vars => I'
  <2>1. ASSUME I, UNCHANGED vars PROVE Accounted' /\ RefusedOnlyWhenFull'
    <3>1. Unfinished' = Unfinished /\ slots' = slots /\ result' = result
      BY <2>1 DEF vars, txVars, Unfinished
    <3> QED
      BY <2>1, <3>1 DEF Accounted, RefusedOnlyWhenFull
  <2>2. ASSUME I, Next PROVE Accounted' /\ RefusedOnlyWhenFull'
    BY <2>2, ArriveAccounted, LoseAccounted DEF Next
  <2> QED
    BY <2>1, <2>2, NextSeg
<1> QED
  BY <1>1, <1>2, PTL DEF Spec

LongStreams == {s \in Streams : FramesOf[s] > 1}

\* A slot for every stream that may need one: the code has one too few.
EnoughSlots == Cardinality(LongStreams) <= NumSlots

NeverRefused == result.status # "NO_SLOT"

\* With a slot for every stream of several frames CANIO_FeedFrame would never answer
\* that it has none left.
COROLLARY NeverRefusedHolds == ASSUME EnoughSlots PROVE Spec => []NeverRefused
<1>1. RefusedOnlyWhenFull => NeverRefused
  <2>1. IsFiniteSet(LongStreams) /\ Unfinished \in SUBSET LongStreams
    BY FS_Subset, SegmentationAssumption DEF LongStreams, Unfinished
  <2>2. /\ Cardinality(Unfinished) <= Cardinality(LongStreams)
        /\ Cardinality(LongStreams) \in Nat /\ Cardinality(Unfinished) \in Nat
    BY <2>1, FS_Subset, FS_CardinalityType
  <2> QED
    BY <2>2, SegmentationAssumption DEF EnoughSlots, RefusedOnlyWhenFull, NeverRefused
<1> QED
  BY <1>1, RefusedOnlyWhenFullHolds, PTL

-----------------------------------------------------------------------------
(***************************************************************************)
(* Delivery.                                                               *)
(***************************************************************************)
\* A message none of whose frames was lost or refused is in a slot, as far as it was
\* sent.
Present ==
  \A s \in Streams : intact[s] /\ next[s] > 1 /\ FramesOf[s] <= BufFrames =>
    \E i \in Slots : Holds(i, s) /\ slots[i].buf = Upto(s)

LEMMA UptoFits ==
  ASSUME NodesTyped, NEW s \in Streams, FramesOf[s] <= BufFrames,
         NEW i \in Slots, slots[i].buf = Upto(s)
  PROVE  Fits(i)
<1>1. next[s] \in Nat \ {0} /\ next[s] <= FramesOf[s] /\ FramesOf[s] \in Nat /\ BufFrames \in Nat
  BY OursTyped, SegmentationAssumption DEF NodesTyped
<1>2. Len(Upto(s)) = next[s] - 1
  BY <1>1 DEF Upto
<1> QED
  BY <1>1, <1>2 DEF Fits

LEMMA ArrivePresent ==
  ASSUME SegInv, Present, NEW s \in Streams, Arrive(s)
  PROVE  /\ Present'
         /\ next[s] = FramesOf[s] /\ intact[s] /\ FramesOf[s] \in 2 .. BufFrames =>
              result' = Done(s, WholeMsg(s, msg[s]))
<1>0. Kept(s) /\ NodesTyped /\ FeedFrame(NextFrame(s))
  BY ArriveKeeps DEF Arrive, SegInv
<1>1. next[s] \in Nat \ {0} /\ FramesOf[s] \in Nat \ {0} /\ next[s] <= FramesOf[s]
  BY ArriveNodes
<1>2. /\ \A t \in Streams \ {s} : next'[t] = next[t] /\ msg'[t] = msg[t] /\ intact'[t] = intact[t]
      /\ next[s] = FramesOf[s] => next'[s] = 1
      /\ next[s] # FramesOf[s] => next'[s] = next[s] + 1 /\ msg' = msg
      /\ next'[s] # 1 /\ intact'[s] => intact[s] /\ result'.status # "NO_SLOT"
  BY ArriveNodes
<1>3. ASSUME next'[s] > 1 /\ intact'[s] /\ FramesOf[s] <= BufFrames =>
               \E i \in Slots : Holds(i, s)' /\ slots'[i].buf = Upto(s)'
      PROVE  Present'
  <2> SUFFICES ASSUME NEW t \in Streams, intact'[t], next'[t] > 1, FramesOf[t] <= BufFrames
               PROVE  \E i \in Slots : Holds(i, t)' /\ slots'[i].buf = Upto(t)'
    BY DEF Present
  <2>1. CASE t = s
    BY <1>3, <2>1
  <2>2. CASE t # s
    <3>1. PICK i \in Slots : Holds(i, t) /\ slots[i].buf = Upto(t)
      BY <1>2, <2>2 DEF Present
    <3>2. slots'[i] = slots[i] /\ Upto(t)' = Upto(t)
      BY <1>0, <1>2, <2>2, <3>1 DEF Kept, Holds, Upto
    <3> QED
      BY <3>1, <3>2 DEF Holds
  <2> QED
    BY <2>1, <2>2
<1>4. CASE FramesOf[s] = 1
  BY <1>1, <1>2, <1>3, <1>4
<1>5. CASE FramesOf[s] > 1 /\ next[s] = 1
  <2>1. ASSUME intact'[s] PROVE \E i \in Slots : Holds(i, s)' /\ slots'[i].buf = Upto(s)'
    <3>1. result'.status # "NO_SLOT"
      <4>1. next'[s] # 1
        BY <1>1, <1>2, <1>5
      <4> QED
        BY <1>2, <2>1, <4>1, Zenon
    <3>2. \E i \in Slots : slots'[i] =
            [active |-> TRUE, stream |-> s, buf |-> <<Part(msg[s], 1)>>]
      BY <1>0, <1>5, <3>1, FirstEffect DEF NoSlot
    <3>3. Upto(s)' = <<Part(msg[s], 1)>>
      BY <1>1, <1>2, <1>5 DEF Upto
    <3> QED
      BY <3>2, <3>3 DEF Holds
  <2> QED
    BY <1>1, <1>3, <1>5, <2>1
<1>6. CASE next[s] > 1 /\ next[s] < FramesOf[s]
  <2>1. /\ \A i \in Slots : Holds(i, s)' <=> Holds(i, s)
        /\ \A i \in Slots : Holds(i, s) => slots'[i].buf =
             IF Fits(i) THEN Append(slots[i].buf, Ours(s)) ELSE slots[i].buf
    BY <1>0, <1>6, ContEffect
  <2>2. ASSUME intact'[s], FramesOf[s] <= BufFrames
        PROVE  \E i \in Slots : Holds(i, s)' /\ slots'[i].buf = Upto(s)'
    <3>1. PICK i \in Slots : Holds(i, s) /\ slots[i].buf = Upto(s)
      <4>1. next'[s] # 1
        BY <1>1, <1>2, <1>6
      <4>2. intact[s]
        BY <1>2, <2>2, <4>1, Zenon
      <4> QED
        BY <1>6, <2>2, <4>2 DEF Present
    <3>2. Fits(i)
      BY <1>0, <2>2, <3>1, UptoFits
    <3>3. Append(Upto(s), Ours(s)) = Upto(s)'
      BY <1>0, <1>1, <1>2, <1>6, AppendUpto
    <3> QED
      BY <2>1, <3>1, <3>2, <3>3
  <2> QED
    BY <1>1, <1>3, <1>6, <2>2
<1>7. CASE next[s] > 1 /\ next[s] = FramesOf[s]
  <2>1. \A i \in Slots : Holds(i, s) /\ Fits(i) =>
          result' = Done(s, Append(slots[i].buf, Ours(s)))
    BY <1>0, <1>7, LastEffect
  <2>2. ASSUME intact[s], FramesOf[s] \in 2 .. BufFrames
        PROVE  result' = Done(s, WholeMsg(s, msg[s]))
    <3>1. PICK i \in Slots : Holds(i, s) /\ slots[i].buf = Upto(s)
      BY <1>7, <2>2, SegmentationAssumption DEF Present
    <3>2. Fits(i)
      BY <1>0, <2>2, <3>1, UptoFits, SegmentationAssumption
    <3> QED
      BY <1>0, <1>7, <2>1, <3>1, <3>2, AppendWhole
  <2> QED
    BY <1>2, <1>3, <1>7, <2>1, <2>2
<1> QED
  BY <1>1, <1>4, <1>5, <1>6, <1>7

LEMMA LosePresent ==
  ASSUME SegInv, Present, NEW s \in Streams, Lose(s) \/ StopShort(s)
  PROVE  Present'
<1>1. /\ UNCHANGED slots
      /\ \A t \in Streams \ {s} : next'[t] = next[t] /\ msg'[t] = msg[t] /\ intact'[t] = intact[t]
      /\ next'[s] = 1 \/ ~ intact'[s]
  BY LoseNodes
<1> SUFFICES ASSUME NEW t \in Streams, intact'[t], next'[t] > 1, FramesOf[t] <= BufFrames
             PROVE  \E i \in Slots : Holds(i, t)' /\ slots'[i].buf = Upto(t)'
  BY DEF Present
<1>2. t # s
  BY <1>1
<1>3. PICK i \in Slots : Holds(i, t) /\ slots[i].buf = Upto(t)
  BY <1>1, <1>2 DEF Present
<1>4. slots'[i] = slots[i] /\ Upto(t)' = Upto(t)
  BY <1>1, <1>2 DEF Upto
<1> QED
  BY <1>3, <1>4 DEF Holds

LEMMA PresentInvariance == Spec => [](SegInv /\ Present)
<1>1. Init => SegInv /\ Present
  <2>1. Init => Present
    BY DEF Init, Present
  <2> QED
    BY <2>1, InitSeg
<1>2. SegInv /\ Present /\ [Next]_vars => (SegInv /\ Present)'
  <2>1. ASSUME Present, UNCHANGED vars PROVE Present'
    <3>1. \A s \in Streams : \A i \in Slots : (Holds(i, s)' <=> Holds(i, s)) /\ Upto(s)' = Upto(s)
      BY <2>1 DEF vars, txVars, Holds, Upto
    <3> QED
      BY <2>1, <3>1 DEF vars, txVars, Present
  <2>2. ASSUME SegInv, Present, Next PROVE Present'
    BY <2>2, ArrivePresent, LosePresent DEF Next
  <2> QED
    BY <2>1, <2>2, NextSeg
<1> QED
  BY <1>1, <1>2, PTL DEF Spec

\* A message that fits the buffer, loses no frame and is not refused is handed over
\* with its last frame, whatever the other streams send, lose and are refused, and
\* however many they are (CANIO_FeedFrame).
THEOREM ArrivedIsDeliveredHolds == Spec => ArrivedIsDelivered
<1> DEFINE Delivers(s) ==
             /\ next[s] = FramesOf[s] /\ intact[s] /\ burst'[s] = 0
             /\ next'[s] = 1 /\ FramesOf[s] \in 2 .. BufFrames
             => result' = Done(s, WholeMsg(s, msg[s]))
<1>1. SegInv /\ Present /\ [Next]_vars => [\A s \in Streams : Delivers(s)]_vars
  <2> SUFFICES ASSUME SegInv, Present, Next, NEW t \in Streams,
                      next[t] = FramesOf[t], intact[t], burst'[t] = 0,
                      next'[t] = 1, FramesOf[t] \in 2 .. BufFrames
               PROVE  result' = Done(t, WholeMsg(t, msg[t]))
    OBVIOUS
  <2>1. next'[t] # next[t]
    BY SegmentationAssumption
  <2>2. PICK s \in Streams : Arrive(s) \/ Lose(s) \/ StopShort(s)
    BY DEF Next
  <2>3. CASE Arrive(s)
    <3>1. t = s
      BY <2>1, <2>3, AdvanceEffect DEF Arrive, SegInv
    <3> QED
      BY <2>3, <3>1, ArrivePresent
  <2>4. CASE Lose(s) \/ StopShort(s)
    BY <2>1, <2>4, LoseNodes
  <2> QED
    BY <2>2, <2>3, <2>4
<1> QED
  BY <1>1, PresentInvariance, PTL DEF Spec, ArrivedIsDelivered
=============================================================================
