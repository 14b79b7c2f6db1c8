------------------------- MODULE Housekeeping_proofs -------------------------
(***************************************************************************)
(* Proofs about Housekeeping.  To HK, the applications, their boards and   *)
(* the ground are users that do what HkCombiner lets anyone do: the system *)
(* implements HkSpec, and HK's properties carry over to it.  On top of     *)
(* them: no board that answers in time is reported silent.  COMMMC's file  *)
(* is sent by none but COMMMC, and photos by none but PAYLOADMC, so        *)
(* GroundLink's property and PhotoCapture's carry over too.                *)
(***************************************************************************)
EXTENDS Housekeeping, HkCombiner_proofs, PhotoCapture_proofs

\* What is left of a scenario.
LeftOK == left \in Scenario /\ left.others \cap left.awake = {}

-----------------------------------------------------------------------------
(***************************************************************************)
(* The applications, each with its request and the answer to it.           *)
(***************************************************************************)

\* What CANIOMC publishes when a's board answers.
AnswerTo(a) == Published(HkRequest[a].to, HkRequest[a].id)

\* Each application's messages.
Hears(a) == AppInit[a].hears

LEMMA AnswersAre ==
  /\ AnswerTo("POWERMC") = "EPS_TLM"
  /\ AnswerTo("MPPTMC") = "MPPT_TLM"
  /\ AnswerTo("ADCSMC") = "ADCS_TLM"
  /\ AnswerTo("PAYLOADMC") = "PAYLOAD_TLM"
  /\ AnswerTo("COMMMC") = "COMM_TLM"
<1>1. AnswerTo("POWERMC") = "EPS_TLM"
  BY DEF AnswerTo, Published, HkRequest, POWERMC_HkRequest
<1>2. AnswerTo("MPPTMC") = "MPPT_TLM"
  BY DEF AnswerTo, Published, HkRequest, MPPTMC_HkRequest
<1>3. AnswerTo("ADCSMC") = "ADCS_TLM"
  BY DEF AnswerTo, Published, HkRequest, ADCSMC_HkRequest
<1>4. AnswerTo("PAYLOADMC") = "PAYLOAD_TLM"
  BY DEF AnswerTo, Published, HkRequest, PAYLOADMC_HkRequest
<1>5. AnswerTo("COMMMC") = "COMM_TLM"
  BY DEF AnswerTo, Published, HkRequest, COMMMC_HkRequest
<1> QED
  BY <1>1, <1>2, <1>3, <1>4, <1>5

LEMMA HearsAre ==
  /\ Hears("POWERMC") = {"SEND_HK", "EPS_TLM"}
  /\ Hears("MPPTMC") = {"SEND_HK", "MPPT_TLM", "MPPT_HEARTBEAT"}
  /\ Hears("ADCSMC") = {"SEND_HK", "ADCS_TLM"}
  /\ Hears("PAYLOADMC") = {"SEND_HK", "PAYLOAD_TLM", "PAYLOAD_HEARTBEAT", "TAKEPHOTO",
                           "CAPTURE_FRAME", "SEND_GVCP_HEARTBEAT"}
  /\ Hears("COMMMC") = {"SEND_HK", "COMM_TLM"}
BY DEF Hears, AppInit, POWERMC_appInit, MPPTMC_appInit, ADCSMC_appInit,
       PAYLOADMC_appInit, COMMMC_appInit

\* An answer reaches the application that has asked, and no other.
LEMMA AnswersHeard ==
  ASSUME NEW a \in Apps, NEW b \in Apps
  PROVE  /\ AnswerTo(a) \in Hears(b) <=> a = b
         /\ AnswerTo(a) # "SEND_HK" /\ "SEND_HK" \in Hears(a)
BY AnswersAre, HearsAre DEF Apps

\* No two requests are the same.
LEMMA RequestsDiffer ==
  ASSUME NEW a \in Apps, NEW b \in Apps, HkRequest[a] = HkRequest[b]
  PROVE  a = b
BY AnswersHeard DEF AnswerTo

\* An application that starts has missed one answer at most.
LEMMA FirstMissed ==
  \A a \in Apps : AppInit[a].missed \in {0, 1}
BY DEF Apps, AppInit, POWERMC_appInit, MPPTMC_appInit, ADCSMC_appInit,
       PAYLOADMC_appInit, COMMMC_appInit

-----------------------------------------------------------------------------
(***************************************************************************)
(* The steps, sorted by what they do to HK and to the applications.        *)
(***************************************************************************)

\* An application takes a message and answers a wake-up, clears its count, or does
\* what neither its count nor HK notices.
AppStep(a) ==
  /\ Receive(a)
  /\ \/ /\ Head(inbox[a]) = "SEND_HK"
        /\ PrepareHkPacket(a, HkRequest[a]) /\ Publish(a, HkPacket(a))
     \/ Head(inbox[a]) # "SEND_HK" /\ Alive(a)
     \/ /\ Head(inbox[a]) \notin {"SEND_HK", AnswerTo(a)}
        /\ UNCHANGED <<missed, onBus, hkVars>>

LEMMA HandleIsAppStep ==
  ASSUME NEW a \in Apps, Handle(a)
  PROVE  AppStep(a) /\ UNCHANGED <<left, told>>
<1>1. CASE a = "POWERMC"
  BY <1>1 DEF Handle, AppStep, POWERMC_appMain, POWERMC_appTaskPipe, POWERMC_APP_SEND_HK_TO_SB,
              POWERMC_appPrepareHkPacket, POWERMC_ProcessEpsTlm, HkRequest
<1>2. CASE a = "MPPTMC"
  BY <1>2 DEF Handle, AppStep, MPPTMC_appMain, MPPTMC_appTaskPipe, MPPTMC_APP_SEND_HK_TO_SB,
              MPPTMC_appPrepareHkPacket, MPPTMC_ProcessMpptTlm, MPPTMC_ProcessMpptHeartbeat, HkRequest
<1>3. CASE a = "ADCSMC"
  BY <1>3 DEF Handle, AppStep, ADCSMC_appMain, ADCSMC_appTaskPipe, ADCSMC_APP_SEND_HK_TO_SB,
              ADCSMC_appPrepareHkPacket, ADCSMC_ProcessAdcsTlm, HkRequest
<1>4. CASE a = "COMMMC"
  BY <1>4 DEF Handle, AppStep, COMMMC_appMain, COMMMC_appTaskPipe, COMMMC_APP_SEND_HK_TO_SB,
              COMMMC_appPrepareHkPacket, COMMMC_ProcessCommTlm, HkRequest
<1>5. CASE a = "PAYLOADMC"
  <2>1. PAYLOADMC_appMain /\ UNCHANGED <<left, told>>
    BY <1>5 DEF Handle
  <2>2. CASE PAYLOADMC_appTaskPipe(Head(inbox["PAYLOADMC"]))
    BY <1>5, <2>1, <2>2 DEF AppStep, PAYLOADMC_appMain, PAYLOADMC_appTaskPipe, PAYLOADMC_APP_SEND_HK_TO_SB,
         PAYLOADMC_appPrepareHkPacket, PAYLOADMC_ProcessPayloadTlm, PAYLOADMC_ProcessPayloadHeartbeat, HkRequest
  <2>3. CASE /\ PAYLOADMC_photoPipe(Head(inbox["PAYLOADMC"]))
             /\ UNCHANGED <<missed, onBus, hkVars>>
    <3>1. Head(inbox["PAYLOADMC"]) \in {"TAKEPHOTO", "CAPTURE_FRAME", "SEND_GVCP_HEARTBEAT"}
      BY <2>3 DEF PAYLOADMC_photoPipe
    <3> QED
      BY <1>5, <2>1, <2>3, <3>1, AnswersAre DEF AppStep, PAYLOADMC_appMain
  <2> QED
    BY <2>1, <2>2, <2>3 DEF PAYLOADMC_appMain
<1> QED
  BY <1>1, <1>2, <1>3, <1>4, <1>5 DEF Apps

\* Messages to the applications that neither wake them nor answer their requests.
Chatter(mid) ==
  /\ Deliver(mid) /\ mid # "SEND_HK" /\ \A a \in Apps : mid # AnswerTo(a)
  /\ UNCHANGED <<hkVars, missed, boards, prompt, told>>

\* What happens around HK and the applications: they do not notice.
Aside == UNCHANGED <<hkVars, appVars, told>>

LEMMA ChatterIs ==
  /\ Heartbeat => Chatter("MPPT_HEARTBEAT") \/ Chatter("PAYLOAD_HEARTBEAT")
  /\ PhotoCommand => Chatter("TAKEPHOTO") \/ Chatter("CAPTURE_FRAME")
  /\ WakeGvcp => Chatter("SEND_GVCP_HEARTBEAT")
<1>1. /\ Published("MPPT", "MPPT_HEARTBEAT") = "MPPT_HEARTBEAT"
      /\ Published("PAYLOAD", "PAYLOAD_HEARTBEAT") = "PAYLOAD_HEARTBEAT"
      /\ Published("PAYLOAD", "TAKEPHOTO") = "TAKEPHOTO"
      /\ Published("PAYLOAD", "CAPTURE_FRAME") = "CAPTURE_FRAME"
  BY DEF Published, Routed
<1>2. \A a \in Apps : AnswerTo(a) \notin {"MPPT_HEARTBEAT", "PAYLOAD_HEARTBEAT", "TAKEPHOTO",
                                          "CAPTURE_FRAME", "SEND_GVCP_HEARTBEAT"}
  BY AnswersAre DEF Apps
<1>3. Heartbeat => Chatter("MPPT_HEARTBEAT") \/ Chatter("PAYLOAD_HEARTBEAT")
  BY <1>1, <1>2 DEF Heartbeat, Unprompted, Chatter, boards
<1>4. PhotoCommand => Chatter("TAKEPHOTO") \/ Chatter("CAPTURE_FRAME")
  <2>1. ASSUME NEW id \in {"TAKEPHOTO", "CAPTURE_FRAME"}, Unprompted("PAYLOAD", id), UNCHANGED told
        PROVE  Chatter("TAKEPHOTO") \/ Chatter("CAPTURE_FRAME")
    BY <1>1, <1>2, <2>1 DEF Unprompted, Chatter, boards
  <2> QED
    BY <2>1 DEF PhotoCommand
<1>5. WakeGvcp => Chatter("SEND_GVCP_HEARTBEAT")
  BY <1>2 DEF WakeGvcp, Chatter, boards
<1> QED
  BY <1>3, <1>4, <1>5

LEMMA AsideIs ==
  Captures \/ DsWorks \/ DsMishap \/ CommSendsFile => Aside
BY DEF Captures, DsWorks, DsMishap, CommSendsFile, Aside

\* What is left of a scenario gets less.
LEMMA LeftStep ==
  ASSUME LeftOK, [Next]_vars
  PROVE  /\ LeftOK'
         /\ left'.awake = left.awake /\ left'.others = left.others
<1> USE DEF LeftOK, Scenario
<1>1. CASE UNCHANGED left
  BY <1>1
<1>2. CASE left' = [left EXCEPT !.troubles = @ - 1] /\ left.troubles > 0
  BY <1>2
<1>3. CASE left' = [left EXCEPT !.commands = @ - 1] /\ left.commands > 0
  BY <1>3
<1>4. CASE left' = [left EXCEPT !.shots = @ - 1] /\ left.shots > 0
  BY <1>4
<1>5. CASE left' = [left EXCEPT !.mishaps = @ - 1] /\ left.mishaps > 0
  BY <1>5
<1>6. CASE \E t \in Tables : left' = [left EXCEPT !.loads = @ \ {t}]
  BY <1>6
<1>7. CASE \E b \in Boards : left' = [left EXCEPT !.quiet = @ \ {b}]
  BY <1>7
<1>8. \/ UNCHANGED left
      \/ left' = [left EXCEPT !.troubles = @ - 1] /\ left.troubles > 0
      \/ left' = [left EXCEPT !.commands = @ - 1] /\ left.commands > 0
      \/ left' = [left EXCEPT !.shots = @ - 1] /\ left.shots > 0
      \/ left' = [left EXCEPT !.mishaps = @ - 1] /\ left.mishaps > 0
      \/ \E t \in Tables : left' = [left EXCEPT !.loads = @ \ {t}]
      \/ \E b \in Boards : left' = [left EXCEPT !.quiet = @ \ {b}]
  <2>1. CASE \E o \in Outputs : HkSends(o)
    BY <2>1 DEF HkSends
  <2>2. CASE HkWorks \/ WakeHk
    BY <2>2 DEF HkWorks, WakeHk
  <2>3. CASE HkInTrouble
    BY <2>3 DEF HkInTrouble, Spend
  <2>4. CASE Ground
    BY <2>4 DEF Ground, Spend
  <2>5. ASSUME NEW a \in Apps, Handle(a) \/ WakeApp(a) PROVE UNCHANGED left
    BY <2>5 DEF Handle, WakeApp
  <2>6. CASE OtherPublishes \/ BoardAnswers \/ AnswerLost \/ Heartbeat \/ WakeGvcp
    BY <2>6 DEF OtherPublishes, BoardAnswers, AnswerLost, Heartbeat, WakeGvcp
  <2>7. CASE PhotoCommand
    BY <2>7 DEF PhotoCommand, Spend
  <2>8. CASE BoardStops
    BY <2>8 DEF BoardStops
  <2>9. CASE Captures \/ DsWorks \/ CommSendsFile
    BY <2>9 DEF Captures, DsWorks, CommSendsFile
  <2>10. CASE DsMishap
    BY <2>10 DEF DsMishap, Spend
  <2>11. CASE UNCHANGED vars
    BY <2>11 DEF vars
  <2> QED
    BY <2>1, <2>2, <2>3, <2>4, <2>5, <2>6, <2>7, <2>8, <2>9, <2>10, <2>11 DEF Next
<1> QED
  BY <1>1, <1>2, <1>3, <1>4, <1>5, <1>6, <1>7, <1>8

-----------------------------------------------------------------------------
(***************************************************************************)
(* HK sees a behaviour of HkSpec.                                          *)
(***************************************************************************)
LEMMA HkStart ==
  ASSUME Init
  PROVE  HkInit
BY ScenariosAssumption DEF Init, HkInit, Scenario

\* A packet is its flag.
LEMMA FlagIs ==
  ASSUME NEW a \in Apps
  PROVE  /\ HkPacket(a) \in Data
         /\ ~ (missed[a] >= StaleThreshold) => HkPacket(a) = FALSE
<1>1. HkPacket(a) \in BOOLEAN
  BY SMT DEF HkPacket
<1>2. ~ (missed[a] >= StaleThreshold) => HkPacket(a) = FALSE
  BY SMT DEF HkPacket
<1> QED
  BY <1>1, <1>2, SubsystemsAssumption

LEMMA AppStepIsHkStep ==
  ASSUME NEW a \in Apps, AppStep(a)
  PROVE  (\E d \in Data : Publish(a, d)) \/ UNCHANGED hkVars
BY FlagIs DEF AppStep, Alive

LEMMA StepIsHkStep ==
  ASSUME LeftOK, [Next]_vars
  PROVE  [HkNext]_hkVars
<1>1. ASSUME NEW m \in Inputs, NEW d \in Data, Publish(m, d) PROVE HkNext
  BY <1>1 DEF HkNext
<1>2. ASSUME NEW msg \in HkMessage, msg.kind # "INPUT", Command(msg) PROVE HkNext
  <2>1. \/ \E o \in Outputs : msg = [kind |-> "COMBINE", out |-> o]
        \/ \E k \in {"HK_REQUEST", "RESET_COUNTERS", "NOOP", "WRONG_LENGTH"} : msg = [kind |-> k]
    BY <1>2 DEF HkMessage
  <2> QED
    BY <1>2, <2>1 DEF HkNext
<1>3. CASE \E o \in Outputs : HkSends(o)
  BY <1>3 DEF HkSends, HkNext
<1>4. CASE HkWorks
  BY <1>4 DEF HkWorks, HkNext
<1>5. CASE HkInTrouble
  BY <1>5 DEF HkInTrouble, CheckStatusOfTables, HkNext
<1>6. CASE WakeHk
  <2>1. Command([kind |-> "COMBINE", out |-> Scheduled])
    BY <1>6 DEF WakeHk
  <2> QED
    BY <2>1, ScenariosAssumption DEF HkNext
<1>7. CASE Ground
  <2>1. left.loads \subseteq Tables
    BY DEF LeftOK, Scenario
  <2>2. CASE \E msg \in {m \in HkMessage : m.kind # "INPUT"} : Command(msg)
    BY <1>2, <2>2
  <2>3. CASE \E t \in left.loads : GroundLoad(t)
    BY <2>1, <2>3 DEF HkNext
  <2>4. CASE GroundActivate
    BY <2>4 DEF HkNext
  <2> QED
    BY <1>7, <2>2, <2>3, <2>4 DEF Ground
<1>8. ASSUME NEW a \in Apps, Handle(a) PROVE [HkNext]_hkVars
  <2>1. a \in Inputs
    BY SubsystemsAssumption
  <2> QED
    BY <1>1, <1>8, <2>1, HandleIsAppStep, AppStepIsHkStep
<1>9. ASSUME NEW a \in Apps, WakeApp(a) PROVE UNCHANGED hkVars
  BY <1>9 DEF WakeApp, Wake
<1>10. CASE OtherPublishes
  <2>1. left.others \subseteq Inputs
    BY DEF LeftOK, Scenario
  <2> QED
    BY <1>1, <1>10, <2>1 DEF OtherPublishes
<1>11. CASE BoardAnswers \/ AnswerLost \/ BoardStops
  BY <1>11 DEF BoardAnswers, Answer, AnswerLost, NoAnswer, BoardStops, GoSilent
<1>12. CASE Heartbeat \/ PhotoCommand \/ WakeGvcp
  BY <1>12, ChatterIs DEF Chatter
<1>13. CASE Captures \/ DsWorks \/ DsMishap \/ CommSendsFile
  BY <1>13, AsideIs DEF Aside
<1>14. CASE UNCHANGED vars
  BY <1>14 DEF vars
<1> QED
  BY <1>3, <1>4, <1>5, <1>6, <1>7, <1>8, <1>9, <1>10, <1>11, <1>12, <1>13, <1>14 DEF Next

-----------------------------------------------------------------------------
\* What is left of a scenario stays one.
LEMMA LeftAlways == Spec => []LeftOK
<1>1. Init => LeftOK
  BY ScenariosAssumption DEF Init, LeftOK
<1>2. LeftOK /\ [Next]_vars => LeftOK'
  BY LeftStep
<1> QED
  BY <1>1, <1>2, PTL DEF Spec

\* The system implements HK among users that may do whatever they like: what is
\* proved of HK under HkSpec is true of it among these applications.
THEOREM ImplementsHk == Spec => HkSpec
<1>1. Init => HkInit
  BY HkStart
<1>2. LeftOK /\ [Next]_vars => [HkNext]_hkVars
  BY StepIsHkStep
<1> QED
  BY <1>1, <1>2, LeftAlways, PTL DEF Spec, HkSpec

\* HK's pool keeps its books whatever the applications, the boards and the ground do:
\* every block HK holds is the buffer of the entries its header names.
THEOREM SystemPoolCorrect == Spec => []PoolSound
BY ImplementsHk, PoolCorrect, PTL

\* HK is subscribed to what its table names, no more and no less, in the system too.
THEOREM SystemSubscriptionsCorrect == Spec => []SubscriptionsSound
BY ImplementsHk, SubscriptionsCorrect, PTL

\* HK copies where it should, in the system too.
THEOREM SystemCopiesInPlace == Spec => []FaultsExplained
BY ImplementsHk, CopiesInPlace, PTL

\* A combined packet not counted as missing data is of this cycle, in the system too.
THEOREM SystemCompletePacketsCurrent == Spec => CompleteIsCurrent
BY ImplementsHk, CompletePacketsCurrent, PTL

LEMMA HkTypesAlways == Spec => []HkTypeOK
BY ImplementsHk, HkTypeCorrect, PTL

-----------------------------------------------------------------------------
(***************************************************************************)
(* Types of the applications.                                              *)
(***************************************************************************)

\* HK and the cameras at work: the applications' counts, pipes and requests stay.
Still == UNCHANGED <<missed, inbox, onBus, prompt>> /\ silent' \in SUBSET Boards

\* What a step is to the applications.
LEMMA StepForApps ==
  ASSUME LeftOK, SubsystemsTypeOK, [Next]_vars
  PROVE  \/ \E a \in Apps : AppStep(a)
         \/ \E a \in left.awake : Wake(a)
         \/ \E r \in onBus : Answer(r) \/ NoAnswer(r)
         \/ \E mid : Chatter(mid)
         \/ Still
<1>1. CASE (\E o \in Outputs : HkSends(o)) \/ HkWorks \/ HkInTrouble \/ WakeHk \/ Ground \/ OtherPublishes
  <2>1. UNCHANGED appVars
    BY <1>1 DEF HkSends, HkWorks, HkInTrouble, WakeHk, Ground, OtherPublishes, Outside
  <2> QED
    BY <2>1 DEF appVars, boards, Still, SubsystemsTypeOK
<1>2. CASE Captures \/ DsWorks \/ DsMishap \/ CommSendsFile \/ UNCHANGED vars
  <2>1. UNCHANGED appVars
    BY <1>2, AsideIs DEF Aside, vars
  <2> QED
    BY <2>1 DEF appVars, boards, Still, SubsystemsTypeOK
<1>3. CASE BoardStops
  <2>1. PICK b \in left.quiet : GoSilent(b)
    BY <1>3 DEF BoardStops
  <2>2. b \in Boards
    BY DEF LeftOK, Scenario
  <2> QED
    BY <2>1, <2>2 DEF GoSilent, Still, SubsystemsTypeOK
<1>4. CASE Heartbeat \/ PhotoCommand \/ WakeGvcp
  BY <1>4, ChatterIs
<1>5. CASE BoardAnswers \/ AnswerLost
  BY <1>5 DEF BoardAnswers, AnswerLost
<1>6. ASSUME NEW a \in Apps, Handle(a) PROVE \E b \in Apps : AppStep(b)
  BY <1>6, HandleIsAppStep
<1>7. ASSUME NEW a \in Apps, WakeApp(a) PROVE \E b \in left.awake : Wake(b)
  BY <1>7 DEF WakeApp
<1> QED
  BY <1>1, <1>2, <1>3, <1>4, <1>5, <1>6, <1>7 DEF Next

\* A pipe stays a pipe.
LEMMA Queues ==
  ASSUME NEW S, NEW q \in Seq(S), NEW n \in Nat, Len(q) <= n
  PROVE  /\ \A x \in S : Append(q, x) \in Seq(S) /\ (Len(q) < n => Len(Append(q, x)) <= n)
         /\ q # <<>> => Tail(q) \in Seq(S) /\ Len(Tail(q)) <= n
OBVIOUS

\* What some application listens to.
Heard == UNION {AppInit[a].hears : a \in Apps}

\* What an application's pipe may hold.
PipeOf(a, q) == q \in Seq(Heard) /\ q \in Seq(Hears(a)) /\ Len(q) <= PipeDepth

\* The pipe after a message has been put in, or taken out.
LEMMA PipesKept ==
  ASSUME SubsystemsTypeOK, NEW a \in Apps
  PROVE  /\ PipeOf(a, inbox[a])
         /\ \A mid \in Hears(a) : Len(inbox[a]) < PipeDepth => PipeOf(a, Append(inbox[a], mid))
         /\ inbox[a] # <<>> => PipeOf(a, Tail(inbox[a]))
<1>1. PipeOf(a, inbox[a])
  BY DEF SubsystemsTypeOK, PipeOf, Hears, Heard
<1>2. Hears(a) \subseteq Heard
  BY DEF Hears, Heard
<1>3. PipeDepth \in Nat
  BY SubsystemsAssumption
<1> DEFINE q == inbox[a]
           H == Hears(a)
<1>4. q \in Seq(Heard) /\ q \in Seq(H) /\ Len(q) <= PipeDepth
  BY <1>1 DEF PipeOf
<1> HIDE DEF q, H
<1>5. ASSUME NEW mid \in H, Len(q) < PipeDepth PROVE PipeOf(a, Append(q, mid))
  <2>1. mid \in Heard
    BY <1>2 DEF H
  <2>2. Append(q, mid) \in Seq(H) /\ Len(Append(q, mid)) <= PipeDepth
    BY <1>3, <1>4, <1>5, Queues
  <2>3. Append(q, mid) \in Seq(Heard)
    BY <1>3, <1>4, <2>1, Queues
  <2> QED
    BY <2>2, <2>3 DEF PipeOf, H
<1>6. ASSUME q # <<>> PROVE PipeOf(a, Tail(q))
  <2>1. Tail(q) \in Seq(H) /\ Len(Tail(q)) <= PipeDepth
    BY <1>3, <1>4, <1>6, Queues
  <2>2. Tail(q) \in Seq(Heard)
    BY <1>3, <1>4, <1>6, Queues
  <2> QED
    BY <2>1, <2>2 DEF PipeOf, H
<1> QED
  BY <1>1, <1>5, <1>6 DEF q, H

\* A full pipe drops, and a pipe holds what its application has subscribed to.
LEMMA DeliverTyped ==
  ASSUME SubsystemsTypeOK, NEW mid, Deliver(mid)
  PROVE  /\ inbox' = [a \in Apps |-> inbox'[a]]
         /\ \A a \in Apps :
              /\ PipeOf(a, inbox'[a])
              /\ \/ inbox'[a] = inbox[a]
                 \/ mid \in Hears(a) /\ inbox'[a] = Append(inbox[a], mid)
              /\ mid \in Hears(a) /\ Len(inbox[a]) < PipeDepth => inbox'[a] = Append(inbox[a], mid)
<1>1. inbox' = [a \in Apps |-> inbox'[a]]
  BY DEF Deliver
<1>2. \A a \in Apps : inbox'[a] = IF mid \in Hears(a) /\ Len(inbox[a]) < PipeDepth
                                  THEN Append(inbox[a], mid) ELSE inbox[a]
  BY DEF Deliver, Hears
<1>3. \A a \in Apps : PipeOf(a, inbox'[a])
  BY <1>2, PipesKept
<1> QED
  BY <1>1, <1>2, <1>3

\* The types, application by application.
LEMMA TypesOfPipes ==
  ASSUME inbox' = [a \in Apps |-> inbox'[a]], \A a \in Apps : PipeOf(a, inbox'[a]),
         missed' \in [Apps -> 0 .. MissLimit], onBus' \subseteq {HkRequest[a] : a \in Apps},
         silent' \subseteq Boards, prompt' \subseteq Apps
  PROVE  SubsystemsTypeOK'
<1>1. \A a \in Apps : inbox'[a] \in Seq(AppInit[a].hears) /\ Len(inbox'[a]) <= PipeDepth
  BY DEF PipeOf, Hears
<1>2. inbox' \in [Apps -> Seq(Heard)]
  BY DEF PipeOf
<1> QED
  BY <1>1, <1>2 DEF SubsystemsTypeOK, Heard

LEMMA AppTypesKept ==
  ASSUME LeftOK, SubsystemsTypeOK, [Next]_vars
  PROVE  SubsystemsTypeOK'
<1>1. /\ missed \in [Apps -> 0 .. MissLimit] /\ MissLimit \in Nat
      /\ onBus \subseteq {HkRequest[a] : a \in Apps} /\ silent \subseteq Boards /\ prompt \subseteq Apps
      /\ inbox = [a \in Apps |-> inbox[a]]
  BY SubsystemsAssumption DEF SubsystemsTypeOK
<1>2. ASSUME NEW a \in Apps, AppStep(a) PROVE SubsystemsTypeOK'
  <2>1. inbox[a] # <<>> /\ inbox' = [inbox EXCEPT ![a] = Tail(@)] /\ UNCHANGED <<silent, prompt>>
    BY <1>2 DEF AppStep, Receive
  <2>2. missed' \in [Apps -> 0 .. MissLimit] /\ onBus' \subseteq {HkRequest[b] : b \in Apps}
    <3>1. CASE PrepareHkPacket(a, HkRequest[a])
      <4>1. missed[a] \in 0 .. MissLimit
        BY <1>1
      <4> QED
        BY <1>1, <3>1, <4>1 DEF PrepareHkPacket
    <3>2. CASE Alive(a)
      BY <1>1, <3>2 DEF Alive
    <3>3. CASE UNCHANGED <<missed, onBus, hkVars>>
      BY <1>1, <3>3
    <3> QED
      BY <1>2, <3>1, <3>2, <3>3 DEF AppStep
  <2>3. /\ inbox' = [b \in Apps |-> inbox'[b]]
        /\ \A b \in Apps : inbox'[b] = IF b = a THEN Tail(inbox[a]) ELSE inbox[b]
    BY <1>1, <2>1
  <2>4. \A b \in Apps : PipeOf(b, inbox'[b])
    BY <2>1, <2>3, PipesKept
  <2> QED
    BY <1>1, <2>1, <2>2, <2>3, <2>4, TypesOfPipes
<1>3. ASSUME NEW a \in left.awake, Wake(a) PROVE SubsystemsTypeOK'
  <2>1. a \in Apps
    BY DEF LeftOK, Scenario
  <2>2. UNCHANGED <<missed, onBus, silent>> /\ prompt' \subseteq prompt
    BY <1>3 DEF Wake, boards
  <2>3. /\ inbox' = [b \in Apps |-> inbox'[b]]
        /\ \A b \in Apps : inbox'[b] = IF b = a /\ Len(inbox[b]) < PipeDepth
                                       THEN Append(inbox[b], "SEND_HK") ELSE inbox[b]
    BY <1>1, <1>3 DEF Wake
  <2>4. \A b \in Apps : PipeOf(b, inbox'[b])
    <3>1. \A b \in Apps : "SEND_HK" \in Hears(b)
      BY AnswersHeard
    <3> QED
      BY <2>3, <3>1, PipesKept
  <2> QED
    BY <1>1, <2>2, <2>3, <2>4, TypesOfPipes
<1>4. ASSUME NEW r \in onBus, Answer(r) \/ NoAnswer(r) PROVE SubsystemsTypeOK'
  <2>1. UNCHANGED <<missed, silent>> /\ onBus' \subseteq onBus /\ prompt' \subseteq prompt
    BY <1>4 DEF Answer, NoAnswer
  <2>2. Deliver(Published(r.to, r.id)) \/ UNCHANGED inbox
    BY <1>4 DEF Answer, NoAnswer
  <2>3. inbox' = [b \in Apps |-> inbox'[b]] /\ \A b \in Apps : PipeOf(b, inbox'[b])
    BY <1>1, <2>2, DeliverTyped, PipesKept
  <2> QED
    BY <1>1, <2>1, <2>3, TypesOfPipes
<1>5. ASSUME NEW mid, Chatter(mid) PROVE SubsystemsTypeOK'
  <2>1. Deliver(mid) /\ UNCHANGED <<missed, onBus, silent, prompt>>
    BY <1>5 DEF Chatter, boards
  <2>2. inbox' = [b \in Apps |-> inbox'[b]] /\ \A b \in Apps : PipeOf(b, inbox'[b])
    BY <2>1, DeliverTyped
  <2> QED
    BY <1>1, <2>1, <2>2, TypesOfPipes
<1>6. CASE Still
  BY <1>1, <1>6 DEF Still, SubsystemsTypeOK
<1> QED
  BY <1>2, <1>3, <1>4, <1>5, <1>6, StepForApps

-----------------------------------------------------------------------------
(***************************************************************************)
(* An application whose board answers in time.                             *)
(***************************************************************************)

\* It has two answers to come at most, the second of which is on its way; a wake-up
\* finds it with one at most and an empty pipe.
AskedInTime(a) ==
  /\ missed[a] <= 2
  /\ missed[a] = 2 => HkRequest[a] \in onBus \/ \E i \in DOMAIN inbox[a] : inbox[a][i] = AnswerTo(a)
  /\ \A i \in DOMAIN inbox[a] : inbox[a][i] = "SEND_HK" =>
       i = 1 /\ missed[a] <= 1 /\ HkRequest[a] \notin onBus

\* A message to HK that calls none of apps stale.
Clean(msg, apps) == msg.kind = "INPUT" /\ msg.mid \in apps => msg.data # TRUE

\* The packets it has sent carry no stale flag, wherever they have come to.
NoFlag ==
  /\ \A i \in DOMAIN hkPipe : Clean(hkPipe[i], prompt)
  /\ \A e \in Entries : table[e].in \in prompt => cell[e] # TRUE
  /\ told \cap prompt = {}

InTime ==
  /\ prompt \subseteq left.awake
  /\ \A a \in prompt : AskedInTime(a)
  /\ NoFlag

\* Of the pipe q, what AskedInTime looks at, after a message m has come.
LEMMA Appended ==
  ASSUME NEW S, NEW q \in Seq(S), NEW m \in S
  PROVE  /\ Append(q, m) \in Seq(S) /\ DOMAIN Append(q, m) = 1 .. Len(q) + 1
         /\ Append(q, m)[Len(q) + 1] = m
         /\ \A i \in DOMAIN q : i \in 1 .. Len(q) /\ Append(q, m)[i] = q[i]
         /\ \A i \in 1 .. Len(q) + 1 : i = Len(q) + 1 \/ i \in DOMAIN q
OBVIOUS

\* And after its first has been taken.
LEMMA Taken ==
  ASSUME NEW S, NEW q \in Seq(S), q # <<>>
  PROVE  /\ Tail(q) \in Seq(S)
         /\ \A i \in DOMAIN Tail(q) : i \in Nat \ {0} /\ i + 1 \in DOMAIN q /\ Tail(q)[i] = q[i + 1]
         /\ \A i \in DOMAIN q : i = 1 \/ (i - 1 \in DOMAIN Tail(q) /\ Tail(q)[i - 1] = q[i])
         /\ 1 \in DOMAIN q /\ Head(q) = q[1]
<1>1. Tail(q) \in Seq(S) /\ Len(Tail(q)) = Len(q) - 1 /\ Len(q) \in Nat \ {0}
  OBVIOUS
<1>2. DOMAIN q = 1 .. Len(q) /\ DOMAIN Tail(q) = 1 .. Len(q) - 1
  BY <1>1
<1>3. \A i \in 1 .. Len(q) - 1 : Tail(q)[i] = q[i + 1]
  OBVIOUS
<1>4. \A i \in DOMAIN Tail(q) : i \in Nat \ {0} /\ i + 1 \in DOMAIN q /\ Tail(q)[i] = q[i + 1]
  BY <1>1, <1>2, <1>3
<1>5. \A i \in DOMAIN q : i = 1 \/ (i - 1 \in DOMAIN Tail(q) /\ Tail(q)[i - 1] = q[i])
  <2>1. SUFFICES ASSUME NEW i \in DOMAIN q, i # 1
                 PROVE  i - 1 \in DOMAIN Tail(q) /\ Tail(q)[i - 1] = q[i]
    OBVIOUS
  <2>2. i - 1 \in 1 .. Len(q) - 1 /\ (i - 1) + 1 = i
    BY <1>1, <1>2, <2>1
  <2> QED
    BY <1>2, <1>3, <2>2
<1>6. 1 \in DOMAIN q /\ Head(q) = q[1]
  BY <1>1, <1>2
<1> QED
  BY <1>1, <1>4, <1>5, <1>6, Zenon

LEMMA HandledInTime ==
  ASSUME SubsystemsTypeOK, NEW a \in Apps, AskedInTime(a), AppStep(a)
  PROVE  AskedInTime(a)'
<1> DEFINE q == inbox[a]
<1>1. /\ q # <<>> /\ inbox'[a] = Tail(q)
      /\ q \in Seq(Heard) /\ missed \in [Apps -> 0 .. MissLimit] /\ missed[a] \in Nat
  <2>1. inbox \in [Apps -> Seq(Heard)] /\ missed \in [Apps -> 0 .. MissLimit] /\ MissLimit \in Nat
    BY SubsystemsAssumption DEF SubsystemsTypeOK, Heard
  <2>2. inbox[a] # <<>> /\ inbox' = [inbox EXCEPT ![a] = Tail(@)]
    BY DEF AppStep, Receive
  <2> QED
    BY <2>1, <2>2
<1> HIDE DEF q
<1>2. \A i \in DOMAIN q : q[i] = "SEND_HK" => i = 1 /\ missed[a] <= 1 /\ HkRequest[a] \notin onBus
  BY DEF AskedInTime, q
<1>3. \A i \in DOMAIN Tail(q) : Tail(q)[i] # "SEND_HK"
  BY <1>1, <1>2, Taken
<1>4. CASE Head(q) = "SEND_HK" /\ PrepareHkPacket(a, HkRequest[a])
  <2>1. missed[a] <= 1
    BY <1>1, <1>2, <1>4, Taken
  <2>2. missed'[a] <= 2
    BY <1>1, <1>4, <2>1 DEF PrepareHkPacket
  <2>3. HkRequest[a] \in onBus'
    BY <1>4 DEF PrepareHkPacket
  <2> QED
    BY <1>1, <1>3, <2>2, <2>3 DEF AskedInTime
<1>5. CASE Alive(a)
  <2>1. missed'[a] = 0
    BY <1>1, <1>5 DEF Alive
  <2> QED
    BY <1>1, <1>3, <2>1 DEF AskedInTime
<1>6. CASE Head(q) # AnswerTo(a) /\ UNCHANGED <<missed, onBus>>
  <2>1. \A i \in DOMAIN q : q[i] = AnswerTo(a) => \E j \in DOMAIN Tail(q) : Tail(q)[j] = AnswerTo(a)
    <3>1. \A i \in DOMAIN q : i = 1 \/ (i - 1 \in DOMAIN Tail(q) /\ Tail(q)[i - 1] = q[i])
      BY <1>1, Taken
    <3>2. q[1] # AnswerTo(a)
      BY <1>1, <1>6, Taken
    <3> QED
      BY <3>1, <3>2
  <2>2. /\ missed[a] <= 2
        /\ missed[a] = 2 => HkRequest[a] \in onBus \/ \E i \in DOMAIN q : q[i] = AnswerTo(a)
    BY DEF AskedInTime, q
  <2> QED
    BY <1>1, <1>3, <1>6, <2>1, <2>2 DEF AskedInTime
<1> QED
  BY <1>4, <1>5, <1>6 DEF AppStep, q

\* Another application at work.
LEMMA OthersHandle ==
  ASSUME SubsystemsTypeOK, NEW a \in Apps, NEW b \in Apps, a # b, AskedInTime(a), AppStep(b)
  PROVE  AskedInTime(a)'
<1>1. inbox'[a] = inbox[a] /\ missed'[a] = missed[a]
  BY DEF AppStep, Receive, PrepareHkPacket, Alive, SubsystemsTypeOK
<1>2. HkRequest[a] \in onBus' <=> HkRequest[a] \in onBus
  BY RequestsDiffer DEF AppStep, PrepareHkPacket, Alive
<1> QED
  BY <1>1, <1>2 DEF AskedInTime

LEMMA WokenInTime ==
  ASSUME SubsystemsTypeOK, NEW a \in Apps, NEW b \in Apps, AskedInTime(a), Wake(b), a \in prompt'
  PROVE  AskedInTime(a)'
<1>1. UNCHANGED <<missed, onBus>> /\ missed[a] \in Nat
  BY SubsystemsAssumption DEF Wake, boards, SubsystemsTypeOK
<1>2. CASE inbox'[a] = inbox[a]
  BY <1>1, <1>2 DEF AskedInTime
<1>3. CASE inbox'[a] # inbox[a]
  <2>1. a = b /\ inbox'[a] = Append(inbox[a], "SEND_HK")
    BY <1>3 DEF Wake, SubsystemsTypeOK
  <2>2. inbox[a] = <<>> /\ HkRequest[a] \notin onBus
    BY <2>1 DEF Wake
  <2>3. missed[a] <= 1
    <3>1. missed[a] # 2
      BY <2>2 DEF AskedInTime
    <3> QED
      BY <1>1, <3>1 DEF AskedInTime
  <2>4. inbox'[a] = <<"SEND_HK">>
    BY <2>1, <2>2
  <2> QED
    BY <1>1, <2>2, <2>3, <2>4 DEF AskedInTime
<1> QED
  BY <1>2, <1>3

LEMMA AnsweredInTime ==
  ASSUME SubsystemsTypeOK, NEW a \in Apps, AskedInTime(a), NEW r \in onBus,
         Answer(r) \/ NoAnswer(r), a \in prompt'
  PROVE  AskedInTime(a)'
<1>1. PICK b \in Apps : r = HkRequest[b]
  BY DEF SubsystemsTypeOK
<1>2. UNCHANGED missed /\ onBus' = onBus \ {r} /\ missed[a] \in Nat
  BY SubsystemsAssumption DEF Answer, NoAnswer, SubsystemsTypeOK
<1>3. CASE a = b
  <2>1. Answer(r) /\ Len(inbox[a]) < PipeDepth
    BY <1>1, <1>3 DEF Answer, NoAnswer
  <2>2. inbox'[a] = Append(inbox[a], AnswerTo(a))
    BY <1>1, <1>3, <2>1, AnswersHeard, DeliverTyped DEF Answer, AnswerTo
  <2>3. \A i \in DOMAIN inbox[a] : inbox[a][i] # "SEND_HK"
    BY <1>1, <1>3 DEF AskedInTime
  <2>4. inbox[a] \in Seq(Heard) /\ AnswerTo(a) \in Heard /\ AnswerTo(a) # "SEND_HK"
    <3>1. inbox[a] \in Seq(Heard)
      <4>1. inbox \in [Apps -> Seq(Heard)]
        BY DEF SubsystemsTypeOK, Heard
      <4> QED
        BY <4>1
    <3>2. AnswerTo(a) \in Hears(a) \ {"SEND_HK"}
      BY AnswersHeard
    <3> QED
      BY <3>1, <3>2 DEF Heard, Hears
  <2>5. /\ \E i \in DOMAIN inbox'[a] : inbox'[a][i] = AnswerTo(a)
        /\ \A i \in DOMAIN inbox'[a] : inbox'[a][i] # "SEND_HK"
    BY <2>2, <2>3, <2>4, Appended
  <2> QED
    BY <1>2, <2>5 DEF AskedInTime
<1>4. CASE a # b
  <2>1. HkRequest[a] \in onBus' <=> HkRequest[a] \in onBus
    BY <1>1, <1>2, <1>4, RequestsDiffer
  <2>2. inbox'[a] = inbox[a]
    <3>1. CASE NoAnswer(r)
      BY <3>1 DEF NoAnswer
    <3>2. CASE Answer(r)
      <4>1. AnswerTo(b) \notin Hears(a)
        BY <1>4, AnswersHeard
      <4>2. Deliver(AnswerTo(b))
        BY <1>1, <3>2 DEF Answer, AnswerTo
      <4> QED
        BY <4>1, <4>2, DeliverTyped
    <3> QED
      BY <3>1, <3>2
  <2> QED
    BY <1>2, <2>1, <2>2 DEF AskedInTime
<1> QED
  BY <1>3, <1>4

LEMMA ChatterInTime ==
  ASSUME SubsystemsTypeOK, NEW a \in Apps, AskedInTime(a), NEW mid, Chatter(mid)
  PROVE  AskedInTime(a)'
<1>1. UNCHANGED <<missed, onBus>> /\ mid # "SEND_HK"
  BY DEF Chatter, boards
<1>2. \/ inbox'[a] = inbox[a]
      \/ mid \in Hears(a) /\ inbox'[a] = Append(inbox[a], mid)
  BY DeliverTyped DEF Chatter
<1>3. CASE inbox'[a] = inbox[a]
  BY <1>1, <1>3 DEF AskedInTime
<1>4. CASE mid \in Hears(a) /\ inbox'[a] = Append(inbox[a], mid)
  <2>1. inbox[a] \in Seq(Heard) /\ mid \in Heard
    BY <1>4 DEF SubsystemsTypeOK, Heard, Hears
  <2>2. /\ \A i \in DOMAIN inbox[a] : i \in DOMAIN inbox'[a] /\ inbox'[a][i] = inbox[a][i]
        /\ \A i \in DOMAIN inbox'[a] : inbox'[a][i] = "SEND_HK" => i \in DOMAIN inbox[a] /\ inbox[a][i] = "SEND_HK"
    BY <1>1, <1>4, <2>1, Appended
  <2> QED
    BY <1>1, <2>2 DEF AskedInTime
<1> QED
  BY <1>2, <1>3, <1>4

\* An application leaves prompt for good, and until it does it is asked in time.
LEMMA AsksKept ==
  ASSUME LeftOK, SubsystemsTypeOK, InTime, [Next]_vars
  PROVE  /\ prompt' \subseteq prompt /\ prompt' \subseteq left'.awake
         /\ \A a \in prompt' : AskedInTime(a)'
<1>1. left.awake \subseteq Apps /\ left'.awake = left.awake
  BY LeftStep DEF LeftOK, Scenario
<1>2. prompt \subseteq left.awake /\ \A a \in prompt : AskedInTime(a)
  BY DEF InTime
<1>3. ASSUME NEW b \in Apps, AppStep(b)
      PROVE  prompt' = prompt /\ \A a \in prompt' : AskedInTime(a)'
  <2>1. prompt' = prompt
    BY <1>3 DEF AppStep, Receive
  <2> QED
    BY <1>1, <1>2, <1>3, <2>1, HandledInTime, OthersHandle
<1>4. ASSUME NEW b \in left.awake, Wake(b)
      PROVE  prompt' \subseteq prompt /\ \A a \in prompt' : AskedInTime(a)'
  <2>1. prompt' \subseteq prompt
    BY <1>4 DEF Wake
  <2> QED
    BY <1>1, <1>2, <1>4, <2>1, WokenInTime
<1>5. ASSUME NEW r \in onBus, Answer(r) \/ NoAnswer(r)
      PROVE  prompt' \subseteq prompt /\ \A a \in prompt' : AskedInTime(a)'
  <2>1. prompt' \subseteq prompt
    BY <1>5 DEF Answer, NoAnswer
  <2> QED
    BY <1>1, <1>2, <1>5, <2>1, AnsweredInTime
<1>6. ASSUME NEW mid, Chatter(mid)
      PROVE  prompt' = prompt /\ \A a \in prompt' : AskedInTime(a)'
  <2>1. prompt' = prompt
    BY <1>6 DEF Chatter
  <2> QED
    BY <1>1, <1>2, <1>6, <2>1, ChatterInTime
<1>7. ASSUME Still
      PROVE  prompt' \subseteq prompt /\ \A a \in prompt' : AskedInTime(a)'
  <2>1. UNCHANGED <<missed, inbox, onBus, prompt>>
    BY <1>7 DEF Still
  <2>2. \A a \in prompt' : AskedInTime(a)'
    BY <1>2, <2>1 DEF AskedInTime
  <2>3. prompt' = prompt
    BY <2>1
  <2> QED
    BY <2>2, <2>3
<1>8. prompt' \subseteq prompt /\ \A a \in prompt' : AskedInTime(a)'
  BY <1>3, <1>4, <1>5, <1>6, <1>7, StepForApps
<1> QED
  BY <1>1, <1>2, <1>8

-----------------------------------------------------------------------------
(***************************************************************************)
(* The way of a packet, through HK's pipe and its combined packet.         *)
(***************************************************************************)
HkMemory == <<table, cell, told>>

\* What a step is to HK's memory.
StepForHk ==
  \/ UNCHANGED hkPipe /\ UNCHANGED HkMemory
  \/ /\ \E msg \in HkMessage : Clean(msg, prompt) /\ hkPipe' \in {hkPipe, Append(hkPipe, msg)}
     /\ UNCHANGED HkMemory
  \/ ReceiveInput /\ UNCHANGED told
  \/ \E o \in Outputs : HkSends(o)
  \/ /\ UNCHANGED hkPipe \/ (hkPipe # <<>> /\ hkPipe' = Tail(hkPipe))
     /\ UNCHANGED told
     /\ UNCHANGED <<table, cell>> \/ cell' = [e \in Entries |-> Clear]

LEMMA CommandClean ==
  ASSUME NEW msg \in HkMessage, msg.kind # "INPUT", Command(msg)
  PROVE  /\ \E m \in HkMessage : Clean(m, prompt) /\ hkPipe' \in {hkPipe, Append(hkPipe, m)}
         /\ UNCHANGED <<table, cell>>
BY DEF Command, Post, Clean, runtime

LEMMA PublishClean ==
  ASSUME NEW m \in Inputs, NEW d \in Data, Publish(m, d), m \notin prompt \/ d # TRUE
  PROVE  /\ \/ UNCHANGED hkPipe
            \/ \E msg \in HkMessage : Clean(msg, prompt) /\ hkPipe' \in {hkPipe, Append(hkPipe, msg)}
         /\ UNCHANGED <<table, cell>>
<1> DEFINE msg == [kind |-> "INPUT", mid |-> m, data |-> d]
<1>1. msg \in HkMessage /\ Clean(msg, prompt)
  BY DEF HkMessage, Clean
<1>2. hkPipe' \in {hkPipe, Append(hkPipe, msg)} /\ UNCHANGED <<table, cell>>
  BY DEF Publish, Post, runtime
<1> HIDE DEF msg
<1> QED
  BY <1>1, <1>2

\* A wake-up answered in time is answered with no flag.
LEMMA AnswerClean ==
  ASSUME SubsystemsTypeOK, InTime, StaleThreshold >= 2, NEW a \in Apps, AppStep(a),
         Publish(a, HkPacket(a)), Head(inbox[a]) = "SEND_HK"
  PROVE  a \notin prompt \/ HkPacket(a) # TRUE
<1>1. SUFFICES ASSUME a \in prompt PROVE HkPacket(a) # TRUE
  OBVIOUS
<1>2. missed[a] <= 1 /\ missed[a] \in Nat
  <2>1. inbox[a] # <<>> /\ inbox[a] \in Seq(Heard)
    BY DEF AppStep, Receive, SubsystemsTypeOK, Heard
  <2>2. 1 \in DOMAIN inbox[a] /\ inbox[a][1] = "SEND_HK"
    BY <2>1, Taken
  <2>3. missed[a] \in Nat
    BY SubsystemsAssumption DEF SubsystemsTypeOK
  <2> QED
    BY <1>1, <2>2, <2>3 DEF InTime, AskedInTime
<1>3. ~ (missed[a] >= StaleThreshold)
  BY <1>2, SubsystemsAssumption
<1>4. HkPacket(a) = FALSE
  BY <1>3, FlagIs
<1> QED
  BY <1>4

LEMMA StepForHkIs ==
  ASSUME LeftOK, SubsystemsTypeOK, InTime, StaleThreshold >= 2, [Next]_vars
  PROVE  StepForHk
<1>1. CASE HkWorks
  <2>1. UNCHANGED told
    BY <1>1 DEF HkWorks
  <2>2. CASE ReceiveInput
    BY <2>1, <2>2 DEF StepForHk
  <2>3. CASE ResetCounters \/ NoopCmd \/ VerifyLengthFails
    BY <2>1, <2>3 DEF StepForHk, ResetCounters, NoopCmd, VerifyLengthFails, Ignored, Takes, runtime
  <2>4. CASE CheckStatusOfTables({}, {}, {})
    <3>1. UNCHANGED hkPipe \/ (hkPipe # <<>> /\ hkPipe' = Tail(hkPipe))
      BY <2>4 DEF CheckStatusOfTables, Looks, Takes
    <3>2. UNCHANGED <<table, cell>> \/ cell' = [e \in Entries |-> Clear]
      BY <2>4 DEF CheckStatusOfTables, Validate, Update, NothingToDo, ProcessNewCopyTable, runtime
    <3> QED
      BY <2>1, <3>1, <3>2 DEF StepForHk
  <2> QED
    BY <1>1, <2>2, <2>3, <2>4 DEF HkWorks
<1>2. CASE HkInTrouble
  <2>1. UNCHANGED told
    BY <1>2 DEF HkInTrouble
  <2>2. UNCHANGED hkPipe \/ (hkPipe # <<>> /\ hkPipe' = Tail(hkPipe))
    BY <1>2 DEF HkInTrouble, TablesFail, Looks, Takes
  <2>3. UNCHANGED <<table, cell>> \/ cell' = [e \in Entries |-> Clear]
    BY <1>2 DEF HkInTrouble, TablesFail, Update, ProcessNewCopyTable, runtime
  <2> QED
    BY <2>1, <2>2, <2>3 DEF StepForHk
<1>3. CASE WakeHk
  <2>1. [kind |-> "COMBINE", out |-> Scheduled] \in HkMessage
    BY ScenariosAssumption DEF HkMessage
  <2>2. Command([kind |-> "COMBINE", out |-> Scheduled]) /\ UNCHANGED told
    BY <1>3 DEF WakeHk
  <2> QED
    BY <2>1, <2>2, CommandClean DEF StepForHk, HkMemory
<1>4. CASE Ground
  <2>1. UNCHANGED told
    BY <1>4 DEF Ground
  <2>2. ASSUME NEW msg \in HkMessage, msg.kind # "INPUT", Command(msg) PROVE StepForHk
    BY <2>1, <2>2, CommandClean DEF StepForHk, HkMemory
  <2>3. ASSUME NEW t, GroundLoad(t) \/ GroundActivate PROVE StepForHk
    BY <2>1, <2>3 DEF GroundLoad, GroundActivate, StepForHk, HkMemory, runtime
  <2> QED
    BY <1>4, <2>2, <2>3 DEF Ground
<1>5. ASSUME NEW a \in Apps, Handle(a) PROVE StepForHk
  <2>1. AppStep(a) /\ UNCHANGED told
    BY <1>5, HandleIsAppStep
  <2>2. CASE UNCHANGED hkVars
    BY <2>1, <2>2 DEF hkVars, runtime, StepForHk, HkMemory
  <2>3. CASE Head(inbox[a]) = "SEND_HK" /\ Publish(a, HkPacket(a))
    <3>1. a \in Inputs /\ HkPacket(a) \in Data
      BY FlagIs, SubsystemsAssumption
    <3>2. a \notin prompt \/ HkPacket(a) # TRUE
      BY <2>1, <2>3, AnswerClean
    <3> QED
      BY <2>1, <2>3, <3>1, <3>2, PublishClean DEF StepForHk, HkMemory
  <2> QED
    BY <2>1, <2>2, <2>3 DEF AppStep, Alive
<1>6. ASSUME NEW a \in Apps, WakeApp(a) PROVE StepForHk
  BY <1>6 DEF WakeApp, Wake, hkVars, runtime, StepForHk, HkMemory
<1>7. CASE OtherPublishes
  <2>1. PICK m \in left.others, d \in Data : Publish(m, d) /\ UNCHANGED told
    BY <1>7 DEF OtherPublishes
  <2>2. m \in Inputs /\ m \notin prompt
    BY DEF LeftOK, Scenario, InTime
  <2> QED
    BY <2>1, <2>2, PublishClean DEF StepForHk, HkMemory
<1>8. CASE BoardAnswers \/ AnswerLost \/ BoardStops
  <2>1. UNCHANGED hkVars /\ UNCHANGED told
    BY <1>8 DEF BoardAnswers, Answer, AnswerLost, NoAnswer, BoardStops, GoSilent
  <2> QED
    BY <2>1 DEF hkVars, runtime, StepForHk, HkMemory
<1>9. CASE Heartbeat \/ PhotoCommand \/ WakeGvcp
  <2>1. UNCHANGED hkVars /\ UNCHANGED told
    BY <1>9, ChatterIs DEF Chatter
  <2> QED
    BY <2>1 DEF hkVars, runtime, StepForHk, HkMemory
<1>10. CASE Captures \/ DsWorks \/ DsMishap \/ CommSendsFile \/ UNCHANGED vars
  <2>1. UNCHANGED hkVars /\ UNCHANGED told
    BY <1>10, AsideIs DEF Aside, vars
  <2> QED
    BY <2>1 DEF hkVars, runtime, StepForHk, HkMemory
<1>11. CASE \E o \in Outputs : HkSends(o)
  BY <1>11 DEF StepForHk
<1> QED
  BY <1>1, <1>2, <1>3, <1>4, <1>5, <1>6, <1>7, <1>8, <1>9, <1>10, <1>11 DEF Next

\* HK's pipe stays clean as messages come and go.
LEMMA PipeClean ==
  ASSUME HkTypeOK, \A i \in DOMAIN hkPipe : Clean(hkPipe[i], prompt), prompt' \subseteq prompt,
         \/ UNCHANGED hkPipe
         \/ hkPipe # <<>> /\ hkPipe' = Tail(hkPipe)
         \/ \E msg \in HkMessage : Clean(msg, prompt) /\ hkPipe' \in {hkPipe, Append(hkPipe, msg)}
  PROVE  \A i \in DOMAIN hkPipe' : Clean(hkPipe'[i], prompt')
<1>1. hkPipe \in Seq(HkMessage)
  BY DEF HkTypeOK
<1>2. \A msg : Clean(msg, prompt) => Clean(msg, prompt')
  BY DEF Clean
<1>3. CASE UNCHANGED hkPipe
  BY <1>2, <1>3
<1>4. CASE hkPipe # <<>> /\ hkPipe' = Tail(hkPipe)
  <2>1. \A i \in DOMAIN hkPipe' : i + 1 \in DOMAIN hkPipe /\ hkPipe'[i] = hkPipe[i + 1]
    BY <1>1, <1>4, Taken
  <2> QED
    BY <1>2, <2>1
<1>5. ASSUME NEW msg \in HkMessage, Clean(msg, prompt), hkPipe' = Append(hkPipe, msg)
      PROVE  \A i \in DOMAIN hkPipe' : Clean(hkPipe'[i], prompt')
  <2>1. \A i \in DOMAIN hkPipe' : hkPipe'[i] = msg \/ (i \in DOMAIN hkPipe /\ hkPipe'[i] = hkPipe[i])
    BY <1>1, <1>5, Appended
  <2> QED
    BY <1>2, <1>5, <2>1
<1> QED
  BY <1>3, <1>4, <1>5

LEMMA NoFlagKept ==
  ASSUME LeftOK, SubsystemsTypeOK, HkTypeOK, InTime, StaleThreshold >= 2, [Next]_vars
  PROVE  NoFlag'
<1>1. prompt' \subseteq prompt /\ prompt \subseteq left.awake
  BY AsksKept DEF InTime
<1>2. /\ \A i \in DOMAIN hkPipe : Clean(hkPipe[i], prompt)
      /\ \A e \in Entries : table[e].in \in prompt => cell[e] # TRUE
      /\ told \cap prompt = {}
  BY DEF InTime, NoFlag
<1>3. ASSUME UNCHANGED HkMemory
      PROVE  /\ \A e \in Entries : table'[e].in \in prompt' => cell'[e] # TRUE
             /\ told' \cap prompt' = {}
  BY <1>1, <1>2, <1>3 DEF HkMemory
<1>4. CASE UNCHANGED hkPipe /\ UNCHANGED HkMemory
  BY <1>1, <1>2, <1>3, <1>4, PipeClean DEF NoFlag
<1>5. CASE /\ \E msg \in HkMessage : Clean(msg, prompt) /\ hkPipe' \in {hkPipe, Append(hkPipe, msg)}
           /\ UNCHANGED HkMemory
  BY <1>1, <1>2, <1>3, <1>5, PipeClean DEF NoFlag
<1>6. CASE ReceiveInput /\ UNCHANGED told
  <2> DEFINE msg == Head(hkPipe)
  <2>1. hkPipe # <<>> /\ hkPipe' = Tail(hkPipe) /\ msg.kind = "INPUT" /\ UNCHANGED table
    BY <1>6 DEF ReceiveInput, Takes
  <2>2. hkPipe \in Seq(HkMessage) /\ cell \in [Entries -> Data \cup {Clear}]
    BY DEF HkTypeOK
  <2>3. Clean(msg, prompt)
    BY <1>2, <2>1, <2>2, Taken
  <2>4. \A e \in Entries : cell'[e] = cell[e] \/ (table[e].in = msg.mid /\ cell'[e] = msg.data)
    BY <1>6, <2>2 DEF ReceiveInput, Matches, Naming
  <2>5. \A e \in Entries : table'[e].in \in prompt' => cell'[e] # TRUE
    BY <1>1, <1>2, <2>1, <2>3, <2>4 DEF Clean
  <2> QED
    BY <1>1, <1>2, <1>6, <2>1, <2>5, PipeClean DEF NoFlag
<1>7. ASSUME NEW o \in Outputs, HkSends(o) PROVE NoFlag'
  <2>1. hkPipe # <<>> /\ hkPipe' = Tail(hkPipe) /\ UNCHANGED <<table, cell>>
    BY <1>7 DEF HkSends, SendCombined, Takes
  <2>2. told' \in {told, CombinedSent(o)}
    BY <1>7 DEF HkSends
  <2>3. CombinedSent(o) \cap prompt = {}
    BY <1>2 DEF CombinedSent, EntriesOf
  <2>4. told' \cap prompt' = {}
    BY <1>1, <1>2, <2>2, <2>3
  <2> QED
    BY <1>1, <1>2, <2>1, <2>4, PipeClean DEF NoFlag
<1>8. CASE /\ UNCHANGED hkPipe \/ (hkPipe # <<>> /\ hkPipe' = Tail(hkPipe))
           /\ UNCHANGED told
           /\ UNCHANGED <<table, cell>> \/ cell' = [e \in Entries |-> Clear]
  <2>1. Clear # TRUE
    BY HkAssumption, SubsystemsAssumption
  <2>2. \A e \in Entries : table'[e].in \in prompt' => cell'[e] # TRUE
    BY <1>1, <1>2, <1>8, <2>1
  <2> QED
    BY <1>1, <1>2, <1>8, <2>2, PipeClean DEF NoFlag
<1> QED
  BY <1>4, <1>5, <1>6, <1>7, <1>8, StepForHkIs DEF StepForHk

LEMMA InTimeInit ==
  ASSUME Init
  PROVE  InTime /\ SubsystemsTypeOK /\ told \subseteq Apps
<1>1. PICK s \in Scenarios : left = s
  BY DEF Init
<1>2. left.awake \subseteq Apps
  BY <1>1, ScenariosAssumption DEF Scenario
<1>3. /\ missed = [a \in Apps |-> AppInit[a].missed] /\ inbox = [a \in Apps |-> <<>>]
      /\ onBus \subseteq {HkRequest[a] : a \in left.awake} /\ silent = {}
      /\ prompt = left.awake /\ told = {}
  BY DEF Init, SubsystemsInit
<1>4. hkPipe = <<>> /\ cell = [e \in Entries |-> Clear] /\ Clear # TRUE
  BY HkAssumption, SubsystemsAssumption DEF Init, StartWith
<1>5. NoFlag
  <2>1. DOMAIN hkPipe = {}
    BY <1>4
  <2>2. \A e \in Entries : cell[e] # TRUE
    BY <1>4
  <2> QED
    BY <1>3, <2>1, <2>2 DEF NoFlag
<1>6. ASSUME NEW a \in Apps PROVE AskedInTime(a)
  <2>1. missed[a] \in {0, 1} /\ inbox[a] = <<>>
    BY <1>3, FirstMissed
  <2> QED
    BY <2>1 DEF AskedInTime
<1>7. SubsystemsTypeOK
  <2>1. missed \in [Apps -> 0 .. MissLimit]
    BY <1>3, FirstMissed, SubsystemsAssumption
  <2> QED
    BY <1>2, <1>3, <2>1, SubsystemsAssumption DEF SubsystemsTypeOK
<1> QED
  BY <1>2, <1>3, <1>5, <1>6, <1>7 DEF InTime

-----------------------------------------------------------------------------
\* Every variable of HK, of the applications and of what the ground has been told
\* keeps its type, in a system of any size.
THEOREM TypesCorrect == Spec => []TypeOK
<1>1. Init => SubsystemsTypeOK /\ told \subseteq Apps
  BY InTimeInit
<1>2. ASSUME LeftOK, SubsystemsTypeOK /\ told \subseteq Apps, [Next]_vars
      PROVE  (SubsystemsTypeOK /\ told \subseteq Apps)'
  <2>1. told' \subseteq Apps
    <3>1. CASE \E o \in Outputs : HkSends(o)
      <4>1. left.awake \subseteq Apps
        BY <1>2 DEF LeftOK, Scenario
      <4> QED
        BY <1>2, <3>1, <4>1 DEF HkSends, CombinedSent
    <3>2. CASE UNCHANGED told
      BY <1>2, <3>2
    <3>3. UNCHANGED told \/ \E o \in Outputs : HkSends(o)
      <4>1. (\E a \in Apps : Handle(a)) => UNCHANGED told
        BY HandleIsAppStep
      <4>2. Heartbeat \/ PhotoCommand \/ WakeGvcp => UNCHANGED told
        BY ChatterIs DEF Chatter
      <4>3. Captures \/ DsWorks \/ DsMishap \/ CommSendsFile => UNCHANGED told
        BY AsideIs DEF Aside
      <4> QED
        BY <1>2, <4>1, <4>2, <4>3 DEF Next, vars, HkWorks, HkInTrouble, WakeHk, Ground, WakeApp,
             OtherPublishes, BoardAnswers, AnswerLost, BoardStops
    <3> QED
      BY <3>1, <3>2, <3>3
  <2> QED
    BY <1>2, <2>1, AppTypesKept
<1>3. Spec => [](SubsystemsTypeOK /\ told \subseteq Apps)
  BY <1>1, <1>2, LeftAlways, PTL DEF Spec
<1> QED
  BY <1>3, HkTypesAlways, PTL DEF TypeOK

\* The stale flag raises no false alarm: an application whose board has answered every
\* request before the next wake-up is in no combined packet reported stale, whatever
\* the other applications, the cameras, HK's tables and the ground do.  A threshold
\* of two misses is enough; the code's is five.
THEOREM NoFalseAlarmHolds ==
  ASSUME StaleThreshold >= 2
  PROVE  Spec => []NoFalseAlarm
<1>1. Init => InTime
  BY InTimeInit
<1>2. LeftOK /\ TypeOK /\ InTime /\ [Next]_vars => InTime'
  BY AsksKept, NoFlagKept DEF InTime, TypeOK
<1>3. InTime => NoFalseAlarm
  BY DEF InTime, NoFlag, NoFalseAlarm
<1> QED
  BY <1>1, <1>2, <1>3, LeftAlways, TypesCorrect, PTL DEF Spec

-----------------------------------------------------------------------------
(***************************************************************************)
(* GroundLink, for a file of any size: after n pieces the file has been    *)
(* read up to At(n), and as long as nothing failed the ground has the      *)
(* first n pieces and nothing else.                                        *)
(***************************************************************************)
At(k) == k * PduLength

Piece(k) == [control |-> IF k = 0 THEN 1 ELSE 0, count |-> k, length |-> PduLength, from |-> At(k)]

Pieces(n) == {Piece(k) : k \in 0 .. n - 1}

FinalPacket(n, count, length) == [control |-> 2, count |-> count, length |-> length, from |-> At(n)]

-----------------------------------------------------------------------------
LEMMA AtNext ==
  ASSUME NEW k \in Nat
  PROVE  At(k) \in Nat /\ At(k + 1) = At(k) + PduLength
BY GroundAssumption DEF At

LEMMA AtLater ==
  ASSUME NEW j \in Nat, NEW k \in Nat, j < k
  PROVE  At(j) + PduLength <= At(k)
<1>1. PduLength \in Nat
  BY GroundAssumption
<1>2. (j + 1) * PduLength <= k * PduLength
  BY <1>1, SMTT(30)
<1> QED
  BY <1>2, AtNext DEF At

\* Each byte before the n-th piece is in one of those before it.
LEMMA AtFound ==
  ASSUME NEW n \in Nat, NEW b \in Nat, b < At(n)
  PROVE  \E k \in 0 .. n - 1 : At(k) <= b /\ b < At(k) + PduLength
<1> DEFINE k == b \div PduLength
<1>1. k \in Nat /\ k * PduLength <= b /\ b < k * PduLength + PduLength
  BY GroundAssumption
<1> HIDE DEF k
<1>2. At(k) <= b /\ b < At(k) + PduLength
  BY <1>1 DEF At
<1>3. k < n
  <2>1. n < k => At(n) + PduLength <= At(k)
    BY <1>1, AtLater
  <2>2. At(k) \in Nat /\ At(n) \in Nat /\ PduLength \in Nat
    BY <1>1, AtNext, GroundAssumption
  <2> QED
    BY <1>1, <1>2, <2>1, <2>2
<1> QED
  BY <1>1, <1>2, <1>3

\* A file the sequence count has numbers for.
LEMMA CountFits ==
  ASSUME NEW z \in FileSizes, NEW n \in Nat, At(n) <= z
  PROVE  n + 1 < CountMod /\ CountMod \in Int
<1>1. /\ z \in Nat /\ PduLength \in Nat \ {0} /\ CountMod \in Nat \ {0}
      /\ z < At(CountMod - 1) /\ At(CountMod - 1) \in Nat /\ At(n) \in Nat
  BY AtNext, GroundAssumption DEF At
<1>2. CountMod - 1 < n => At(CountMod - 1) + PduLength <= At(n)
  BY <1>1, AtLater
<1>3. ~ CountMod - 1 <= n
  BY <1>1, <1>2
<1> QED
  BY <1>1, <1>3

-----------------------------------------------------------------------------
\* What GroundRebuilds says of packets L and a file of size z.
Rebuilt(L, z) ==
  /\ \A byte \in 0 .. z - 1 : Cardinality({p \in L : Covers(p, byte)}) = 1
  /\ \A p, q \in L : p.count < q.count => p.from + p.length <= q.from
  /\ \E last \in L : last.control = 2 /\ \A p \in L \ {last} :
       p.count < last.count /\ p.control # 2

\* Pieces and the last packet make the file.
LEMMA FileRebuilt ==
  ASSUME NEW L, NEW z \in Nat, NEW n \in Nat, NEW c \in {n, n + 1},
         At(n) <= z, z < At(n) + PduLength,
         L = Pieces(n) \cup {FinalPacket(n, c, z - At(n))}
  PROVE  Rebuilt(L, z)
<1> DEFINE last == FinalPacket(n, c, z - At(n))
<1>1. /\ last \in L /\ last.control = 2 /\ last.count = c /\ last.from = At(n)
      /\ last.from + last.length = z /\ PduLength \in Nat \ {0} /\ At(n) \in Nat
  BY AtNext, GroundAssumption DEF FinalPacket
<1>2. \A p \in L : p = last \/ \E k \in 0 .. n - 1 : p = Piece(k)
  BY DEF Pieces
<1>3. \A k \in 0 .. n - 1 :
        /\ Piece(k) \in L /\ Piece(k).control # 2 /\ Piece(k).count = k
        /\ Piece(k).from = At(k) /\ Piece(k).length = PduLength
        /\ At(k) \in Nat /\ At(k) + PduLength <= At(n)
  <2> SUFFICES ASSUME NEW k \in 0 .. n - 1
               PROVE  /\ Piece(k) \in L /\ Piece(k).control # 2 /\ Piece(k).count = k
                      /\ Piece(k).from = At(k) /\ Piece(k).length = PduLength
                      /\ At(k) \in Nat /\ At(k) + PduLength <= At(n)
    OBVIOUS
  <2>1. Piece(k) \in L
    BY DEF Pieces
  <2>2. At(k) \in Nat /\ At(k) + PduLength <= At(n)
    BY AtNext, AtLater
  <2> QED
    BY <2>1, <2>2 DEF Piece
<1>4. \A j, k \in 0 .. n - 1 : j < k => At(j) + PduLength <= At(k)
  BY AtLater
<1> HIDE DEF last
<1>5. ASSUME NEW byte \in 0 .. z - 1
      PROVE  Cardinality({p \in L : Covers(p, byte)}) = 1
  <2>1. \E x : {p \in L : Covers(p, byte)} = {x}
    <3>1. CASE byte < At(n)
      <4>1. PICK k \in 0 .. n - 1 : At(k) <= byte /\ byte < At(k) + PduLength
        BY <3>1, AtFound
      <4>2. Piece(k) \in L /\ Covers(Piece(k), byte)
        BY <1>3, <4>1 DEF Covers
      <4>3. ASSUME NEW p \in L, Covers(p, byte) PROVE p = Piece(k)
        <5>1. p # last
          BY <1>1, <3>1, <4>3 DEF Covers
        <5>2. PICK j \in 0 .. n - 1 : p = Piece(j)
          BY <1>2, <5>1
        <5>3. At(j) <= byte /\ byte < At(j) + PduLength
          BY <1>3, <4>3, <5>2 DEF Covers
        <5>4. At(j) \in Nat /\ At(k) \in Nat
          BY <1>3
        <5>5. ~ j < k /\ ~ k < j
          BY <1>1, <1>4, <4>1, <5>3, <5>4
        <5> QED
          BY <5>2, <5>5
      <4> QED
        BY <4>2, <4>3
    <3>2. CASE byte >= At(n)
      <4>1. Covers(last, byte)
        BY <1>1, <3>2 DEF Covers
      <4>2. ASSUME NEW p \in L, Covers(p, byte) PROVE p = last
        <5> SUFFICES ASSUME NEW k \in 0 .. n - 1, p = Piece(k) PROVE FALSE
          BY <1>2
        <5>1. byte < At(k) + PduLength /\ At(k) + PduLength <= At(n) /\ At(k) \in Nat
          BY <1>3, <4>2 DEF Covers
        <5> QED
          BY <1>1, <3>2, <5>1
      <4> QED
        BY <1>1, <4>1, <4>2
    <3>3. byte < At(n) \/ byte >= At(n)
      BY <1>1
    <3> QED
      BY <3>1, <3>2, <3>3, Zenon
  <2>2. PICK x : {p \in L : Covers(p, byte)} = {x}
    BY <2>1
  <2>3. Cardinality({x}) = 1
    BY FS_Singleton
  <2> QED
    BY <2>2, <2>3
<1>6. ASSUME NEW p \in L, NEW q \in L, p.count < q.count
      PROVE  p.from + p.length <= q.from
  <2>1. CASE p = last
    <3>1. c < q.count
      BY <1>1, <1>6, <2>1
    <3>2. q # last
      BY <1>1, <3>1
    <3>3. PICK k \in 0 .. n - 1 : q = Piece(k)
      BY <1>2, <3>2
    <3> QED
      BY <1>3, <3>1, <3>3
  <2>2. CASE p # last
    <3>1. PICK j \in 0 .. n - 1 : p = Piece(j)
      BY <1>2, <2>2
    <3>2. p.count = j /\ p.from = At(j) /\ p.length = PduLength /\ At(j) + PduLength <= At(n)
      BY <1>3, <3>1
    <3>3. CASE q = last
      BY <1>1, <3>2, <3>3
    <3>4. CASE q # last
      <4>1. PICK k \in 0 .. n - 1 : q = Piece(k)
        BY <1>2, <3>4
      <4>2. q.count = k /\ q.from = At(k)
        BY <1>3, <4>1
      <4> QED
        BY <1>4, <1>6, <3>2, <4>2
    <3> QED
      BY <3>3, <3>4
  <2> QED
    BY <2>1, <2>2
<1>7. \A p \in L \ {last} : p.count < last.count /\ p.control # 2
  <2> SUFFICES ASSUME NEW k \in 0 .. n - 1
               PROVE  Piece(k).count < last.count /\ Piece(k).control # 2
    BY <1>2
  <2> QED
    BY <1>1, <1>3
<1> QED
  BY <1>1, <1>5, <1>6, <1>7 DEF Rebuilt

-----------------------------------------------------------------------------
\* n pieces of the file have been read, and sent unless faults were counted.
HasRead(n) ==
  /\ position = At(n) /\ At(n) <= size
  /\ faults = 0 => landed = Pieces(n)

GroundInv ==
  /\ faults \in Nat /\ counter \in Nat
  /\ sends \in {"INIT", "PIECES", "LAST", "SUCCESS"} => size \in FileSizes
  /\ sends \in {"NONE", "INIT"} => position = 0 /\ counter = 0 /\ landed = {}
  /\ sends = "PIECES" => HasRead(counter)
  /\ sends = "LAST" => /\ size - position < PduLength
                       /\ \E n \in Nat : HasRead(n) /\ counter \in {n, n + 1}
  /\ GroundRebuilds

LEMMA GroundStart ==
  ASSUME NEW sizes, GroundInit(sizes)
  PROVE  GroundInv
BY DEF GroundInit, GroundInv, GroundRebuilds

LEMMA GiveUpKeeps ==
  ASSUME GroundInv, GiveUp
  PROVE  GroundInv'
BY DEF GroundInv, GiveUp, GroundRebuilds

LEMMA SendPieceKeeps ==
  ASSUME GroundInv, SendPiece
  PROVE  GroundInv'
<1>1. /\ size \in FileSizes /\ size \in Nat /\ counter \in Nat /\ position = At(counter)
      /\ faults \in Nat /\ sends = "PIECES" /\ At(counter) \in Nat /\ PduLength \in Nat \ {0}
      /\ At(counter) <= size
  BY AtNext, GroundAssumption DEF SendPiece, GroundInv, HasRead
<1>2. BytesRead = PduLength /\ At(counter) + PduLength <= size
  BY <1>1 DEF SendPiece, IsRest, BytesRead
<1>3. position' = At(counter + 1) /\ counter' = counter + 1 /\ At(counter + 1) <= size
  BY <1>1, <1>2, AtNext DEF SendPiece
<1>4. counter % CountMod = counter
  <2>1. counter + 1 < CountMod /\ CountMod \in Int
    BY <1>1, CountFits
  <2> QED
    BY <1>1, <2>1
<1> DEFINE packet == TelemetryPacket(BytesRead, IF counter = 0 THEN 1 ELSE 0, counter)
<1>5. packet = Piece(counter)
  BY <1>1, <1>2, <1>4 DEF TelemetryPacket, Piece
<1>6. faults' \in Nat /\ (faults' = 0 => landed' = Pieces(counter + 1))
  <2>1. \/ landed' = landed \cup {packet} /\ faults' = faults
        \/ faults' = faults + 1
    BY DEF SendPiece, SendData
  <2>2. landed = Pieces(counter) => landed \cup {Piece(counter)} = Pieces(counter + 1)
    <3>1. 0 .. counter = (0 .. counter - 1) \cup {counter} /\ (counter + 1) - 1 = counter
      BY <1>1
    <3> QED
      BY <3>1 DEF Pieces
  <2> QED
    <3>1. faults = 0 => landed = Pieces(counter)
      BY <1>1 DEF GroundInv, HasRead
    <3>2. CASE landed' = landed \cup {packet} /\ faults' = faults
      BY <1>1, <1>5, <2>2, <3>1, <3>2
    <3>3. CASE faults' = faults + 1
      BY <1>1, <3>3
    <3> QED
      BY <2>1, <3>2, <3>3
<1> QED
  BY <1>1, <1>3, <1>6 DEF SendPiece, GroundInv, HasRead, GroundRebuilds

LEMMA EndOfFileKeeps ==
  ASSUME GroundInv, EndOfFile
  PROVE  GroundInv'
<1>1. /\ size \in FileSizes /\ size \in Nat /\ counter \in Nat /\ position = At(counter)
      /\ faults \in Nat /\ sends = "PIECES" /\ At(counter) \in Nat /\ PduLength \in Nat \ {0}
      /\ HasRead(counter)
  BY AtNext, GroundAssumption DEF EndOfFile, GroundInv, HasRead
<1>2. size - position < PduLength
  BY <1>1 DEF EndOfFile, IsRest, BytesRead
<1>3. HasRead(counter)' \/ HasRead(counter)
  BY <1>1
<1>4. /\ counter' \in {counter, counter + 1} /\ sends' = "LAST"
      /\ UNCHANGED <<size, position, faults, landed>>
  BY DEF EndOfFile
<1>5. \E n \in Nat : HasRead(n)' /\ counter' \in {n, n + 1}
  <2>1. position' = At(counter) /\ At(counter) <= size' /\ (faults' = 0 => landed' = Pieces(counter))
    BY <1>1, <1>4 DEF HasRead
  <2> QED
    BY <1>1, <1>4, <2>1 DEF HasRead
<1> QED
  BY <1>1, <1>2, <1>4, <1>5 DEF GroundInv, GroundRebuilds

LEMMA SendLastKeeps ==
  ASSUME GroundInv, SendLast
  PROVE  GroundInv'
<1>1. PICK n \in Nat : HasRead(n) /\ counter \in {n, n + 1}
  BY DEF SendLast, GroundInv
<1>2. /\ size \in FileSizes /\ size \in Nat /\ counter \in Nat /\ position = At(n)
      /\ faults \in Nat /\ At(n) \in Nat /\ PduLength \in Nat \ {0}
      /\ At(n) <= size /\ size < At(n) + PduLength
  <2>1. size \in FileSizes /\ counter \in Nat /\ faults \in Nat /\ size - position < PduLength
    BY DEF SendLast, GroundInv
  <2>2. size \in Nat /\ PduLength \in Nat \ {0}
    BY <2>1, GroundAssumption
  <2>3. position = At(n) /\ At(n) <= size /\ At(n) \in Nat
    BY <1>1, AtNext DEF HasRead
  <2> QED
    BY <2>1, <2>2, <2>3
<1>3. BytesRead = size - At(n)
  BY <1>2 DEF BytesRead
<1>4. counter % CountMod = counter
  <2>1. n + 1 < CountMod /\ CountMod \in Int
    BY <1>2, CountFits
  <2> QED
    BY <1>1, <1>2, <2>1
<1>5. TelemetryPacket(BytesRead, 2, counter) = FinalPacket(n, counter, size - At(n))
  BY <1>2, <1>3, <1>4 DEF TelemetryPacket, FinalPacket
<1>6. CASE faults' = 0
  <2>1. faults = 0 /\ landed' = landed \cup {FinalPacket(n, counter, size - At(n))}
    BY <1>2, <1>5, <1>6 DEF SendLast, SendData
  <2>2. landed' = Pieces(n) \cup {FinalPacket(n, counter, size - At(n))} /\ size' = size
    BY <1>1, <2>1 DEF HasRead, SendLast
  <2>3. GroundRebuilds'
    <3>1. Rebuilt(landed', size)
      BY <1>1, <1>2, <2>2, FileRebuilt
    <3> QED
      BY <2>2, <3>1 DEF GroundRebuilds, Rebuilt
  <2> QED
    BY <1>2, <1>6, <2>3 DEF SendLast, GroundInv
<1>7. CASE faults' # 0
  <2>1. faults' \in Nat
    BY <1>2 DEF SendLast, SendData
  <2> QED
    BY <1>2, <1>7, <2>1 DEF SendLast, GroundInv, GroundRebuilds
<1> QED
  BY <1>6, <1>7

\* A step of COMMMC_APP_SEND_FILE_TO_GROUND.
LEMMA GroundStep ==
  ASSUME GroundInv, NEW sizes \in SUBSET FileSizes, SendFile(sizes) \/ UNCHANGED groundVars
  PROVE  GroundInv'
<1>1. CASE \E n \in sizes : OpenFile(n)
  <2>1. CASE GiveUp
    BY <2>1, GiveUpKeeps
  <2>2. CASE sends' = "INIT" /\ UNCHANGED <<position, counter, faults, landed>>
    BY <1>1, <2>2 DEF OpenFile, GroundInv, GroundRebuilds
  <2> QED
    BY <1>1, <2>1, <2>2 DEF OpenFile
<1>2. CASE SendInit
  <2>1. CASE GiveUp
    BY <2>1, GiveUpKeeps
  <2>2. CASE sends' = "PIECES" /\ UNCHANGED <<position, counter, faults, landed>>
    <3>1. /\ size' = size /\ size \in FileSizes /\ size \in Nat
          /\ position = 0 /\ counter = 0 /\ landed = {}
      BY <1>2, GroundAssumption DEF SendInit, GroundInv
    <3>2. At(0) = 0 /\ Pieces(0) = {}
      <4>1. 0 .. 0 - 1 = {}
        OBVIOUS
      <4> QED
        BY <4>1, GroundAssumption DEF At, Pieces
    <3>3. HasRead(counter)'
      BY <2>2, <3>1, <3>2 DEF HasRead
    <3> QED
      BY <2>2, <3>1, <3>3 DEF GroundInv, GroundRebuilds
  <2> QED
    BY <1>2, <2>1, <2>2 DEF SendInit
<1>3. CASE ReadFails
  BY <1>3, GiveUpKeeps DEF ReadFails
<1>4. CASE UNCHANGED groundVars
  BY <1>4 DEF groundVars, GroundInv, HasRead, GroundRebuilds
<1> QED
  BY <1>1, <1>2, <1>3, <1>4, SendPieceKeeps, EndOfFileKeeps, SendLastKeeps DEF SendFile

-----------------------------------------------------------------------------
\* Only COMMMC sends its file.
LEMMA GroundUser ==
  ASSUME LeftOK, [Next]_vars
  PROVE  \E sizes \in SUBSET FileSizes : SendFile(sizes) \/ UNCHANGED groundVars
<1>1. left.files \in SUBSET FileSizes
  BY DEF LeftOK, Scenario
<1>2. CASE CommSendsFile
  BY <1>1, <1>2 DEF CommSendsFile
<1>3. CASE (\E o \in Outputs : HkSends(o)) \/ HkWorks \/ HkInTrouble \/ WakeHk \/ Ground
  <2>1. Outside => UNCHANGED groundVars
    BY DEF Outside
  <2> QED
    BY <1>1, <1>3, <2>1 DEF HkSends, HkWorks, HkInTrouble, WakeHk, Ground
<1>4. ASSUME NEW a \in Apps, Handle(a) \/ WakeApp(a) PROVE UNCHANGED groundVars
  BY <1>4 DEF Handle, WakeApp
<1>5. CASE OtherPublishes \/ BoardAnswers \/ AnswerLost \/ Heartbeat \/ PhotoCommand
             \/ BoardStops \/ WakeGvcp
  BY <1>1, <1>5 DEF OtherPublishes, Outside, BoardAnswers, AnswerLost, Heartbeat, PhotoCommand,
                    BoardStops, WakeGvcp
<1>6. CASE Captures \/ DsWorks \/ DsMishap
  BY <1>1, <1>6 DEF Captures, DsWorks, DsMishap
<1>7. CASE UNCHANGED vars
  BY <1>1, <1>7 DEF vars
<1> QED
  BY <1>1, <1>2, <1>3, <1>4, <1>5, <1>6, <1>7 DEF Next

\* A file of any size the sequence count can number, sent without an error, can be put
\* together on the ground whatever the order its connections were served in.
THEOREM GroundRebuildsHolds == Spec => []GroundRebuilds
<1>1. Init => GroundInv
  BY GroundStart DEF Init
<1>2. LeftOK /\ GroundInv /\ [Next]_vars => GroundInv'
  BY GroundUser, GroundStep
<1>3. GroundInv => GroundRebuilds
  BY DEF GroundInv
<1> QED
  BY <1>1, <1>2, <1>3, LeftAlways, PTL DEF Spec

-----------------------------------------------------------------------------
\* Photos are PAYLOADMC's, the cameras' and DS's.
LEMMA PhotoUser ==
  ASSUME LeftOK, [Next]_vars
  PROVE  PhotoStep \/ UNCHANGED photoVars
<1>1. left.outcomes \subseteq [Cameras -> Outcomes]
  BY DEF LeftOK, Scenario
<1>2. CASE (\E o \in Outputs : HkSends(o)) \/ HkWorks \/ HkInTrouble \/ WakeHk \/ Ground
  <2>1. Outside => UNCHANGED photoVars
    BY DEF Outside
  <2> QED
    BY <1>2, <2>1 DEF HkSends, HkWorks, HkInTrouble, WakeHk, Ground
<1>3. CASE PAYLOADMC_appMain
  <2>1. PAYLOADMC_photoPipe(Head(inbox["PAYLOADMC"])) => PhotoStep
    <3>1. doing = "NONE"
      BY <1>3 DEF PAYLOADMC_appMain
    <3> QED
      BY <1>1, <3>1 DEF PAYLOADMC_photoPipe, PAYLOADMC_takePhoto, PhotoStep
  <2> QED
    BY <1>3, <2>1 DEF PAYLOADMC_appMain
<1>4. ASSUME NEW a \in Apps, Handle(a) \/ WakeApp(a) PROVE PhotoStep \/ UNCHANGED photoVars
  BY <1>3, <1>4 DEF Handle, WakeApp
<1>5. CASE OtherPublishes \/ BoardAnswers \/ AnswerLost \/ Heartbeat \/ PhotoCommand
             \/ BoardStops \/ WakeGvcp \/ CommSendsFile
  BY <1>5 DEF OtherPublishes, Outside, BoardAnswers, AnswerLost, Heartbeat, PhotoCommand,
              BoardStops, WakeGvcp, CommSendsFile
<1>6. CASE Captures \/ DsWorks \/ DsMishap
  BY <1>6 DEF Captures, DsWorks, DsMishap, PhotoStep
<1>7. CASE UNCHANGED vars
  BY <1>7 DEF vars
<1> QED
  BY <1>2, <1>4, <1>5, <1>6, <1>7 DEF Next

\* For any number of cameras, any size of frames, chunks, files and pipes, whatever was
\* lost of the stream and however DS came to end the file, a photo file it completes
\* holds the whole picture of every capture it has something of.  Left out are the
\* captures of which a chunk was dropped or not stored, those cut in two by the end of
\* a file, and those of several cameras at once; and captures share a file only after
\* a close command that was dropped.
THEOREM PhotoWholeHolds == Spec => []PhotoWhole
<1>1. Init => PhotoInv
  BY PhotoStart DEF Init
<1>2. LeftOK /\ PhotoInv /\ [Next]_vars => PhotoInv'
  BY PhotoUser, PhotoStepKeeps
<1>3. PhotoInv => PhotoWhole
  BY DEF PhotoInv
<1> QED
  BY <1>1, <1>2, <1>3, LeftAlways, PTL DEF Spec

=============================================================================
