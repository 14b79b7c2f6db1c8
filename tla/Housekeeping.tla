---------------------------- MODULE Housekeeping ----------------------------
(***************************************************************************)
(* HK, the subsystem applications, their boards and PAYLOADMC's cameras,   *)
(* driven by the scheduler's wake-ups and by the ground.  PAYLOADMC's one  *)
(* task answers housekeeping requests and captures photos: while it        *)
(* captures, everything else waits in its pipe; and so it does for COMMMC  *)
(* while it sends its file to the ground.                                  *)
(***************************************************************************)
EXTENDS Subsystems, PhotoCapture, GroundLink

CONSTANTS
  Scheduled, \* the combined packet sch_lab has sent: HK_COMBINED_PKT1_MID
  Scenarios  \* bounds: what may happen in one behaviour, see Scenario

\* What happens in a behaviour, so that the cases add up and do not multiply.
Scenario ==
  [awake    : SUBSET Apps,            \* applications that run and are woken
   others   : SUBSET Inputs,          \* packets that come whenever they like
   table    : FirstTables,            \* HK's first table
   loads    : SUBSET Tables,          \* tables the ground may load, each once
   troubles : Nat,                    \* table updates the pool or the bus gets in the way of
   commands : Nat,                    \* commands of the ground to HK
   quiet    : SUBSET Boards,          \* boards that may stop
   pings    : SUBSET Boards,          \* boards that send heartbeats
   shots    : Nat,                    \* take-photo and capture commands
   outcomes : SUBSET [Cameras -> Outcomes], \* what the cameras make of a take-photo
   mishaps  : Nat,                    \* files DS cannot write or closes early, commands to switch it
   files    : SUBSET FileSizes]       \* sizes of the file COMMMC sends when it starts

ASSUME ScenariosAssumption ==
  /\ Scheduled \in Outputs /\ Scenarios \subseteq Scenario
  /\ \A s \in Scenarios : s.others \cap s.awake = {}

VARIABLES
  left, \* what of the scenario is still to come
  told  \* history: applications whose flag was set in the combined packet last sent

vars == <<hkVars, appVars, photoVars, groundVars, left, told>>

Spend(field) == left[field] > 0 /\ left' = [left EXCEPT ![field] = @ - 1]

-----------------------------------------------------------------------------
(***************************************************************************)
(* HK.                                                                     *)
(***************************************************************************)
Outside == UNCHANGED <<appVars, photoVars, groundVars>>

CombinedSent(o) ==
  LET in(E) == {table[e].in : e \in E} \cap left.awake
      of    == EntriesOf(table, o)
  IN (told \ in(of)) \cup in({e \in of : cell[e] = TRUE})

HkSends(o) ==
  /\ SendCombined(o)
  /\ told' = IF PacketFound(o) THEN CombinedSent(o) ELSE told
  /\ Outside /\ UNCHANGED left

HkWorks ==
  /\ \/ ReceiveInput \/ ResetCounters \/ NoopCmd \/ VerifyLengthFails
     \/ CheckStatusOfTables({}, {}, {})
  /\ Outside /\ UNCHANGED <<left, told>>

HkInTrouble ==
  /\ Spend("troubles")
  /\ \/ \E refuse, deny, keep \in SUBSET Entries : Looks /\ Update(refuse, deny, keep)
     \/ TablesFail
  /\ Outside /\ UNCHANGED told

\* HK is woken once its last wake-up has been served; HK_PIPE_DEPTH is far from
\* what a period brings.
WakeHk ==
  /\ left.awake \cup left.others # {}
  /\ \A i \in DOMAIN hkPipe : hkPipe[i].kind # "COMBINE"
  /\ Command([kind |-> "COMBINE", out |-> Scheduled])
  /\ Outside /\ UNCHANGED <<left, told>>

Ground ==
  /\ \/ /\ Spend("commands")
        /\ \E msg \in {m \in HkMessage : m.kind # "INPUT"} : Command(msg)
     \/ \E t \in left.loads : GroundLoad(t) /\ left' = [left EXCEPT !.loads = @ \ {t}]
     \/ GroundActivate /\ UNCHANGED left
  /\ Outside /\ UNCHANGED told

-----------------------------------------------------------------------------
(***************************************************************************)
(* The applications.                                                       *)
(***************************************************************************)
PAYLOADMC_takePhoto == \E outcome \in left.outcomes : TakePhoto(outcome)

PAYLOADMC_photoPipe(mid) ==
  \/ mid = "TAKEPHOTO" /\ PAYLOADMC_takePhoto
  \/ mid = "CAPTURE_FRAME" /\ CaptureFrame
  \/ mid = "SEND_GVCP_HEARTBEAT" /\ SendGvcpHeartbeat

PAYLOADMC_appMain ==
  /\ doing = "NONE"
  /\ Receive("PAYLOADMC")
  /\ LET mid == Head(inbox["PAYLOADMC"])
     IN \/ PAYLOADMC_appTaskPipe(mid) /\ UNCHANGED photoVars
        \/ PAYLOADMC_photoPipe(mid) /\ UNCHANGED <<missed, onBus, hkVars>>

Handle(a) ==
  /\ \/ a = "POWERMC" /\ POWERMC_appMain /\ UNCHANGED photoVars
     \/ a = "MPPTMC"  /\ MPPTMC_appMain  /\ UNCHANGED photoVars
     \/ a = "ADCSMC"  /\ ADCSMC_appMain  /\ UNCHANGED photoVars
     \/ a = "COMMMC"  /\ COMMMC_appMain  /\ UNCHANGED photoVars /\ GroundDone
     \/ a = "PAYLOADMC" /\ PAYLOADMC_appMain
  /\ UNCHANGED <<groundVars, left, told>>

HkHas(mid) == \E i \in DOMAIN hkPipe : hkPipe[i].kind = "INPUT" /\ hkPipe[i].mid = mid

\* A wake-up comes when the last one has been served and HK has taken the packet,
\* or when the application's task is held up.
WakeDue(a) == ~ HkHas(a) /\ \A i \in DOMAIN inbox[a] : inbox[a][i] # "SEND_HK"

WakeApp(a) ==
  /\ a \in left.awake
  /\ \/ WakeDue(a)
     \/ a = "PAYLOADMC" /\ doing # "NONE"
     \/ a = "COMMMC" /\ ~ GroundDone
  /\ Wake(a)
  /\ UNCHANGED <<photoVars, groundVars, left, told>>

\* An application of which nothing but its packets is modelled.
OtherPublishes ==
  /\ \E m \in left.others, d \in Data : ~ HkHas(m) /\ Publish(m, d)
  /\ Outside /\ UNCHANGED <<left, told>>

-----------------------------------------------------------------------------
\* The boards.  The bound on pings and commands: they find an empty pipe.
BoardAnswers ==
  /\ \E r \in onBus : Answer(r)
  /\ UNCHANGED <<photoVars, groundVars, left, told>>

AnswerLost ==
  /\ \E r \in onBus : NoAnswer(r)
  /\ UNCHANGED <<photoVars, groundVars, left, told>>

Heartbeat ==
  /\ \/ inbox["MPPTMC"] = <<>> /\ "MPPT" \in left.pings /\ Unprompted("MPPT", "MPPT_HEARTBEAT")
     \/ inbox["PAYLOADMC"] = <<>> /\ "PAYLOAD" \in left.pings
          /\ Unprompted("PAYLOAD", "PAYLOAD_HEARTBEAT")
  /\ UNCHANGED <<photoVars, groundVars, left, told>>

PhotoCommand ==
  /\ Spend("shots")
  /\ \E id \in {"TAKEPHOTO", "CAPTURE_FRAME"} : Unprompted("PAYLOAD", id)
  /\ UNCHANGED <<photoVars, groundVars, told>>

BoardStops ==
  /\ \E b \in left.quiet : GoSilent(b) /\ left' = [left EXCEPT !.quiet = @ \ {b}]
  /\ UNCHANGED <<photoVars, groundVars, told>>

WakeGvcp ==
  /\ imaging /\ inbox["PAYLOADMC"] = <<>>
  /\ Deliver("SEND_GVCP_HEARTBEAT")
  /\ UNCHANGED <<hkVars, missed, boards, prompt, photoVars, groundVars, left, told>>

-----------------------------------------------------------------------------
Captures ==
  /\ \/ \E c \in Cameras : Arrive(c) \/ LosePacket(c)
     \/ CaptureFails \/ Transmit \/ TransmitFails
  /\ UNCHANGED <<hkVars, appVars, groundVars, left, told>>

DsWorks ==
  /\ DsStores \/ DsSkips \/ DsCloses
  /\ UNCHANGED <<hkVars, appVars, groundVars, left, told>>

DsMishap ==
  /\ Spend("mishaps")
  /\ DsCannotStore \/ DsClosesEarly \/ \E on \in BOOLEAN : DsSwitched(on)
  /\ UNCHANGED <<hkVars, appVars, groundVars, told>>

\* The end of COMMMC_appInit.
CommSendsFile == SendFile(left.files) /\ UNCHANGED <<hkVars, appVars, photoVars, left, told>>

Init ==
  /\ left \in Scenarios
  /\ StartWith(left.table)
  /\ SubsystemsInit(left.awake)
  /\ PhotoInit
  /\ GroundInit(left.files)
  /\ told = {}

Next ==
  \/ \E o \in Outputs : HkSends(o)
  \/ HkWorks \/ HkInTrouble \/ WakeHk \/ Ground
  \/ \E a \in Apps : Handle(a) \/ WakeApp(a)
  \/ OtherPublishes
  \/ BoardAnswers \/ AnswerLost \/ Heartbeat \/ PhotoCommand \/ BoardStops \/ WakeGvcp
  \/ Captures \/ DsWorks \/ DsMishap \/ CommSendsFile

\* Every task gets its turn, and the scheduler's wake-ups keep coming; the boards
\* and the ground owe nothing.
Fairness ==
  /\ WF_vars(HkWorks \/ \E o \in Outputs : HkSends(o))
  /\ WF_vars(WakeHk)
  /\ \A a \in Apps : WF_vars(Handle(a)) /\ WF_vars(WakeApp(a))
  /\ WF_vars(Captures) /\ WF_vars(DsWorks) /\ WF_vars(CommSendsFile)

Spec == Init /\ [][Next]_vars /\ Fairness

-----------------------------------------------------------------------------
(***************************************************************************)
(* Properties.                                                             *)
(***************************************************************************)

\* Types of all components.
TypeOK == HkTypeOK /\ SubsystemsTypeOK /\ told \subseteq Apps

\* An application whose board has answered every request before the next wake-up
\* never has its readings reported stale to the ground, from the first combined
\* packet on: the request made before the application had a pipe included.
NoFalseAlarm == prompt \cap told = {}

\* HK has a place for the application's packet in the packet it is woken for.
Reports(a) ==
  /\ run = "RUN" /\ a \in left.awake /\ a \in subs
  /\ \E e \in Matches(a) : table[e].out = Scheduled /\ addr[e] # Null

\* When a board has stopped for good, the combined packets say so from some time
\* on, however long it stays away, provided HK collects its application's packet
\* and a capture does not hold that application up for ever.
SilentBoardReported ==
  []<>(doing = "NONE") =>
    \A a \in Apps : <>[](HkRequest[a].to \in silent /\ Reports(a)) => <>[](a \in told)

=============================================================================
