----------------------------- MODULE Subsystems -----------------------------
(***************************************************************************)
(* The five applications that stand for a board on the CAN bus.  Woken by  *)
(* the scheduler, each publishes its housekeeping packet from what it has  *)
(* cached, asks its board for fresh readings over CAN and counts a miss;   *)
(* the answer, which CANIOMC recognises by sender and message ID, refills  *)
(* the cache and clears the count.  A packet that follows too many misses  *)
(* carries the stale flag (<app>_app.c, _cmds.c and _dispatch.c of each,   *)
(* canIOMC_app_cmds.c, canIOMC_app_router.c).                              *)
(*                                                                         *)
(* An application, and the ID of its packet, is a string; so is the ID of  *)
(* a message to it.  A packet is its stale flag; readings, counters and    *)
(* the cached imaging mode, which no code reads, are left out.             *)
(***************************************************************************)
EXTENDS HkCombiner

CONSTANTS
  HeaderSize,     \* sizeof(CFE_MSG_TelemetryHeader_t)
  StaleThreshold, \* <APP>_<BOARD>_STALE_THRESHOLD, 5 in all of them
  MissLimit,      \* where the miss count stops: 0xFF
  PipeDepth       \* <APP>_PIPE_DEPTH

Apps   == {"POWERMC", "MPPTMC", "ADCSMC", "PAYLOADMC", "COMMMC"}
Boards == {"EPS", "MPPT", "ADCS", "PAYLOAD", "COMM"}

ASSUME SubsystemsAssumption ==
  /\ Apps \subseteq Inputs /\ BOOLEAN \subseteq Data
  /\ {HeaderSize, StaleThreshold, MissLimit, PipeDepth} \subseteq Nat
  /\ StaleThreshold \in 1 .. MissLimit

VARIABLES
  missed,  \* per application: EpsMissCount and its like
  inbox,   \* per application: its pipe
  onBus,   \* housekeeping requests whose answer is out
  silent,  \* boards that have stopped
  prompt   \* history: applications whose board has always answered in time

boards  == <<onBus, silent>>
appVars == <<missed, inbox, boards, prompt>>

-----------------------------------------------------------------------------
(***************************************************************************)
(* What an application subscribes to, and its miss count when it is up:    *)
(* the first packet, and the first request, are made before there is a     *)
(* pipe.  ADCSMC clears its data once more at the end.                     *)
(***************************************************************************)
POWERMC_appInit   == [hears |-> {"SEND_HK", "EPS_TLM"}, missed |-> 1]
MPPTMC_appInit    == [hears |-> {"SEND_HK", "MPPT_TLM", "MPPT_HEARTBEAT"}, missed |-> 1]
ADCSMC_appInit    == [hears |-> {"SEND_HK", "ADCS_TLM"}, missed |-> 0]
PAYLOADMC_appInit == [hears |-> {"SEND_HK", "PAYLOAD_TLM", "PAYLOAD_HEARTBEAT", "TAKEPHOTO",
                                 "CAPTURE_FRAME", "SEND_GVCP_HEARTBEAT"}, missed |-> 1]
COMMMC_appInit    == [hears |-> {"SEND_HK", "COMM_TLM"}, missed |-> 1]

AppInit == [POWERMC |-> POWERMC_appInit, MPPTMC |-> MPPTMC_appInit,
            ADCSMC |-> ADCSMC_appInit, PAYLOADMC |-> PAYLOADMC_appInit,
            COMMMC |-> COMMMC_appInit]

\* Their housekeeping requests on CAN.
POWERMC_HkRequest   == [to |-> "EPS",     id |-> "OBCPOWER_HK"]
MPPTMC_HkRequest    == [to |-> "MPPT",    id |-> "MPPT_HK"]
ADCSMC_HkRequest    == [to |-> "ADCS",    id |-> "ADCS_HK"]
PAYLOADMC_HkRequest == [to |-> "PAYLOAD", id |-> "PAYLOAD_HK"]
COMMMC_HkRequest    == [to |-> "COMM",    id |-> "COMM_HK"]

HkRequest == [POWERMC |-> POWERMC_HkRequest, MPPTMC |-> MPPTMC_HkRequest,
              ADCSMC |-> ADCSMC_HkRequest, PAYLOADMC |-> PAYLOADMC_HkRequest,
              COMMMC |-> COMMMC_HkRequest]

\* CANIOMC's route table for unprompted messages, as far as PAYLOADMC is concerned.
Routed(id) == IF id \in {"TAKEPHOTO", "CAPTURE_FRAME"} THEN id ELSE "NONE"

\* Mutant: COMM's telemetry is looked for under the ID of the EPS.
PublishedMixedUp(sender, id) ==
  CASE sender = "EPS"     /\ id = "OBCPOWER_HK"       -> "EPS_TLM"
    [] sender = "MPPT"    /\ id = "MPPT_HK"           -> "MPPT_TLM"
    [] sender = "ADCS"    /\ id = "ADCS_HK"           -> "ADCS_TLM"
    [] sender = "COMM"    /\ id = "OBCPOWER_HK"       -> "COMM_TLM"
    [] OTHER -> Routed(id)

\* What CANIOMC_PollAndPublishCanRx publishes for a message to the OBC.
Published(sender, id) ==
  CASE sender = "EPS"     /\ id = "OBCPOWER_HK"       -> "EPS_TLM"
    [] sender = "MPPT"    /\ id = "MPPT_HK"           -> "MPPT_TLM"
    [] sender = "MPPT"    /\ id = "MPPT_HEARTBEAT"    -> "MPPT_HEARTBEAT"
    [] sender = "PAYLOAD" /\ id = "PAYLOAD_HK"        -> "PAYLOAD_TLM"
    [] sender = "PAYLOAD" /\ id = "PAYLOAD_HEARTBEAT" -> "PAYLOAD_HEARTBEAT"
    [] sender = "ADCS"    /\ id = "ADCS_HK"           -> "ADCS_TLM"
    [] sender = "COMM"    /\ id = "COMM_HK"           -> "COMM_TLM"
    [] OTHER -> Routed(id)

-----------------------------------------------------------------------------
\* HK's table as hk_cpy_tbl.c has it, for the applications in the sequence apps: each
\* packet behind its header, one after the other behind the header of packet o.
CopyTable(apps, o) ==
  LET Bytes(i) == InputSize[apps[i]] - HeaderSize
      to[i \in 1 .. Len(apps)] == IF i = 1 THEN HeaderSize ELSE to[i - 1] + Bytes(i - 1)
  IN [e \in Entries |->
        IF e \in DOMAIN apps
        THEN [in |-> apps[e], at |-> HeaderSize, out |-> o, to |-> to[e], n |-> Bytes(e)]
        ELSE [in |-> Reserved, at |-> 0, out |-> Reserved, to |-> 0, n |-> 0]]

-----------------------------------------------------------------------------
\* The software bus gives a message to the applications that have subscribed to
\* it; one whose pipe is full misses it.
Deliver(mid) ==
  inbox' = [a \in Apps |->
              IF mid \in AppInit[a].hears /\ Len(inbox[a]) < PipeDepth
              THEN Append(inbox[a], mid) ELSE inbox[a]]

(***************************************************************************)
(* The boards, which no code of the repository describes: a board answers  *)
(* a request once or not at all, one may ping unasked, one may stop.       *)
(***************************************************************************)
Answer(r) ==
  /\ r \in onBus /\ r.to \notin silent
  /\ onBus' = onBus \ {r}
  /\ Deliver(Published(r.to, r.id))
  /\ prompt' = {a \in prompt : HkRequest[a] # r \/ Len(inbox[a]) < PipeDepth}
  /\ UNCHANGED <<missed, silent, hkVars>>

\* A request or its answer is lost on the CAN bus or at a full pipe, or the
\* answer is cut short, in which case CANIOMC does not publish it.
NoAnswer(r) ==
  /\ r \in onBus
  /\ onBus' = onBus \ {r}
  /\ prompt' = {a \in prompt : HkRequest[a] # r}
  /\ UNCHANGED <<missed, inbox, silent, hkVars>>

Unprompted(b, id) ==
  /\ b \notin silent
  /\ Deliver(Published(b, id))
  /\ UNCHANGED <<missed, boards, prompt, hkVars>>

GoSilent(b) ==
  /\ silent' = silent \cup {b}
  /\ UNCHANGED <<missed, inbox, onBus, prompt, hkVars>>

-----------------------------------------------------------------------------
\* sch_lab's wake-up of an application.
Wake(a) ==
  /\ inbox' = [inbox EXCEPT ![a] = IF Len(@) < PipeDepth THEN Append(@, "SEND_HK") ELSE @]
  /\ prompt' = IF HkRequest[a] \in onBus \/ inbox[a] # <<>> THEN prompt \ {a} ELSE prompt
  /\ UNCHANGED <<missed, boards, hkVars>>

HkPacket(a) == missed[a] >= StaleThreshold

\* Mutant: the count wraps around.
PrepareHkPacketWraps(a, request) ==
  /\ missed' = [missed EXCEPT ![a] = (@ + 1) % (MissLimit + 1)]
  /\ onBus' = onBus \cup {request}

\* Mutant: the count does not stop.
PrepareHkPacketUnbounded(a, request) ==
  /\ missed' = [missed EXCEPT ![a] = @ + 1]
  /\ onBus' = onBus \cup {request}

\* The packet is filled (HkPacket), then fresh readings are asked for.
PrepareHkPacket(a, request) ==
  /\ missed' = [missed EXCEPT ![a] = IF @ < MissLimit THEN @ + 1 ELSE @]
  /\ onBus' = onBus \cup {request}

\* Readings or a heartbeat have come.
Alive(a) ==
  /\ missed' = [missed EXCEPT ![a] = 0]
  /\ UNCHANGED <<onBus, hkVars>>

Receive(a) ==
  /\ inbox[a] # <<>>
  /\ inbox' = [inbox EXCEPT ![a] = Tail(@)]
  /\ UNCHANGED <<silent, prompt>>

-----------------------------------------------------------------------------
POWERMC_appPrepareHkPacket   == PrepareHkPacket("POWERMC", POWERMC_HkRequest)
POWERMC_APP_SEND_HK_TO_SB    ==
  POWERMC_appPrepareHkPacket /\ Publish("POWERMC", HkPacket("POWERMC"))
POWERMC_ProcessEpsTlm  == Alive("POWERMC")

POWERMC_appTaskPipe(mid) ==
  \/ mid = "SEND_HK" /\ POWERMC_APP_SEND_HK_TO_SB
  \/ mid = "EPS_TLM" /\ POWERMC_ProcessEpsTlm

POWERMC_appMain == Receive("POWERMC") /\ POWERMC_appTaskPipe(Head(inbox["POWERMC"]))
-----------------------------------------------------------------------------
MPPTMC_appPrepareHkPacket   == PrepareHkPacket("MPPTMC", MPPTMC_HkRequest)
MPPTMC_APP_SEND_HK_TO_SB    ==
  MPPTMC_appPrepareHkPacket /\ Publish("MPPTMC", HkPacket("MPPTMC"))
MPPTMC_ProcessMpptTlm  == Alive("MPPTMC")
MPPTMC_ProcessMpptHeartbeat == Alive("MPPTMC")

MPPTMC_appTaskPipe(mid) ==
  \/ mid = "SEND_HK" /\ MPPTMC_APP_SEND_HK_TO_SB
  \/ mid = "MPPT_TLM" /\ MPPTMC_ProcessMpptTlm
  \/ mid = "MPPT_HEARTBEAT" /\ MPPTMC_ProcessMpptHeartbeat

MPPTMC_appMain == Receive("MPPTMC") /\ MPPTMC_appTaskPipe(Head(inbox["MPPTMC"]))
-----------------------------------------------------------------------------
ADCSMC_appPrepareHkPacket   == PrepareHkPacket("ADCSMC", ADCSMC_HkRequest)
ADCSMC_APP_SEND_HK_TO_SB    ==
  ADCSMC_appPrepareHkPacket /\ Publish("ADCSMC", HkPacket("ADCSMC"))
ADCSMC_ProcessAdcsTlm  == Alive("ADCSMC")

ADCSMC_appTaskPipe(mid) ==
  \/ mid = "SEND_HK" /\ ADCSMC_APP_SEND_HK_TO_SB
  \/ mid = "ADCS_TLM" /\ ADCSMC_ProcessAdcsTlm

ADCSMC_appMain == Receive("ADCSMC") /\ ADCSMC_appTaskPipe(Head(inbox["ADCSMC"]))
-----------------------------------------------------------------------------
PAYLOADMC_appPrepareHkPacket   == PrepareHkPacket("PAYLOADMC", PAYLOADMC_HkRequest)
PAYLOADMC_APP_SEND_HK_TO_SB    ==
  PAYLOADMC_appPrepareHkPacket /\ Publish("PAYLOADMC", HkPacket("PAYLOADMC"))
PAYLOADMC_ProcessPayloadTlm  == Alive("PAYLOADMC")
PAYLOADMC_ProcessPayloadHeartbeat == Alive("PAYLOADMC")

PAYLOADMC_appTaskPipe(mid) ==
  \/ mid = "SEND_HK" /\ PAYLOADMC_APP_SEND_HK_TO_SB
  \/ mid = "PAYLOAD_TLM" /\ PAYLOADMC_ProcessPayloadTlm
  \/ mid = "PAYLOAD_HEARTBEAT" /\ PAYLOADMC_ProcessPayloadHeartbeat
-----------------------------------------------------------------------------
COMMMC_appPrepareHkPacket   == PrepareHkPacket("COMMMC", COMMMC_HkRequest)
COMMMC_APP_SEND_HK_TO_SB    ==
  COMMMC_appPrepareHkPacket /\ Publish("COMMMC", HkPacket("COMMMC"))
COMMMC_ProcessCommTlm  == Alive("COMMMC")

COMMMC_appTaskPipe(mid) ==
  \/ mid = "SEND_HK" /\ COMMMC_APP_SEND_HK_TO_SB
  \/ mid = "COMM_TLM" /\ COMMMC_ProcessCommTlm

COMMMC_appMain == Receive("COMMMC") /\ COMMMC_appTaskPipe(Head(inbox["COMMMC"]))
-----------------------------------------------------------------------------
\* The applications in awake are running; some of their first requests may
\* already have been answered, before there was anyone to hear it.
SubsystemsInit(awake) ==
  /\ missed = [a \in Apps |-> AppInit[a].missed]
  /\ inbox = [a \in Apps |-> <<>>]
  /\ onBus \in SUBSET {HkRequest[a] : a \in awake}
  /\ silent = {}
  /\ prompt = awake

SubsystemsTypeOK ==
  /\ missed \in [Apps -> 0 .. MissLimit]
  /\ inbox \in [Apps -> Seq(UNION {AppInit[a].hears : a \in Apps})]
  /\ \A a \in Apps : inbox[a] \in Seq(AppInit[a].hears) /\ Len(inbox[a]) <= PipeDepth
  /\ onBus \subseteq {HkRequest[a] : a \in Apps}
  /\ silent \subseteq Boards
  /\ prompt \subseteq Apps

=============================================================================
