----------------------------- MODULE ImgXferIdle ----------------------------
(***************************************************************************)
(* ImgXfer under COMMMC's real clock.  The abort guard counts software-bus *)
(* receive timeouts, and every message COMMMC receives, whatever it is,    *)
(* starts the receive and its timeout afresh (commMC_app.c, main loop).    *)
(* Here are the messages that keep arriving on their own: the scheduler's  *)
(* housekeeping and command wake-ups, the COMM telemetry the former asks   *)
(* for over CAN, a few stray ones, and requests the card repeats.          *)
(*                                                                         *)
(* Time is counted in seconds, and so are sch_lab's ticks here: the        *)
(* periods of its table, 10.05 s and 12.01 s, are rounded to seconds,      *)
(* every phase between them is tried, and the scheduler may run up to      *)
(* MaxLag behind.                                                          *)
(***************************************************************************)
EXTENDS ImgXfer, SchLab

CONSTANTS
  SBTimeout,    \* COMMMC_SB_TIMEOUT
  ReplyDelays,  \* how long COMM telemetry may take to arrive
  CardRetries,  \* does the card repeat its request while a transfer runs?
  MaxStray,     \* bound: other messages (DS_COMP, imaging mode, late answers)
  WaitLimit     \* within this many seconds an unanswered transfer is aborted

ASSUME ClockAssumption ==
  /\ SBTimeout \in Nat \ {0}
  /\ DOMAIN Schedule = {"COMMMC_SEND_HK_MID", "COMMMC_CMD_MID"}
  /\ ReplyDelays \subseteq Nat
  /\ CardRetries \in BOOLEAN
  /\ {MaxStray, WaitLimit} \subseteq Nat

Never == -1   \* no telemetry is on its way

VARIABLES
  idle,    \* seconds the current CFE_SB_ReceiveBuffer call has waited
  tlmIn,   \* seconds to the arrival of COMM telemetry
  strays,  \* stray messages so far
  waited   \* history: seconds since the transfer last got an answer

clocks   == <<schVars, tlmIn>>
idleVars == <<vars, idle, clocks, strays, waited>>

IdleInit ==
  /\ Init
  /\ AppInit \/ UnderWay
  /\ idle = 0 /\ strays = 0 /\ waited = 0
  /\ tlmIn = Never

\* Receiving anything restarts the wait.
Receive == idle' = 0

\* The periodic messages, none of which the state machine looks at: the request for
\* housekeeping asks the COMM card for telemetry, the command does nothing here.
OnWakeUps(sends) ==
  /\ tlmIn' \in IF "COMMMC_SEND_HK_MID" \in sends THEN ReplyDelays \cup {Never} ELSE {tlmIn}
  /\ IF sends = {} THEN UNCHANGED idle ELSE Receive
  /\ UNCHANGED <<vars, strays, waited>>

WakeUps == \E sends \in SUBSET Scheduled : AppMain(sends) /\ OnWakeUps(sends)

TlmDue ==
  /\ tlmIn = 0
  /\ tlmIn' = Never
  /\ Receive
  /\ UNCHANGED <<vars, schVars, strays, waited>>

Stray ==
  /\ strays < MaxStray
  /\ strays' = strays + 1
  /\ Receive
  /\ UNCHANGED <<vars, clocks, waited>>

\* DS completes a photo; the card asks for it; the answers the transfer waits for.
NewPhoto ==
  /\ lastPhoto = NoPhoto
  /\ \E f \in Photos : OnDsFileComplete(f)
  /\ UNCHANGED waited

Request == state = "IDLE" /\ StartTransfer /\ waited' = 0

Answer ==
  /\ \/ state = "WAIT_BEGIN_ACK" /\ \E chunk \in AckChunks : OnBeginAck(FALSE, 0, chunk)
     \/ state = "WAIT_CHUNK_ACK" /\ OnChunkAck(FALSE, 0, curChunk % IdxMod)
     \/ state = "WAIT_SPI_DONE"  /\ OnSpiDone(0, curChunk % IdxMod)
     \/ state = "WAIT_RESULT"    /\ OnResult(0)
  /\ waited' = 0

Retry == CardRetries /\ state # "IDLE" /\ OnRequest /\ UNCHANGED waited

Transfer ==
  /\ NewPhoto \/ Request \/ Answer \/ Retry
  /\ Receive
  /\ UNCHANGED <<clocks, strays>>

\* The receive times out: the idle tick.
Timeout ==
  /\ idle = SBTimeout
  /\ OnTick
  /\ idle' = 0
  /\ UNCHANGED <<clocks, strays, waited>>

\* A second passes: the timer ticks.  Telemetry that is due has been received first,
\* and so has, but for MaxLag ticks, whatever is scheduled.
Clock ==
  /\ idle < SBTimeout
  /\ tlmIn # 0
  /\ ~ CatchesUp
  /\ LocalTimerCallback
  /\ idle' = idle + 1
  /\ tlmIn' = IF tlmIn = Never THEN Never ELSE tlmIn - 1
  /\ waited' = IF state = "IDLE" THEN 0
               ELSE IF waited <= WaitLimit THEN waited + 1 ELSE waited
  /\ UNCHANGED <<vars, strays>>

IdleNext == WakeUps \/ TlmDue \/ Stray \/ Transfer \/ Timeout \/ Clock

\* Time passes, timeouts fire and scheduled messages are delivered; nothing is
\* assumed of the card.
IdleFairness ==
  WF_idleVars(Clock) /\ WF_idleVars(Timeout) /\ WF_idleVars(WakeUps) /\ WF_idleVars(TlmDue)

IdleSpec == IdleInit /\ [][IdleNext]_idleVars /\ IdleFairness

-----------------------------------------------------------------------------
\* A transfer whose answer was lost is aborted, however the scheduled wake-ups
\* fall: they restart the receive timeout but leave it room often enough.
AbortedInTime == state \in Active => waited <= WaitLimit

\* Nor is it aborted early: a card that answers within MaxStuckTicks receive
\* timeouts, 15 s, loses no transfer to the guard, whatever else arrives.
NotAbortedEarly ==
  [][ Timeout /\ state \in Active /\ state' = "IDLE" =>
        waited >= MaxStuckTicks * SBTimeout \/ waited > WaitLimit ]_idleVars

\* A lost answer cannot hang a transfer forever.
NoTransferHangs == (state \in Active) ~> (state = "IDLE")
=============================================================================
