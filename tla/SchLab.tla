------------------------------- MODULE SchLab -------------------------------
(***************************************************************************)
(* The scheduler, sch_lab: a timer gives its semaphore once per tick, and  *)
(* for every tick its task takes, it counts on each entry of the schedule  *)
(* table and sends the messages that have become due.  Nothing is sent     *)
(* before the first 1 Hz message has been seen (sch_lab_app.c).            *)
(***************************************************************************)
EXTENDS Integers, FiniteSetsExt

CONSTANTS
  Schedule, \* the schedule table: per message, its PacketRate in ticks
  MaxLag    \* bound: how many ticks the task may be behind its timer

Scheduled == {mid \in DOMAIN Schedule : Schedule[mid] # 0}

ASSUME SchLabAssumption ==
  /\ Schedule \in [DOMAIN Schedule -> Nat] /\ Scheduled # {}
  /\ MaxLag \in Nat

\* The delivered table, in ticks of 10 ms, with the entries this mission builds.
Delivered ==
  [CFE_ES_SEND_HK_MID |-> 100, CFE_TBL_SEND_HK_MID |-> 50, CFE_TIME_SEND_HK_MID |-> 98,
   CFE_SB_SEND_HK_MID |-> 97, CFE_EVS_SEND_HK_MID |-> 96,
   CI_LAB_SEND_HK_MID |-> 95, TO_LAB_SEND_HK_MID |-> 94,
   POWERMC_SEND_HK_MID |-> 1001, MPPTMC_SEND_HK_MID |-> 1002, ADCSMC_SEND_HK_MID |-> 1003,
   PAYLOADMC_SEND_HK_MID |-> 1004, COMMMC_SEND_HK_MID |-> 1005,
   HK_SEND_COMBINED_PKT_MID |-> 1006, COMMMC_CMD_MID |-> 1201,
   CANIOMC_SEND_HEARTBEAT_MID |-> 100, PAYLOADMC_SEND_GVCP_HEARTBEAT_MID |-> 100]

InSeconds(mid) == (Delivered[mid] + 50) \div 100

VARIABLES
  runs,      \* the application has started and its timer is set
  timingSem, \* the semaphore's count
  oneHz,     \* SCH_OneHzPktsRcvd > 0
  counter    \* per entry: Counter

schVars == <<runs, timingSem, oneHz, counter>>

\* SCH_LAB_AppInit: without semaphore, time base, timer or table the application
\* ends.  A pipe that cannot be had is only reported: no 1 Hz message is ever seen.
AppInit ==
  /\ runs \in BOOLEAN
  /\ timingSem = 0 /\ oneHz = FALSE
  /\ counter = [mid \in Scheduled |-> 0]

\* Any state sch_lab can be in when it has no tick to catch up with.
UnderWay ==
  /\ runs = TRUE
  /\ timingSem = 0 /\ oneHz = TRUE
  /\ counter \in [Scheduled -> 0 .. Max({Schedule[mid] : mid \in Scheduled}) - 1]
  /\ \A mid \in Scheduled : counter[mid] < Schedule[mid]

\* SCH_LAB_LocalTimerCallback.
LocalTimerCallback ==
  /\ timingSem' = IF runs THEN timingSem + 1 ELSE timingSem
  /\ UNCHANGED <<runs, oneHz, counter>>

CatchesUp == timingSem > MaxLag

\* The messages sent for the tick at hand, once a 1 Hz message has been seen.
Due == {mid \in Scheduled : counter[mid] + 1 >= Schedule[mid]}

\* One round of SCH_LAB_AppMain's loop, which sends the messages in sends.
AppMain(sends) ==
  /\ timingSem > 0
  /\ timingSem' = timingSem - 1
  /\ oneHz' \in {oneHz, TRUE}
  /\ counter' = IF oneHz'
                THEN [mid \in Scheduled |-> IF mid \in Due THEN 0 ELSE counter[mid] + 1]
                ELSE counter
  /\ sends = IF oneHz' THEN Due ELSE {}
  /\ UNCHANGED runs
=============================================================================
