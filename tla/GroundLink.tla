----------------------------- MODULE GroundLink -----------------------------
(***************************************************************************)
(* COMMMC sends a file to the ground: an announcement, the file in pieces  *)
(* of PduLength, each a packet on a connection of its own, and a last      *)
(* packet with the rest (commMC_app_cmds.c, commMC_app_utils.c).  It does  *)
(* so when it starts, before it reads its pipe.  The ground serves each    *)
(* connection in a thread of its own (tcp_ground_listener.py), so packets  *)
(* may be written down in any order.                                       *)
(*                                                                         *)
(* A packet's data is the stretch of the file it carries, from one byte    *)
(* up to another; checksums, the hash and the bytes the last packet has    *)
(* beyond its length are left out.                                         *)
(***************************************************************************)
EXTENDS Integers, Sequences, FiniteSets

CONSTANTS
  FileSizes, \* sizes the file may have
  PduLength, \* pduDataLengthBytes
  CountMod   \* packetSequenceCount has 14 bits

ASSUME GroundAssumption ==
  /\ FileSizes \subseteq Nat /\ PduLength \in Nat \ {0} /\ CountMod \in Nat \ {0}
  /\ \A n \in FileSizes : n < (CountMod - 1) * PduLength

VARIABLES
  sends,   \* "IDLE": not in this behaviour, "NONE": not yet begun, "INIT", "PIECES",
           \* "LAST": what it sends next, "SUCCESS", "ERROR": how it ended
  size,    \* of the file
  position,      \* how far it has been read
  counter, \* pieces read
  faults,  \* ErrCounter
  landed   \* what the ground has

groundVars == <<sends, size, position, counter, faults, landed>>

\* COMMMC_APP_CREATE_TELEMETRY_HEADER, with the data's own length, and the data.
TelemetryPacket(length, control, count) ==
  [control |-> control, count |-> count % CountMod, length |-> length, from |-> position]

\* COMMMC_APP_SEND_DATA_TO_GROUND: all of it is sent, or the connection fails.
SendData(packet) ==
  \/ landed' = landed \cup {packet} /\ UNCHANGED faults
  \/ faults' = faults + 1 /\ UNCHANGED landed

GiveUp == sends' = "ERROR" /\ faults' = faults + 1 /\ UNCHANGED <<position, counter, landed>>

\* The file is opened, measured and hashed; each can fail.
OpenFile(n) ==
  /\ sends = "NONE"
  /\ size' = n
  /\ \/ sends' = "INIT" /\ UNCHANGED <<position, counter, faults, landed>>
     \/ GiveUp

\* The announcement, which holds no data; without it nothing is sent.
SendInit ==
  /\ sends = "INIT"
  /\ \/ sends' = "PIECES" /\ UNCHANGED <<position, counter, faults, landed>>
     \/ GiveUp
  /\ UNCHANGED size

\* fread.
BytesRead == IF size - position < PduLength THEN size - position ELSE PduLength

\* Mutant: a full piece is taken for the last.
IsRestOrFull(n) == n <= PduLength

IsRest(n) == n < PduLength

\* One round of the loop.  A piece that cannot be sent is counted, and the next
\* one follows all the same.
SendPiece ==
  /\ sends = "PIECES" /\ BytesRead > 0 /\ ~ IsRest(BytesRead)
  /\ SendData(TelemetryPacket(BytesRead, IF counter = 0 THEN 1 ELSE 0, counter))
  /\ position' = position + BytesRead
  /\ counter' = counter + 1
  /\ UNCHANGED <<sends, size>>

\* The rest of the file has been read, or nothing was left of it: the last packet
\* is numbered one higher if there is a rest.
EndOfFile ==
  /\ sends = "PIECES"
  /\ \/ BytesRead > 0 /\ IsRest(BytesRead) /\ counter' = counter + 1
     \/ BytesRead = 0 /\ UNCHANGED counter
  /\ sends' = "LAST"
  /\ UNCHANGED <<size, position, faults, landed>>

\* A read that fails within a piece, and so returns a short one, is left out.
ReadFails == sends = "PIECES" /\ GiveUp /\ UNCHANGED size

SendLast ==
  /\ sends = "LAST"
  /\ SendData(TelemetryPacket(BytesRead, 2, counter))
  /\ sends' = IF faults' = faults THEN "SUCCESS" ELSE "ERROR"
  /\ UNCHANGED <<size, position, counter>>

\* COMMMC_APP_SEND_FILE_TO_GROUND for a file of one of these sizes.
SendFile(sizes) ==
  \/ \E n \in sizes : OpenFile(n)
  \/ SendInit \/ SendPiece \/ EndOfFile \/ ReadFails \/ SendLast

GroundInit(sizes) ==
  /\ sends = IF sizes = {} THEN "IDLE" ELSE "NONE"
  /\ size = 0 /\ position = 0 /\ counter = 0 /\ faults = 0
  /\ landed = {}

\* COMMMC_appMain has begun.
GroundDone == sends \in {"IDLE", "SUCCESS", "ERROR"}

-----------------------------------------------------------------------------
Covers(p, byte) == p.from <= byte /\ byte < p.from + p.length

\* When COMMMC reports a file sent and has counted no error, the ground can put it
\* together from the packets in whatever order their connections were served: each
\* byte came once, numbers tell which piece goes before which, and the packet
\* marked as last is the one with the highest.
GroundRebuilds ==
  sends = "SUCCESS" /\ faults = 0 =>
    /\ \A byte \in 0 .. size - 1 : Cardinality({p \in landed : Covers(p, byte)}) = 1
    /\ \A p, q \in landed : p.count < q.count => p.from + p.length <= q.from
    /\ \E last \in landed : last.control = 2 /\ \A p \in landed \ {last} :
         p.count < last.count /\ p.control # 2

=============================================================================
