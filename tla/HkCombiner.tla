----------------------------- MODULE HkCombiner -----------------------------
(***************************************************************************)
(* The HK application.  Its copy table says which bytes of which incoming  *)
(* packet go where in which combined packet; the runtime table beside it   *)
(* holds, per entry, the output packet's buffer, whether the input is      *)
(* subscribed to, and whether its data has come since the packet was last  *)
(* sent (hk_utils.c, hk_app.c, hk_dispatch.c).                             *)
(*                                                                         *)
(* The bytes an entry copies are one value; no two entries of a table      *)
(* write the same bytes.  Of the telemetry counters only MissingDataCtr is *)
(* kept: it is what tells the ground that a packet is incomplete.          *)
(***************************************************************************)
EXTENDS Integers, Sequences, FiniteSets

CONSTANTS
  Inputs,       \* message IDs of the packets that may be collected
  InputSize,    \* their sizes
  Outputs,      \* message IDs of combined packets
  Reserved,     \* CFE_SB_MSGID_RESERVED, which marks an unused ID
  NumEntries,   \* HK_COPY_TABLE_ENTRIES
  FirstTables,  \* copy tables HK may start with
  Tables,       \* those the ground may load
  MaxCombined,  \* HK_MAX_COMBINED_PACKET_SIZE
  Buffers,      \* blocks of the memory pool
  LargestBlock, \* the largest buffer it gives out
  HkDepth,      \* HK_PIPE_DEPTH
  Data,         \* what an input packet may carry
  Clear,        \* what CFE_MSG_Init leaves in its place
  CtrMod        \* the width of MissingDataCtr

Entries == 1 .. NumEntries
Null    == 0          \* the null pointer
Free    == [out |-> Reserved, size |-> 0]

\* hk_copy_table_entry_t.
Entry == [in : Inputs \cup {Reserved}, at : Nat,
          out : Outputs \cup {Reserved}, to : Nat, n : Nat]

ASSUME HkAssumption ==
  /\ Reserved \notin Inputs \cup Outputs
  /\ NumEntries \in Nat /\ {MaxCombined, LargestBlock, HkDepth} \subseteq Nat
  /\ InputSize \in [Inputs -> Nat]
  /\ Tables \cup FirstTables \subseteq [Entries -> Entry]
  /\ Null \notin Buffers /\ Clear \notin Data
  /\ CtrMod \in Nat \ {0, 1}

VARIABLES
  run,      \* "RUN", "EXIT": the task has ended, "FAULT": it has written astray
  table,    \* CopyTablePtr
  addr,     \* per entry: OutputPktAddr
  sub,      \* per entry: InputMidSubscribed
  present,  \* per entry: DataPresent
  cell,     \* per entry: the bytes at its place in the output packet
  pool,     \* per block: free, or the packet's ID (from its header) and size
  subs,     \* inputs the software bus delivers to HK's pipe
  hkPipe,   \* HK's pipe
  pending,  \* the table services' view of a new copy table
  missing,  \* MissingDataCtr
  refused,  \* history: output packets the pool had no buffer for, this table
  denied,   \* history: inputs the bus refused to subscribe to, this table
  leaked,   \* history: blocks the pool would not take back
  since     \* history: per output packet, what HK last received of each input
            \* since it was sent and since the table was loaded

runtime == <<addr, sub, present, cell, pool, subs>>
history == <<refused, denied, leaked, since>>
hkVars  == <<run, table, runtime, hkPipe, pending, missing, history>>

NoLoad == [state |-> "NONE"]

NothingCame == [o \in Outputs |-> [m \in Inputs |-> Clear]]

HkMessage ==
  [kind : {"INPUT"}, mid : Inputs, data : Data] \cup [kind : {"COMBINE"}, out : Outputs]
    \cup [kind : {"HK_REQUEST", "RESET_COUNTERS", "NOOP", "WRONG_LENGTH"}]

-----------------------------------------------------------------------------
(***************************************************************************)
(* Tables.                                                                 *)
(***************************************************************************)
EntriesOf(t, o) == {e \in Entries : t[e].out = o}
Naming(t, mid)  == {e \in Entries : t[e].in = mid}

SumOfBytes(t) ==
  LET sum[e \in 0 .. NumEntries] == IF e = 0 THEN 0 ELSE sum[e - 1] + t[e].n
  IN sum[NumEntries]

\* HK_ValidateHkCopyTable adds up the bytes; where they go is not looked at.
ValidateHkCopyTable(t) == SumOfBytes(t) <= MaxCombined

\* Mutant: the packet is as long as its bytes, gaps not counted.
SizeOfPacketNoGaps(t, o) ==
  LET sum[e \in 0 .. NumEntries] ==
        IF e = 0 THEN 0 ELSE sum[e - 1] + (IF t[e].out = o THEN t[e].n ELSE 0)
  IN sum[NumEntries]

\* The byte furthest from the packet's start, over the entries that share it.
SizeOfPacket(t, o) ==
  LET ends == {0} \cup {t[e].to + t[e].n : e \in EntriesOf(t, o)}
  IN CHOOSE s \in ends : \A x \in ends : x <= s

\* Entries at which HK asks the pool for the packet, until it gets it.
Builders(t, o) == {e \in EntriesOf(t, o) : t[e].in # Reserved}

\* The packets that get a buffer, if the pool refuses the requests made at the
\* entries in refuse and all those that are too large.
Served(t, refuse) ==
  {o \in Outputs : /\ SizeOfPacket(t, o) \in 1 .. LargestBlock
                   /\ Builders(t, o) \ refuse # {}}

Placements(os, free) == {p \in [os -> free] : \A o, q \in os : p[o] = p[q] => o = q}

PlacedAt(place, b) == {o \in DOMAIN place : place[o] = b}

\* CFE_MSG_Init.
Header(t, place, b) ==
  LET o == CHOOSE o \in PlacedAt(place, b) : TRUE IN [out |-> o, size |-> SizeOfPacket(t, o)]

\* HK_ProcessNewCopyTable, with the pool and the subscriptions the old table
\* has left.  deny: the entries at which CFE_SB_Subscribe fails.
ProcessNewCopyTable(t, freed, left, refuse, deny) ==
  LET subscribed == {m \in Inputs : Naming(t, m) \ deny # {}}
  IN /\ \E place \in Placements(Served(t, refuse), {b \in Buffers : freed[b] = Free}) :
          /\ addr' = [e \in Entries |-> IF t[e].out \in DOMAIN place
                                        THEN place[t[e].out] ELSE Null]
          /\ pool' = [b \in Buffers |-> IF PlacedAt(place, b) = {}
                                        THEN freed[b] ELSE Header(t, place, b)]
          /\ refused' = {o \in Outputs : Builders(t, o) # {}} \ DOMAIN place
     /\ present' = [e \in Entries |-> FALSE]
     /\ cell' = [e \in Entries |-> Clear]
     /\ sub' = [e \in Entries |-> t[e].in \in subscribed]
     /\ subs' = left \cup subscribed
     /\ denied' = {m \in Inputs : Naming(t, m) # {}} \ subscribed
     /\ since' = NothingCame

\* Mutant: the loop ends at the first buffer.
FreedFirst(keep) ==
  [b \in Buffers |-> IF \E e \in Entries \ keep : addr[e] = b /\ \A f \in 1 .. e - 1 : addr[f] \in {b, Null}
                     THEN Free ELSE pool[b]]

\* HK_TearDownOldCopyTable.  keep: the entries at which CFE_ES_PutPoolBuf fails;
\* a buffer is offered again at the next entry that shares it.
Freed(keep) ==
  [b \in Buffers |-> IF \E e \in Entries \ keep : addr[e] = b THEN Free ELSE pool[b]]

NotTaken(keep) == {addr[e] : e \in keep} \ ({addr[e] : e \in Entries \ keep} \cup {Null})

\* Mutant: only the inputs of entries with an output packet.
UnsubscribedWithPacket ==
  subs \ {table[e].in : e \in {f \in Entries : sub[f] /\ addr[f] # Null}}

Unsubscribed == subs \ {table[e].in : e \in {f \in Entries : sub[f]}}

-----------------------------------------------------------------------------
\* HK_TableInit, with the table file t, an empty pool and no subscriptions.  Should
\* HK_AppInit's closing event fail, the task ends although all is set up.
TableInit(t) ==
  /\ run \in {"RUN", "EXIT"}
  /\ \E place \in Placements(Served(t, {}), Buffers) :
       /\ addr = [e \in Entries |-> IF t[e].out \in DOMAIN place
                                    THEN place[t[e].out] ELSE Null]
       /\ pool = [b \in Buffers |->
                    IF PlacedAt(place, b) = {} THEN Free ELSE Header(t, place, b)]
       /\ refused = {o \in Outputs : Builders(t, o) # {}} \ DOMAIN place
  /\ subs = {m \in Inputs : Naming(t, m) # {}}
  /\ sub = [e \in Entries |-> t[e].in \in Inputs]

\* HK_AppInit fails before there is a table to work with: the task ends.
StartFails ==
  /\ run = "EXIT"
  /\ addr = [e \in Entries |-> Null]
  /\ pool = [b \in Buffers |-> Free]
  /\ refused = {} /\ subs = {}
  /\ sub = [e \in Entries |-> FALSE]

\* HK_AppInit.
StartWith(t) ==
  /\ TableInit(t) \/ StartFails
  /\ table = t
  /\ present = [e \in Entries |-> FALSE]
  /\ cell = [e \in Entries |-> Clear]
  /\ hkPipe = <<>>
  /\ pending = NoLoad
  /\ missing = 0
  /\ denied = {} /\ leaked = {}
  /\ since = NothingCame

HkInit == \E t \in FirstTables : StartWith(t)

\* The software bus: a message goes to the pipe unless it is full.
Post(msg) == hkPipe' = IF Len(hkPipe) < HkDepth THEN Append(hkPipe, msg) ELSE hkPipe

\* An application publishes its packet.
Publish(mid, data) ==
  /\ IF mid \in subs THEN Post([kind |-> "INPUT", mid |-> mid, data |-> data])
                     ELSE UNCHANGED hkPipe
  /\ UNCHANGED <<run, table, runtime, pending, missing, history>>

\* A command or a wake-up for HK.
Command(msg) ==
  /\ Post(msg)
  /\ UNCHANGED <<run, table, runtime, pending, missing, history>>

Takes(kind) ==
  /\ run = "RUN"
  /\ hkPipe # <<>> /\ Head(hkPipe).kind = kind
  /\ hkPipe' = Tail(hkPipe)

-----------------------------------------------------------------------------
(***************************************************************************)
(* HK_ProcessIncomingHkData.                                               *)
(***************************************************************************)
\* The entries that copy from this packet; one that would read beyond its end
\* does not.
Matches(mid) ==
  {e \in Naming(table, mid) : table[e].at + table[e].n <= InputSize[mid]}

\* An entry without a buffer copies to the null pointer plus its offset; one
\* whose bytes lie beyond its buffer's end overwrites what is there.
WritesAstray(e) ==
  /\ table[e].n > 0
  /\ addr[e] = Null \/ table[e].to + table[e].n > pool[addr[e]].size

ReceiveInput ==
  /\ Takes("INPUT")
  /\ LET mid == Head(hkPipe).mid
         hit == Matches(mid)
     IN IF \E e \in hit : WritesAstray(e)
        THEN run' = "FAULT" /\ UNCHANGED <<present, cell, since>>
        ELSE /\ present' = [e \in Entries |-> e \in hit \/ present[e]]
             /\ cell' = [e \in Entries |-> IF e \in hit THEN Head(hkPipe).data ELSE cell[e]]
             /\ since' = [o \in Outputs |-> [since[o] EXCEPT ![mid] = Head(hkPipe).data]]
             /\ UNCHANGED run
  /\ UNCHANGED <<table, addr, sub, pool, subs, pending, missing, refused, denied, leaked>>

(***************************************************************************)
(* HK_SendCombinedHkPacket.                                                *)
(***************************************************************************)
PacketFound(o) == \E e \in Entries : addr[e] # Null /\ pool[addr[e]].out = o

\* HK_CheckForMissingData.
MissingData(o) == \E e \in EntriesOf(table, o) : addr[e] # Null /\ ~ present[e]

\* Mutant: the flags stay.
FlagsKept(o) == present

\* HK_SetFlagsToNotPresent.
FlagsNotPresent(o) ==
  [e \in Entries |-> present[e] /\ ~ (table[e].out = o /\ addr[e] # Null)]

\* An incomplete packet is sent too: HK_DISCARD_INCOMPLETE_COMBO is 0.
SendCombined(o) ==
  /\ Takes("COMBINE")
  /\ Head(hkPipe).out = o
  /\ IF PacketFound(o)
     THEN /\ missing' = IF MissingData(o) THEN (missing + 1) % CtrMod ELSE missing
          /\ present' = FlagsNotPresent(o)
          /\ since' = [since EXCEPT ![o] = NothingCame[o]]
     ELSE UNCHANGED <<missing, present, since>>
  /\ UNCHANGED <<run, table, addr, sub, cell, pool, subs, pending,
                 refused, denied, leaked>>

\* HK_ResetCountersCmd.
ResetCounters ==
  /\ Takes("RESET_COUNTERS")
  /\ missing' = 0
  /\ UNCHANGED <<run, table, runtime, pending, history>>

\* Messages that change nothing kept here: the no-op command, and a command or a
\* wake-up whose length is not what its handler expects.
Ignored(kind) ==
  /\ Takes(kind)
  /\ UNCHANGED <<run, table, runtime, pending, missing, history>>

NoopCmd           == Ignored("NOOP")
VerifyLengthFails == Ignored("WRONG_LENGTH")

-----------------------------------------------------------------------------
(***************************************************************************)
(* The copy table's life.  The ground loads a table and has it validated,  *)
(* then activates it; HK does its part when it looks at its tables: on a   *)
(* housekeeping request and when no message has come for a second.         *)
(***************************************************************************)
GroundLoad(t) ==
  /\ pending.state \in {"NONE", "VALID"}
  /\ pending' = [state |-> "VALIDATION_PENDING", table |-> t]
  /\ UNCHANGED <<run, table, runtime, hkPipe, missing, history>>

GroundActivate ==
  /\ pending.state = "VALID"
  /\ pending' = [pending EXCEPT !.state = "UPDATE_PENDING"]
  /\ UNCHANGED <<run, table, runtime, hkPipe, missing, history>>

\* When HK_CheckStatusOfTables is called.
Looks ==
  /\ run = "RUN"
  /\ \/ hkPipe = <<>> /\ UNCHANGED hkPipe
     \/ Takes("HK_REQUEST")

Validate ==
  /\ pending.state = "VALIDATION_PENDING"
  /\ pending' = IF ValidateHkCopyTable(pending.table)
                THEN [pending EXCEPT !.state = "VALID"] ELSE NoLoad
  /\ UNCHANGED <<run, table, runtime, missing, history>>

Update(refuse, deny, keep) ==
  /\ pending.state = "UPDATE_PENDING"
  /\ ProcessNewCopyTable(pending.table, Freed(keep), Unsubscribed, refuse, deny)
  /\ table' = pending.table
  /\ leaked' = leaked \cup NotTaken(keep)
  /\ pending' = NoLoad
  /\ UNCHANGED <<run, missing>>

NothingToDo ==
  /\ pending.state \in {"NONE", "VALID"}
  /\ UNCHANGED <<run, table, runtime, pending, missing, history>>

CheckStatusOfTables(refuse, deny, keep) ==
  Looks /\ (Validate \/ Update(refuse, deny, keep) \/ NothingToDo)

\* The table services fail HK: before anything is done, or after the old table
\* has been torn down.  The task ends.
TablesFail ==
  /\ Looks
  /\ run' = "EXIT"
  /\ \/ UNCHANGED runtime
     \/ /\ pending.state = "UPDATE_PENDING"
        /\ addr' = [e \in Entries |-> Null]
        /\ pool' = Freed({})
        /\ sub' = [e \in Entries |-> FALSE]
        /\ subs' = Unsubscribed
        /\ UNCHANGED <<present, cell>>
  /\ UNCHANGED <<table, pending, missing, history>>

-----------------------------------------------------------------------------
(***************************************************************************)
(* HK alone: any input may be published, any command sent at any time, and *)
(* the memory pool and the bus may refuse whatever HK asks for.            *)
(***************************************************************************)
HkNext ==
  \/ \E m \in Inputs, d \in Data : Publish(m, d)
  \/ \E o \in Outputs : Command([kind |-> "COMBINE", out |-> o]) \/ SendCombined(o)
  \/ \E k \in {"HK_REQUEST", "RESET_COUNTERS", "NOOP", "WRONG_LENGTH"} : Command([kind |-> k])
  \/ ReceiveInput \/ ResetCounters \/ NoopCmd \/ VerifyLengthFails
  \/ \E t \in Tables : GroundLoad(t)
  \/ GroundActivate
  \/ \E refuse, deny, keep \in SUBSET Entries : CheckStatusOfTables(refuse, deny, keep)
  \/ TablesFail

HkSpec == HkInit /\ [][HkNext]_hkVars

-----------------------------------------------------------------------------
(***************************************************************************)
(* Properties.                                                             *)
(***************************************************************************)

\* Types.
HkTypeOK ==
  /\ run \in {"RUN", "EXIT", "FAULT"}
  /\ table \in [Entries -> Entry]
  /\ addr \in [Entries -> Buffers \cup {Null}]
  /\ {sub, present} \subseteq [Entries -> BOOLEAN]
  /\ cell \in [Entries -> Data \cup {Clear}]
  /\ pool \in [Buffers -> [out : Outputs, size : Nat] \cup {Free}]
  /\ {subs, denied} \subseteq SUBSET Inputs
  /\ hkPipe \in Seq(HkMessage) /\ Len(hkPipe) <= HkDepth
  /\ pending \in [state : {"VALIDATION_PENDING", "VALID", "UPDATE_PENDING"}, table : Tables]
                 \cup {NoLoad}
  /\ missing \in 0 .. CtrMod - 1
  /\ refused \subseteq Outputs /\ leaked \subseteq Buffers
  /\ since \in [Outputs -> [Inputs -> Data \cup {Clear}]]

\* The memory pool.  A block HK holds is the buffer of exactly those entries
\* whose output packet its header names, and no other block is held but those
\* the pool itself would not take back: table loads do not leak.
PoolSound ==
  /\ \A e \in Entries : addr[e] # Null =>
       /\ pool[addr[e]] # Free
       /\ pool[addr[e]].out = table[e].out
       /\ addr[e] \notin leaked
       /\ \A f \in EntriesOf(table, table[e].out) : addr[f] = addr[e]
  /\ \A b \in Buffers \ leaked : pool[b] # Free => \E e \in Entries : addr[e] = b

\* HK copies to no place that is not its own, across any number of table loads,
\* unless the pool had no buffer for that packet or the table names an input
\* without an output: those two the code does not guard against.
FaultsExplained ==
  run = "FAULT" =>
    \E e \in Entries : table[e].in # Reserved /\ (table[e].out = Reserved \/ table[e].out \in refused)

\* The bus delivers to HK exactly the inputs its current table names and the bus
\* did not refuse; the subscriptions of earlier tables are gone.
SubscriptionsSound ==
  run = "RUN" =>
    /\ subs = {m \in Inputs : Naming(table, m) # {}} \ denied
    /\ \A e \in Entries : sub[e] <=> table[e].in \in subs

Combines(o) == SendCombined(o) /\ PacketFound(o)

\* A combined packet that does not count as missing data is made of this cycle's
\* data: every input of it has come since it was last sent and since the table
\* was loaded, and its bytes are those that came last.
CompleteIsCurrent ==
  [][\A o \in Outputs : Combines(o) /\ missing' = missing =>
       \A e \in EntriesOf(table, o) :
         table[e].in \in Inputs /\ cell[e] = since[o][table[e].in] /\ cell[e] # Clear]_hkVars

=============================================================================
