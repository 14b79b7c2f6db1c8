------------------------------- MODULE DsFile -------------------------------
(***************************************************************************)
(* DS's destination files (ds_file.c), with what sets their state from     *)
(* outside: commands (ds_cmds.c), table loads and the Critical Data Store  *)
(* (ds_table.c), the housekeeping request (ds_app.c) and resets.           *)
(*                                                                         *)
(* DS is one task.  A command is one step.  Storing a packet is cut into   *)
(* steps at its durable effects (a file created, a header written, the CDS *)
(* copied, a packet written), because a reset can fall between any two.    *)
(***************************************************************************)
EXTENDS Integers, Sequences, Functions

CONSTANTS
  Dest,            \* the used entries of the destination file table
  Moves,           \* destinations whose table entry has a Movename
  NoFile,          \* no file open
  MaxCount,        \* DS_MAX_SEQUENCE_COUNT
  MaxTime,         \* bound: the last second of the clock
  HeaderSize,      \* the primary and the secondary file header
  HkCycle,         \* DS_SECS_PER_HK_CYCLE
  PacketLengths,   \* lengths of the packets DS is subscribed to
  FilterLists,     \* destinations a packet's filters select, in filter order
  MinSize, MinAge, \* DS_FILE_MIN_SIZE_LIMIT, DS_FILE_MIN_AGE_LIMIT
  SizeLimits, AgeLimits, \* the limits table loads and commands may ask for
  Stems,           \* paths, base names and extensions files may get
  DefaultStem,     \* those of the table file loaded at start-up
  DefaultSize,     \* its limits
  DefaultAge,
  Images,          \* the table images the ground may load
  AppNames         \* the application names of the build, as spelled there

NameTypes == {"COUNT", "TIME"}
Counts    == 0 .. MaxCount

VerifySize(s)  == s >= MinSize
VerifyAge(a)   == a >= MinAge
VerifyCount(n) == n <= MaxCount

\* A table entry, one that DS_TableVerifyDestFileEntry accepts, and a table all
\* of whose entries it accepts.
AnyEntry == [stem: Stems, type: NameTypes, enabled: BOOLEAN,
             maxSize: SizeLimits, maxAge: AgeLimits, seq: Nat]
VerifyDestFileEntry(e) ==
  VerifySize(e.maxSize) /\ VerifyAge(e.maxAge) /\ VerifyCount(e.seq)
VerifyDestFile(t) == \A d \in Dest : VerifyDestFileEntry(t[d])

\* The table file DS is delivered with: both its destinations are enabled and
\* name their files by count, from 0.
DefaultTable ==
  [d \in Dest |-> [stem |-> DefaultStem, type |-> "COUNT", enabled |-> TRUE,
                  maxSize |-> DefaultSize[d], maxAge |-> DefaultAge, seq |-> 0]]

\* A file's name: path, base name and extension, the sequence part, and whether
\* it is in the Movename directory.  No two destinations are given the same
\* names: dest tells them apart.
Name == [dest: Dest, stem: Stems, by: NameTypes, n: Counts \cup (0 .. MaxTime),
         moved: BOOLEAN]

ASSUME DsFileAssumption ==
  /\ NoFile \notin Name
  /\ Moves \subseteq Dest
  /\ MaxCount \in Nat /\ MaxTime \in Nat /\ HeaderSize \in Nat
  /\ HkCycle \in Nat \ {0} /\ MinAge \in Nat \ {0} /\ MinSize \in Nat
  /\ PacketLengths \subseteq Nat
  /\ SizeLimits \subseteq Nat /\ AgeLimits \subseteq Nat
  /\ FilterLists \subseteq Seq(Dest) \ {<<>>}
  /\ Stems \subseteq [path : STRING, base : STRING, ext : STRING]
  /\ DefaultTable \in [Dest -> AnyEntry] /\ VerifyDestFile(DefaultTable)
  /\ Images \subseteq [Dest -> AnyEntry]

VARIABLES
  table,     \* the destination file table, once loaded
  loaded,    \* DestFileTblPtr is not NULL
  pending,   \* the table image waiting to be taken over, if any
  app,       \* AppEnableState
  open,      \* FileHandle and FileName of each destination
  age, size, \* FileAge, FileSize
  enabled,   \* FileState
  count,     \* FileCount
  job,       \* the packet being stored and the step it has reached
  hkDue,     \* a housekeeping request waits in the pipe
  now,       \* the seconds of CFE_TIME_GetTime
  cds,       \* the Critical Data Store's content
  cdsKept,   \* the CDS area survives from an earlier run
  cdsOk,     \* DataStoreHandle is not CFE_ES_CDS_BAD_HANDLE
  disk,      \* the files that hold packets, and how many
  handles,   \* handles OSAL holds open for each destination
  complete,  \* closed files that hold packets, by the name reported
  lost,      \* history: files whose packets were truncated or overwritten
  rewound    \* history: destinations whose count something else set back

tableVars == <<table, loaded, pending>>
status    == <<open, age, size, enabled, count>>
cdsVars   == <<cds, cdsKept, cdsOk>>
fileVars  == <<disk, handles, complete, lost>>
vars == <<tableVars, app, status, job, hkDue, now, cdsVars, fileVars, rewound>>

Stages == {"idle", "setup", "create", "header", "count", "write"}
Idle   == [stage |-> "idle", todo |-> <<>>, len |-> 0]

(***************************************************************************)
(* Closing files.                                                          *)
(***************************************************************************)

IsOpen(d)   == open[d] # NoFile
Packets(f)  == IF f \in DOMAIN disk THEN disk[f] ELSE 0
Target(f)   == [f EXCEPT !.moved = TRUE]
Reported(d) == IF d \in Moves THEN Target(open[d]) ELSE open[d]

\* Mutant: the state of a closed file keeps its handle and name.
CloseDestsStale(S) ==
  /\ complete' = {f \in complete \cup {Reported(d) : d \in S} : Packets(f) > 0}
  /\ size' = [d \in Dest |-> IF d \in S THEN 0 ELSE size[d]]
  /\ handles' = [d \in Dest |-> IF d \in S THEN handles[d] - 1 ELSE handles[d]]
  /\ UNCHANGED <<open, disk, lost>>

\* DS_FileCloseDest for every destination in S.  OS_mv succeeds for those in
\* mv; the name reported is the target's whether it did or not.
CloseDests(S) ==
  \E mv \in SUBSET (S \cap Moves) :
    LET leave  == {open[d] : d \in mv}
        arrive == {Target(f) : f \in leave}
        files  == (DOMAIN disk \ (leave \cup arrive))
                    \cup {f \in arrive : Packets(open[f.dest]) > 0}
    IN /\ disk' = [f \in files |-> disk[IF f \in arrive THEN open[f.dest] ELSE f]]
       /\ lost' = lost \cup (arrive \cap DOMAIN disk)
       /\ complete' = {f \in complete \cup {Reported(d) : d \in S} : f \in files}
       /\ open' = [d \in Dest |-> IF d \in S THEN NoFile ELSE open[d]]
       /\ size' = [d \in Dest |-> IF d \in S THEN 0 ELSE size[d]]
       /\ handles' = [d \in Dest |-> IF d \in S THEN handles[d] - 1 ELSE handles[d]]

ResetAge(S) == age' = [d \in Dest |-> IF d \in S THEN 0 ELSE age[d]]

\* Mutant: the counts reach the CDS only at a start.
UpdateCDSNever == UNCHANGED cdsVars

\* DS_TableUpdateCDS: copy all counts and the application's state.  A failed
\* copy gives the CDS up until the next start.
UpdateCDS ==
  /\ \/ cdsOk /\ cds' = [count |-> count', app |-> app'] /\ UNCHANGED cdsOk
     \/ cdsOk /\ cdsOk' = FALSE /\ UNCHANGED cds
     \/ ~cdsOk /\ UNCHANGED <<cds, cdsOk>>
  /\ UNCHANGED cdsKept

(***************************************************************************)
(* Storing a packet.                                                       *)
(***************************************************************************)

\* The destination at hand, and the packet's next one after it.
Cur == Head(job.todo)
Goto(stage) == job' = [job EXCEPT !.stage = stage]
NextDest ==
  job' = IF Len(job.todo) = 1 THEN Idle
         ELSE [job EXCEPT !.stage = "setup", !.todo = Tail(@)]

\* A subscribed packet arrives that some filters pass.
StorePacket ==
  /\ job.stage = "idle"
  /\ app /\ loaded
  /\ \E list \in FilterLists, len \in PacketLengths :
       job' = [stage |-> "setup", todo |-> list, len |-> len]
  /\ UNCHANGED <<tableVars, app, status, hkDue, now, cdsVars, fileVars, rewound>>

\* Mutant: the limit is looked at without the packet to come.
TooBigAfter(d) == size[d] > table[d].maxSize

TooBig(d) == size[d] + job.len > table[d].maxSize

SkipDisabled ==
  /\ job.stage = "setup" /\ ~enabled[Cur]
  /\ NextDest
  /\ UNCHANGED <<tableVars, app, status, hkDue, now, cdsVars, fileVars, rewound>>

SetupOpen ==
  /\ job.stage = "setup" /\ enabled[Cur]
  /\ ~(IsOpen(Cur) /\ TooBig(Cur))
  /\ Goto(IF IsOpen(Cur) THEN "write" ELSE "create")
  /\ UNCHANGED <<tableVars, app, status, hkDue, now, cdsVars, fileVars, rewound>>

\* Mutant: the full file is not closed.
SetupRollUnclosed ==
  /\ job.stage = "setup" /\ enabled[Cur]
  /\ IsOpen(Cur) /\ TooBig(Cur)
  /\ Goto("create")
  /\ UNCHANGED <<tableVars, app, status, hkDue, now, cdsVars, fileVars, rewound>>

\* The packet would pass the size limit: close the file, then open another.
SetupRoll ==
  /\ job.stage = "setup" /\ enabled[Cur]
  /\ IsOpen(Cur) /\ TooBig(Cur)
  /\ CloseDests({Cur}) /\ ResetAge({Cur})
  /\ Goto("create")
  /\ UNCHANGED <<tableVars, app, enabled, count, hkDue, now, cdsVars, rewound>>

\* DS_FileCreateSequence and DS_FileCreateName.
Sequence(d) == IF table[d].type = "COUNT" THEN count[d] ELSE now
NewName(d)  == [dest |-> d, stem |-> table[d].stem, by |-> table[d].type,
                n |-> Sequence(d), moved |-> FALSE]

\* OS_OpenCreate truncates a file that has the name already.
CreateFile ==
  /\ job.stage = "create"
  /\ LET f == NewName(Cur)
     IN /\ open' = [open EXCEPT ![Cur] = f]
        /\ disk' = Restrict(disk, DOMAIN disk \ {f})
        /\ lost' = lost \cup ({f} \cap DOMAIN disk)
        /\ complete' = complete \ {f}
  /\ handles' = [handles EXCEPT ![Cur] = @ + 1]
  /\ Goto("header")
  /\ UNCHANGED <<tableVars, app, age, size, enabled, count, hkDue, now, cdsVars,
                 rewound>>

\* The name does not fit, or the file cannot be created.
CreateFails ==
  /\ job.stage = "create"
  /\ enabled' = [enabled EXCEPT ![Cur] = FALSE]
  /\ NextDest
  /\ UNCHANGED <<tableVars, app, open, age, size, count, hkDue, now, cdsVars,
                 fileVars, rewound>>

WriteHeader ==
  /\ job.stage = "header"
  /\ size' = [size EXCEPT ![Cur] = @ + HeaderSize]
  /\ Goto(IF table[Cur].type = "COUNT" THEN "count" ELSE "write")
  /\ UNCHANGED <<tableVars, app, open, age, enabled, count, hkDue, now, cdsVars,
                 fileVars, rewound>>

\* Mutant: the wrap comes one count late.
AdvanceCountLate ==
  /\ job.stage = "count"
  /\ LET wraps == count[Cur] > MaxCount
     IN /\ count' = [count EXCEPT ![Cur] = IF wraps THEN table[Cur].seq ELSE @ + 1]
        /\ rewound' = [rewound EXCEPT ![Cur] = @ \/ wraps]
  /\ UNCHANGED app
  /\ UpdateCDS
  /\ Goto("write")
  /\ UNCHANGED <<tableVars, open, age, size, enabled, hkDue, now, fileVars>>

\* The count of the next file, in memory and in the CDS.
AdvanceCount ==
  /\ job.stage = "count"
  /\ LET wraps == count[Cur] + 1 > MaxCount
     IN /\ count' = [count EXCEPT ![Cur] = IF wraps THEN table[Cur].seq ELSE @ + 1]
        /\ rewound' = [rewound EXCEPT ![Cur] = @ \/ wraps]
  /\ UNCHANGED app
  /\ UpdateCDS
  /\ Goto("write")
  /\ UNCHANGED <<tableVars, open, age, size, enabled, hkDue, now, fileVars>>

WriteData ==
  /\ job.stage = "write"
  /\ disk' = [f \in DOMAIN disk \cup {open[Cur]} |->
                IF f = open[Cur] THEN Packets(f) + 1 ELSE disk[f]]
  /\ size' = [size EXCEPT ![Cur] = @ + job.len]
  /\ NextDest
  /\ UNCHANGED <<tableVars, app, open, age, enabled, count, hkDue, now, cdsVars,
                 handles, complete, lost, rewound>>

\* A header or a packet cannot be written: close the file and disable.
WriteError ==
  /\ job.stage \in {"header", "write"}
  /\ CloseDests({Cur}) /\ ResetAge({Cur})
  /\ enabled' = [enabled EXCEPT ![Cur] = FALSE]
  /\ NextDest
  /\ UNCHANGED <<tableVars, app, count, hkDue, now, cdsVars, rewound>>

Storing == \/ SkipDisabled \/ SetupOpen \/ SetupRoll \/ CreateFile \/ CreateFails
           \/ WriteHeader \/ AdvanceCount \/ WriteData \/ WriteError

(***************************************************************************)
(* Table loads, housekeeping and commands, between packets.                *)
(***************************************************************************)

Ready == job.stage = "idle"

\* DS_TableManageDestFile: take a waiting image over, its counts and enable
\* states too, into files open or not, and save the counts.
ManageDestFile ==
  \/ \E t \in pending :
       /\ table' = t /\ loaded' = TRUE /\ pending' = {}
       /\ enabled' = [d \in Dest |-> t[d].enabled]
       /\ count' = [d \in Dest |-> t[d].seq]
       /\ rewound' = [d \in Dest |-> rewound[d] \/ t[d].seq < count[d]]
       /\ UNCHANGED app
       /\ UpdateCDS
  \/ /\ pending = {}
     /\ UNCHANGED <<tableVars, app, enabled, count, cdsVars, rewound>>

\* cFE Table Services accepts an image from the ground that DS finds good.
LoadTable ==
  /\ pending = {}
  /\ \E t \in Images : VerifyDestFile(t) /\ pending' = {t}
  /\ UNCHANGED <<table, loaded, app, status, job, hkDue, now, cdsVars, fileVars,
                 rewound>>

\* No message for DS_SB_TIMEOUT.
Timeout ==
  /\ Ready
  /\ ManageDestFile
  /\ UNCHANGED <<open, age, size, job, hkDue, now, fileVars>>

\* The table's scheduling entry is compiled in when the build knows an
\* application called "ds".
HkScheduled == "ds" \in AppNames

ScheduleHk ==
  /\ HkScheduled /\ ~hkDue
  /\ hkDue' = TRUE
  /\ UNCHANGED <<tableVars, app, status, job, now, cdsVars, fileVars, rewound>>

\* Mutant: a file's age does not add up.
TestAgeForgetful ==
  LET old == {d \in Dest : IsOpen(d) /\ HkCycle >= table[d].maxAge}
  IN /\ CloseDests(old)
     /\ age' = [d \in Dest |-> IF IsOpen(d) /\ d \notin old THEN HkCycle ELSE 0]

\* DS_AppSendHkCmd: DS_FileTestAge on every open file, then the tables.
TestAge ==
  LET older == [d \in Dest |-> IF IsOpen(d) THEN age[d] + HkCycle ELSE age[d]]
      old   == {d \in Dest : IsOpen(d) /\ older[d] >= table[d].maxAge}
  IN /\ CloseDests(old)
     /\ age' = [d \in Dest |-> IF d \in old THEN 0 ELSE older[d]]

SendHk ==
  /\ Ready /\ hkDue
  /\ hkDue' = FALSE
  /\ TestAge
  /\ ManageDestFile
  /\ UNCHANGED <<job, now>>

CloseFile(d) ==
  /\ Ready /\ IsOpen(d)
  /\ CloseDests({d}) /\ ResetAge({d})
  /\ UNCHANGED <<tableVars, app, enabled, count, job, hkDue, now, cdsVars, rewound>>

CloseAll ==
  /\ Ready
  /\ LET S == {d \in Dest : IsOpen(d)} IN CloseDests(S) /\ ResetAge(S)
  /\ UNCHANGED <<tableVars, app, enabled, count, job, hkDue, now, cdsVars, rewound>>

SetAppState(e) ==
  /\ Ready
  /\ app' = e
  /\ UNCHANGED count
  /\ UpdateCDS
  /\ UNCHANGED <<tableVars, open, age, size, enabled, job, hkDue, now, fileVars,
                 rewound>>

\* The commands that edit one entry of a loaded table.
EditEntry(d, field, v) ==
  /\ Ready /\ loaded
  /\ table' = [table EXCEPT ![d][field] = v]
  /\ UNCHANGED <<loaded, pending, app, open, age, size, job, hkDue, now, fileVars>>

SetDestState(d, e) ==
  /\ EditEntry(d, "enabled", e)
  /\ enabled' = [enabled EXCEPT ![d] = e]
  /\ UNCHANGED <<count, cdsVars, rewound>>

\* DEST PATH, DEST BASE and DEST EXT; a file that is open keeps its name.
SetDestStem(d, stem) ==
  /\ stem \in Stems
  /\ EditEntry(d, "stem", stem)
  /\ UNCHANGED <<enabled, count, cdsVars, rewound>>

SetDestPath(d, path) == SetDestStem(d, [table[d].stem EXCEPT !.path = path])
SetDestBase(d, base) == SetDestStem(d, [table[d].stem EXCEPT !.base = base])
SetDestExt(d, ext)   == SetDestStem(d, [table[d].stem EXCEPT !.ext = ext])

SetDestType(d, t) ==
  /\ EditEntry(d, "type", t)
  /\ UNCHANGED <<enabled, count, cdsVars, rewound>>

SetDestSize(d, s) ==
  /\ VerifySize(s)
  /\ EditEntry(d, "maxSize", s)
  /\ UNCHANGED <<enabled, count, cdsVars, rewound>>

SetDestAge(d, a) ==
  /\ VerifyAge(a)
  /\ EditEntry(d, "maxAge", a)
  /\ UNCHANGED <<enabled, count, cdsVars, rewound>>

\* Mutant: the new count is not saved.
SetDestCountUnsaved(d, n) ==
  /\ EditEntry(d, "seq", n)
  /\ count' = [count EXCEPT ![d] = n]
  /\ rewound' = [rewound EXCEPT ![d] = @ \/ n < count[d]]
  /\ UNCHANGED <<enabled, cdsVars>>

SetDestCount(d, n) ==
  /\ VerifyCount(n)
  /\ EditEntry(d, "seq", n)
  /\ count' = [count EXCEPT ![d] = n]
  /\ rewound' = [rewound EXCEPT ![d] = @ \/ n < count[d]]
  /\ UpdateCDS
  /\ UNCHANGED enabled

\* A command for one destination of the table, of the right length.
DestCommand(d) ==
  \/ \E e \in BOOLEAN : SetDestState(d, e)
  \/ \E t \in NameTypes : SetDestType(d, t)
  \/ \E s \in Stems : SetDestPath(d, s.path) \/ SetDestBase(d, s.base) \/ SetDestExt(d, s.ext)
  \/ \E s \in SizeLimits : SetDestSize(d, s)
  \/ \E a \in AgeLimits : SetDestAge(d, a)
  \/ \E n \in 0 .. MaxCount + 1 : SetDestCount(d, n)

\* Commands that are rejected, or only report, change nothing here.
Command ==
  \/ CloseAll
  \/ \E e \in BOOLEAN : SetAppState(e)
  \/ \E d \in Dest : CloseFile(d) \/ DestCommand(d)

(***************************************************************************)
(* Starting.  Files survive every reset; the CDS survives a processor      *)
(* reset and not a power cycle.                                            *)
(***************************************************************************)

\* DS_TableCreateCDS: a new area is written, an old one read.  Either may fail.
RestoreCDS(works, kept, counts0) ==
  /\ count' = IF kept /\ works THEN cds.count ELSE counts0
  /\ app' = IF kept /\ works THEN cds.app ELSE TRUE
  /\ cds' = IF works THEN [count |-> count', app |-> app'] ELSE cds
  /\ cdsKept' = (kept \/ works)
  /\ cdsOk' = works

\* DS_AppInitialize and DS_TableInit.  The default table may fail to load.
Start(tableLoads) ==
  /\ table' = DefaultTable /\ loaded' = tableLoads /\ pending' = {}
  /\ open' = [d \in Dest |-> NoFile]
  /\ age' = [d \in Dest |-> 0] /\ size' = [d \in Dest |-> 0]
  /\ enabled' = [d \in Dest |-> tableLoads /\ DefaultTable[d].enabled]
  /\ job' = Idle /\ hkDue' = FALSE
  /\ handles' = [d \in Dest |-> 0]

\* The counts DS starts from before it looks at the CDS.
TableCounts(tableLoads) ==
  [d \in Dest |-> IF tableLoads THEN DefaultTable[d].seq ELSE 0]

\* A reset at any point; "kept" is whether the CDS survives it.
Reset(kept) ==
  /\ \E tableLoads, cdsWorks \in BOOLEAN :
       /\ Start(tableLoads)
       /\ RestoreCDS(cdsWorks, kept, TableCounts(tableLoads))
       /\ rewound' = [d \in Dest |->
            rewound[d] \/ (~(kept /\ cdsWorks /\ cdsOk) /\ count'[d] < count[d])]
  /\ UNCHANGED <<now, disk, complete, lost>>

ProcessorReset == Reset(cdsKept)
PowerCycle     == Reset(FALSE)

Tick ==
  /\ now < MaxTime
  /\ now' = now + 1
  /\ UNCHANGED <<tableVars, app, status, job, hkDue, cdsVars, fileVars, rewound>>

Init ==
  /\ table = DefaultTable /\ loaded \in BOOLEAN /\ pending = {}
  /\ app = TRUE
  /\ open = [d \in Dest |-> NoFile]
  /\ age = [d \in Dest |-> 0] /\ size = [d \in Dest |-> 0]
  /\ enabled = [d \in Dest |-> loaded /\ DefaultTable[d].enabled]
  /\ count = TableCounts(loaded)
  /\ job = Idle /\ hkDue = FALSE /\ now = 0
  /\ cds = [count |-> count, app |-> TRUE]
  /\ cdsOk \in BOOLEAN /\ cdsKept = cdsOk
  /\ disk = <<>>
  /\ handles = [d \in Dest |-> 0]
  /\ complete = {} /\ lost = {}
  /\ rewound = [d \in Dest |-> FALSE]

\* What DS and the scheduler do by themselves, and what disturbs them.
Work == Storing \/ Timeout \/ ScheduleHk \/ SendHk
Disturbance == LoadTable \/ Command \/ ProcessorReset \/ PowerCycle \/ Tick

Next == Work \/ StorePacket \/ Disturbance
Spec == Init /\ [][Next]_vars

\* DS finishes the packet it is storing; the scheduler keeps asking for
\* housekeeping, and a request waiting in the pipe is served between packets.
Fairness == WF_vars(Storing) /\ WF_vars(ScheduleHk) /\ SF_vars(SendHk)

(***************************************************************************)
(* Properties.                                                             *)
(***************************************************************************)

\* The types, and the steps a packet in progress can have reached.
TypeOK ==
  /\ table \in [Dest -> AnyEntry] /\ VerifyDestFile(table) /\ loaded \in BOOLEAN
  /\ pending = {} \/ \E t \in Images : pending = {t}
  /\ app \in BOOLEAN /\ hkDue \in BOOLEAN /\ now \in 0 .. MaxTime
  /\ open \in [Dest -> Name \cup {NoFile}]
  /\ age \in [Dest -> Nat] /\ size \in [Dest -> Nat]
  /\ enabled \in [Dest -> BOOLEAN] /\ count \in [Dest -> Counts]
  /\ job \in [stage: Stages, todo: Seq(Dest), len: Nat]
  /\ job.stage = "idle" <=> job.todo = <<>>
  /\ cds \in [count: [Dest -> Counts], app: BOOLEAN]
  /\ cdsKept \in BOOLEAN /\ cdsOk \in BOOLEAN
  /\ DOMAIN disk \subseteq Name /\ disk \in [DOMAIN disk -> Nat \ {0}]
  /\ handles \in [Dest -> Int]
  /\ complete \subseteq Name /\ lost \subseteq Name
  /\ rewound \in [Dest -> BOOLEAN]

\* DS never truncates or overwrites a count-named file that holds packets,
\* across any number of processor resets at any point, as long as nothing but
\* DS_FileCreateDest's increment has moved that destination's count back (a
\* table load, a command, the wrap, a reset without a current CDS).
PacketsKept == \A f \in lost : f.by = "TIME" \/ rewound[f.dest]

\* While the CDS works it holds the counts and the application state DS would
\* lose in a reset (DS_TableUpdateCDS is called wherever one changes).
CdsCurrent == cdsOk => cds = [count |-> count, app |-> app]

\* The file at hand has been created and its packet is still to be written.
Creating(d) == job.stage \in {"header", "count", "write"} /\ Cur = d

\* OSAL holds exactly one handle for a destination DS knows open and none for
\* the others, whatever failed in between; and except while a packet is being
\* stored, an open file holds at least one packet (DS_FileSetupWrite writes
\* the first without a size test).
OpenFilesSound ==
  \A d \in Dest :
    /\ handles[d] = IF IsOpen(d) THEN 1 ELSE 0
    /\ IsOpen(d) /\ ~Creating(d) => open[d] \in DOMAIN disk

\* A packet is only added to a file if the file then stays within the size
\* limit of its table entry, or if it is the file's first packet
\* (DS_FileSetupWrite's test and the roll to a new file).
SizeLimited ==
  [][\A d \in Dest :
       IsOpen(d) /\ open'[d] = open[d] /\ Packets(open[d])' > Packets(open[d])
         => size'[d] <= table[d].maxSize \/ Packets(open[d])' = 1]_vars

\* A file reported complete is not changed any more: COMMMC reads the one it
\* was last told of while DS goes on.  The exceptions are those of PacketsKept.
CompleteFrozen ==
  [][\A f \in complete :
       Packets(f)' = Packets(f) \/ f.by = "TIME" \/ rewound'[f.dest]]_vars

\* A file that is open is closed at last (DS_FileTestAge).
OpenFileCloses == \A d \in Dest : IsOpen(d) ~> ~IsOpen(d)
=============================================================================
