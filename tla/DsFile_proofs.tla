---------------------------- MODULE DsFile_proofs ----------------------------
(***************************************************************************)
(* Proofs about DsFile: its types, the Critical Data Store, the handles    *)
(* and names of open files, what is never truncated or overwritten, the    *)
(* size limit and the files reported complete.  They hold for every        *)
(* destination table, packets, limits, commands and resets the constants'  *)
(* assumptions allow.                                                      *)
(***************************************************************************)
EXTENDS DsFile, SequenceTheorems, TLAPS

\* The parts of TypeOK: the tables, the counts and states, the files, the packet.
\* The image cFE has accepted is good.
TablesOK ==
  /\ table \in [Dest -> AnyEntry] /\ VerifyDestFile(table) /\ loaded \in BOOLEAN
  /\ pending = {} \/ \E t \in Images : pending = {t}
  /\ \A t \in pending : VerifyDestFile(t)

StatesOK ==
  /\ app \in BOOLEAN /\ count \in [Dest -> Counts] /\ rewound \in [Dest -> BOOLEAN]
  /\ cds \in [count: [Dest -> Counts], app: BOOLEAN]
  /\ cdsKept \in BOOLEAN /\ cdsOk \in BOOLEAN

OthersOK ==
  /\ hkDue \in BOOLEAN /\ now \in 0 .. MaxTime
  /\ age \in [Dest -> Nat] /\ enabled \in [Dest -> BOOLEAN]

FilesOK ==
  /\ open \in [Dest -> Name \cup {NoFile}] /\ size \in [Dest -> Nat]
  /\ DOMAIN disk \subseteq Name /\ disk \in [DOMAIN disk -> Nat \ {0}]
  /\ handles \in [Dest -> Int]
  /\ complete \subseteq Name /\ lost \subseteq Name

JobOK ==
  /\ job \in [stage: Stages, todo: Seq(Dest), len: Nat]
  /\ job.stage = "idle" <=> job.todo = <<>>

\* What the packet being stored finds at each step: no file open before one is
\* created, then a new one without packets, named by the table's type and with the
\* count that is advanced next; and a file it is added to has room for it.
JobSound ==
  /\ job.stage = "create" => ~IsOpen(Cur)
  /\ job.stage \in {"header", "count", "write"} => IsOpen(Cur)
  /\ job.stage \in {"header", "count"} =>
       /\ open[Cur] \notin DOMAIN disk
       /\ open[Cur].by = "COUNT" => open[Cur].n = count[Cur]
  /\ job.stage = "header" => open[Cur].by = table[Cur].type
  /\ job.stage = "count" => open[Cur].by = "COUNT"
  /\ job.stage = "write" => open[Cur] \notin DOMAIN disk \/ ~TooBig(Cur)

\* An open file is its destination's, is not moved yet and not reported complete;
\* one reported complete holds packets.
NamesSound ==
  /\ \A d \in Dest : IsOpen(d) =>
       open[d].dest = d /\ open[d].moved = FALSE /\ open[d] \notin complete
  /\ complete \subseteq DOMAIN disk

\* As long as a destination's count was not set back, it is ahead of all its
\* count-named files, but for the one being created; and the name an open one will
\* be moved to is not taken.
Naming(d) == job.stage \in {"header", "count"} /\ Cur = d

CountsAhead ==
  /\ \A f \in DOMAIN disk :
       f.by = "COUNT" /\ ~rewound[f.dest] => f.n < count[f.dest]
  /\ \A d \in Dest : IsOpen(d) /\ open[d].by = "COUNT" /\ ~rewound[d] =>
       /\ Target(open[d]) \notin DOMAIN disk
       /\ open[d].n < count[d] \/ Naming(d)

FilesInv == FilesOK /\ OpenFilesSound /\ NamesSound /\ CountsAhead /\ PacketsKept

DsInv ==
  TablesOK /\ StatesOK /\ OthersOK /\ JobOK /\ CdsCurrent /\ JobSound /\ FilesInv

-----------------------------------------------------------------------------
(***************************************************************************)
(* Counts and the Critical Data Store.                                     *)
(***************************************************************************)

\* What no step does to the counts unless it is remembered: set one back.
CountsGrow ==
  \A d \in Dest : /\ rewound[d] => rewound'[d]
                  /\ ~rewound'[d] => count[d] <= count'[d]

\* Copying the counts and the state keeps the CDS current, if it works.
LEMMA UpdateKeeps ==
  ASSUME StatesOK, UpdateCDS, app' \in BOOLEAN, count' \in [Dest -> Counts],
         rewound' \in [Dest -> BOOLEAN]
  PROVE  StatesOK' /\ CdsCurrent'
<1>1. cdsKept' \in BOOLEAN
  BY DEF StatesOK, UpdateCDS
<1>2. CASE cdsOk /\ cds' = [count |-> count', app |-> app'] /\ UNCHANGED cdsOk
  <2>1. cds' \in [count: [Dest -> Counts], app: BOOLEAN]
    BY <1>2
  <2>2. cdsOk' \in BOOLEAN
    BY <1>2 DEF StatesOK
  <2> QED
    BY <1>1, <1>2, <2>1, <2>2 DEF StatesOK, CdsCurrent
<1>3. CASE (cdsOk /\ cdsOk' = FALSE /\ UNCHANGED cds) \/ (~cdsOk /\ UNCHANGED <<cds, cdsOk>>)
  <2>1. cdsOk' = FALSE /\ cds' = cds
    <3>1. CASE cdsOk /\ cdsOk' = FALSE /\ UNCHANGED cds
      BY <3>1
    <3>2. CASE ~cdsOk /\ UNCHANGED <<cds, cdsOk>>
      <4>1. cdsOk = FALSE
        BY <3>2 DEF StatesOK
      <4> QED
        BY <3>2, <4>1
    <3> QED
      BY <1>3, <3>1, <3>2
  <2> QED
    BY <1>1, <2>1 DEF StatesOK, CdsCurrent
<1> QED
  BY <1>2, <1>3 DEF UpdateCDS

LEMMA ManageKeeps ==
  ASSUME TablesOK, StatesOK, OthersOK, CdsCurrent, ManageDestFile
  PROVE  StatesOK' /\ CdsCurrent' /\ CountsGrow /\ TablesOK' /\ enabled' \in [Dest -> BOOLEAN]
<1>1. ASSUME NEW t \in pending, table' = t, loaded' = TRUE, pending' = {},
             enabled' = [d \in Dest |-> t[d].enabled],
             count' = [d \in Dest |-> t[d].seq],
             rewound' = [d \in Dest |-> rewound[d] \/ t[d].seq < count[d]],
             app' = app, UpdateCDS
      PROVE  StatesOK' /\ CdsCurrent' /\ CountsGrow /\ TablesOK' /\ enabled' \in [Dest -> BOOLEAN]
  <2>1. t \in [Dest -> AnyEntry] /\ VerifyDestFile(t)
    BY DsFileAssumption DEF TablesOK
  <2>2. \A d \in Dest : t[d].seq \in Counts /\ t[d].enabled \in BOOLEAN
    BY <2>1, DsFileAssumption DEF AnyEntry, VerifyDestFile, VerifyDestFileEntry, VerifyCount, Counts
  <2>3. count' \in [Dest -> Counts] /\ rewound' \in [Dest -> BOOLEAN] /\ app' \in BOOLEAN
    BY <1>1, <2>2 DEF StatesOK
  <2>4. StatesOK' /\ CdsCurrent'
    BY <1>1, <2>3, UpdateKeeps
  <2>5. CountsGrow
    <3> SUFFICES ASSUME NEW d \in Dest
                 PROVE  (rewound[d] => rewound'[d]) /\ (~rewound'[d] => count[d] <= count'[d])
      BY DEF CountsGrow
    <3>1. rewound'[d] <=> rewound[d] \/ t[d].seq < count[d]
      BY <1>1, Zenon
    <3>2. count'[d] = t[d].seq /\ count'[d] \in Nat /\ count[d] \in Nat
      BY <1>1, <2>2, DsFileAssumption DEF StatesOK, Counts
    <3> QED
      BY <3>1, <3>2
  <2>6. TablesOK'
    BY <1>1, <2>1 DEF TablesOK
  <2> QED
    BY <1>1, <2>2, <2>4, <2>5, <2>6
<1>2. CASE UNCHANGED <<tableVars, app, enabled, count, cdsVars, rewound>>
  <2>1. StatesOK' /\ CdsCurrent' /\ TablesOK'
    BY <1>2 DEF StatesOK, CdsCurrent, TablesOK, VerifyDestFile, tableVars, cdsVars
  <2>2. CountsGrow
    BY <1>2, DsFileAssumption DEF CountsGrow, StatesOK, Counts
  <2> QED
    BY <1>2, <2>1, <2>2 DEF OthersOK
<1> QED
  BY <1>1, <1>2 DEF ManageDestFile

\* A command for one destination: the table stays good and the count is only set
\* back if that is remembered.
LEMMA DestCommandKeeps ==
  ASSUME TablesOK, StatesOK, OthersOK, CdsCurrent, NEW d \in Dest, DestCommand(d)
  PROVE  StatesOK' /\ CdsCurrent' /\ CountsGrow /\ TablesOK' /\ enabled' \in [Dest -> BOOLEAN]
<1> DEFINE Result == /\ StatesOK' /\ CdsCurrent' /\ CountsGrow /\ TablesOK'
                     /\ enabled' \in [Dest -> BOOLEAN]
<1>1. ASSUME UNCHANGED <<count, cdsVars, rewound, app>>
      PROVE  StatesOK' /\ CdsCurrent' /\ CountsGrow
  BY <1>1, DsFileAssumption DEF StatesOK, CdsCurrent, CountsGrow, Counts, cdsVars
<1>2. ASSUME NEW e \in AnyEntry, VerifyDestFileEntry(e), table' = [table EXCEPT ![d] = e],
             UNCHANGED <<loaded, pending>>
      PROVE  TablesOK'
  BY <1>2 DEF TablesOK, VerifyDestFile
<1>3. table[d] \in AnyEntry /\ VerifyDestFileEntry(table[d])
  BY DEF TablesOK, VerifyDestFile
<1>4. ASSUME NEW e \in BOOLEAN, SetDestState(d, e) PROVE Result
  <2>1. table' = [table EXCEPT ![d] = [table[d] EXCEPT !.enabled = e]]
    BY <1>4 DEF SetDestState, EditEntry, TablesOK
  <2>2. [table[d] EXCEPT !.enabled = e] \in AnyEntry /\ VerifyDestFileEntry([table[d] EXCEPT !.enabled = e])
    BY <1>3 DEF AnyEntry, VerifyDestFileEntry
  <2>3. TablesOK'
    BY <1>2, <1>4, <2>1, <2>2 DEF SetDestState, EditEntry
  <2>4. enabled' \in [Dest -> BOOLEAN]
    BY <1>4 DEF SetDestState, OthersOK
  <2> QED
    BY <1>1, <1>4, <2>3, <2>4 DEF SetDestState, EditEntry
<1>5. ASSUME NEW t \in NameTypes, SetDestType(d, t) PROVE Result
  <2>1. table' = [table EXCEPT ![d] = [table[d] EXCEPT !.type = t]]
    BY <1>5 DEF SetDestType, EditEntry, TablesOK
  <2>2. [table[d] EXCEPT !.type = t] \in AnyEntry /\ VerifyDestFileEntry([table[d] EXCEPT !.type = t])
    BY <1>3 DEF AnyEntry, VerifyDestFileEntry
  <2>3. TablesOK'
    BY <1>2, <1>5, <2>1, <2>2 DEF SetDestType, EditEntry
  <2> QED
    BY <1>1, <1>5, <2>3 DEF SetDestType, EditEntry, OthersOK
<1>6. ASSUME NEW s, SetDestStem(d, s) PROVE Result
  <2>1. table' = [table EXCEPT ![d] = [table[d] EXCEPT !.stem = s]] /\ s \in Stems
    BY <1>6 DEF SetDestStem, EditEntry, TablesOK
  <2>2. [table[d] EXCEPT !.stem = s] \in AnyEntry /\ VerifyDestFileEntry([table[d] EXCEPT !.stem = s])
    BY <1>3, <2>1 DEF AnyEntry, VerifyDestFileEntry
  <2>3. TablesOK'
    BY <1>2, <1>6, <2>1, <2>2 DEF SetDestStem, EditEntry
  <2> QED
    BY <1>1, <1>6, <2>3 DEF SetDestStem, EditEntry, OthersOK
<1>7. ASSUME NEW s \in SizeLimits, SetDestSize(d, s) PROVE Result
  <2>1. table' = [table EXCEPT ![d] = [table[d] EXCEPT !.maxSize = s]] /\ VerifySize(s)
    BY <1>7 DEF SetDestSize, EditEntry, TablesOK
  <2>2. [table[d] EXCEPT !.maxSize = s] \in AnyEntry /\ VerifyDestFileEntry([table[d] EXCEPT !.maxSize = s])
    BY <1>3, <2>1 DEF AnyEntry, VerifyDestFileEntry
  <2>3. TablesOK'
    BY <1>2, <1>7, <2>1, <2>2 DEF SetDestSize, EditEntry
  <2> QED
    BY <1>1, <1>7, <2>3 DEF SetDestSize, EditEntry, OthersOK
<1>8. ASSUME NEW a \in AgeLimits, SetDestAge(d, a) PROVE Result
  <2>1. table' = [table EXCEPT ![d] = [table[d] EXCEPT !.maxAge = a]] /\ VerifyAge(a)
    BY <1>8 DEF SetDestAge, EditEntry, TablesOK
  <2>2. [table[d] EXCEPT !.maxAge = a] \in AnyEntry /\ VerifyDestFileEntry([table[d] EXCEPT !.maxAge = a])
    BY <1>3, <2>1 DEF AnyEntry, VerifyDestFileEntry
  <2>3. TablesOK'
    BY <1>2, <1>8, <2>1, <2>2 DEF SetDestAge, EditEntry
  <2> QED
    BY <1>1, <1>8, <2>3 DEF SetDestAge, EditEntry, OthersOK
<1>9. ASSUME NEW n \in 0 .. MaxCount + 1, SetDestCount(d, n) PROVE Result
  <2>1. table' = [table EXCEPT ![d] = [table[d] EXCEPT !.seq = n]] /\ VerifyCount(n) /\ n \in Nat
    <3>1. n \in Nat
      BY <1>9, DsFileAssumption
    <3> QED
      BY <1>9, <3>1 DEF SetDestCount, EditEntry, TablesOK
  <2>2. [table[d] EXCEPT !.seq = n] \in AnyEntry /\ VerifyDestFileEntry([table[d] EXCEPT !.seq = n])
    BY <1>3, <2>1 DEF AnyEntry, VerifyDestFileEntry
  <2>3. TablesOK'
    BY <1>2, <1>9, <2>1, <2>2 DEF SetDestCount, EditEntry
  <2>4. n \in Counts
    BY <2>1, DsFileAssumption DEF VerifyCount, Counts
  <2>5. count' \in [Dest -> Counts] /\ rewound' \in [Dest -> BOOLEAN] /\ app' \in BOOLEAN
    BY <1>9, <2>4 DEF SetDestCount, EditEntry, StatesOK
  <2>6. StatesOK' /\ CdsCurrent'
    BY <1>9, <2>5, UpdateKeeps DEF SetDestCount
  <2>7. CountsGrow
    <3> SUFFICES ASSUME NEW x \in Dest
                 PROVE  (rewound[x] => rewound'[x]) /\ (~rewound'[x] => count[x] <= count'[x])
      BY DEF CountsGrow
    <3>1. rewound'[x] <=> rewound[x] \/ (x = d /\ n < count[d])
      <4>1. rewound' = [rewound EXCEPT ![d] = @ \/ n < count[d]] /\ rewound \in [Dest -> BOOLEAN]
        BY <1>9 DEF SetDestCount, StatesOK
      <4> QED
        BY <4>1, Zenon
    <3>2. count'[x] = IF x = d THEN n ELSE count[x]
      BY <1>9 DEF SetDestCount, StatesOK
    <3>3. n \in Nat /\ count[x] \in Nat
      BY <2>4, DsFileAssumption DEF StatesOK, Counts
    <3> QED
      BY <3>1, <3>2, <3>3
  <2> QED
    BY <1>9, <2>3, <2>6, <2>7 DEF SetDestCount, OthersOK
<1> QED
  BY <1>4, <1>5, <1>6, <1>7, <1>8, <1>9
  DEF DestCommand, SetDestPath, SetDestBase, SetDestExt

LEMMA CurIsDest ==
  ASSUME JobOK, job.stage # "idle"
  PROVE  Cur \in Dest /\ Len(job.todo) \in Nat \ {0} /\ Tail(job.todo) \in Seq(Dest)
<1>1. job.todo \in Seq(Dest) /\ job.todo # <<>>
  BY DEF JobOK
<1> QED
  BY <1>1 DEF Cur

LEMMA AdvanceKeeps ==
  ASSUME TablesOK, StatesOK, JobOK, AdvanceCount
  PROVE  StatesOK' /\ CdsCurrent' /\ CountsGrow
<1>1. Cur \in Dest
  BY CurIsDest DEF AdvanceCount
<1> DEFINE wraps == count[Cur] + 1 > MaxCount
           next == IF wraps THEN table[Cur].seq ELSE count[Cur] + 1
<1>2. /\ count' = [count EXCEPT ![Cur] = next]
      /\ rewound' = [rewound EXCEPT ![Cur] = rewound[Cur] \/ wraps]
  BY DEF AdvanceCount
<1>3. count[Cur] \in 0 .. MaxCount /\ table[Cur].seq \in 0 .. MaxCount
  BY <1>1, DsFileAssumption DEF TablesOK, StatesOK, Counts, AnyEntry, VerifyDestFile,
     VerifyDestFileEntry, VerifyCount
<1>4. next \in Counts
  BY <1>3, DsFileAssumption DEF Counts
<1>5. count' \in [Dest -> Counts] /\ app' \in BOOLEAN
  BY <1>2, <1>4 DEF StatesOK, AdvanceCount
<1>6. rewound' \in [Dest -> BOOLEAN]
  BY <1>2 DEF StatesOK
<1>7. StatesOK' /\ CdsCurrent'
  BY <1>5, <1>6, UpdateKeeps DEF AdvanceCount
<1>8. CountsGrow
  <2> SUFFICES ASSUME NEW x \in Dest
               PROVE  (rewound[x] => rewound'[x]) /\ (~rewound'[x] => count[x] <= count'[x])
    BY DEF CountsGrow
  <2>1. rewound'[x] <=> rewound[x] \/ (x = Cur /\ wraps)
    <3> HIDE DEF wraps
    <3>1. rewound \in [Dest -> BOOLEAN]
      BY DEF StatesOK
    <3> QED
      BY <1>2, <3>1, Zenon
  <2>2. count'[x] = IF x = Cur THEN next ELSE count[x]
    BY <1>2 DEF StatesOK
  <2>3. count[x] \in Nat
    BY DsFileAssumption DEF StatesOK, Counts
  <2> QED
    BY <1>3, <2>1, <2>2, <2>3
<1> QED
  BY <1>7, <1>8

\* A reset sets no count back unnoticed: a CDS that survives and works has the
\* current counts.
LEMMA ResetKeeps ==
  ASSUME TablesOK, StatesOK, OthersOK, CdsCurrent, NEW kept \in BOOLEAN, Reset(kept)
  PROVE  StatesOK' /\ CdsCurrent' /\ CountsGrow /\ TablesOK' /\ OthersOK'
<1>1. PICK tableLoads \in BOOLEAN, works \in BOOLEAN :
        /\ Start(tableLoads)
        /\ RestoreCDS(works, kept, TableCounts(tableLoads))
        /\ rewound' = [d \in Dest |->
             rewound[d] \/ (~(kept /\ works /\ cdsOk) /\ count'[d] < count[d])]
  BY DEF Reset
<1>2. TablesOK'
  BY <1>1, DsFileAssumption DEF Start, TablesOK
<1>3. OthersOK'
  <2>1. \A d \in Dest : DefaultTable[d].enabled \in BOOLEAN
    BY DsFileAssumption DEF AnyEntry
  <2>2. enabled' \in [Dest -> BOOLEAN]
    BY <1>1, <2>1 DEF Start
  <2>3. age' \in [Dest -> Nat] /\ hkDue' \in BOOLEAN /\ now' = now
    BY <1>1 DEF Start, Reset
  <2> QED
    BY <2>2, <2>3 DEF OthersOK
<1>4. TableCounts(tableLoads) \in [Dest -> Counts]
  <2>1. \A d \in Dest : DefaultTable[d].seq \in Nat /\ DefaultTable[d].seq <= MaxCount
    BY DsFileAssumption DEF AnyEntry, VerifyDestFile, VerifyDestFileEntry, VerifyCount
  <2> QED
    BY <2>1, DsFileAssumption DEF TableCounts, Counts
<1>5. cds.count \in [Dest -> Counts] /\ cds.app \in BOOLEAN
  BY DEF StatesOK
<1>6. count' \in [Dest -> Counts] /\ app' \in BOOLEAN
  BY <1>1, <1>4, <1>5 DEF RestoreCDS
<1>7. rewound' \in [Dest -> BOOLEAN]
  BY <1>1
<1>8. cds' \in [count: [Dest -> Counts], app: BOOLEAN]
  BY <1>1, <1>6 DEF RestoreCDS, StatesOK
<1>9. cdsKept' \in BOOLEAN /\ cdsOk' \in BOOLEAN
  BY <1>1 DEF RestoreCDS
<1>10. CdsCurrent'
  BY <1>1 DEF RestoreCDS, CdsCurrent
<1>11. CountsGrow
  <2> SUFFICES ASSUME NEW x \in Dest
               PROVE  (rewound[x] => rewound'[x]) /\ (~rewound'[x] => count[x] <= count'[x])
    BY DEF CountsGrow
  <2>1. rewound'[x] <=> rewound[x] \/ (~(kept /\ works /\ cdsOk) /\ count'[x] < count[x])
    BY <1>1, Zenon
  <2>2. count[x] \in Nat /\ count'[x] \in Nat
    BY <1>6, DsFileAssumption DEF StatesOK, Counts
  <2>3. kept /\ works /\ cdsOk => count' = count
    <3>1. kept /\ works => count' = cds.count
      BY <1>1 DEF RestoreCDS
    <3>2. cdsOk => cds.count = count
      BY DEF CdsCurrent
    <3> QED
      BY <3>1, <3>2
  <2> QED
    BY <2>1, <2>2, <2>3
<1> QED
  BY <1>2, <1>3, <1>6, <1>7, <1>8, <1>9, <1>10, <1>11 DEF StatesOK

\* The types of table, counts, states and CDS, and the current CDS, in every step.
LEMMA StatesStep ==
  ASSUME TablesOK, StatesOK, OthersOK, JobOK, CdsCurrent, [Next]_vars
  PROVE  StatesOK' /\ CdsCurrent' /\ CountsGrow /\ TablesOK' /\ OthersOK'
<1> DEFINE Result == StatesOK' /\ CdsCurrent' /\ CountsGrow /\ TablesOK' /\ OthersOK'
<1>1. ASSUME UNCHANGED <<app, count, cdsVars, rewound>>
      PROVE  StatesOK' /\ CdsCurrent' /\ CountsGrow
  BY <1>1, DsFileAssumption DEF StatesOK, CdsCurrent, CountsGrow, Counts, cdsVars
<1>2. ASSUME UNCHANGED tableVars PROVE TablesOK'
  BY <1>2 DEF TablesOK, VerifyDestFile, tableVars
<1>3. ASSUME NEW S, ResetAge(S) PROVE age' \in [Dest -> Nat]
  BY <1>3 DEF ResetAge, OthersOK
<1>4. ASSUME TestAge PROVE age' \in [Dest -> Nat]
  <2> DEFINE older == [d \in Dest |-> IF IsOpen(d) THEN age[d] + HkCycle ELSE age[d]]
             old   == {d \in Dest : IsOpen(d) /\ older[d] >= table[d].maxAge}
  <2>1. older \in [Dest -> Nat]
    BY DsFileAssumption DEF OthersOK
  <2>2. age' = [d \in Dest |-> IF d \in old THEN 0 ELSE older[d]]
    BY <1>4 DEF TestAge
  <2> HIDE DEF older, old
  <2> QED
    BY <2>1, <2>2
<1>5. CASE SkipDisabled \/ SetupOpen \/ CreateFile \/ WriteHeader \/ WriteData \/ StorePacket
  BY <1>1, <1>2, <1>5 DEF SkipDisabled, SetupOpen, CreateFile, WriteHeader, WriteData, StorePacket,
     status, OthersOK
<1>6. CASE SetupRoll
  BY <1>1, <1>2, <1>3, <1>6 DEF SetupRoll, OthersOK
<1>7. CASE WriteError \/ CreateFails
  <2>1. enabled' \in [Dest -> BOOLEAN]
    BY <1>7 DEF WriteError, CreateFails, OthersOK
  <2>2. age' \in [Dest -> Nat]
    BY <1>3, <1>7 DEF WriteError, CreateFails, OthersOK
  <2> QED
    BY <1>1, <1>2, <1>7, <2>1, <2>2 DEF WriteError, CreateFails, OthersOK
<1>8. CASE AdvanceCount
  BY <1>2, <1>8, AdvanceKeeps DEF AdvanceCount, OthersOK
<1>9. CASE Timeout
  BY <1>9, ManageKeeps DEF Timeout, OthersOK
<1>10. CASE SendHk
  BY <1>4, <1>10, ManageKeeps DEF SendHk, OthersOK
<1>11. CASE ScheduleHk \/ LoadTable \/ Tick
  <2>1. TablesOK'
    BY <1>2, <1>11 DEF ScheduleHk, LoadTable, Tick, TablesOK
  <2>2. OthersOK'
    <3>1. now' = now \/ (now < MaxTime /\ now' = now + 1)
      BY <1>11 DEF ScheduleHk, LoadTable, Tick
    <3>2. now' \in 0 .. MaxTime
      BY <3>1, DsFileAssumption DEF OthersOK
    <3>3. hkDue' \in BOOLEAN
      BY <1>11 DEF ScheduleHk, LoadTable, Tick, OthersOK
    <3>4. UNCHANGED <<age, enabled>>
      BY <1>11 DEF ScheduleHk, LoadTable, Tick, status
    <3> QED
      BY <3>2, <3>3, <3>4 DEF OthersOK
  <2>3. UNCHANGED <<app, count, cdsVars, rewound>>
    BY <1>11 DEF ScheduleHk, LoadTable, Tick, status
  <2> QED
    BY <1>1, <2>1, <2>2, <2>3
<1>12. CASE CloseAll \/ \E d \in Dest : CloseFile(d)
  BY <1>1, <1>2, <1>3, <1>12 DEF CloseAll, CloseFile, OthersOK
<1>13. ASSUME NEW e \in BOOLEAN, SetAppState(e) PROVE Result
  <2>1. app' \in BOOLEAN /\ count' = count /\ rewound' = rewound
    BY <1>13 DEF SetAppState
  <2>2. StatesOK' /\ CdsCurrent'
    <3>1. count' \in [Dest -> Counts] /\ rewound' \in [Dest -> BOOLEAN]
      BY <2>1 DEF StatesOK
    <3> QED
      BY <1>13, <2>1, <3>1, UpdateKeeps DEF SetAppState
  <2>3. CountsGrow
    BY <2>1, DsFileAssumption DEF StatesOK, CountsGrow, Counts
  <2> QED
    BY <1>2, <1>13, <2>2, <2>3 DEF SetAppState, OthersOK
<1>14. ASSUME NEW d \in Dest, DestCommand(d) PROVE Result
  <2>1. /\ StatesOK' /\ CdsCurrent' /\ CountsGrow /\ TablesOK'
        /\ enabled' \in [Dest -> BOOLEAN]
    BY <1>14, DestCommandKeeps
  <2>2. UNCHANGED <<age, hkDue, now>>
    BY <1>14 DEF DestCommand, SetDestState, SetDestType, SetDestPath, SetDestBase, SetDestExt,
       SetDestStem, SetDestSize, SetDestAge, SetDestCount, EditEntry
  <2> QED
    BY <2>1, <2>2 DEF OthersOK
<1>15. CASE ProcessorReset \/ PowerCycle
  BY <1>15, ResetKeeps DEF ProcessorReset, PowerCycle, StatesOK
<1>16. CASE UNCHANGED vars
  BY <1>1, <1>2, <1>16 DEF vars, status, OthersOK
<1> QED
  BY <1>5, <1>6, <1>7, <1>8, <1>9, <1>10, <1>11, <1>12, <1>13, <1>14, <1>15, <1>16
  DEF Next, Work, Storing, Disturbance, Command

-----------------------------------------------------------------------------
(***************************************************************************)
(* Files.                                                                  *)
(***************************************************************************)

\* What closing the open files of S may change: the files themselves and those
\* under the names they are moved to.
CloseEffect(S) ==
  /\ FilesOK'
  /\ open' = [d \in Dest |-> IF d \in S THEN NoFile ELSE open[d]]
  /\ \A d \in Dest : handles'[d] = IF d \in S THEN handles[d] - 1 ELSE handles[d]
  /\ \A d \in Dest \ S : size'[d] = size[d]
  /\ \A f \in Name : (\A d \in S : f # open[d] /\ f # Target(open[d])) =>
       /\ f \in DOMAIN disk' <=> f \in DOMAIN disk
       /\ f \in DOMAIN disk => disk'[f] = disk[f]
  /\ \A d \in S : open[d] \in DOMAIN disk' => open[d] \in DOMAIN disk
  /\ \A d \in S : Target(open[d]) \in DOMAIN disk' =>
       open[d] \in DOMAIN disk \/ Target(open[d]) \in DOMAIN disk
  /\ \A f \in lost' : f \in lost \/ (f \in DOMAIN disk /\ \E d \in S : f = Target(open[d]))
  /\ complete' \subseteq DOMAIN disk'
  /\ \A f \in complete' : f \in complete \/ \E d \in S : f \in {open[d], Target(open[d])}

LEMMA TargetIs ==
  ASSUME NEW f \in Name
  PROVE  /\ Target(f) \in Name /\ Target(f).moved = TRUE
         /\ Target(f).dest = f.dest /\ Target(f).by = f.by /\ Target(f).n = f.n
BY DEF Target, Name

LEMMA CloseHas ==
  ASSUME FilesOK, NamesSound, NEW S \in SUBSET Dest, \A d \in S : IsOpen(d), CloseDests(S)
  PROVE  CloseEffect(S)
<1>1. PICK mv \in SUBSET (S \cap Moves) :
        LET leave  == {open[d] : d \in mv}
            arrive == {Target(f) : f \in leave}
            files  == (DOMAIN disk \ (leave \cup arrive))
                        \cup {f \in arrive : Packets(open[f.dest]) > 0}
        IN /\ disk' = [f \in files |-> disk[IF f \in arrive THEN open[f.dest] ELSE f]]
           /\ lost' = lost \cup (arrive \cap DOMAIN disk)
           /\ complete' = {f \in complete \cup {Reported(d) : d \in S} : f \in files}
           /\ open' = [d \in Dest |-> IF d \in S THEN NoFile ELSE open[d]]
           /\ size' = [d \in Dest |-> IF d \in S THEN 0 ELSE size[d]]
           /\ handles' = [d \in Dest |-> IF d \in S THEN handles[d] - 1 ELSE handles[d]]
  BY DEF CloseDests
<1> DEFINE leave  == {open[d] : d \in mv}
           arrive == {Target(f) : f \in leave}
           files  == (DOMAIN disk \ (leave \cup arrive))
                       \cup {f \in arrive : Packets(open[f.dest]) > 0}
<1>2. /\ disk' = [f \in files |-> disk[IF f \in arrive THEN open[f.dest] ELSE f]]
      /\ lost' = lost \cup (arrive \cap DOMAIN disk)
      /\ complete' = {f \in complete \cup {Reported(d) : d \in S} : f \in files}
      /\ open' = [d \in Dest |-> IF d \in S THEN NoFile ELSE open[d]]
      /\ size' = [d \in Dest |-> IF d \in S THEN 0 ELSE size[d]]
      /\ handles' = [d \in Dest |-> IF d \in S THEN handles[d] - 1 ELSE handles[d]]
  BY <1>1
<1>3. \A d \in S : /\ d \in Dest /\ open[d] \in Name /\ open[d].dest = d
                   /\ open[d].moved = FALSE
                   /\ Target(open[d]) \in Name /\ Target(open[d]).dest = d
                   /\ Target(open[d]).moved = TRUE
  <2> SUFFICES ASSUME NEW d \in S
               PROVE  /\ d \in Dest /\ open[d] \in Name /\ open[d].dest = d
                      /\ open[d].moved = FALSE
                      /\ Target(open[d]) \in Name /\ Target(open[d]).dest = d
                      /\ Target(open[d]).moved = TRUE
    OBVIOUS
  <2>1. d \in Dest /\ open[d] \in Name
    BY DEF IsOpen, FilesOK
  <2>2. open[d].dest = d /\ open[d].moved = FALSE
    BY DEF NamesSound
  <2> QED
    BY <2>1, <2>2, TargetIs
<1>4. mv \subseteq S
  OBVIOUS
\* A name that is arrived at is that of the file that leaves for it.
<1>5. \A f \in arrive : /\ f \in Name /\ f.moved = TRUE
                        /\ f.dest \in mv /\ f = Target(open[f.dest])
  BY <1>3, <1>4
<1>6. \A f \in leave : f \in Name /\ f.moved = FALSE
  BY <1>3, <1>4
<1>7. \A f : f \in files <=> \/ f \in DOMAIN disk /\ f \notin leave /\ f \notin arrive
                             \/ f \in arrive /\ open[f.dest] \in DOMAIN disk
  <2>1. \A f \in DOMAIN disk : disk[f] > 0
    BY DEF FilesOK
  <2>2. \A f : Packets(f) > 0 <=> f \in DOMAIN disk
    BY <2>1 DEF Packets
  <2> QED
    BY <2>2
<1>8. \A d \in mv : open[d] \in leave /\ Target(open[d]) \in arrive
  OBVIOUS
<1> HIDE DEF leave, arrive, files
<1>9. DOMAIN disk' = files /\ \A f \in files : disk'[f] = disk[IF f \in arrive THEN open[f.dest] ELSE f]
  BY <1>2
<1>10. files \subseteq Name
  BY <1>5, <1>7 DEF FilesOK
<1>11. FilesOK'
  <2>1. \A f \in files : disk'[f] \in Nat \ {0}
    BY <1>7, <1>9 DEF FilesOK
  <2>2. disk' \in [DOMAIN disk' -> Nat \ {0}]
    <3>1. disk' = [f \in DOMAIN disk' |-> disk'[f]]
      BY <1>2, <1>9, Zenon
    <3> QED
      BY <1>9, <2>1, <3>1
  <2>3. open' \in [Dest -> Name \cup {NoFile}] /\ size' \in [Dest -> Nat] /\ handles' \in [Dest -> Int]
    BY <1>2 DEF FilesOK
  <2>4. lost' \subseteq Name /\ complete' \subseteq Name
    BY <1>2, <1>5, <1>10 DEF FilesOK
  <2> QED
    BY <1>9, <1>10, <2>2, <2>3, <2>4 DEF FilesOK
<1>12. ASSUME NEW f \in Name, \A d \in S : f # open[d] /\ f # Target(open[d])
       PROVE  /\ f \in DOMAIN disk' <=> f \in DOMAIN disk
              /\ f \in DOMAIN disk => disk'[f] = disk[f]
  <2>1. f \notin arrive
    BY <1>4, <1>5, <1>12
  <2>2. f \notin leave
    BY <1>4, <1>12 DEF leave
  <2> QED
    BY <1>7, <1>9, <2>1, <2>2
<1>13. ASSUME NEW d \in S PROVE open[d] \in DOMAIN disk' => open[d] \in DOMAIN disk
  BY <1>3, <1>5, <1>7, <1>9
<1>14. ASSUME NEW d \in S
       PROVE  Target(open[d]) \in DOMAIN disk' =>
                open[d] \in DOMAIN disk \/ Target(open[d]) \in DOMAIN disk
  <2>1. Target(open[d]) \in arrive => Target(open[d]).dest = d
    BY <1>3
  <2> QED
    BY <1>7, <1>9, <2>1
<1>15. ASSUME NEW f \in lost'
       PROVE  f \in lost \/ (f \in DOMAIN disk /\ \E d \in S : f = Target(open[d]))
  BY <1>2, <1>4, <1>5, <1>15
<1>16. complete' \subseteq DOMAIN disk'
  BY <1>2, <1>9
<1>17. ASSUME NEW f \in complete'
       PROVE  f \in complete \/ \E d \in S : f \in {open[d], Target(open[d])}
  BY <1>2, <1>17 DEF Reported
<1>18. /\ \A d \in Dest : handles'[d] = IF d \in S THEN handles[d] - 1 ELSE handles[d]
       /\ \A d \in Dest \ S : size'[d] = size[d]
  BY <1>2
<1> QED
  BY <1>2, <1>11, <1>12, <1>13, <1>14, <1>15, <1>16, <1>17, <1>18 DEF CloseEffect

\* Closing files keeps what is known of the files.
LEMMA CloseKeeps ==
  ASSUME FilesInv, StatesOK, StatesOK', CountsGrow, NEW S \in SUBSET Dest,
         \A d \in S : IsOpen(d), CloseDests(S), \A d \in Dest : Creating(d) => d \in S
  PROVE  FilesInv'
<1>1. CloseEffect(S)
  BY CloseHas DEF FilesInv
<1>2. FilesOK'
  BY <1>1 DEF CloseEffect
\* A file that stays open stays what it was.
<1>3. ASSUME NEW d \in Dest, IsOpen(d)'
      PROVE  /\ d \notin S /\ IsOpen(d) /\ open'[d] = open[d] /\ open[d] \in Name
             /\ open[d].dest = d /\ open[d].moved = FALSE
             /\ Target(open[d]) \in Name /\ Target(open[d]).dest = d
             /\ Target(open[d]).moved = TRUE
  <2>1. d \notin S /\ open'[d] = open[d]
    BY <1>1, <1>3 DEF CloseEffect, IsOpen
  <2>2. IsOpen(d) /\ open[d] \in Name
    BY <1>3, <2>1 DEF IsOpen, FilesInv, FilesOK
  <2>3. open[d].dest = d /\ open[d].moved = FALSE
    BY <2>2 DEF FilesInv, NamesSound
  <2> QED
    BY <2>1, <2>2, <2>3, TargetIs
<1>4. ASSUME NEW d \in S
      PROVE  /\ d \in Dest /\ IsOpen(d) /\ open[d] \in Name
             /\ open[d].dest = d /\ open[d].moved = FALSE
             /\ Target(open[d]) \in Name /\ Target(open[d]).dest = d
             /\ Target(open[d]).by = open[d].by /\ Target(open[d]).n = open[d].n
             /\ Target(open[d]).moved = TRUE
  <2>1. d \in Dest /\ IsOpen(d) /\ open[d] \in Name
    BY DEF IsOpen, FilesInv, FilesOK
  <2>2. open[d].dest = d /\ open[d].moved = FALSE
    BY <2>1 DEF FilesInv, NamesSound
  <2> QED
    BY <2>1, <2>2, TargetIs
<1>5. ASSUME NEW f \in Name, \A d \in S : f.dest # d
      PROVE  /\ f \in DOMAIN disk' <=> f \in DOMAIN disk
             /\ f \in DOMAIN disk => disk'[f] = disk[f]
  <2>1. ASSUME NEW d \in S PROVE f # open[d] /\ f # Target(open[d])
    <3>1. open[d].dest = d /\ Target(open[d]).dest = d
      BY <1>4
    <3> QED
      BY <1>5, <3>1
  <2> QED
    BY <1>1, <2>1 DEF CloseEffect
<1>6. OpenFilesSound'
  <2> SUFFICES ASSUME NEW d \in Dest
               PROVE  /\ handles'[d] = IF IsOpen(d)' THEN 1 ELSE 0
                      /\ IsOpen(d)' => open'[d] \in DOMAIN disk'
    BY DEF OpenFilesSound
  <2>1. handles[d] = IF IsOpen(d) THEN 1 ELSE 0
    BY DEF FilesInv, OpenFilesSound
  <2>2. CASE d \in S
    <3>1. ~IsOpen(d)' /\ handles'[d] = handles[d] - 1 /\ IsOpen(d)
      BY <1>1, <1>4, <2>2 DEF CloseEffect, IsOpen
    <3> QED
      BY <2>1, <3>1
  <2>3. CASE d \notin S
    <3>1. open'[d] = open[d] /\ handles'[d] = handles[d] /\ ~Creating(d)
      BY <1>1, <2>3 DEF CloseEffect
    <3>2. IsOpen(d)' <=> IsOpen(d)
      BY <3>1 DEF IsOpen
    <3>3. IsOpen(d) => open[d] \in DOMAIN disk
      BY <3>1 DEF FilesInv, OpenFilesSound
    <3>4. IsOpen(d) => open[d] \in DOMAIN disk'
      <4>1. SUFFICES ASSUME IsOpen(d) PROVE open[d] \in DOMAIN disk'
        OBVIOUS
      <4>2. open[d] \in Name /\ open[d].dest = d
        BY <1>3, <3>2, <4>1
      <4> QED
        BY <1>5, <2>3, <3>3, <4>1, <4>2
    <3> QED
      BY <2>1, <3>1, <3>2, <3>4
  <2> QED
    BY <2>2, <2>3
<1>7. NamesSound'
  <2>1. complete' \subseteq DOMAIN disk'
    BY <1>1 DEF CloseEffect
  <2>2. ASSUME NEW d \in Dest, IsOpen(d)' PROVE open[d] \notin complete'
    <3>1. open[d] \notin complete
      BY <1>3, <2>2 DEF FilesInv, NamesSound
    <3>2. \A e \in S : open[d] \notin {open[e], Target(open[e])}
      <4>1. d \notin S /\ open[d].dest = d
        BY <1>3, <2>2
      <4>2. ASSUME NEW e \in S PROVE open[e].dest = e /\ Target(open[e]).dest = e
        BY <1>4
      <4> QED
        BY <4>1, <4>2
    <3> QED
      BY <1>1, <3>1, <3>2 DEF CloseEffect
  <2> QED
    BY <1>3, <2>1, <2>2 DEF NamesSound
<1>8. \A d \in Dest : /\ rewound[d] => rewound'[d]
                      /\ ~rewound'[d] => ~rewound[d] /\ count[d] <= count'[d]
                      /\ count[d] \in Nat /\ count'[d] \in Nat
  BY DsFileAssumption DEF CountsGrow, StatesOK, Counts
\* A file to be closed that is count-named, of a count not set back.
<1>9. ASSUME NEW d \in S, open[d].by = "COUNT", ~rewound[d]
      PROVE  /\ Target(open[d]) \notin DOMAIN disk
             /\ open[d] \in DOMAIN disk => open[d].n < count[d]
  BY <1>4, <1>9 DEF FilesInv, CountsAhead
<1>10. CountsAhead'
  <2>1. ASSUME NEW f \in DOMAIN disk', f.by = "COUNT", ~rewound'[f.dest]
        PROVE  f.n < count'[f.dest]
    <3>1. f \in Name /\ f.dest \in Dest /\ f.n \in Int
      BY <1>2, <2>1, DsFileAssumption DEF FilesOK, Name, Counts
    <3>2. ~rewound[f.dest] /\ count[f.dest] <= count'[f.dest] /\ count[f.dest] \in Nat
          /\ count'[f.dest] \in Nat
      BY <1>8, <2>1, <3>1
    <3>3. f \in DOMAIN disk => f.n < count[f.dest]
      BY <2>1, <3>2 DEF FilesInv, CountsAhead
    <3>4. CASE \A d \in S : f # open[d] /\ f # Target(open[d])
      BY <1>1, <2>1, <3>1, <3>2, <3>3, <3>4 DEF CloseEffect
    <3>5. ASSUME NEW d \in S, f = open[d] PROVE f.n < count[f.dest]
      BY <1>1, <2>1, <3>3, <3>5 DEF CloseEffect
    <3>6. ASSUME NEW d \in S, f = Target(open[d]) PROVE f.n < count[f.dest]
      <4>1. open[d] \in DOMAIN disk \/ f \in DOMAIN disk
        BY <1>1, <2>1, <3>6 DEF CloseEffect
      <4>2. open[d].by = "COUNT" /\ ~rewound[d] /\ f.dest = d /\ f.n = open[d].n
        BY <1>4, <2>1, <3>2, <3>6
      <4> QED
        BY <1>9, <3>3, <4>1, <4>2
    <3> QED
      BY <3>1, <3>2, <3>4, <3>5, <3>6
  <2>2. ASSUME NEW d \in Dest, IsOpen(d)', open'[d].by = "COUNT", ~rewound'[d]
        PROVE  Target(open[d]) \notin DOMAIN disk' /\ open[d].n < count'[d]
    <3>1. open[d].by = "COUNT" /\ ~rewound[d] /\ IsOpen(d)
      BY <1>3, <1>8, <2>2
    <3>2. ~Naming(d)
      BY <1>3, <2>2 DEF Naming, Creating
    <3>3. Target(open[d]) \notin DOMAIN disk /\ open[d].n < count[d]
      BY <3>1, <3>2 DEF FilesInv, CountsAhead
    <3>4. Target(open[d]) \notin DOMAIN disk'
      <4>1. d \notin S /\ Target(open[d]) \in Name /\ Target(open[d]).dest = d
        BY <1>3, <2>2
      <4> QED
        BY <1>5, <3>3, <4>1
    <3>5. open[d].n \in Int
      <4>1. open[d] \in Name
        BY <1>3, <2>2
      <4> QED
        BY <4>1, DsFileAssumption DEF Name, Counts
    <3> QED
      BY <1>8, <2>2, <3>3, <3>4, <3>5
  <2>3. \A d \in Dest : IsOpen(d)' => open'[d] = open[d] /\ Target(open[d])' = Target(open[d])
    BY <1>3 DEF Target
  <2> QED
    BY <2>1, <2>2, <2>3 DEF CountsAhead
<1>11. PacketsKept'
  <2> SUFFICES ASSUME NEW f \in lost' PROVE f.by = "TIME" \/ rewound'[f.dest]
    BY DEF PacketsKept
  <2>1. f \in Name /\ f.dest \in Dest /\ f.by \in {"COUNT", "TIME"}
    BY <1>2 DEF FilesOK, Name, NameTypes
  <2>2. CASE f \in lost
    BY <1>8, <2>1, <2>2 DEF FilesInv, PacketsKept
  <2>3. ASSUME f \in DOMAIN disk, NEW d \in S, f = Target(open[d])
        PROVE  f.by = "TIME" \/ rewound'[f.dest]
    BY <1>4, <1>8, <1>9, <2>1, <2>3
  <2> QED
    BY <1>1, <2>2, <2>3 DEF CloseEffect
<1> QED
  BY <1>2, <1>6, <1>7, <1>10, <1>11 DEF FilesInv

\* So does every step that touches no file, if the packet being stored goes on to a
\* step at which its new file is accounted for.
LEMMA UntouchedKeeps ==
  ASSUME FilesInv, StatesOK, StatesOK', CountsGrow,
         UNCHANGED <<open, disk, handles, complete, lost>>, size' \in [Dest -> Nat],
         \A d \in Dest : Creating(d) => Creating(d)',
         \A d \in Dest : /\ IsOpen(d) /\ Naming(d)
                         /\ open[d].by = "COUNT" /\ ~rewound'[d]
                         => Naming(d)' \/ open[d].n < count'[d]
  PROVE  FilesInv'
<1>1. FilesOK'
  BY DEF FilesInv, FilesOK
<1>2. \A d \in Dest : IsOpen(d)' <=> IsOpen(d)
  BY DEF IsOpen
<1>3. OpenFilesSound'
  BY <1>2 DEF FilesInv, OpenFilesSound
<1>4. NamesSound'
  BY <1>2 DEF FilesInv, NamesSound
<1>5. \A d \in Dest : /\ rewound[d] => rewound'[d]
                      /\ ~rewound'[d] => ~rewound[d] /\ count[d] <= count'[d]
                      /\ count[d] \in Nat /\ count'[d] \in Nat
  BY DsFileAssumption DEF CountsGrow, StatesOK, Counts
<1>6. \A f \in Name : f.dest \in Dest /\ f.n \in Int
  BY DsFileAssumption DEF Name, Counts
<1>7. CountsAhead'
  <2>1. ASSUME NEW f \in DOMAIN disk, f.by = "COUNT", ~rewound'[f.dest]
        PROVE  f.n < count'[f.dest]
    <3>1. f \in Name
      BY DEF FilesInv, FilesOK
    <3>2. f.n < count[f.dest]
      BY <1>5, <1>6, <2>1, <3>1 DEF FilesInv, CountsAhead
    <3> QED
      BY <1>5, <1>6, <2>1, <3>1, <3>2
  <2>2. ASSUME NEW d \in Dest, IsOpen(d), open[d].by = "COUNT", ~rewound'[d]
        PROVE  Target(open[d]) \notin DOMAIN disk /\ (open[d].n < count'[d] \/ Naming(d)')
    <3>1. open[d] \in Name
      BY <2>2 DEF FilesInv, FilesOK, IsOpen
    <3>2. Target(open[d]) \notin DOMAIN disk /\ (open[d].n < count[d] \/ Naming(d))
      BY <1>5, <2>2 DEF FilesInv, CountsAhead
    <3> QED
      BY <1>5, <1>6, <2>2, <3>1, <3>2
  <2>3. \A d \in Dest : Target(open[d])' = Target(open[d])
    BY DEF Target
  <2> QED
    BY <1>2, <2>1, <2>2, <2>3 DEF CountsAhead
<1>8. PacketsKept'
  BY <1>5, <1>6 DEF FilesInv, FilesOK, PacketsKept
<1> QED
  BY <1>1, <1>3, <1>4, <1>7, <1>8 DEF FilesInv

-----------------------------------------------------------------------------
(***************************************************************************)
(* The packet being stored.                                                *)
(***************************************************************************)

\* Between its destinations a packet has nothing at hand.
AtRest == \A d \in Dest : ~Creating(d) /\ ~Naming(d)

LEMMA NextDestIs ==
  ASSUME JobOK, job.stage # "idle", NextDest
  PROVE  JobOK' /\ JobSound' /\ job'.stage \in {"idle", "setup"} /\ AtRest'
<1>1. Len(job.todo) \in Nat \ {0} /\ Tail(job.todo) \in Seq(Dest)
      /\ (Len(job.todo) # 1 => Tail(job.todo) # <<>>)
  <2>1. job.todo \in Seq(Dest) /\ job.todo # <<>>
    BY DEF JobOK
  <2>2. Len(job.todo) \in Nat \ {0}
    BY <2>1, EmptySeq, Zenon
  <2>3. Tail(job.todo) \in Seq(Dest) /\ Len(Tail(job.todo)) = Len(job.todo) - 1
    BY <2>1, HeadTailProperties, Zenon
  <2>4. Len(<<>>) = 0
    BY EmptySeq, Zenon
  <2> QED
    <3>1. Tail(job.todo) = <<>> => Len(Tail(job.todo)) = 0
      BY <2>4, Zenon
    <3> QED
      BY <2>2, <2>3, <3>1
<1>2. JobOK' /\ job'.stage \in {"idle", "setup"}
  <2>1. CASE Len(job.todo) = 1
    BY <2>1 DEF NextDest, Idle, JobOK, Stages
  <2>2. CASE Len(job.todo) # 1
    BY <1>1, <2>2 DEF NextDest, JobOK, Stages
  <2> QED
    BY <2>1, <2>2
<1>3. AtRest' /\ JobSound'
  BY <1>2 DEF AtRest, Creating, Naming, JobSound
<1> QED
  BY <1>2, <1>3

LEMMA GotoIs ==
  ASSUME JobOK, job.stage # "idle", NEW stage \in Stages \ {"idle"}, Goto(stage)
  PROVE  /\ JobOK' /\ job'.stage = stage /\ job'.todo = job.todo /\ job'.len = job.len
         /\ Cur' = Cur
BY DEF Goto, JobOK, Stages, Cur

\* The steps of storing a packet that touch no file.
LEMMA WaitingKeeps ==
  ASSUME DsInv, StatesOK', CountsGrow,
         SkipDisabled \/ SetupOpen \/ CreateFails \/ WriteHeader \/ AdvanceCount \/ StorePacket
  PROVE  JobOK' /\ JobSound' /\ FilesInv'
<1> USE DEF DsInv
<1>1. CASE SkipDisabled \/ CreateFails
  <2>1. JobOK' /\ JobSound' /\ AtRest'
    BY <1>1, NextDestIs DEF SkipDisabled, CreateFails
  <2>2. UNCHANGED <<open, disk, handles, complete, lost, size>>
    BY <1>1 DEF SkipDisabled, CreateFails, status, fileVars
  <2>3. AtRest
    BY <1>1 DEF SkipDisabled, CreateFails, AtRest, Creating, Naming
  <2>4. size' \in [Dest -> Nat]
    BY <2>2 DEF FilesInv, FilesOK
  <2>5. FilesInv'
    BY <2>2, <2>3, <2>4, UntouchedKeeps DEF AtRest
  <2> QED
    BY <2>1, <2>5
<1>2. CASE SetupOpen
  <2>1. Cur \in Dest
    BY <1>2, CurIsDest DEF SetupOpen
  <2> DEFINE stage == IF IsOpen(Cur) THEN "write" ELSE "create"
  <2>2. JobOK' /\ job'.stage = stage /\ job'.len = job.len /\ Cur' = Cur
    BY <1>2, GotoIs DEF SetupOpen, Stages
  <2>3. UNCHANGED <<table, open, disk, handles, complete, lost, size, count>>
    BY <1>2 DEF SetupOpen, status, fileVars, tableVars
  <2>4. AtRest
    BY <1>2 DEF SetupOpen, AtRest, Creating, Naming
  <2>5. JobSound'
    <3>1. IsOpen(Cur)' <=> IsOpen(Cur)
      BY <2>2, <2>3 DEF IsOpen
    <3>2. TooBig(Cur)' <=> TooBig(Cur)
      BY <2>2, <2>3 DEF TooBig
    <3> QED
      BY <1>2, <2>2, <3>1, <3>2 DEF JobSound, SetupOpen
  <2>6. size' \in [Dest -> Nat]
    BY <2>3 DEF FilesInv, FilesOK
  <2>7. FilesInv'
    BY <2>3, <2>4, <2>6, UntouchedKeeps DEF AtRest
  <2> QED
    BY <2>2, <2>5, <2>7
<1>3. CASE WriteHeader
  <2>1. Cur \in Dest /\ IsOpen(Cur)
    BY <1>3, CurIsDest DEF WriteHeader, JobSound
  <2>2. table[Cur].type \in {"COUNT", "TIME"} /\ open[Cur].by = table[Cur].type
    BY <1>3, <2>1 DEF WriteHeader, JobSound, TablesOK, AnyEntry, NameTypes
  <2> DEFINE stage == IF table[Cur].type = "COUNT" THEN "count" ELSE "write"
  <2>3. JobOK' /\ job'.stage = stage /\ job'.len = job.len /\ Cur' = Cur
    BY <1>3, GotoIs DEF WriteHeader, Stages
  <2>4. UNCHANGED <<table, open, disk, handles, complete, lost, count>>
    BY <1>3 DEF WriteHeader, fileVars, tableVars
  <2>5. IsOpen(Cur)'
    BY <2>1, <2>3, <2>4 DEF IsOpen
  <2>6. JobSound'
    BY <1>3, <2>1, <2>2, <2>3, <2>4, <2>5 DEF JobSound, WriteHeader
  <2>7. size' \in [Dest -> Nat]
    BY <1>3, <2>1, DsFileAssumption DEF WriteHeader, FilesInv, FilesOK
  <2>8. \A d \in Dest : Creating(d) => Creating(d)'
    BY <2>3 DEF Creating
  <2>9. \A d \in Dest : Naming(d) /\ open[d].by = "COUNT" => Naming(d)'
    BY <2>2, <2>3 DEF Naming
  <2>10. FilesInv'
    BY <2>4, <2>7, <2>8, <2>9, UntouchedKeeps
  <2> QED
    BY <2>3, <2>6, <2>10
<1>4. CASE AdvanceCount
  <2>1. Cur \in Dest /\ IsOpen(Cur) /\ open[Cur].by = "COUNT" /\ open[Cur].n = count[Cur]
        /\ open[Cur] \notin DOMAIN disk
    BY <1>4, CurIsDest DEF AdvanceCount, JobSound
  <2>2. JobOK' /\ job'.stage = "write" /\ job'.len = job.len /\ Cur' = Cur
    BY <1>4, GotoIs DEF AdvanceCount, Stages
  <2>3. UNCHANGED <<table, open, disk, handles, complete, lost, size>>
    BY <1>4 DEF AdvanceCount, fileVars, tableVars
  <2>4. IsOpen(Cur)'
    BY <2>1, <2>2, <2>3 DEF IsOpen
  <2>5. JobSound'
    BY <2>1, <2>2, <2>3, <2>4 DEF JobSound
  <2>6. size' \in [Dest -> Nat]
    BY <2>3 DEF FilesInv, FilesOK
  <2>7. \A d \in Dest : Creating(d) => Creating(d)'
    BY <2>2 DEF Creating
  <2>8. ~rewound'[Cur] => open[Cur].n < count'[Cur]
    <3> DEFINE wraps == count[Cur] + 1 > MaxCount
    <3>1. /\ count' = [count EXCEPT ![Cur] = IF wraps THEN table[Cur].seq ELSE count[Cur] + 1]
          /\ rewound' = [rewound EXCEPT ![Cur] = rewound[Cur] \/ wraps]
      BY <1>4 DEF AdvanceCount
    <3>2. rewound'[Cur] <=> rewound[Cur] \/ wraps
      <4> HIDE DEF wraps
      <4>1. rewound \in [Dest -> BOOLEAN]
        BY DEF StatesOK
      <4> QED
        BY <2>1, <3>1, <4>1, Zenon
    <3>3. count[Cur] \in Nat /\ count'[Cur] = IF wraps THEN table[Cur].seq ELSE count[Cur] + 1
      BY <2>1, <3>1, DsFileAssumption DEF StatesOK, Counts
    <3> QED
      BY <2>1, <3>2, <3>3
  <2>9. FilesInv'
    <3>1. \A d \in Dest : /\ IsOpen(d) /\ Naming(d)
                         /\ open[d].by = "COUNT" /\ ~rewound'[d]
                         => Naming(d)' \/ open[d].n < count'[d]
      BY <2>8 DEF Naming
    <3> QED
      BY <2>3, <2>6, <2>7, <3>1, UntouchedKeeps
  <2> QED
    BY <2>2, <2>5, <2>9
<1>5. CASE StorePacket
  <2>1. PICK list \in FilterLists, len \in PacketLengths :
          job' = [stage |-> "setup", todo |-> list, len |-> len]
    BY <1>5 DEF StorePacket
  <2>2. list \in Seq(Dest) /\ list # <<>> /\ len \in Nat
    BY DsFileAssumption
  <2>3. JobOK' /\ job'.stage = "setup"
    BY <2>1, <2>2 DEF JobOK, Stages
  <2>4. JobSound'
    BY <2>3 DEF JobSound
  <2>5. UNCHANGED <<open, disk, handles, complete, lost, size>>
    BY <1>5 DEF StorePacket, status, fileVars
  <2>6. AtRest
    BY <1>5 DEF StorePacket, AtRest, Creating, Naming
  <2>7. size' \in [Dest -> Nat]
    BY <2>5 DEF FilesInv, FilesOK
  <2>8. FilesInv'
    BY <2>5, <2>6, <2>7, UntouchedKeeps DEF AtRest
  <2> QED
    BY <2>3, <2>4, <2>8
<1> QED
  BY <1>1, <1>2, <1>3, <1>4, <1>5

\* The full file is closed before another, or the one that cannot be written.
LEMMA ClosingKeeps ==
  ASSUME DsInv, StatesOK', CountsGrow, SetupRoll \/ WriteError
  PROVE  JobOK' /\ JobSound' /\ FilesInv'
<1> USE DEF DsInv
<1>1. Cur \in Dest /\ IsOpen(Cur) /\ CloseDests({Cur})
  BY CurIsDest DEF SetupRoll, WriteError, JobSound
<1>2. \A d \in Dest : Creating(d) => d \in {Cur}
  BY DEF Creating
<1>3. FilesInv'
  BY <1>1, <1>2, CloseKeeps
<1>4. CASE WriteError
  BY <1>3, <1>4, NextDestIs DEF WriteError
<1>5. CASE SetupRoll
  <2>1. JobOK' /\ job'.stage = "create" /\ Cur' = Cur
    BY <1>5, GotoIs DEF SetupRoll, Stages
  <2>2. ~IsOpen(Cur)'
    BY <1>1, <2>1 DEF IsOpen, CloseDests
  <2> QED
    BY <1>3, <2>1, <2>2 DEF JobSound
<1> QED
  BY <1>4, <1>5

\* A file is created under a name that no count-named file with packets has, as long
\* as the destination's count was not set back.
LEMMA CreateKeeps ==
  ASSUME DsInv, StatesOK', CountsGrow, CreateFile
  PROVE  JobOK' /\ JobSound' /\ FilesInv'
<1> USE DEF DsInv
<1> DEFINE f == NewName(Cur)
<1>1. Cur \in Dest /\ ~IsOpen(Cur)
  BY CurIsDest DEF CreateFile, JobSound
<1>2. /\ open' = [open EXCEPT ![Cur] = f]
      /\ disk' = [x \in DOMAIN disk \ {f} |-> disk[x]]
      /\ lost' = lost \cup ({f} \cap DOMAIN disk)
      /\ complete' = complete \ {f}
      /\ handles' = [handles EXCEPT ![Cur] = @ + 1]
      /\ UNCHANGED <<table, count, rewound, size>>
  BY DEF CreateFile, Restrict, tableVars
<1>3. JobOK' /\ job'.stage = "header" /\ Cur' = Cur
  BY GotoIs DEF CreateFile, Stages
<1>4. /\ f \in Name /\ f.dest = Cur /\ f.by = table[Cur].type /\ f.moved = FALSE
      /\ f.by = "COUNT" => f.n = count[Cur]
  <2>1. table[Cur].stem \in Stems /\ table[Cur].type \in NameTypes
    BY <1>1 DEF TablesOK, AnyEntry
  <2>2. Sequence(Cur) \in Counts \cup (0 .. MaxTime)
    BY <1>1 DEF Sequence, StatesOK, OthersOK
  <2>3. f.by = "COUNT" => Sequence(Cur) = count[Cur]
    BY DEF NewName, Sequence
  <2> QED
    BY <1>1, <2>1, <2>2, <2>3 DEF NewName, Name
<1> HIDE DEF f
<1>5. f # NoFile
  BY <1>4, DsFileAssumption
<1>6. open'[Cur] = f /\ \A d \in Dest \ {Cur} : open'[d] = open[d]
  BY <1>1, <1>2 DEF FilesInv, FilesOK
<1>7. DOMAIN disk' = DOMAIN disk \ {f} /\ \A x \in DOMAIN disk' : disk'[x] = disk[x]
  BY <1>2
<1>8. \A d \in Dest : IsOpen(d)' <=> d = Cur \/ IsOpen(d)
  BY <1>5, <1>6 DEF IsOpen
<1>9. ~Naming(Cur) /\ \A d \in Dest : ~Naming(d) /\ ~Creating(d)
  BY DEF CreateFile, Naming, Creating
<1>10. \A d \in Dest : d = Cur => Naming(d)' /\ Creating(d)'
  BY <1>3 DEF Naming, Creating
<1>11. FilesOK'
  <2>1. disk' \in [DOMAIN disk' -> Nat \ {0}]
    BY <1>2, <1>7 DEF FilesInv, FilesOK
  <2>2. open' \in [Dest -> Name \cup {NoFile}] /\ handles' \in [Dest -> Int]
    <3>1. open \in [Dest -> Name \cup {NoFile}] /\ handles \in [Dest -> Int]
      BY DEF FilesInv, FilesOK
    <3>2. \A d \in Dest : open'[d] \in Name \cup {NoFile}
      BY <1>4, <1>6, <3>1
    <3>3. handles' \in [Dest -> Int]
      <4>1. handles' = [handles EXCEPT ![Cur] = handles[Cur] + 1]
        BY <1>2
      <4>2. handles[Cur] + 1 \in Int
        BY <1>1, <3>1
      <4> QED
        BY <3>1, <4>1, <4>2
    <3> QED
      BY <1>2, <3>1, <3>2, <3>3
  <2> QED
    BY <1>2, <1>4, <1>7, <2>1, <2>2 DEF FilesInv, FilesOK
\* The other open files have another destination's names.
<1>12. ASSUME NEW d \in Dest \ {Cur}, IsOpen(d)
       PROVE  open[d] \in Name /\ open[d].dest = d /\ open[d] # f
  BY <1>4, <1>12 DEF FilesInv, FilesOK, NamesSound, IsOpen
<1>13. OpenFilesSound'
  <2> SUFFICES ASSUME NEW d \in Dest
               PROVE  /\ handles'[d] = IF IsOpen(d)' THEN 1 ELSE 0
                      /\ IsOpen(d)' /\ ~Creating(d)' => open'[d] \in DOMAIN disk'
    BY DEF OpenFilesSound
  <2>1. handles[d] = IF IsOpen(d) THEN 1 ELSE 0
    BY DEF FilesInv, OpenFilesSound
  <2>2. CASE d = Cur
    <3>1. handles'[Cur] = handles[Cur] + 1
      BY <1>1, <1>2 DEF FilesInv, FilesOK
    <3>2. handles[Cur] = 0
      BY <1>1, <2>1, <2>2
    <3> QED
      BY <1>8, <1>10, <2>2, <3>1, <3>2
  <2>3. CASE d # Cur
    <3>1. handles'[d] = handles[d] /\ (IsOpen(d)' <=> IsOpen(d)) /\ open'[d] = open[d]
      BY <1>2, <1>6, <1>8, <2>3 DEF FilesInv, FilesOK
    <3>2. IsOpen(d) => open[d] \in DOMAIN disk
      BY <1>9 DEF FilesInv, OpenFilesSound
    <3>3. IsOpen(d) => open[d] # f
      BY <1>12, <2>3
    <3> QED
      BY <1>7, <2>1, <3>1, <3>2, <3>3
  <2> QED
    BY <2>2, <2>3
<1>14. NamesSound'
  <2>1. complete' \subseteq DOMAIN disk'
    BY <1>2, <1>7 DEF FilesInv, NamesSound
  <2>2. ASSUME NEW d \in Dest, IsOpen(d)'
        PROVE  open'[d].dest = d /\ open'[d].moved = FALSE /\ open'[d] \notin complete'
    <3>1. CASE d = Cur
      BY <1>2, <1>4, <1>6, <3>1
    <3>2. CASE d # Cur
      BY <1>2, <1>6, <1>8, <2>2, <3>2 DEF FilesInv, NamesSound
    <3> QED
      BY <3>1, <3>2
  <2> QED
    BY <2>1, <2>2 DEF NamesSound
\* No file with packets, moved or not, has the count about to be used.
<1>15. ASSUME NEW x \in DOMAIN disk, x.by = "COUNT", x.dest = Cur, x.n = count[Cur],
              ~rewound[Cur]
       PROVE  FALSE
  <2>1. x.n < count[Cur]
    BY <1>15 DEF FilesInv, CountsAhead
  <2>2. count[Cur] \in Nat
    BY <1>1, DsFileAssumption DEF StatesOK, Counts
  <2> QED
    BY <1>15, <2>1, <2>2
<1>16. CountsAhead'
  <2>1. ASSUME NEW x \in DOMAIN disk', x.by = "COUNT", ~rewound'[x.dest]
        PROVE  x.n < count'[x.dest]
    BY <1>2, <1>7, <2>1 DEF FilesInv, CountsAhead
  <2>2. ASSUME NEW d \in Dest, IsOpen(d)', open'[d].by = "COUNT", ~rewound'[d]
        PROVE  /\ Target(open'[d]) \notin DOMAIN disk'
               /\ open'[d].n < count'[d] \/ Naming(d)'
    <3>1. CASE d = Cur
      <4>1. f.by = "COUNT" /\ f.n = count[Cur] /\ ~rewound[Cur]
        BY <1>2, <1>4, <1>6, <2>2, <3>1
      <4>2. Target(f).by = "COUNT" /\ Target(f).dest = Cur /\ Target(f).n = count[Cur]
        BY <1>4, <4>1, TargetIs
      <4>3. Target(f) \notin DOMAIN disk
        BY <1>15, <4>1, <4>2
      <4> QED
        <5>1. open'[d] = f
          BY <1>6, <3>1
        <5> QED
          BY <1>7, <1>10, <3>1, <4>3, <5>1
    <3>2. CASE d # Cur
      <4>1. IsOpen(d) /\ open'[d] = open[d] /\ ~Naming(d)
        BY <1>6, <1>8, <1>9, <2>2, <3>2
      <4>2. Target(open[d]) \notin DOMAIN disk /\ open[d].n < count[d]
        BY <1>2, <2>2, <4>1 DEF FilesInv, CountsAhead
      <4> QED
        BY <1>2, <1>7, <4>1, <4>2
    <3> QED
      BY <3>1, <3>2
  <2>3. \A d \in Dest : Target(open[d])' = Target(open'[d])
    BY DEF Target
  <2> QED
    BY <2>1, <2>2, <2>3 DEF CountsAhead
<1>17. PacketsKept'
  <2> SUFFICES ASSUME NEW x \in lost' PROVE x.by = "TIME" \/ rewound'[x.dest]
    BY DEF PacketsKept
  <2>1. CASE x \in lost
    BY <1>2, <2>1 DEF FilesInv, PacketsKept
  <2>2. CASE x = f /\ f \in DOMAIN disk
    <3>1. f.by = "COUNT" => rewound[Cur]
      BY <1>4, <1>15, <2>2
    <3>2. f.by \in {"COUNT", "TIME"}
      BY <1>4 DEF Name, NameTypes
    <3> QED
      BY <1>2, <1>4, <2>2, <3>1, <3>2
  <2> QED
    BY <1>2, <2>1, <2>2
<1>18. JobSound'
  BY <1>1, <1>2, <1>3, <1>4, <1>6, <1>7, <1>8 DEF JobSound
<1> QED
  BY <1>3, <1>11, <1>13, <1>14, <1>16, <1>17, <1>18 DEF FilesInv

LEMMA WriteKeeps ==
  ASSUME DsInv, StatesOK', CountsGrow, WriteData
  PROVE  JobOK' /\ JobSound' /\ FilesInv'
<1> USE DEF DsInv
<1> DEFINE f == open[Cur]
<1>1. Cur \in Dest /\ IsOpen(Cur)
  BY CurIsDest DEF WriteData, JobSound
<1>2. /\ disk' = [x \in DOMAIN disk \cup {f} |-> IF x = f THEN Packets(x) + 1 ELSE disk[x]]
      /\ size' = [size EXCEPT ![Cur] = @ + job.len]
      /\ UNCHANGED <<open, count, rewound, handles, complete, lost>>
  BY DEF WriteData
<1>3. JobOK' /\ JobSound' /\ AtRest'
  BY NextDestIs DEF WriteData
<1>4. f \in Name /\ f.dest = Cur /\ f.moved = FALSE
  BY <1>1 DEF FilesInv, FilesOK, NamesSound, IsOpen
<1>5. DOMAIN disk' = DOMAIN disk \cup {f}
  BY <1>2
<1>6. \A d \in Dest : (Creating(d) => d = Cur) /\ ~Naming(d)
  BY DEF WriteData, Naming, Creating
<1>7. \A d \in Dest : IsOpen(d)' <=> IsOpen(d)
  BY <1>2 DEF IsOpen
<1>8. FilesOK'
  <2>1. Packets(f) \in Nat
    BY DEF Packets, FilesInv, FilesOK
  <2>2. disk' \in [DOMAIN disk' -> Nat \ {0}]
    BY <1>2, <1>5, <2>1 DEF FilesInv, FilesOK
  <2>3. size' \in [Dest -> Nat]
    BY <1>1, <1>2 DEF FilesInv, FilesOK, JobOK
  <2> QED
    BY <1>2, <1>4, <1>5, <2>2, <2>3 DEF FilesInv, FilesOK
<1>9. OpenFilesSound'
  BY <1>2, <1>5, <1>6, <1>7 DEF FilesInv, OpenFilesSound
<1>10. NamesSound'
  BY <1>2, <1>5, <1>7 DEF FilesInv, NamesSound
<1>11. CountsAhead'
  <2>1. ASSUME NEW x \in DOMAIN disk', x.by = "COUNT", ~rewound[x.dest]
        PROVE  x.n < count[x.dest]
    <3>1. CASE x = f
      BY <1>1, <1>4, <1>6, <2>1, <3>1 DEF FilesInv, CountsAhead
    <3> QED
      BY <1>5, <2>1, <3>1 DEF FilesInv, CountsAhead
  <2>2. ASSUME NEW d \in Dest, IsOpen(d), open[d].by = "COUNT", ~rewound[d]
        PROVE  Target(open[d]) \notin DOMAIN disk' /\ open[d].n < count[d]
    <3>1. Target(open[d]) \notin DOMAIN disk /\ open[d].n < count[d]
      BY <1>6, <2>2 DEF FilesInv, CountsAhead
    <3>2. Target(open[d]).moved = TRUE
      <4>1. open[d] \in Name
        BY <2>2 DEF FilesInv, FilesOK, IsOpen
      <4> QED
        BY <4>1, TargetIs
    <3> QED
      BY <1>4, <1>5, <3>1, <3>2
  <2>3. \A d \in Dest : Target(open[d])' = Target(open[d])
    BY <1>2 DEF Target
  <2> QED
    BY <1>2, <1>7, <2>1, <2>2, <2>3 DEF CountsAhead
<1>12. PacketsKept'
  BY <1>2 DEF FilesInv, PacketsKept
<1> QED
  BY <1>3, <1>8, <1>9, <1>10, <1>11, <1>12 DEF FilesInv

-----------------------------------------------------------------------------
(***************************************************************************)
(* All steps.                                                              *)
(***************************************************************************)

\* A step that touches neither the files nor the packet being stored; what that
\* packet depends on only changes between packets.
Still ==
  /\ UNCHANGED <<job, open, size, disk, handles, complete, lost>>
  /\ Ready \/ UNCHANGED <<table, count>>

\* Open files are closed between packets.
ClosesAtRest ==
  /\ Ready /\ UNCHANGED job
  /\ \E S \in SUBSET Dest : (\A d \in S : IsOpen(d)) /\ CloseDests(S)

LEMMA StepIs ==
  ASSUME [Next]_vars
  PROVE  Storing \/ StorePacket \/ Still \/ ClosesAtRest \/ \E kept : Reset(kept)
<1>1. CASE UNCHANGED vars
  BY <1>1 DEF vars, status, fileVars, tableVars, Still
<1>2. CASE Timeout
  BY <1>2 DEF Timeout, Still, fileVars
<1>3. CASE ScheduleHk \/ LoadTable \/ Tick
  BY <1>3 DEF ScheduleHk, LoadTable, Tick, Still, status, fileVars, tableVars
<1>4. CASE SendHk
  <2>1. ASSUME NEW S \in SUBSET Dest, \A d \in S : IsOpen(d), CloseDests(S) PROVE ClosesAtRest
    BY <1>4, <2>1 DEF SendHk, ClosesAtRest
  <2> DEFINE older == [d \in Dest |-> IF IsOpen(d) THEN age[d] + HkCycle ELSE age[d]]
             old   == {d \in Dest : IsOpen(d) /\ older[d] >= table[d].maxAge}
  <2>2. CloseDests(old)
    BY <1>4 DEF SendHk, TestAge
  <2>3. old \in SUBSET Dest /\ \A d \in old : IsOpen(d)
    OBVIOUS
  <2> HIDE DEF older, old
  <2> QED
    BY <2>1, <2>2, <2>3
<1>5. CASE CloseAll
  BY <1>5 DEF CloseAll, ClosesAtRest
<1>6. ASSUME NEW d \in Dest, CloseFile(d) PROVE ClosesAtRest
  BY <1>6 DEF CloseFile, ClosesAtRest
<1>7. ASSUME NEW e \in BOOLEAN, SetAppState(e) PROVE Still
  BY <1>7 DEF SetAppState, Still, fileVars
<1>8. ASSUME NEW d \in Dest, DestCommand(d) PROVE Still
  BY <1>8 DEF DestCommand, SetDestState, SetDestType, SetDestPath, SetDestBase, SetDestExt,
     SetDestStem, SetDestSize, SetDestAge, SetDestCount, EditEntry, Still, fileVars
<1>9. CASE ProcessorReset \/ PowerCycle
  BY <1>9 DEF ProcessorReset, PowerCycle
<1> QED
  BY <1>1, <1>2, <1>3, <1>4, <1>5, <1>6, <1>7, <1>8, <1>9 DEF Next, Work, Disturbance, Command

LEMMA StillKeeps ==
  ASSUME DsInv, StatesOK', CountsGrow, Still
  PROVE  JobOK' /\ JobSound' /\ FilesInv'
<1> USE DEF DsInv
<1>1. JobOK' /\ Cur' = Cur
  BY DEF Still, JobOK, Cur
<1>2. JobSound'
  <2>1. CASE Ready
    BY <2>1 DEF Still, Ready, JobSound
  <2>2. CASE UNCHANGED <<table, count>>
    <3>1. (IsOpen(Cur)' <=> IsOpen(Cur)) /\ (TooBig(Cur)' <=> TooBig(Cur))
      BY <1>1, <2>2 DEF Still, IsOpen, TooBig
    <3> QED
      BY <1>1, <2>2, <3>1 DEF Still, JobSound
  <2> QED
    BY <2>1, <2>2 DEF Still
<1>3. FilesInv'
  <2>1. size' \in [Dest -> Nat]
    BY DEF Still, FilesInv, FilesOK
  <2>2. \A d \in Dest : (Creating(d)' <=> Creating(d)) /\ (Naming(d)' <=> Naming(d))
    BY <1>1 DEF Still, Creating, Naming
  <2> QED
    BY <2>1, <2>2, UntouchedKeeps DEF Still
<1> QED
  BY <1>1, <1>2, <1>3

LEMMA RestKeeps ==
  ASSUME DsInv, StatesOK', CountsGrow, ClosesAtRest
  PROVE  JobOK' /\ JobSound' /\ FilesInv'
<1> USE DEF DsInv
<1>1. JobOK' /\ JobSound'
  BY DEF ClosesAtRest, Ready, JobOK, JobSound
<1>2. \A d \in Dest : ~Creating(d)
  BY DEF ClosesAtRest, Ready, Creating
<1> QED
  BY <1>1, <1>2, CloseKeeps DEF ClosesAtRest

\* A reset forgets which files were open and leaves them as they are.
LEMMA RestartKeeps ==
  ASSUME DsInv, StatesOK', CountsGrow, NEW kept, Reset(kept)
  PROVE  JobOK' /\ JobSound' /\ FilesInv'
<1> USE DEF DsInv
<1>1. /\ open' = [d \in Dest |-> NoFile] /\ size' = [d \in Dest |-> 0]
      /\ handles' = [d \in Dest |-> 0] /\ job' = Idle
      /\ UNCHANGED <<disk, complete, lost>>
  BY DEF Reset, Start
<1>2. JobOK' /\ JobSound'
  BY <1>1 DEF Idle, JobOK, JobSound, Stages
<1>3. \A d \in Dest : ~IsOpen(d)'
  BY <1>1 DEF IsOpen
<1>4. \A d \in Dest : /\ rewound[d] => rewound'[d]
                      /\ ~rewound'[d] => ~rewound[d] /\ count[d] <= count'[d]
                      /\ count[d] \in Nat /\ count'[d] \in Nat
  BY DsFileAssumption DEF CountsGrow, StatesOK, Counts
<1>5. \A f \in Name : f.dest \in Dest /\ f.n \in Int
  BY DsFileAssumption DEF Name, Counts
<1>6. FilesOK'
  BY <1>1 DEF FilesInv, FilesOK
<1>7. OpenFilesSound' /\ NamesSound'
  BY <1>1, <1>3 DEF FilesInv, OpenFilesSound, NamesSound
<1>8. CountsAhead'
  <2>1. ASSUME NEW f \in DOMAIN disk, f.by = "COUNT", ~rewound'[f.dest]
        PROVE  f.n < count'[f.dest]
    <3>1. f \in Name
      BY DEF FilesInv, FilesOK
    <3>2. f.n < count[f.dest]
      BY <1>4, <1>5, <2>1, <3>1 DEF FilesInv, CountsAhead
    <3> QED
      BY <1>4, <1>5, <2>1, <3>1, <3>2
  <2> QED
    BY <1>1, <1>3, <2>1 DEF CountsAhead
<1>9. PacketsKept'
  BY <1>1, <1>4, <1>5 DEF FilesInv, FilesOK, PacketsKept
<1> QED
  BY <1>2, <1>6, <1>7, <1>8, <1>9 DEF FilesInv

LEMMA InvInit == Init => DsInv
<1> SUFFICES ASSUME Init PROVE DsInv
  OBVIOUS
<1>1. TableCounts(loaded) \in [Dest -> Counts]
  <2>1. \A d \in Dest : DefaultTable[d].seq \in Nat /\ DefaultTable[d].seq <= MaxCount
    BY DsFileAssumption DEF AnyEntry, VerifyDestFile, VerifyDestFileEntry, VerifyCount
  <2> QED
    BY <2>1, DsFileAssumption DEF TableCounts, Counts
<1>2. \A d \in Dest : DefaultTable[d].enabled \in BOOLEAN
  BY DsFileAssumption DEF AnyEntry
<1>3. TablesOK
  BY DsFileAssumption DEF Init, TablesOK
<1>4. StatesOK /\ CdsCurrent
  <2>1. cdsOk \in BOOLEAN /\ cdsKept \in BOOLEAN
    BY DEF Init
  <2> QED
    BY <1>1, <2>1 DEF Init, StatesOK, CdsCurrent
<1>5. OthersOK
  <2>1. enabled \in [Dest -> BOOLEAN]
    BY <1>2 DEF Init
  <2>2. hkDue = FALSE /\ now = 0 /\ age = [d \in Dest |-> 0]
    BY DEF Init
  <2> QED
    <3>1. now \in 0 .. MaxTime
      BY <2>2, DsFileAssumption
    <3>2. hkDue \in BOOLEAN
      BY <2>2
    <3>3. age \in [Dest -> Nat]
      BY <2>2
    <3> QED
      BY <2>1, <3>1, <3>2, <3>3 DEF OthersOK
<1>6. JobOK /\ JobSound
  BY DEF Init, Idle, JobOK, JobSound, Stages
<1>7. DOMAIN disk = {} /\ disk = <<>>
  BY DEF Init
<1>8. FilesOK
  <2>1. disk \in [DOMAIN disk -> Nat \ {0}]
    BY <1>7
  <2> QED
    BY <1>7, <2>1 DEF Init, FilesOK
<1>9. OpenFilesSound /\ NamesSound /\ CountsAhead /\ PacketsKept
  BY <1>7 DEF Init, OpenFilesSound, NamesSound, CountsAhead, PacketsKept, IsOpen
<1> QED
  BY <1>3, <1>4, <1>5, <1>6, <1>8, <1>9 DEF DsInv, FilesInv

LEMMA InvNext == DsInv /\ [Next]_vars => DsInv'
<1> SUFFICES ASSUME DsInv, [Next]_vars PROVE DsInv'
  OBVIOUS
<1>1. StatesOK' /\ CdsCurrent' /\ CountsGrow /\ TablesOK' /\ OthersOK'
  BY StatesStep DEF DsInv
<1>2. JobOK' /\ JobSound' /\ FilesInv'
  BY <1>1, StepIs, WaitingKeeps, ClosingKeeps, CreateKeeps, WriteKeeps, StillKeeps, RestKeeps,
     RestartKeeps DEF Storing
<1> QED
  BY <1>1, <1>2 DEF DsInv

LEMMA Invariance == Spec => []DsInv
BY InvInit, InvNext, PTL DEF Spec

-----------------------------------------------------------------------------
\* Every variable of DS keeps its type, and every packet being stored takes its steps
\* with the destinations its filters select.
THEOREM TypesCorrect == Spec => []TypeOK
<1>1. DsInv => TypeOK
  BY DEF DsInv, TablesOK, StatesOK, OthersOK, JobOK, FilesInv, FilesOK, TypeOK
<1> QED
  BY <1>1, Invariance, PTL

\* While the CDS works it has the current counts and state, after every command, table
\* load, file and reset.
THEOREM CdsCurrentHolds == Spec => []CdsCurrent
<1>1. DsInv => CdsCurrent
  BY DEF DsInv
<1> QED
  BY <1>1, Invariance, PTL

\* No handle is leaked or lost, and no open file is left empty.
THEOREM OpenFilesSoundHolds == Spec => []OpenFilesSound
<1>1. DsInv => OpenFilesSound
  BY DEF DsInv, FilesInv
<1> QED
  BY <1>1, Invariance, PTL

\* Nothing stored is truncated or overwritten while the counts only go up, in however
\* many runs.
THEOREM PacketsKeptHolds == Spec => []PacketsKept
<1>1. DsInv => PacketsKept
  BY DEF DsInv, FilesInv
<1> QED
  BY <1>1, Invariance, PTL

\* The packets of a file change when it is created, when one is written to it, and when
\* an open file is closed that has its name or is moved to it.
LEMMA PacketsChange ==
  ASSUME DsInv, [Next]_vars, NEW f \in Name
  PROVE  \/ Packets(f)' = Packets(f)
         \/ CreateFile /\ f = NewName(Cur)
         \/ WriteData /\ f = open[Cur]
         \/ \E d \in Dest : IsOpen(d) /\ ~IsOpen(d)' /\ f \in {open[d], Target(open[d])}
<1>1. ASSUME UNCHANGED disk PROVE Packets(f)' = Packets(f)
  BY <1>1 DEF Packets
<1>2. CASE SkipDisabled \/ SetupOpen \/ CreateFails \/ WriteHeader \/ AdvanceCount \/ StorePacket
  BY <1>1, <1>2 DEF SkipDisabled, SetupOpen, CreateFails, WriteHeader, AdvanceCount, StorePacket,
     fileVars
<1>3. CASE CreateFile
  <2> DEFINE g == NewName(Cur)
  <2>1. disk' = [x \in DOMAIN disk \ {g} |-> disk[x]]
    BY <1>3 DEF CreateFile, Restrict
  <2> HIDE DEF g
  <2>2. CASE f # g
    BY <2>1, <2>2 DEF Packets
  <2> QED
    BY <1>3, <2>2 DEF g
<1>4. CASE WriteData
  <2> DEFINE g == open[Cur]
  <2>1. disk' = [x \in DOMAIN disk \cup {g} |-> IF x = g THEN Packets(x) + 1 ELSE disk[x]]
    BY <1>4 DEF WriteData
  <2> HIDE DEF g
  <2>2. CASE f # g
    <3>1. f \in DOMAIN disk' <=> f \in DOMAIN disk
      BY <2>1, <2>2
    <3>2. f \in DOMAIN disk => disk'[f] = disk[f]
      BY <2>1, <2>2
    <3> QED
      BY <3>1, <3>2 DEF Packets
  <2> QED
    BY <1>4, <2>2 DEF g
<1>5. ASSUME NEW S \in SUBSET Dest, \A d \in S : IsOpen(d), CloseDests(S)
      PROVE  \/ Packets(f)' = Packets(f)
             \/ \E d \in Dest : IsOpen(d) /\ ~IsOpen(d)' /\ f \in {open[d], Target(open[d])}
  <2>1. CloseEffect(S)
    BY <1>5, CloseHas DEF DsInv, FilesInv
  <2>2. \A d \in S : ~IsOpen(d)'
    BY <2>1 DEF CloseEffect, IsOpen
  <2>3. CASE \A d \in S : f # open[d] /\ f # Target(open[d])
    BY <2>1, <2>3 DEF CloseEffect, Packets
  <2> QED
    BY <1>5, <2>2, <2>3
<1>6. CASE SetupRoll \/ WriteError
  <2>1. Cur \in Dest /\ IsOpen(Cur) /\ CloseDests({Cur})
    BY <1>6, CurIsDest DEF SetupRoll, WriteError, DsInv, JobSound
  <2>2. {Cur} \in SUBSET Dest /\ \A d \in {Cur} : IsOpen(d)
    BY <2>1
  <2> QED
    BY <1>5, <2>1, <2>2
<1>7. CASE ClosesAtRest
  BY <1>5, <1>7 DEF ClosesAtRest
<1>8. CASE Still \/ \E kept : Reset(kept)
  BY <1>1, <1>8 DEF Still, Reset
<1> QED
  BY <1>2, <1>3, <1>4, <1>6, <1>7, <1>8, StepIs DEF Storing

\* No packet but a file's first takes it past its size limit.
THEOREM SizeLimitedHolds == Spec => SizeLimited
<1> DEFINE Step ==
      \A d \in Dest :
        IsOpen(d) /\ open'[d] = open[d] /\ Packets(open[d])' > Packets(open[d])
          => size'[d] <= table[d].maxSize \/ Packets(open[d])' = 1
<1>1. ASSUME DsInv, [Next]_vars, NEW d \in Dest, IsOpen(d), open'[d] = open[d],
             Packets(open[d])' > Packets(open[d])
      PROVE  size'[d] <= table[d].maxSize \/ Packets(open[d])' = 1
  <2> DEFINE f == open[d]
  <2>1. f \in Name /\ f.dest = d
    BY <1>1 DEF DsInv, FilesInv, FilesOK, NamesSound, IsOpen
  <2>2. Packets(open[d])' = IF f \in DOMAIN disk' THEN disk'[f] ELSE 0
    BY <1>1 DEF Packets
  <2>3. Packets(f) \in Nat
    BY <1>1 DEF Packets, DsInv, FilesInv, FilesOK
  <2> HIDE DEF f
  <2>4. \A g \in Name : Packets(g)' = IF g \in DOMAIN disk' THEN disk'[g] ELSE 0
    BY DEF Packets
  <2>5. Packets(open[d])' # Packets(f)
    BY <1>1, <2>3 DEF f
  <2>6. ~ (CreateFile /\ f = NewName(Cur))
    <3> SUFFICES ASSUME CreateFile, f = NewName(Cur) PROVE FALSE
      OBVIOUS
    <3>1. ~IsOpen(Cur)
      BY <1>1 DEF CreateFile, DsInv, JobSound
    <3>2. f.dest = Cur
      BY DEF NewName
    <3> QED
      BY <1>1, <2>1, <3>1, <3>2
  <2>7. ~ \E e \in Dest : IsOpen(e) /\ ~IsOpen(e)' /\ f \in {open[e], Target(open[e])}
    <3> SUFFICES ASSUME NEW e \in Dest, IsOpen(e), ~IsOpen(e)', f \in {open[e], Target(open[e])}
                 PROVE  FALSE
      OBVIOUS
    <3>1. open[e] \in Name /\ open[e].dest = e
      BY <1>1 DEF DsInv, FilesInv, FilesOK, NamesSound, IsOpen
    <3>2. f.dest = e
      BY <3>1, TargetIs
    <3> QED
      BY <1>1, <2>1, <3>2 DEF IsOpen
  <2>8. WriteData /\ f = open[Cur]
    BY <1>1, <2>1, <2>2, <2>4, <2>5, <2>6, <2>7, PacketsChange
  <2>9. Cur = d /\ Cur \in Dest
    <3>1. Cur \in Dest /\ IsOpen(Cur)
      BY <1>1, <2>8, CurIsDest DEF WriteData, DsInv, JobSound
    <3>2. open[Cur].dest = Cur
      BY <1>1, <3>1 DEF DsInv, FilesInv, NamesSound
    <3> QED
      BY <2>1, <2>8, <3>1, <3>2
  <2>10. f \notin DOMAIN disk \/ ~TooBig(d)
    BY <1>1, <2>8, <2>9 DEF WriteData, DsInv, JobSound
  <2>11. size'[d] = size[d] + job.len
    BY <1>1, <2>8, <2>9 DEF WriteData, DsInv, FilesInv, FilesOK
  <2>12. disk' = [x \in DOMAIN disk \cup {f} |-> IF x = f THEN Packets(x) + 1 ELSE disk[x]]
    BY <2>8 DEF WriteData
  <2>13. CASE f \notin DOMAIN disk
    <3>1. Packets(f) = 0
      BY <2>13 DEF Packets
    <3> QED
      BY <2>2, <2>12, <3>1
  <2>14. CASE ~TooBig(d)
    <3>1. size[d] \in Nat /\ job.len \in Nat /\ table[d].maxSize \in Nat
      BY <1>1, DsFileAssumption DEF DsInv, FilesInv, FilesOK, JobOK, TablesOK, AnyEntry
    <3> QED
      BY <2>11, <2>14, <3>1 DEF TooBig
  <2> QED
    BY <2>10, <2>13, <2>14
<1>2. DsInv /\ [Next]_vars => Step
  BY <1>1
<1>3. DsInv /\ [Next]_vars => [Step]_vars
  BY <1>2
<1> QED
  BY <1>3, Invariance, PTL DEF Spec, SizeLimited

\* What is reported complete stays as it is while the counts only go up: not even a
\* later file, in a later run, takes its name.
THEOREM CompleteFrozenHolds == Spec => CompleteFrozen
<1> DEFINE Step ==
      \A f \in complete :
        Packets(f)' = Packets(f) \/ f.by = "TIME" \/ rewound'[f.dest]
<1>1. ASSUME DsInv, [Next]_vars, NEW f \in complete, f.by # "TIME", ~rewound'[f.dest]
      PROVE  Packets(f)' = Packets(f)
  <2>1. f \in Name /\ f \in DOMAIN disk /\ f.dest \in Dest /\ f.by = "COUNT"
    BY <1>1 DEF DsInv, FilesInv, FilesOK, NamesSound, Name, NameTypes
  <2>2. CountsGrow
    BY <1>1, StatesStep DEF DsInv
  <2>3. ~rewound[f.dest] /\ f.n < count[f.dest] /\ count[f.dest] \in Nat
    BY <1>1, <2>1, <2>2, DsFileAssumption
    DEF CountsGrow, DsInv, FilesInv, CountsAhead, StatesOK, Counts
  <2>4. ~ (CreateFile /\ f = NewName(Cur))
    <3> SUFFICES ASSUME CreateFile, f = NewName(Cur) PROVE FALSE
      OBVIOUS
    <3>1. f.dest = Cur /\ f.n = count[Cur]
      BY <2>1 DEF NewName, Sequence
    <3> QED
      BY <2>3, <3>1
  <2>5. ~ (WriteData /\ f = open[Cur])
    <3> SUFFICES ASSUME WriteData, f = open[Cur] PROVE FALSE
      OBVIOUS
    <3>1. Cur \in Dest /\ IsOpen(Cur)
      BY CurIsDest, <1>1 DEF WriteData, DsInv, JobSound
    <3> QED
      BY <1>1, <3>1 DEF DsInv, FilesInv, NamesSound
  <2>6. ~ \E e \in Dest : IsOpen(e) /\ ~IsOpen(e)' /\ f \in {open[e], Target(open[e])}
    <3> SUFFICES ASSUME NEW e \in Dest, IsOpen(e), f \in {open[e], Target(open[e])}
                 PROVE  FALSE
      OBVIOUS
    <3>1. open[e] \in Name /\ open[e].dest = e /\ open[e] \notin complete
      BY <1>1 DEF DsInv, FilesInv, FilesOK, NamesSound, IsOpen
    <3>2. f = Target(open[e])
      BY <1>1, <3>1
    <3>3. open[e].by = "COUNT" /\ ~rewound[e]
      BY <2>1, <2>3, <3>1, <3>2, TargetIs
    <3>4. Target(open[e]) \notin DOMAIN disk
      BY <1>1, <3>3 DEF DsInv, FilesInv, CountsAhead
    <3> QED
      BY <2>1, <3>2, <3>4
  <2> QED
    BY <1>1, <2>1, <2>4, <2>5, <2>6, PacketsChange
<1>2. DsInv /\ [Next]_vars => Step
  BY <1>1
<1>3. DsInv /\ [Next]_vars => [Step]_vars
  BY <1>2
<1> QED
  BY <1>3, Invariance, PTL DEF Spec, CompleteFrozen

==============================================================================
