------------------------------ MODULE DsFilter ------------------------------
(***************************************************************************)
(* The filters of DS's packet filter table: how they get there (table      *)
(* loads and their verification in ds_table.c, the ground commands of      *)
(* ds_cmds.c) and which packets they pass (ds_file.c).  DsFilterHash has   *)
(* the look-up, the hash lists and the subscriptions.                      *)
(***************************************************************************)
EXTENDS DsFilterHash

CONSTANTS
  Slots,       \* DS_FILTERS_PER_PACKET of them
  NumFiles,    \* DS_DEST_FILE_CNT
  FiltersOf,   \* per table: the filters of its entries
  Parms,       \* algorithm parameters a command may carry
  Packets,     \* packets to be judged: count and time
  SecondsMod,  \* 2^11: so much of the seconds is looked at
  SubsMod,     \* 2^4: and of the subseconds, which a packet here counts in 1/SubsMod
  MaxCommands  \* bound: filter commands in a behaviour and refusals of the bus in force

ByCount == 1
ByTime  == 2
Filter  == [file : Nat, type : Nat, n : Nat, x : Nat, o : Nat]

Unused == [file |-> 0, type |-> 0, n |-> 0, x |-> 0, o |-> 0]
\* What ADD MID and REMOVE MID leave.
Reset  == [Unused EXCEPT !.type = ByCount]

\* The filters of the table DS is delivered with: everything of the first message
\* ID into the first file, everything of the second into the second.
DeliveredFilters(t) ==
  [i \in Entries |-> [s \in Slots |->
     IF t[i] # Invalid /\ s = 1
     THEN [file |-> Cardinality({j \in 1 .. i - 1 : t[j] # Invalid}),
           type |-> ByCount, n |-> 1, x |-> 1, o |-> 0]
     ELSE Unused]]

ASSUME FiltersAssumption ==
  /\ FiltersOf \in [Tables -> [Entries -> [Slots -> Filter]]]
  /\ Parms \subseteq [n : Nat, x : Nat, o : Nat]
  /\ Packets \subseteq [count : Nat, seconds : Nat, subs : 0 .. SubsMod - 1]
  /\ {SecondsMod, SubsMod} \subseteq Nat \ {0}
  /\ NumFiles \in Nat \ {0} /\ MaxCommands \in Nat

VARIABLES
  filters,  \* FilterTblPtr->Packet[].Filter
  ordered,  \* history: per message ID, the filters the ground has last given it
  commands  \* filter commands so far

filterVars == <<vars, filters, ordered, commands>>

NoOrder == [s \in Slots |-> Reset]

-----------------------------------------------------------------------------
(***************************************************************************)
(* Verification.                                                           *)
(***************************************************************************)
VerifyFileIndex(file) == file < NumFiles

VerifyType(type) == type \in {ByCount, ByTime}

VerifyParms(p) == (p.n = 0 /\ p.x = 0 /\ p.o = 0) \/ (p.n <= p.x /\ p.o < p.x)

VerifyFilterEntry(fs) ==
  \A s \in Slots : \/ fs[s] = Unused
                   \/ VerifyFileIndex(fs[s].file) /\ VerifyType(fs[s].type) /\ VerifyParms(fs[s])

\* DS_TableVerifyFilter does not look at the filters of unused entries.
VerifyFilter(t) == \A i \in Entries : t[i] # Invalid => VerifyFilterEntry(FiltersOf[t][i])

-----------------------------------------------------------------------------
(***************************************************************************)
(* DS_IsPacketFiltered, and DS_FileStorePacket as far as it judges.        *)
(***************************************************************************)
\* Eleven bits of seconds, then four of subseconds.
PacketValue(type, p) ==
  IF type = ByCount THEN p.count ELSE (p.seconds % SecondsMod) * SubsMod + p.subs

IsPacketFiltered(p, f) ==
  \/ f.x = 0 \/ f.n = 0 \/ f.n > f.x \/ f.o >= f.x
  \/ ~ VerifyType(f.type)
  \/ PacketValue(f.type, p) < f.o
  \/ (PacketValue(f.type, p) - f.o) % f.x >= f.n

\* The filters applied to a packet with this ID.
FiltersFor(mid) ==
  LET e == FindMsgID(mid) IN IF e \in Entries THEN filters[e] ELSE [s \in Slots |-> Unused]

\* Through which of its filters it is stored, in the file that names, if that file
\* is enabled.
Stores(fs, p) ==
  {s \in Slots : fs[s].n # 0 /\ fs[s].file < NumFiles /\ ~ IsPacketFiltered(p, fs[s])}

-----------------------------------------------------------------------------
(***************************************************************************)
(* The operations of DsFilterHash with what they do to the filters.        *)
(***************************************************************************)
FilterInit ==
  /\ Init
  /\ filters = [i \in Entries |-> [s \in Slots |-> Unused]]
  /\ ordered = [mid \in Mids |-> NoOrder]
  /\ commands = 0

FilterLoad(t) ==
  /\ VerifyFilter(t)
  /\ LoadTable(t)
  /\ filters' = FiltersOf[t]
  /\ ordered' = [mid \in Mids |->
                   IF mid \in MidsIn(t) THEN FiltersOf[t][CHOOSE i \in Entries : t[i] = mid]
                   ELSE NoOrder]
  /\ UNCHANGED commands

\* Mutant: the filters of an unused entry are taken as they are.
ResetChangedOrKept == [i \in Entries |-> IF table'[i] = Invalid /\ table[i] # Invalid
                                         THEN NoOrder ELSE filters[i]]

\* The filters of the entry that is given an ID, or loses it.
ResetChanged == [i \in Entries |-> IF table'[i] # table[i] THEN NoOrder ELSE filters[i]]

FilterAdd(mid) ==
  /\ AddMID(mid)
  /\ filters' = IF hung' THEN filters ELSE ResetChanged
  /\ UNCHANGED <<ordered, commands>>

FilterRemove(mid) ==
  /\ RemoveMID(mid)
  /\ filters' = ResetChanged
  /\ ordered' = IF hung' THEN ordered ELSE [ordered EXCEPT ![mid] = NoOrder]
  /\ UNCHANGED commands

FilterLookUp(mid) == LookUp(mid) /\ UNCHANGED <<filters, ordered, commands>>

-----------------------------------------------------------------------------
(***************************************************************************)
(* FILTER FILE, FILTER TYPE and FILTER PARMS.  A command that is rejected  *)
(* changes nothing, one whose look-up does not end is FilterLookUp.        *)
(***************************************************************************)
SetFilter(mid) ==
  /\ commands < MaxCommands /\ commands' = commands + 1
  /\ Commandable
  /\ FindMsgID(mid) \in Entries
  /\ UNCHANGED vars

SetFilterFile(mid, s, file) ==
  /\ VerifyFileIndex(file)
  /\ SetFilter(mid)
  /\ filters' = [filters EXCEPT ![FindMsgID(mid)][s] = [@ EXCEPT !.file = file]]
  /\ ordered' = [ordered EXCEPT ![mid][s] = [@ EXCEPT !.file = file]]

SetFilterType(mid, s, type) ==
  /\ VerifyType(type)
  /\ SetFilter(mid)
  /\ filters' = [filters EXCEPT ![FindMsgID(mid)][s] = [@ EXCEPT !.type = type]]
  /\ ordered' = [ordered EXCEPT ![mid][s] = [@ EXCEPT !.type = type]]

SetFilterParms(mid, s, p) ==
  /\ VerifyParms(p)
  /\ SetFilter(mid)
  /\ filters' = [filters EXCEPT ![FindMsgID(mid)][s] = [@ EXCEPT !.n = p.n, !.x = p.x, !.o = p.o]]
  /\ ordered' = [ordered EXCEPT ![mid][s] = [@ EXCEPT !.n = p.n, !.x = p.x, !.o = p.o]]

\* A filter command of the right length.
FilterCommand(mid, s) ==
  \/ \E file \in 0 .. NumFiles : SetFilterFile(mid, s, file)
  \/ \E type \in 0 .. 2 : SetFilterType(mid, s, type)
  \/ \E p \in Parms : SetFilterParms(mid, s, p)

\* The bound: what the ground orders and what the bus refuses add up and do not multiply.
Bounded == commands' + Cardinality(refused') <= MaxCommands

FilterNext ==
  /\ \/ \E t \in Tables : FilterLoad(t)
     \/ \E mid \in Mids : FilterAdd(mid) \/ FilterRemove(mid) \/ FilterLookUp(mid)
     \/ \E mid \in Mids, s \in Slots : FilterCommand(mid, s)
  /\ Bounded

FilterSpec == FilterInit /\ [][FilterNext]_filterVars

-----------------------------------------------------------------------------
(***************************************************************************)
(* Properties.                                                             *)
(***************************************************************************)

\* Types.
FilterTypeOK ==
  /\ TypeOK
  /\ filters \in [Entries -> [Slots -> Filter]]
  /\ ordered \in [Mids -> [Slots -> Filter]]
  /\ commands \in 0 .. MaxCommands

\* The packet is among the first N of a group of X, groups counted from packet O:
\* by its sequence count, or by the sixteenth of a second it was made in, of which
\* there are 2^15 before the count begins anew.
InShare(p, f) ==
  LET value == IF f.type = ByCount THEN p.count
               ELSE (p.seconds * SubsMod + p.subs) % (SecondsMod * SubsMod)
  IN \E group \in 0 .. value :
       f.o + group * f.x <= value /\ value < f.o + group * f.x + f.n

\* What the ground has asked for is what is stored, and nothing else, whatever
\* additions, removals, loads and filter commands came before: for every message
\* ID, in every file it was assigned, the share of its packets that was ordered.
\* A filter that was never given a type stores nothing.
StoredAsOrdered ==
  ~ hung => \A mid \in Mids :
    LET fs == FiltersFor(mid)
        os == ordered[mid]
    IN \A p \in Packets :
         /\ Stores(fs, p) = {s \in Slots : os[s].type # 0 /\ os[s].n > 0 /\ InShare(p, os[s])}
         /\ \A s \in Stores(fs, p) : fs[s].file = os[s].file

=============================================================================
