-------------------------- MODULE HkCombiner_proofs --------------------------
(***************************************************************************)
(* Proofs about HkCombiner: its types, what the memory pool and the bus    *)
(* hold for HK across table loads, where its copies may go, and what a     *)
(* combined packet without missing data is made of.  They hold for every   *)
(* copy table, pool and set of packets the constants' assumptions allow.   *)
(***************************************************************************)
EXTENDS HkCombiner, WellFoundedInduction, TLAPS

\* A block the pool would not take back is still held.
LeakedHeld == \A b \in leaked : pool[b] # Free

\* While HK runs, an entry that copies has its place in its packet's buffer, unless
\* it has no packet or the packet got no buffer.
PlacesSound ==
  run = "RUN" => \A e \in Entries : table[e].in # Reserved =>
    /\ addr[e] = Null => table[e].out = Reserved \/ table[e].out \in refused
    /\ addr[e] # Null => table[e].to + table[e].n <= pool[addr[e]].size

\* Data marked as present is what its input brought last.
PresentIsLast ==
  \A e \in Entries : present[e] /\ table[e].out \in Outputs =>
    /\ table[e].in \in Inputs /\ e \in Matches(table[e].in)
    /\ cell[e] = since[table[e].out][table[e].in] /\ cell[e] # Clear

HkInv ==
  HkTypeOK /\ PoolSound /\ LeakedHeld /\ SubscriptionsSound
    /\ PlacesSound /\ FaultsExplained /\ PresentIsLast

-----------------------------------------------------------------------------
(***************************************************************************)
(* The length of a packet.                                                 *)
(***************************************************************************)

\* Every set of numbers has a least one.
LEMMA LeastOne ==
  ASSUME NEW S \in SUBSET Nat, S # {}
  PROVE  \E n \in S : \A m \in S : n <= m
<1> DEFINE R == OpToRel(<, Nat)
<1>1. IsWellFoundedOn(R, Nat)
  BY NatLessThanWellFounded, Zenon
<1>2. \A x, y \in Nat : <<x, y>> \in R <=> x < y
  BY SMT DEF OpToRel
<1> HIDE DEF R
<1>3. PICK n \in S : \A m \in S : ~ <<m, n>> \in R
  BY <1>1, WFMin, Zenon
<1>4. n \in Nat /\ \A m \in S : m \in Nat /\ ~ m < n
  <2>1. \A m \in S : m \in Nat
    OBVIOUS
  <2> QED
    BY <1>2, <1>3, <2>1, Zenon
<1> QED
  BY <1>4

\* The ends of a table's entries have a bound: else there were a first entry up to
\* which they have none.
LEMMA EndsBounded ==
  ASSUME NEW t \in [Entries -> Entry]
  PROVE  \E b \in Nat : \A e \in Entries : t[e].to + t[e].n <= b
<1> DEFINE Bound(d, b) == \A e \in 1 .. d : t[e].to + t[e].n <= b
           D == {d \in 0 .. NumEntries : \A b \in Nat : ~ Bound(d, b)}
<1>1. \A e \in Entries : t[e].to \in Nat /\ t[e].n \in Nat
  BY DEF Entry
<1>2. NumEntries \in Nat
  BY HkAssumption
<1>3. D = {}
  <2>1. SUFFICES ASSUME D # {} PROVE FALSE
    OBVIOUS
  <2>2. PICK d \in D : \A x \in D : d <= x
    <3>1. D \in SUBSET Nat
      BY <1>2
    <3> QED
      BY <2>1, <3>1, LeastOne
  <2>3. d # 0
    <3>1. Bound(0, 0)
      OBVIOUS
    <3> QED
      BY <3>1
  <2>4. d \in Entries /\ d - 1 \in 0 .. NumEntries
    BY <1>2, <2>3 DEF Entries
  <2>5. PICK b \in Nat : Bound(d - 1, b)
    BY <2>2, <2>4
  <2> DEFINE c == b + t[d].to + t[d].n
  <2>6. c \in Nat /\ Bound(d, c)
    <3>1. c \in Nat /\ b <= c /\ t[d].to + t[d].n <= c
      BY <1>1, <2>4
    <3> HIDE DEF c
    <3>2. ASSUME NEW e \in 1 .. d PROVE t[e].to + t[e].n <= c
      <4>1. CASE e = d
        BY <3>1, <4>1
      <4>2. CASE e # d
        <5>1. d \in 1 .. NumEntries
          BY <2>4 DEF Entries
        <5> HIDE DEF D, Bound
        <5>2. e \in 1 .. d - 1 /\ e \in 1 .. NumEntries
          BY <1>2, <3>2, <4>2, <5>1
        <5>3. t[e].to + t[e].n <= b
          BY <2>5, <5>2 DEF Bound
        <5>4. t[e].to \in Nat /\ t[e].n \in Nat
          BY <1>1, <5>2 DEF Entries
        <5> QED
          BY <3>1, <5>3, <5>4
      <4> QED
        BY <4>1, <4>2
    <3> QED
      BY <3>1, <3>2
  <2> QED
    BY <2>6
<1>4. PICK b \in Nat : Bound(NumEntries, b)
  <2> HIDE DEF D, Bound
  <2>1. NumEntries \in 0 .. NumEntries /\ NumEntries \notin D
    BY <1>2, <1>3
  <2> QED
    BY <2>1 DEF D
<1> QED
  BY <1>4 DEF Entries

\* A packet is long enough for each of its entries.
LEMMA PacketHolds ==
  ASSUME NEW t \in [Entries -> Entry], NEW o
  PROVE  /\ SizeOfPacket(t, o) \in Nat
         /\ \A e \in EntriesOf(t, o) : t[e].to + t[e].n <= SizeOfPacket(t, o)
<1> DEFINE ends == {0} \cup {t[e].to + t[e].n : e \in EntriesOf(t, o)}
           Bounds == {b \in Nat : \A x \in ends : x <= b}
<1>1. \A e \in Entries : t[e].to + t[e].n \in Nat
  BY DEF Entry
<1>2. ends \subseteq Nat /\ 0 \in ends
  BY <1>1 DEF EntriesOf
<1>3. Bounds # {}
  <2>1. PICK b \in Nat : \A e \in Entries : t[e].to + t[e].n <= b
    BY EndsBounded
  <2>2. \A x \in ends : x <= b
    BY <2>1 DEF EntriesOf
  <2> QED
    BY <2>2
<1>4. PICK u \in Bounds : \A b \in Bounds : u <= b
  <2>1. Bounds \in SUBSET Nat
    OBVIOUS
  <2> QED
    BY <1>3, <2>1, LeastOne
<1> HIDE DEF ends
<1>5. u \in ends
  <2>1. SUFFICES ASSUME u \notin ends PROVE FALSE
    OBVIOUS
  <2>2. u - 1 \in Nat /\ \A x \in ends : x <= u - 1
    BY <1>2, <1>4, <2>1
  <2> QED
    BY <1>4, <2>2
<1>6. SizeOfPacket(t, o) \in ends /\ \A x \in ends : x <= SizeOfPacket(t, o)
  BY <1>4, <1>5 DEF SizeOfPacket, ends
<1> QED
  BY <1>2, <1>6 DEF ends

-----------------------------------------------------------------------------
(***************************************************************************)
(* The pipe.                                                               *)
(***************************************************************************)

LEMMA PostTyped ==
  ASSUME HkTypeOK, NEW msg \in HkMessage, Post(msg)
  PROVE  hkPipe' \in Seq(HkMessage) /\ Len(hkPipe') <= HkDepth
BY HkAssumption DEF HkTypeOK, Post

LEMMA TakesTyped ==
  ASSUME HkTypeOK, NEW kind, Takes(kind)
  PROVE  /\ Head(hkPipe) \in HkMessage
         /\ hkPipe' \in Seq(HkMessage) /\ Len(hkPipe') <= HkDepth
BY HkAssumption DEF HkTypeOK, Takes

\* Only packets carry data, only wake-ups name a packet to send.
LEMMA MessageKinds ==
  ASSUME NEW msg \in HkMessage
  PROVE  /\ msg.kind = "INPUT" => msg.mid \in Inputs /\ msg.data \in Data
         /\ msg.kind = "COMBINE" => msg.out \in Outputs
BY DEF HkMessage

LEMMA LooksTyped ==
  ASSUME HkTypeOK, Looks
  PROVE  run = "RUN" /\ hkPipe' \in Seq(HkMessage) /\ Len(hkPipe') <= HkDepth
<1>1. CASE Takes("HK_REQUEST")
  BY <1>1, TakesTyped DEF Looks
<1>2. CASE UNCHANGED hkPipe
  BY <1>2 DEF Looks, HkTypeOK
<1> QED
  BY <1>1, <1>2 DEF Looks

-----------------------------------------------------------------------------
(***************************************************************************)
(* The steps.                                                              *)
(***************************************************************************)

\* Everything but the pipe, the counter and a table on its way.
Quiet == UNCHANGED <<run, table, runtime, history>>

LEMMA QuietKeeps ==
  ASSUME HkInv, Quiet,
         hkPipe' \in Seq(HkMessage), Len(hkPipe') <= HkDepth,
         pending' = pending \/ pending' = NoLoad
           \/ pending' \in [state : {"VALIDATION_PENDING", "VALID", "UPDATE_PENDING"}, table : Tables],
         missing' \in 0 .. CtrMod - 1
  PROVE  HkInv'
<1> USE DEF Quiet, runtime, history
<1>1. HkTypeOK'
  BY DEF HkInv, HkTypeOK
<1>2. PoolSound'
  BY DEF HkInv, PoolSound, EntriesOf
<1>3. LeakedHeld'
  BY DEF HkInv, LeakedHeld
<1>4. SubscriptionsSound'
  BY DEF HkInv, SubscriptionsSound, Naming
<1>5. PlacesSound'
  BY DEF HkInv, PlacesSound
<1>6. FaultsExplained'
  BY DEF HkInv, FaultsExplained
<1>7. PresentIsLast'
  BY DEF HkInv, PresentIsLast, Matches, Naming
<1> QED
  BY <1>1, <1>2, <1>3, <1>4, <1>5, <1>6, <1>7 DEF HkInv

\* The block that holds a packet.
BufferOf(t, o) == [out |-> o, size |-> SizeOfPacket(t, o)]

\* The packets of a new table lie each in a block of its own.
Placed(t, os, free, place) ==
  /\ place \in [os -> free]
  /\ \A o \in os : /\ PlacedAt(place, place[o]) = {o}
                   /\ Header(t, place, place[o]) = BufferOf(t, o)
  /\ \A b \in Buffers : PlacedAt(place, b) # {} => \E o \in os : b = place[o]

LEMMA PlacedSound ==
  ASSUME NEW t \in [Entries -> Entry], NEW os \in SUBSET Outputs,
         NEW free \in SUBSET Buffers, NEW place \in Placements(os, free)
  PROVE  Placed(t, os, free, place)
<1>1. place \in [os -> free] /\ \A o, q \in os : place[o] = place[q] => o = q
  BY DEF Placements
<1>2. ASSUME NEW o \in os PROVE PlacedAt(place, place[o]) = {o}
  BY <1>1 DEF PlacedAt
<1>3. ASSUME NEW o \in os
      PROVE  Header(t, place, place[o]) = BufferOf(t, o)
  <2>1. (CHOOSE q \in PlacedAt(place, place[o]) : TRUE) = o
    BY <1>2
  <2> QED
    BY <2>1 DEF Header, BufferOf
<1>4. \A b \in Buffers : PlacedAt(place, b) # {} => \E o \in os : b = place[o]
  BY <1>1 DEF PlacedAt
<1> QED
  BY <1>1, <1>2, <1>3, <1>4 DEF Placed

\* The addresses and the pool with a new table, as ProcessNewCopyTable leaves them.
AddrWith(t, place) ==
  [e \in Entries |-> IF t[e].out \in DOMAIN place THEN place[t[e].out] ELSE Null]

PoolWith(t, freed, place) ==
  [b \in Buffers |-> IF PlacedAt(place, b) = {} THEN freed[b] ELSE Header(t, place, b)]

\* Each packet of a new table that gets a buffer gets it for all its entries, from
\* the blocks that were free, and as long as it needs it.
LEMMA BuffersOfNewTable ==
  ASSUME NEW t \in [Entries -> Entry], NEW refuse \in SUBSET Entries,
         NEW freed \in [Buffers -> [out : Outputs, size : Nat] \cup {Free}],
         NEW place \in Placements(Served(t, refuse), {b \in Buffers : freed[b] = Free}),
         NEW a, a = AddrWith(t, place), NEW p, p = PoolWith(t, freed, place)
  PROVE  /\ a \in [Entries -> Buffers \cup {Null}]
         /\ p \in [Buffers -> [out : Outputs, size : Nat] \cup {Free}]
         /\ \A e \in Entries : a[e] # Null =>
              /\ t[e].out \in Outputs /\ freed[a[e]] = Free
              /\ p[a[e]] = BufferOf(t, t[e].out)
              /\ \A f \in EntriesOf(t, t[e].out) : a[f] = a[e]
         /\ \A e \in Entries : a[e] = Null => t[e].out \notin DOMAIN place
         /\ \A b \in Buffers : p[b] # freed[b] => \E e \in Entries : a[e] = b
         /\ \A b \in Buffers : freed[b] # Free => p[b] = freed[b]
<1> DEFINE os == Served(t, refuse)
           free == {b \in Buffers : freed[b] = Free}
<1>1. os \in SUBSET Outputs /\ free \in SUBSET Buffers
  BY DEF Served
<1>2. \A o \in os : \E e \in Entries : t[e].out = o
  BY DEF Served, Builders, EntriesOf
<1>3. place \in Placements(os, free)
  OBVIOUS
<1> HIDE DEF os, free
<1>4. /\ place \in [os -> free]
      /\ \A o \in os : /\ PlacedAt(place, place[o]) = {o}
                       /\ Header(t, place, place[o]) = BufferOf(t, o)
      /\ \A b \in Buffers : PlacedAt(place, b) # {} => \E o \in os : b = place[o]
  <2>1. Placed(t, os, free, place)
    BY <1>1, <1>3, PlacedSound
  <2> QED
    BY <2>1 DEF Placed
<1>5. Null \notin Buffers
  BY HkAssumption
<1>6. \A o \in os : BufferOf(t, o) \in [out : Outputs, size : Nat]
  BY <1>1, PacketHolds DEF BufferOf
<1>7. a \in [Entries -> Buffers \cup {Null}]
  BY <1>1, <1>4 DEF AddrWith
<1>8. \A o \in os : /\ place[o] \in Buffers /\ freed[place[o]] = Free
                    /\ p[place[o]] = BufferOf(t, o)
  BY <1>1, <1>4 DEF free, PoolWith
<1>9. \A b \in Buffers : p[b] = freed[b] \/ \E o \in os : b = place[o]
  BY <1>4 DEF PoolWith
<1>10. p \in [Buffers -> [out : Outputs, size : Nat] \cup {Free}]
  <2>1. ASSUME NEW b \in Buffers
        PROVE  p[b] \in [out : Outputs, size : Nat] \cup {Free}
    <3>1. CASE p[b] = freed[b]
      BY <3>1
    <3>2. ASSUME NEW o \in os, b = place[o] PROVE p[b] \in [out : Outputs, size : Nat]
      BY <1>1, <1>6, <1>8, <3>2
    <3> QED
      BY <1>9, <3>1, <3>2
  <2> QED
    BY <2>1 DEF PoolWith
<1>11. \A e \in Entries : /\ t[e].out \in os => a[e] = place[t[e].out]
                          /\ t[e].out \notin os => a[e] = Null
  BY <1>4 DEF AddrWith
<1>12. \A b \in Buffers : p[b] # freed[b] => \E e \in Entries : a[e] = b
  BY <1>2, <1>9, <1>11
<1>13. \A b \in Buffers : freed[b] # Free => p[b] = freed[b]
  BY <1>8, <1>9
<1>14. ASSUME NEW e \in Entries, a[e] # Null
       PROVE  /\ t[e].out \in Outputs /\ freed[a[e]] = Free
              /\ p[a[e]] = BufferOf(t, t[e].out)
              /\ \A f \in EntriesOf(t, t[e].out) : a[f] = a[e]
  BY <1>1, <1>8, <1>11, <1>14 DEF EntriesOf
<1>15. \A e \in Entries : a[e] = Null => t[e].out \notin DOMAIN place
  <2>1. DOMAIN place = os
    BY <1>4
  <2> QED
    BY <1>5, <1>8, <1>11, <2>1
<1> QED
  BY <1>7, <1>10, <1>12, <1>13, <1>14, <1>15

\* Of the old table's blocks, those the pool would not take back are all that is
\* held, with those it would not take back before.
LEMMA FreedBlocks ==
  ASSUME HkInv, NEW keep \in SUBSET Entries
  PROVE  /\ Freed(keep) \in [Buffers -> [out : Outputs, size : Nat] \cup {Free}]
         /\ leaked \cup NotTaken(keep) \subseteq Buffers
         /\ \A b \in Buffers : Freed(keep)[b] # Free <=> b \in leaked \cup NotTaken(keep)
<1>1. /\ pool \in [Buffers -> [out : Outputs, size : Nat] \cup {Free}]
      /\ addr \in [Entries -> Buffers \cup {Null}] /\ leaked \subseteq Buffers
  BY DEF HkInv, HkTypeOK
<1>2. Freed(keep) \in [Buffers -> [out : Outputs, size : Nat] \cup {Free}]
  BY <1>1 DEF Freed
<1>3. leaked \cup NotTaken(keep) \subseteq Buffers
  BY <1>1 DEF NotTaken
<1>4. /\ \A e \in Entries : addr[e] # Null => pool[addr[e]] # Free /\ addr[e] \notin leaked
      /\ \A b \in Buffers \ leaked : pool[b] # Free => \E e \in Entries : addr[e] = b
      /\ \A b \in leaked : pool[b] # Free
  BY DEF HkInv, PoolSound, LeakedHeld
<1>5. Null \notin Buffers
  BY HkAssumption
<1>6. ASSUME NEW b \in Buffers
      PROVE  Freed(keep)[b] # Free <=> b \in leaked \cup NotTaken(keep)
  <2>1. Freed(keep)[b] = IF \E e \in Entries \ keep : addr[e] = b THEN Free ELSE pool[b]
    BY DEF Freed
  <2>2. b \in NotTaken(keep) <=> /\ \E e \in keep : addr[e] = b
                                 /\ ~ \E e \in Entries \ keep : addr[e] = b
    BY <1>5 DEF NotTaken
  <2>3. CASE \E e \in Entries \ keep : addr[e] = b
    BY <1>4, <1>5, <2>1, <2>2, <2>3
  <2>4. CASE ~ \E e \in Entries \ keep : addr[e] = b
    <3>1. Freed(keep)[b] = pool[b]
      BY <2>1, <2>4
    <3>2. b \in NotTaken(keep) <=> \E e \in Entries : addr[e] = b
      BY <2>2, <2>4
    <3> QED
      BY <1>4, <1>5, <3>1, <3>2
  <2> QED
    BY <2>3, <2>4
<1> QED
  BY <1>2, <1>3, <1>6

\* The bus delivers nothing any more.
LEMMA AllUnsubscribed ==
  ASSUME HkInv, run = "RUN"
  PROVE  Unsubscribed = {}
<1>1. /\ subs = {m \in Inputs : Naming(table, m) # {}} \ denied
      /\ \A e \in Entries : sub[e] <=> table[e].in \in subs
  BY DEF HkInv, SubscriptionsSound
<1>2. ASSUME NEW m \in subs PROVE \E e \in Entries : sub[e] /\ table[e].in = m
  BY <1>1 DEF Naming
<1> QED
  BY <1>2 DEF Unsubscribed

\* A new table.
LEMMA UpdateKeeps ==
  ASSUME HkInv, run = "RUN", hkPipe' \in Seq(HkMessage), Len(hkPipe') <= HkDepth,
         NEW refuse \in SUBSET Entries, NEW deny \in SUBSET Entries, NEW keep \in SUBSET Entries,
         Update(refuse, deny, keep)
  PROVE  HkInv'
<1> DEFINE t == pending.table
           freed == Freed(keep)
           named == {m \in Inputs : Naming(t, m) # {}}
           subscribed == {m \in Inputs : Naming(t, m) \ deny # {}}
<1>1. HkTypeOK
  BY DEF HkInv
<1>2. t \in [Entries -> Entry]
  <2>1. pending.state = "UPDATE_PENDING"
    BY DEF Update
  <2>2. pending \in [state : {"VALIDATION_PENDING", "VALID", "UPDATE_PENDING"}, table : Tables]
    BY <1>1, <2>1 DEF HkTypeOK, NoLoad
  <2>3. pending.table \in Tables
    BY <2>2
  <2> QED
    BY <2>3, HkAssumption
<1>3. /\ table' = t /\ run' = "RUN" /\ missing' = missing /\ pending' = NoLoad
      /\ leaked' = leaked \cup NotTaken(keep)
      /\ present' = [e \in Entries |-> FALSE] /\ cell' = [e \in Entries |-> Clear]
      /\ since' = NothingCame
  BY DEF Update, ProcessNewCopyTable
<1>4. /\ sub' = [e \in Entries |-> t[e].in \in subscribed]
      /\ subs' = subscribed /\ denied' = named \ subscribed
  <2>1. Unsubscribed = {}
    BY AllUnsubscribed
  <2> QED
    BY <2>1 DEF Update, ProcessNewCopyTable
<1>5. PICK place \in Placements(Served(t, refuse), {b \in Buffers : freed[b] = Free}) :
        /\ addr' = AddrWith(t, place) /\ pool' = PoolWith(t, freed, place)
        /\ refused' = {o \in Outputs : Builders(t, o) # {}} \ DOMAIN place
  BY DEF Update, ProcessNewCopyTable, AddrWith, PoolWith
<1>6. /\ freed \in [Buffers -> [out : Outputs, size : Nat] \cup {Free}]
      /\ leaked' \subseteq Buffers
      /\ \A b \in Buffers : freed[b] # Free <=> b \in leaked'
  BY <1>3, FreedBlocks
<1> HIDE DEF t, freed, named, subscribed
<1>7. /\ addr' \in [Entries -> Buffers \cup {Null}]
      /\ pool' \in [Buffers -> [out : Outputs, size : Nat] \cup {Free}]
      /\ \A e \in Entries : addr'[e] # Null =>
           /\ t[e].out \in Outputs /\ freed[addr'[e]] = Free
           /\ pool'[addr'[e]] = BufferOf(t, t[e].out)
           /\ \A f \in EntriesOf(t, t[e].out) : addr'[f] = addr'[e]
      /\ \A e \in Entries : addr'[e] = Null => t[e].out \notin DOMAIN place
      /\ \A b \in Buffers : pool'[b] # freed[b] => \E e \in Entries : addr'[e] = b
      /\ \A b \in Buffers : freed[b] # Free => pool'[b] = freed[b]
  BY <1>2, <1>5, <1>6, BuffersOfNewTable
<1>8. HkTypeOK'
  <2>1. {sub, present}' \subseteq [Entries -> BOOLEAN] /\ cell' \in [Entries -> Data \cup {Clear}]
    BY <1>3, <1>4
  <2>2. {subs, denied}' \subseteq SUBSET Inputs
    BY <1>4 DEF named, subscribed
  <2>3. refused' \subseteq Outputs /\ since' \in [Outputs -> [Inputs -> Data \cup {Clear}]]
    BY <1>3, <1>5 DEF NothingCame
  <2> QED
    BY <1>1, <1>2, <1>3, <1>6, <1>7, <2>1, <2>2, <2>3 DEF HkTypeOK
<1>9. PoolSound'
  <2>1. ASSUME NEW e \in Entries, addr'[e] # Null
        PROVE  /\ pool'[addr'[e]] # Free /\ pool'[addr'[e]].out = table'[e].out
               /\ addr'[e] \notin leaked'
               /\ \A f \in EntriesOf(table', table'[e].out) : addr'[f] = addr'[e]
    <3>1. BufferOf(t, t[e].out) # Free /\ BufferOf(t, t[e].out).out = t[e].out
      BY <1>7, <2>1, HkAssumption DEF BufferOf, Free
    <3>2. addr'[e] \in Buffers
      BY <1>7, <2>1
    <3> QED
      BY <1>3, <1>6, <1>7, <2>1, <3>1, <3>2
  <2>2. ASSUME NEW b \in Buffers \ leaked', pool'[b] # Free
        PROVE  \E e \in Entries : addr'[e] = b
    BY <1>6, <1>7, <2>2
  <2> QED
    BY <2>1, <2>2 DEF PoolSound, EntriesOf
<1>10. LeakedHeld'
  BY <1>6, <1>7 DEF LeakedHeld
<1>11. SubscriptionsSound'
  <2>1. named \ (named \ subscribed) = subscribed
    BY DEF named, subscribed
  <2> QED
    BY <1>3, <1>4, <2>1 DEF SubscriptionsSound, named, Naming
<1>12. PlacesSound'
  <2>1. SUFFICES ASSUME NEW e \in Entries, t[e].in # Reserved
                 PROVE  /\ addr'[e] = Null => t[e].out = Reserved \/ t[e].out \in refused'
                        /\ addr'[e] # Null => t[e].to + t[e].n <= pool'[addr'[e]].size
    BY <1>3 DEF PlacesSound
  <2>2. addr'[e] = Null => t[e].out = Reserved \/ t[e].out \in refused'
    <3>1. t[e].out \in Outputs \cup {Reserved}
      BY <1>2 DEF Entry
    <3>2. e \in Builders(t, t[e].out)
      BY <2>1 DEF Builders, EntriesOf
    <3> QED
      BY <1>5, <1>7, <3>1, <3>2
  <2>3. addr'[e] # Null => t[e].to + t[e].n <= pool'[addr'[e]].size
    <3>1. t[e].to + t[e].n <= SizeOfPacket(t, t[e].out)
      BY <1>2, PacketHolds DEF EntriesOf
    <3>2. BufferOf(t, t[e].out).size = SizeOfPacket(t, t[e].out)
      BY DEF BufferOf
    <3> QED
      BY <1>7, <3>1, <3>2
  <2> QED
    BY <2>2, <2>3
<1>13. FaultsExplained'
  BY <1>3 DEF FaultsExplained
<1>14. PresentIsLast'
  BY <1>3 DEF PresentIsLast
<1> QED
  BY <1>8, <1>9, <1>10, <1>11, <1>12, <1>13, <1>14 DEF HkInv

\* HK looks at its tables.
LEMMA CheckKeeps ==
  ASSUME HkInv, NEW refuse \in SUBSET Entries, NEW deny \in SUBSET Entries,
         NEW keep \in SUBSET Entries, CheckStatusOfTables(refuse, deny, keep)
  PROVE  HkInv'
<1>1. run = "RUN" /\ hkPipe' \in Seq(HkMessage) /\ Len(hkPipe') <= HkDepth
  BY LooksTyped DEF CheckStatusOfTables, HkInv
<1>2. CASE Validate
  <2>1. pending \in [state : {"VALIDATION_PENDING", "VALID", "UPDATE_PENDING"}, table : Tables]
    BY <1>2 DEF Validate, HkInv, HkTypeOK, NoLoad
  <2>2. \/ pending' = NoLoad
        \/ pending' \in [state : {"VALIDATION_PENDING", "VALID", "UPDATE_PENDING"}, table : Tables]
    BY <1>2, <2>1 DEF Validate
  <2>3. Quiet /\ missing' \in 0 .. CtrMod - 1
    BY <1>2 DEF Validate, Quiet, HkInv, HkTypeOK
  <2> QED
    BY <1>1, <2>2, <2>3, QuietKeeps
<1>3. CASE Update(refuse, deny, keep)
  BY <1>1, <1>3, UpdateKeeps
<1>4. CASE NothingToDo
  <2>1. Quiet /\ pending' = pending /\ missing' \in 0 .. CtrMod - 1
    BY <1>4 DEF NothingToDo, Quiet, HkInv, HkTypeOK
  <2> QED
    BY <1>1, <2>1, QuietKeeps
<1> QED
  BY <1>2, <1>3, <1>4 DEF CheckStatusOfTables

\* The table services fail; what HK has done by then leaks nothing.
LEMMA TablesFailKeeps ==
  ASSUME HkInv, TablesFail
  PROVE  HkInv'
<1>1. run = "RUN" /\ hkPipe' \in Seq(HkMessage) /\ Len(hkPipe') <= HkDepth
  BY LooksTyped DEF TablesFail, HkInv
<1>2. run' = "EXIT" /\ UNCHANGED <<table, pending, missing, refused, denied, leaked, since>>
  BY DEF TablesFail, history
<1>3. UNCHANGED <<present, cell>>
  BY DEF TablesFail, runtime
<1>4. /\ HkTypeOK /\ PoolSound /\ LeakedHeld /\ PresentIsLast
  BY DEF HkInv
<1>5. /\ addr' \in [Entries -> Buffers \cup {Null}]
      /\ pool' \in [Buffers -> [out : Outputs, size : Nat] \cup {Free}]
      /\ sub' \in [Entries -> BOOLEAN] /\ subs' \in SUBSET Inputs
      /\ PoolSound' /\ LeakedHeld'
  <2>1. CASE UNCHANGED runtime
    <3>1. UNCHANGED <<addr, pool, sub, subs>>
      BY <2>1 DEF runtime
    <3> QED
      BY <1>2, <1>4, <3>1 DEF HkTypeOK, PoolSound, LeakedHeld, EntriesOf
  <2>2. CASE /\ addr' = [e \in Entries |-> Null] /\ pool' = Freed({})
             /\ sub' = [e \in Entries |-> FALSE] /\ subs' = Unsubscribed
    <3>1. /\ Freed({}) \in [Buffers -> [out : Outputs, size : Nat] \cup {Free}]
          /\ \A b \in Buffers : Freed({})[b] # Free <=> b \in leaked \cup NotTaken({})
      BY FreedBlocks
    <3>2. NotTaken({}) = {}
      BY DEF NotTaken
    <3>3. sub' \in [Entries -> BOOLEAN] /\ subs' \in SUBSET Inputs
      BY <1>4, <2>2 DEF Unsubscribed, HkTypeOK
    <3>4. PoolSound' /\ LeakedHeld'
      BY <1>2, <1>4, <2>2, <3>1, <3>2 DEF PoolSound, LeakedHeld, HkTypeOK
    <3> QED
      BY <2>2, <3>1, <3>3, <3>4
  <2> QED
    BY <2>1, <2>2 DEF TablesFail
<1>6. HkTypeOK'
  BY <1>1, <1>2, <1>3, <1>4, <1>5 DEF HkTypeOK
<1>7. SubscriptionsSound' /\ PlacesSound' /\ FaultsExplained'
  BY <1>2 DEF SubscriptionsSound, PlacesSound, FaultsExplained
<1>8. PresentIsLast'
  BY <1>2, <1>3, <1>4 DEF PresentIsLast, Matches, Naming
<1> QED
  BY <1>5, <1>6, <1>7, <1>8 DEF HkInv

\* A packet arrives.
LEMMA ReceiveKeeps ==
  ASSUME HkInv, ReceiveInput
  PROVE  HkInv'
<1> DEFINE msg == Head(hkPipe)
           hit == Matches(msg.mid)
<1>1. HkTypeOK
  BY DEF HkInv
<1>2. /\ hkPipe' \in Seq(HkMessage) /\ Len(hkPipe') <= HkDepth
      /\ msg \in HkMessage /\ msg.kind = "INPUT" /\ run = "RUN"
  BY <1>1, TakesTyped DEF ReceiveInput, Takes
<1>3. msg.mid \in Inputs /\ msg.data \in Data
  BY <1>2, MessageKinds
<1>4. UNCHANGED <<table, addr, sub, pool, subs, pending, missing, refused, denied, leaked>>
  BY DEF ReceiveInput
<1>5. PoolSound' /\ LeakedHeld'
  BY <1>4 DEF HkInv, PoolSound, LeakedHeld, EntriesOf
<1>6. CASE \E e \in hit : WritesAstray(e)
  <2>1. run' = "FAULT" /\ UNCHANGED <<present, cell, since>>
    BY <1>6 DEF ReceiveInput
  <2>2. PICK e \in hit : WritesAstray(e)
    BY <1>6
  <2>3. e \in Entries /\ table[e].in = msg.mid /\ table[e].in # Reserved
    BY <1>3, <2>2, HkAssumption DEF Matches, Naming
  <2>4. table[e].out = Reserved \/ table[e].out \in refused
    <3>1. addr[e] = Null
      <4>1. addr[e] # Null => table[e].to + table[e].n <= pool[addr[e]].size
        BY <1>2, <2>3 DEF HkInv, PlacesSound
      <4>2. addr[e] # Null => pool[addr[e]] \in [out : Outputs, size : Nat]
        BY <1>1, <2>3 DEF HkInv, HkTypeOK, PoolSound
      <4>3. table[e] \in Entry
        BY <1>1, <2>3 DEF HkTypeOK
      <4> QED
        BY <2>2, <4>1, <4>2, <4>3 DEF WritesAstray, Entry
    <3> QED
      BY <1>2, <2>3, <3>1 DEF HkInv, PlacesSound
  <2>5. FaultsExplained'
    BY <1>4, <2>3, <2>4 DEF FaultsExplained
  <2>6. HkTypeOK'
    BY <1>1, <1>2, <1>4, <2>1 DEF HkTypeOK
  <2>7. SubscriptionsSound' /\ PlacesSound'
    BY <2>1 DEF SubscriptionsSound, PlacesSound
  <2>8. PresentIsLast'
    BY <1>4, <2>1 DEF HkInv, PresentIsLast, Matches, Naming
  <2> QED
    BY <1>5, <2>5, <2>6, <2>7, <2>8 DEF HkInv
<1>7. CASE ~ \E e \in hit : WritesAstray(e)
  <2>1. /\ run' = run
        /\ present' = [e \in Entries |-> e \in hit \/ present[e]]
        /\ cell' = [e \in Entries |-> IF e \in hit THEN msg.data ELSE cell[e]]
        /\ since' = [o \in Outputs |-> [since[o] EXCEPT ![msg.mid] = msg.data]]
    BY <1>7 DEF ReceiveInput
  <2>2. HkTypeOK'
    <3>1. since' \in [Outputs -> [Inputs -> Data \cup {Clear}]]
      BY <1>1, <1>3, <2>1 DEF HkTypeOK
    <3>2. present' \in [Entries -> BOOLEAN] /\ cell' \in [Entries -> Data \cup {Clear}]
      BY <1>1, <1>3, <2>1 DEF HkTypeOK
    <3> QED
      BY <1>1, <1>2, <1>4, <2>1, <3>1, <3>2 DEF HkTypeOK
  <2>3. SubscriptionsSound' /\ PlacesSound' /\ FaultsExplained'
    BY <1>4, <2>1 DEF HkInv, SubscriptionsSound, PlacesSound, FaultsExplained, Naming
  <2>4. PresentIsLast'
    <3>1. SUFFICES ASSUME NEW e \in Entries, present'[e], table[e].out \in Outputs
                   PROVE  /\ table[e].in \in Inputs /\ e \in Matches(table[e].in)
                          /\ cell'[e] = since'[table[e].out][table[e].in] /\ cell'[e] # Clear
      BY <1>4 DEF PresentIsLast, Matches, Naming
    <3>2. since \in [Outputs -> [Inputs -> Data \cup {Clear}]]
      BY <1>1 DEF HkTypeOK
    <3>3. CASE e \in hit
      <4>1. table[e].in = msg.mid /\ e \in Matches(table[e].in)
        BY <3>3 DEF Matches, Naming
      <4>2. cell'[e] = msg.data /\ since'[table[e].out][msg.mid] = msg.data
        BY <1>3, <2>1, <3>1, <3>2, <3>3
      <4> QED
        BY <1>3, <4>1, <4>2, HkAssumption
    <3>4. CASE e \notin hit
      <4>1. present[e] /\ cell'[e] = cell[e]
        BY <2>1, <3>1, <3>4
      <4>2. /\ table[e].in \in Inputs /\ e \in Matches(table[e].in)
            /\ cell[e] = since[table[e].out][table[e].in] /\ cell[e] # Clear
        BY <3>1, <4>1 DEF HkInv, PresentIsLast
      <4>3. table[e].in # msg.mid
        BY <3>4, <4>2
      <4>4. since'[table[e].out][table[e].in] = since[table[e].out][table[e].in]
        BY <1>3, <2>1, <3>1, <3>2, <4>2, <4>3
      <4> QED
        BY <4>1, <4>2, <4>4
    <3> QED
      BY <3>3, <3>4
  <2> QED
    BY <1>5, <2>2, <2>3, <2>4 DEF HkInv
<1> QED
  BY <1>6, <1>7

\* A packet is sent.  Its entries share one buffer, so the flags of all are cleared.
LEMMA SendKeeps ==
  ASSUME HkInv, NEW o \in Outputs, SendCombined(o)
  PROVE  HkInv'
<1>1. HkTypeOK
  BY DEF HkInv
<1>2. run = "RUN" /\ hkPipe' \in Seq(HkMessage) /\ Len(hkPipe') <= HkDepth
  BY <1>1, TakesTyped DEF SendCombined, Takes
<1>3. UNCHANGED <<run, table, addr, sub, cell, pool, subs, pending, refused, denied, leaked>>
  BY DEF SendCombined
<1>4. CASE ~ PacketFound(o)
  <2>1. UNCHANGED <<missing, present, since>>
    BY <1>4 DEF SendCombined
  <2>2. Quiet /\ pending' = pending /\ missing' \in 0 .. CtrMod - 1
    BY <1>1, <1>3, <2>1 DEF Quiet, runtime, history, HkTypeOK
  <2> QED
    BY <1>2, <2>2, QuietKeeps
<1>5. CASE PacketFound(o)
  <2>1. /\ missing' \in {missing, (missing + 1) % CtrMod}
        /\ present' = FlagsNotPresent(o)
        /\ since' = [since EXCEPT ![o] = NothingCame[o]]
    BY <1>5 DEF SendCombined
  <2>2. HkTypeOK'
    <3>1. missing' \in 0 .. CtrMod - 1
      BY <1>1, <2>1, HkAssumption DEF HkTypeOK
    <3>2. present' \in [Entries -> BOOLEAN]
      BY <2>1 DEF FlagsNotPresent
    <3>3. since' \in [Outputs -> [Inputs -> Data \cup {Clear}]]
      BY <1>1, <2>1 DEF HkTypeOK, NothingCame
    <3> QED
      BY <1>1, <1>2, <1>3, <3>1, <3>2, <3>3 DEF HkTypeOK
  <2>3. PoolSound' /\ LeakedHeld'
    BY <1>3 DEF HkInv, PoolSound, LeakedHeld, EntriesOf
  <2>4. SubscriptionsSound' /\ PlacesSound' /\ FaultsExplained'
    BY <1>3 DEF HkInv, SubscriptionsSound, PlacesSound, FaultsExplained, Naming
  <2>5. PresentIsLast'
    <3>1. SUFFICES ASSUME NEW e \in Entries, present'[e], table[e].out \in Outputs
                   PROVE  /\ table[e].in \in Inputs /\ e \in Matches(table[e].in)
                          /\ cell[e] = since'[table[e].out][table[e].in] /\ cell[e] # Clear
      BY <1>3 DEF PresentIsLast, Matches, Naming
    <3>2. present[e] /\ (table[e].out = o => addr[e] = Null)
      BY <2>1, <3>1 DEF FlagsNotPresent
    <3>3. \A f \in EntriesOf(table, o) : addr[f] # Null
      BY <1>5 DEF PacketFound, HkInv, PoolSound, EntriesOf
    <3>4. table[e].out # o
      BY <3>2, <3>3 DEF EntriesOf
    <3>5. since'[table[e].out] = since[table[e].out]
      BY <1>1, <2>1, <3>1, <3>4 DEF HkTypeOK
    <3> QED
      BY <3>1, <3>2, <3>5 DEF HkInv, PresentIsLast
  <2> QED
    BY <2>2, <2>3, <2>4, <2>5 DEF HkInv
<1> QED
  BY <1>4, <1>5

\* HK's start, with or without success.
LEMMA HkInvInit ==
  ASSUME HkInit
  PROVE  HkInv
<1>1. PICK t \in FirstTables : StartWith(t)
  BY DEF HkInit
<1>2. t \in [Entries -> Entry]
  BY HkAssumption
<1>3. /\ table = t /\ hkPipe = <<>> /\ pending = NoLoad /\ missing = 0
      /\ present = [e \in Entries |-> FALSE] /\ cell = [e \in Entries |-> Clear]
      /\ denied = {} /\ leaked = {} /\ since = NothingCame
  BY <1>1 DEF StartWith
<1>4. /\ missing \in 0 .. CtrMod - 1
      /\ hkPipe \in Seq(HkMessage) /\ Len(hkPipe) <= HkDepth
      /\ since \in [Outputs -> [Inputs -> Data \cup {Clear}]]
  BY <1>3, HkAssumption DEF NothingCame
<1>5. LeakedHeld /\ PresentIsLast
  BY <1>3 DEF LeakedHeld, PresentIsLast
<1>6. CASE StartFails
  <2>1. /\ run = "EXIT" /\ addr = [e \in Entries |-> Null] /\ pool = [b \in Buffers |-> Free]
        /\ refused = {} /\ subs = {} /\ sub = [e \in Entries |-> FALSE]
    BY <1>6 DEF StartFails
  <2>2. HkTypeOK
    BY <1>2, <1>3, <1>4, <2>1 DEF HkTypeOK
  <2>3. PoolSound /\ SubscriptionsSound /\ PlacesSound /\ FaultsExplained
    BY <2>1 DEF PoolSound, SubscriptionsSound, PlacesSound, FaultsExplained
  <2> QED
    BY <1>5, <2>2, <2>3 DEF HkInv
<1>7. CASE TableInit(t)
  <2> DEFINE freed == [b \in Buffers |-> Free]
  <2>1. /\ run \in {"RUN", "EXIT"} /\ subs = {m \in Inputs : Naming(t, m) # {}}
        /\ sub = [e \in Entries |-> t[e].in \in Inputs]
    BY <1>7 DEF TableInit
  <2>2. PICK place \in Placements(Served(t, {}), Buffers) :
          /\ addr = AddrWith(t, place) /\ pool = PoolWith(t, freed, place)
          /\ refused = {o \in Outputs : Builders(t, o) # {}} \ DOMAIN place
    BY <1>7 DEF TableInit, AddrWith, PoolWith
  <2>3. place \in Placements(Served(t, {}), {b \in Buffers : freed[b] = Free})
    <3>1. Buffers = {b \in Buffers : freed[b] = Free}
      OBVIOUS
    <3> QED
      BY <2>2, <3>1
  <2>4. freed \in [Buffers -> [out : Outputs, size : Nat] \cup {Free}]
    OBVIOUS
  <2>5. \A b \in Buffers : freed[b] = Free
    OBVIOUS
  <2> HIDE DEF freed
  <2>6. /\ addr \in [Entries -> Buffers \cup {Null}]
        /\ pool \in [Buffers -> [out : Outputs, size : Nat] \cup {Free}]
        /\ \A e \in Entries : addr[e] # Null =>
             /\ t[e].out \in Outputs /\ freed[addr[e]] = Free
             /\ pool[addr[e]] = BufferOf(t, t[e].out)
             /\ \A f \in EntriesOf(t, t[e].out) : addr[f] = addr[e]
        /\ \A e \in Entries : addr[e] = Null => t[e].out \notin DOMAIN place
        /\ \A b \in Buffers : pool[b] # freed[b] => \E e \in Entries : addr[e] = b
    BY <1>2, <2>2, <2>3, <2>4, BuffersOfNewTable
  <2>7. HkTypeOK
    BY <1>2, <1>3, <1>4, <2>1, <2>2, <2>6 DEF HkTypeOK
  <2>8. PoolSound
    <3>1. \A e \in Entries : BufferOf(t, t[e].out).out = t[e].out /\ BufferOf(t, t[e].out).size = SizeOfPacket(t, t[e].out)
      BY DEF BufferOf
    <3>2. \A e \in Entries : t[e].out \in Outputs => BufferOf(t, t[e].out) # Free
      BY HkAssumption DEF BufferOf, Free
    <3> QED
      BY <1>3, <2>5, <2>6, <3>1, <3>2 DEF PoolSound
  <2>9. SubscriptionsSound
    <3>1. \A e \in Entries : t[e].in \in Inputs => e \in Naming(t, t[e].in)
      BY DEF Naming
    <3> QED
      BY <1>3, <2>1, <3>1 DEF SubscriptionsSound
  <2>10. PlacesSound
    <3>1. SUFFICES ASSUME NEW e \in Entries, t[e].in # Reserved
                   PROVE  /\ addr[e] = Null => t[e].out = Reserved \/ t[e].out \in refused
                          /\ addr[e] # Null => t[e].to + t[e].n <= pool[addr[e]].size
      BY <1>3 DEF PlacesSound
    <3>2. t[e].out \in Outputs \cup {Reserved}
      BY <1>2 DEF Entry
    <3>3. e \in Builders(t, t[e].out) /\ e \in EntriesOf(t, t[e].out)
      BY <3>1 DEF Builders, EntriesOf
    <3>4. t[e].to + t[e].n <= SizeOfPacket(t, t[e].out)
      BY <1>2, <3>3, PacketHolds
    <3>5. BufferOf(t, t[e].out).size = SizeOfPacket(t, t[e].out)
      BY DEF BufferOf
    <3>6. addr[e] = Null => t[e].out = Reserved \/ t[e].out \in refused
      BY <2>2, <2>6, <3>2, <3>3
    <3>7. addr[e] # Null => t[e].to + t[e].n <= pool[addr[e]].size
      BY <2>6, <3>4, <3>5
    <3> QED
      BY <3>6, <3>7
  <2>11. FaultsExplained
    BY <2>1 DEF FaultsExplained
  <2> QED
    BY <1>5, <2>7, <2>8, <2>9, <2>10, <2>11 DEF HkInv
<1> QED
  BY <1>1, <1>6, <1>7 DEF StartWith

\* Every step keeps the invariant.
LEMMA HkInvStep ==
  ASSUME HkInv, [HkNext]_hkVars
  PROVE  HkInv'
<1>1. /\ HkTypeOK /\ missing \in 0 .. CtrMod - 1
      /\ hkPipe \in Seq(HkMessage) /\ Len(hkPipe) <= HkDepth
  BY DEF HkInv, HkTypeOK
<1>2. ASSUME NEW m \in Inputs, NEW d \in Data, Publish(m, d) PROVE HkInv'
  <2>1. [kind |-> "INPUT", mid |-> m, data |-> d] \in HkMessage
    BY DEF HkMessage
  <2>2. hkPipe' \in Seq(HkMessage) /\ Len(hkPipe') <= HkDepth
    BY <1>1, <1>2, <2>1, PostTyped DEF Publish
  <2> QED
    BY <1>1, <1>2, <2>2, QuietKeeps DEF Publish, Quiet
<1>3. ASSUME NEW msg \in HkMessage, Command(msg) PROVE HkInv'
  <2>1. hkPipe' \in Seq(HkMessage) /\ Len(hkPipe') <= HkDepth
    BY <1>1, <1>3, PostTyped DEF Command
  <2> QED
    BY <1>1, <1>3, <2>1, QuietKeeps DEF Command, Quiet
<1>4. ASSUME NEW kind, Ignored(kind) PROVE HkInv'
  BY <1>1, <1>4, TakesTyped, QuietKeeps DEF Ignored, Quiet
<1>5. CASE ResetCounters
  <2>1. missing' = 0 /\ 0 \in 0 .. CtrMod - 1
    BY <1>5, HkAssumption DEF ResetCounters
  <2> QED
    BY <1>1, <1>5, <2>1, TakesTyped, QuietKeeps DEF ResetCounters, Quiet
<1>6. ASSUME NEW t \in Tables, GroundLoad(t) PROVE HkInv'
  BY <1>1, <1>6, QuietKeeps DEF GroundLoad, Quiet
<1>7. CASE GroundActivate
  <2>1. pending \in [state : {"VALIDATION_PENDING", "VALID", "UPDATE_PENDING"}, table : Tables]
    BY <1>1, <1>7 DEF GroundActivate, HkTypeOK, NoLoad
  <2>2. pending' \in [state : {"VALIDATION_PENDING", "VALID", "UPDATE_PENDING"}, table : Tables]
    BY <1>7, <2>1 DEF GroundActivate
  <2> QED
    BY <1>1, <1>7, <2>2, QuietKeeps DEF GroundActivate, Quiet
<1>8. CASE UNCHANGED hkVars
  BY <1>1, <1>8, QuietKeeps DEF hkVars, Quiet
<1>9. ASSUME NEW o \in Outputs, Command([kind |-> "COMBINE", out |-> o]) PROVE HkInv'
  <2>1. [kind |-> "COMBINE", out |-> o] \in HkMessage
    BY DEF HkMessage
  <2> QED
    BY <1>3, <1>9, <2>1
<1>10. ASSUME NEW k \in {"HK_REQUEST", "RESET_COUNTERS", "NOOP", "WRONG_LENGTH"},
              Command([kind |-> k])
       PROVE  HkInv'
  <2>1. [kind |-> k] \in HkMessage
    BY DEF HkMessage
  <2> QED
    BY <1>3, <1>10, <2>1
<1>11. ASSUME NEW o \in Outputs, SendCombined(o) PROVE HkInv'
  BY <1>11, SendKeeps
<1>12. CASE ReceiveInput
  BY <1>12, ReceiveKeeps
<1>13. CASE NoopCmd \/ VerifyLengthFails
  BY <1>4, <1>13 DEF NoopCmd, VerifyLengthFails
<1>14. ASSUME NEW refuse \in SUBSET Entries, NEW deny \in SUBSET Entries,
              NEW keep \in SUBSET Entries, CheckStatusOfTables(refuse, deny, keep)
       PROVE  HkInv'
  BY <1>14, CheckKeeps
<1>15. CASE TablesFail
  BY <1>15, TablesFailKeeps
<1> QED
  BY <1>2, <1>5, <1>6, <1>7, <1>8, <1>9, <1>10, <1>11, <1>12, <1>13, <1>14, <1>15 DEF HkNext

-----------------------------------------------------------------------------
(***************************************************************************)
(* The theorems.                                                           *)
(***************************************************************************)

\* HK's invariant, from which the properties follow.
THEOREM HkInvariant == HkSpec => []HkInv
<1>1. HkInit => HkInv
  BY HkInvInit
<1>2. HkInv /\ [HkNext]_hkVars => HkInv'
  BY HkInvStep
<1> QED
  BY <1>1, <1>2, PTL DEF HkSpec

\* Types, for any table, pool and pipe.
THEOREM HkTypeCorrect == HkSpec => []HkTypeOK
<1>1. HkInv => HkTypeOK
  BY DEF HkInv
<1> QED
  BY <1>1, HkInvariant, PTL

\* Across any number of table loads, HK_ProcessNewCopyTable and
\* HK_TearDownOldCopyTable hold one block per combined packet, and leak none but
\* those the pool would not take back.
THEOREM PoolCorrect == HkSpec => []PoolSound
<1>1. HkInv => PoolSound
  BY DEF HkInv
<1> QED
  BY <1>1, HkInvariant, PTL

\* The subscriptions are those of the table at hand, whatever tables came before.
THEOREM SubscriptionsCorrect == HkSpec => []SubscriptionsSound
<1>1. HkInv => SubscriptionsSound
  BY DEF HkInv
<1> QED
  BY <1>1, HkInvariant, PTL

\* HK_ProcessIncomingHkData writes only to the place its entry has in its packet's
\* buffer, but for packets that got no buffer and inputs that have no packet.
THEOREM CopiesInPlace == HkSpec => []FaultsExplained
<1>1. HkInv => FaultsExplained
  BY DEF HkInv
<1> QED
  BY <1>1, HkInvariant, PTL

\* A combined packet that is not counted as missing data holds what its inputs
\* brought last, and something of each since the one before.
THEOREM CompletePacketsCurrent == HkSpec => CompleteIsCurrent
<1>1. ASSUME HkInv, [HkNext]_hkVars, NEW o \in Outputs, Combines(o), missing' = missing,
             NEW e \in EntriesOf(table, o)
      PROVE  table[e].in \in Inputs /\ cell[e] = since[o][table[e].in] /\ cell[e] # Clear
  <2>1. PacketFound(o) /\ (MissingData(o) => missing' = (missing + 1) % CtrMod)
    BY <1>1 DEF Combines, SendCombined
  <2>2. (missing + 1) % CtrMod # missing
    <3>1. missing \in 0 .. CtrMod - 1 /\ CtrMod \in Nat \ {0, 1}
      BY <1>1, HkAssumption DEF HkInv, HkTypeOK
    <3>2. CASE missing + 1 < CtrMod
      <4>1. (missing + 1) % CtrMod = missing + 1
        BY <3>1, <3>2
      <4> QED
        BY <3>1, <4>1
    <3>3. CASE missing + 1 = CtrMod
      <4>1. (missing + 1) % CtrMod = 0
        BY <3>1, <3>3
      <4> QED
        BY <3>1, <3>3, <4>1
    <3> QED
      BY <3>1, <3>2, <3>3
  <2>3. ~ MissingData(o)
    BY <1>1, <2>1, <2>2
  <2>4. \A f \in EntriesOf(table, o) : addr[f] # Null
    BY <1>1, <2>1 DEF PacketFound, HkInv, PoolSound, EntriesOf
  <2>5. e \in Entries /\ table[e].out = o /\ present[e]
    BY <1>1, <2>3, <2>4 DEF MissingData, EntriesOf
  <2> QED
    BY <1>1, <2>5 DEF HkInv, PresentIsLast
<1>2. HkInv /\ [HkNext]_hkVars =>
        [\A o \in Outputs : Combines(o) /\ missing' = missing =>
           \A e \in EntriesOf(table, o) :
             table[e].in \in Inputs /\ cell[e] = since[o][table[e].in] /\ cell[e] # Clear]_hkVars
  BY <1>1
<1> QED
  BY <1>2, HkInvariant, PTL DEF HkSpec, CompleteIsCurrent

=============================================================================
