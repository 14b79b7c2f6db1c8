---------------------------- MODULE DsFilterHash ----------------------------
(***************************************************************************)
(* DS's packet filter table and the hash table that indexes it: the ground *)
(* commands that add and remove a message ID (ds_cmds.c), table loads, and *)
(* the look-up every stored packet and filter command makes (ds_table.c).  *)
(*                                                                         *)
(* There is one hash link per filter table entry, so a link is named by    *)
(* its entry.  Unused entries carry the invalid message ID and sit in that *)
(* ID's list like any other.  A walk that never ends hangs the DS task.    *)
(***************************************************************************)
EXTENDS Integers, FiniteSets

CONSTANTS
  Mids,      \* message IDs, which are numbers
  CmdMid,    \* DS_CMD_MID: ground commands for DS
  SendHkMid, \* DS_SEND_HK_MID: requests for its housekeeping
  Invalid,   \* CFE_SB_INVALID_MSG_ID, which marks an unused entry
  NumBuckets, \* DS_HASH_TABLE_ENTRIES
  NumPackets, \* DS_PACKETS_IN_FILTER_TABLE
  Tables,    \* filter tables the ground may load
  Refusable  \* bound: message IDs the software bus may refuse to (un)subscribe

Entries == 1 .. NumPackets
Null    == 0    \* the null pointer, and DS_INDEX_NONE
Endless == -1   \* the walk does not come to an end

OwnMids == {CmdMid, SendHkMid}

\* DS_TableHashFunction keeps the low bits of a message ID, those of a bucket's
\* number.
Buckets   == 0 .. NumBuckets - 1
Hash(mid) == mid % NumBuckets

\* DS_TableVerifyFilter would accept a message ID in two entries; tables here
\* have it in one, like the one DS is shipped with.
ASSUME FilterAssumption ==
  /\ Invalid \notin Mids /\ OwnMids \cup Refusable \subseteq Mids
  /\ Mids \cup {Invalid} \subseteq Nat
  /\ NumBuckets \in Nat \ {0}
  /\ NumPackets \in Nat \ {0}
  /\ Tables \subseteq [Entries -> Mids \cup {Invalid}]
  /\ \A t \in Tables : \A i, j \in Entries : t[i] = t[j] /\ t[i] \in Mids => i = j

VARIABLES
  loaded,   \* FilterTblPtr is not NULL
  table,    \* FilterTblPtr->Packet[].MessageID
  head,     \* HashTable
  link,     \* HashLinks[].Next
  subs,     \* message IDs DS is subscribed to
  hung,     \* DS is in a walk without end
  refused   \* history: message IDs for which the bus has refused what DS asked last

vars == <<loaded, table, head, link, subs, hung, refused>>

MidsIn(t) == {t[i] : i \in Entries} \cap Mids

Init ==
  /\ loaded = FALSE
  /\ table = [i \in Entries |-> Invalid]
  /\ head = [b \in Buckets |-> Null]
  /\ link = [i \in Entries |-> Null]
  /\ subs = OwnMids
  /\ hung = FALSE
  /\ refused = {}

-----------------------------------------------------------------------------
(***************************************************************************)
(* The hash table.                                                         *)
(***************************************************************************)
Lowest(S) == CHOOSE i \in S : \A j \in S : i <= j

\* The link reached from a list's head by following Next k times.  A list that
\* has not ended after NumPackets steps has come back to one of its links.
Nth(b) ==
  LET nth[k \in 0 .. NumPackets] ==
        IF k = 0 THEN head[b]
        ELSE LET last == nth[k - 1] IN IF last = Null THEN Null ELSE link[last]
  IN nth

\* DS_TableFindMsgID: an entry with this ID, Null, or no answer at all.
FindMsgID(mid) ==
  LET nth   == Nth(Hash(mid))
      stops == {k \in 0 .. NumPackets : nth[k] = Null \/ table[nth[k]] = mid}
  IN IF stops = {} THEN Endless ELSE nth[Lowest(stops)]

\* The last link of a list, Null for an empty one.
LastLink(b) ==
  LET nth  == Nth(b)
      ends == {k \in 0 .. NumPackets : nth[k] = Null}
  IN IF ends = {} THEN Endless
     ELSE IF Lowest(ends) = 0 THEN Null ELSE nth[Lowest(ends) - 1]

\* Mutants: links counted from one, entries from zero; the new link goes behind
\* the first; its Next is cleared, which would end the hang that WalksEnd finds.
AddMsgIDOffByOne(mid, i) ==
  LET b    == Hash(mid)
      last == LastLink(b)
  IN /\ hung' = (last = Endless)
     /\ head' = IF last = Null THEN [head EXCEPT ![b] = i + 1] ELSE head
     /\ link' = IF last \in Entries THEN [link EXCEPT ![last] = i + 1] ELSE link
AddMsgIDBehindFirst(mid, i) ==
  LET b == Hash(mid)
  IN /\ hung' = FALSE
     /\ head' = IF head[b] = Null THEN [head EXCEPT ![b] = i] ELSE head
     /\ link' = IF head[b] # Null THEN [link EXCEPT ![head[b]] = i] ELSE link
AddMsgIDCleared(mid, i) ==
  LET b       == Hash(mid)
      last    == LastLink(b)
      cleared == [link EXCEPT ![i] = Null]
  IN /\ hung' = (last = Endless)
     /\ head' = IF last = Null THEN [head EXCEPT ![b] = i] ELSE head
     /\ link' = IF last \in Entries THEN [cleared EXCEPT ![last] = i] ELSE cleared

\* DS_TableAddMsgID: the entry's link goes to the end of the list, with whatever
\* Next it has.
AddMsgID(mid, i) ==
  LET b    == Hash(mid)
      last == LastLink(b)
  IN /\ hung' = (last = Endless)
     /\ head' = IF last = Null THEN [head EXCEPT ![b] = i] ELSE head
     /\ link' = IF last \in Entries THEN [link EXCEPT ![last] = i] ELSE link

\* DS_TableCreateHash: every entry is added, in order, to lists that are empty
\* and links that are clear.
CreateHash(t) ==
  LET after(b, i) == {j \in Entries : j > i /\ Hash(t[j]) = b}
      first(S)    == IF S = {} THEN Null ELSE Lowest(S)
  IN /\ head' = [b \in Buckets |-> first(after(b, 0))]
     /\ link' = [i \in Entries |-> first(after(Hash(t[i]), i))]

-----------------------------------------------------------------------------
(***************************************************************************)
(* What DS does.  A rejected command changes nothing here; DsFilter has    *)
(* the filter parameters; command counters are left out.                   *)
(***************************************************************************)

\* CFE_SB_SubscribeEx and CFE_SB_Unsubscribe can fail; DS does not look at what
\* they return.
Subscribe(mid) ==
  \/ subs' = subs \cup {mid} /\ refused' = refused \ {mid}
  \/ mid \in Refusable /\ refused' = refused \cup {mid} /\ UNCHANGED subs

Unsubscribe(mid) ==
  \/ subs' = subs \ {mid} /\ refused' = refused \ {mid}
  \/ mid \in Refusable /\ refused' = refused \cup {mid} /\ UNCHANGED subs

\* Mutant: the old table's subscriptions stay.
SubscribeOnly(t) ==
  \E deny \in SUBSET (MidsIn(t) \cap Refusable) :
    /\ subs' = subs \cup (MidsIn(t) \ (OwnMids \cup deny))
    /\ refused' = (refused \ MidsIn(t)) \cup (deny \ OwnMids)

\* DS_TableUnsubscribe for the old table, then DS_TableSubscribe for the new one:
\* they leave DS's own messages alone.  The bus keeps some of the old message IDs
\* subscribed and denies some of the new ones.
Resubscribe(t) ==
  LET old == MidsIn(table) \ OwnMids
      new == MidsIn(t) \ OwnMids
  IN \E keep \in SUBSET (old \cap Refusable), deny \in SUBSET (new \cap Refusable) :
       /\ subs' = (subs \ (old \ keep)) \cup (new \ deny)
       /\ refused' = (((refused \ old) \cup keep) \ new) \cup deny

\* DS_TableManageFilter, first load and update.
LoadTable(t) ==
  /\ ~ hung
  /\ loaded' = TRUE
  /\ table' = t
  /\ Resubscribe(t)
  /\ CreateHash(t)
  /\ UNCHANGED hung

Hang == hung' = TRUE /\ UNCHANGED <<loaded, table, head, link, subs, refused>>

Commandable == ~ hung /\ loaded /\ CmdMid \in subs

\* DS_AddMIDCmd.
AddMID(mid) ==
  /\ Commandable
  /\ LET found  == FindMsgID(mid)
         unused == FindMsgID(Invalid)
     IN \/ (found = Endless \/ (found = Null /\ unused = Endless)) /\ Hang
        \/ /\ found = Null
           /\ unused \in Entries
           /\ table' = [table EXCEPT ![unused] = mid]
           /\ AddMsgID(mid, unused)
           /\ IF hung' THEN UNCHANGED <<subs, refused>> ELSE Subscribe(mid)
           /\ UNCHANGED loaded

\* DS_RemoveMIDCmd.
RemoveMID(mid) ==
  /\ Commandable
  /\ LET found == FindMsgID(mid) IN
     \/ found = Endless /\ Hang
     \/ /\ found \in Entries
        /\ table' = [table EXCEPT ![found] = Invalid]
        /\ CreateHash(table')
        /\ Unsubscribe(mid)
        /\ UNCHANGED <<loaded, hung>>

\* The other filter commands, and a packet to be stored, only look the ID up.
LookUp(mid) ==
  /\ ~ hung /\ loaded /\ {mid, CmdMid} \cap subs # {}
  /\ FindMsgID(mid) = Endless
  /\ Hang

Next ==
  \/ \E t \in Tables : LoadTable(t)
  \/ \E mid \in Mids : AddMID(mid) \/ RemoveMID(mid) \/ LookUp(mid)

Spec == Init /\ [][Next]_vars

-----------------------------------------------------------------------------
(***************************************************************************)
(* Properties.                                                             *)
(***************************************************************************)
Pointers == Entries \cup {Null}

TypeOK ==
  /\ loaded \in BOOLEAN /\ hung \in BOOLEAN
  /\ table \in [Entries -> Mids \cup {Invalid}]
  /\ head \in [Buckets -> Pointers]
  /\ link \in [Entries -> Pointers]
  /\ subs \subseteq Mids /\ refused \subseteq Mids

\* Every message ID in the filter table is found, at its own entry, whatever
\* additions, removals and loads came before, so no packet DS subscribed to is
\* dropped for want of a filter entry, and none makes the look-up run forever.
PresentIsFound ==
  \A i \in Entries : table[i] \in Mids /\ ~ hung => FindMsgID(table[i]) = i

\* An addition is refused as "filter table is full" only when it is.
FullMeansFull ==
  loaded /\ FindMsgID(Invalid) = Null => \A i \in Entries : table[i] \in Mids

\* Beside its own messages DS receives exactly those its filter table asks for.
\* The exception: a message ID for which the bus refused the last subscription, or
\* the last end of one, and DS went on as if it had not.  It lasts until a later
\* load or command does for the message ID what was refused.
SubscribedIsFiltered ==
  ~ hung => \A mid \in Mids \ OwnMids :
              mid \in refused \/ (mid \in subs <=> mid \in MidsIn(table))

\* "Do not un-subscribe to unused or DS command packets": no command or load
\* leaves DS deaf to commands, or to requests for its housekeeping.
OwnMidsKept == OwnMids \subseteq subs

\* Every look-up and every insertion comes to the end of its list.
WalksEnd == ~ hung
=============================================================================
