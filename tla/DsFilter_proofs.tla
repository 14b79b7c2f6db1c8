--------------------------- MODULE DsFilter_proofs ---------------------------
(***************************************************************************)
(* Proofs about DsFilter and the DsFilterHash it builds on: what a look-up *)
(* finds in hash lists that additions may join to one another, what DS is  *)
(* subscribed to, and that what is stored is what the ground has ordered.  *)
(* They hold for every set of message IDs, table size, number of buckets   *)
(* and filter parameters the constants' assumptions allow.                 *)
(***************************************************************************)
EXTENDS DsFilter, WellFoundedInduction, TLAPS

-----------------------------------------------------------------------------
(***************************************************************************)
(* Least and greatest numbers.                                             *)
(***************************************************************************)
LEMMA LeastOne ==
  ASSUME NEW S \in SUBSET Nat, S # {}
  PROVE  \E n \in S : \A m \in S : n <= m
<1> DEFINE R == OpToRel(<, Nat)
<1>1. IsWellFoundedOn(R, Nat)
  BY NatLessThanWellFounded, Zenon
<1>2. \A x, y \in Nat : <<x, y>> \in R <=> x < y
  BY SMT DEF OpToRel
<1> HIDE DEF R
<1>3. PICK n \in S : \A m \in S : ~ <<m, n>> \in R
  BY <1>1, WFMin, Zenon
<1>4. n \in Nat /\ \A m \in S : m \in Nat /\ ~ m < n
  <2>1. \A m \in S : m \in Nat
    OBVIOUS
  <2> QED
    BY <1>2, <1>3, <2>1, Zenon
<1> QED
  BY <1>4

LEMMA GreatestOne ==
  ASSUME NEW b \in Nat, NEW S \in SUBSET (0 .. b), S # {}
  PROVE  \E n \in S : \A m \in S : m <= n
<1> DEFINE T == {b - n : n \in S}
<1>1. T \in SUBSET Nat /\ T # {}
  <2>1. \A n \in S : b - n \in Nat
    OBVIOUS
  <2>2. PICK n \in S : TRUE
    OBVIOUS
  <2> QED
    BY <2>1, <2>2
<1>2. PICK t \in T : \A u \in T : t <= u
  BY <1>1, LeastOne
<1>3. PICK n \in S : t = b - n
  BY <1>2
<1>4. ASSUME NEW m \in S PROVE m <= n
  BY <1>2, <1>3
<1> QED
  BY <1>4

LEMMA LowestIs ==
  ASSUME NEW S \in SUBSET Nat, S # {}
  PROVE  Lowest(S) \in S /\ \A m \in S : Lowest(S) <= m
BY LeastOne, Zenon DEF Lowest

-----------------------------------------------------------------------------
(***************************************************************************)
(* Walks: the links Nth goes through.                                      *)
(***************************************************************************)

\* A walk along links l from h.
IsWalk(f, h, l) ==
  /\ f \in [0 .. NumPackets -> Pointers]
  /\ f[0] = h
  /\ \A k \in 0 .. NumPackets - 1 : f[k + 1] = IF f[k] = Null THEN Null ELSE l[f[k]]

\* There is one along any links: else there were a first step up to which there is none.
LEMMA WalkExists ==
  ASSUME NEW h \in Pointers, NEW l \in [Entries -> Pointers]
  PROVE  \E f : IsWalk(f, h, l)
<1> DEFINE Upto(f, n) == /\ f \in [0 .. n -> Pointers] /\ f[0] = h
                         /\ \A k \in 0 .. n - 1 : f[k + 1] = IF f[k] = Null THEN Null ELSE l[f[k]]
           D == {n \in 0 .. NumPackets : ~ \E f : Upto(f, n)}
<1>1. NumPackets \in Nat \ {0}
  BY FilterAssumption
<1>2. D = {}
  <2>1. SUFFICES ASSUME D # {} PROVE FALSE
    OBVIOUS
  <2>2. PICK n \in D : \A x \in D : n <= x
    <3>1. D \in SUBSET Nat
      BY <1>1
    <3> QED
      BY <2>1, <3>1, LeastOne
  <2>3. n # 0
    <3>1. Upto([k \in 0 .. 0 |-> h], 0)
      OBVIOUS
    <3> QED
      BY <2>2, <3>1
  <2>4. n - 1 \in 0 .. NumPackets /\ n - 1 \notin D
    <3>1. n \in 0 .. NumPackets
      BY <2>2
    <3>2. n - 1 \in 0 .. NumPackets /\ ~ n <= n - 1
      BY <1>1, <2>3, <3>1
    <3> QED
      BY <2>2, <3>2
  <2>5. PICK f : Upto(f, n - 1)
    BY <2>4
  <2> DEFINE last == IF f[n - 1] = Null THEN Null ELSE l[f[n - 1]]
             g == [k \in 0 .. n |-> IF k = n THEN last ELSE f[k]]
  <2>6. n \in Nat \ {0} /\ f[n - 1] \in Pointers
    BY <1>1, <2>3, <2>5
  <2>7. last \in Pointers
    BY <2>6 DEF Pointers
  <2> HIDE DEF last
  <2>8. g \in [0 .. n -> Pointers]
    BY <2>5, <2>6, <2>7
  <2>9. g[0] = h /\ g[n] = last /\ \A k \in 0 .. n - 1 : g[k] = f[k]
    BY <2>5, <2>6
  <2>10. ASSUME NEW k \in 0 .. n - 1
         PROVE  g[k + 1] = IF g[k] = Null THEN Null ELSE l[g[k]]
    <3>1. CASE k = n - 1
      BY <2>6, <2>9, <3>1 DEF last
    <3>2. CASE k # n - 1
      <4>1. k \in 0 .. (n - 1) - 1 /\ k + 1 \in 0 .. n - 1
        BY <2>6, <3>2
      <4> QED
        BY <2>5, <2>9, <4>1
    <3> QED
      BY <3>1, <3>2
  <2> HIDE DEF g
  <2>11. Upto(g, n)
    BY <2>8, <2>9, <2>10
  <2> QED
    BY <2>2, <2>11
<1>3. \E f : Upto(f, NumPackets)
  BY <1>1, <1>2
<1> QED
  BY <1>3 DEF IsWalk

\* The list heads and links, without the rest of the state.
ListsOK == head \in [Buckets -> Pointers] /\ link \in [Entries -> Pointers]

Walks == \A b \in Buckets : IsWalk(Nth(b), head[b], link)

LEMMA NthWalks == ListsOK => Walks
<1> SUFFICES ASSUME ListsOK, NEW b \in Buckets PROVE IsWalk(Nth(b), head[b], link)
  BY DEF Walks
<1>1. NumPackets \in Nat \ {0}
  BY FilterAssumption
<1>2. PICK f : IsWalk(f, head[b], link)
  BY WalkExists DEF ListsOK
<1>3. f = [k \in 0 .. NumPackets |->
             IF k = 0 THEN head[b] ELSE IF f[k - 1] = Null THEN Null ELSE link[f[k - 1]]]
  <2>1. ASSUME NEW k \in 0 .. NumPackets
        PROVE  f[k] = IF k = 0 THEN head[b] ELSE IF f[k - 1] = Null THEN Null ELSE link[f[k - 1]]
    <3>1. CASE k = 0
      BY <1>2, <3>1 DEF IsWalk
    <3>2. CASE k # 0
      <4>1. k - 1 \in 0 .. NumPackets - 1 /\ (k - 1) + 1 = k
        BY <1>1, <3>2
      <4> QED
        BY <1>2, <3>2, <4>1 DEF IsWalk
    <3> QED
      BY <3>1, <3>2
  <2> QED
    BY <1>2, <2>1 DEF IsWalk
<1> DEFINE w == Nth(b)
<1>4. w = [k \in 0 .. NumPackets |->
             IF k = 0 THEN head[b] ELSE IF w[k - 1] = Null THEN Null ELSE link[w[k - 1]]]
  BY <1>3 DEF Nth
<1> HIDE DEF w
<1>5. w[0] = head[b]
  BY <1>1, <1>4
<1>6. ASSUME NEW k \in 0 .. NumPackets - 1
      PROVE  w[k + 1] = IF w[k] = Null THEN Null ELSE link[w[k]]
  BY <1>1, <1>4
\* It is the same walk, step by step.
<1>7. w = f
  <2> DEFINE D == {k \in 0 .. NumPackets : w[k] # f[k]}
  <2>1. D = {}
    <3>1. SUFFICES ASSUME D # {} PROVE FALSE
      OBVIOUS
    <3>2. PICK n \in D : \A x \in D : n <= x
      <4>1. D \in SUBSET Nat
        BY <1>1
      <4> QED
        BY <3>1, <4>1, LeastOne
    <3>3. n # 0
      BY <1>2, <1>5, <3>2 DEF IsWalk
    <3>4. n - 1 \in 0 .. NumPackets - 1 /\ (n - 1) + 1 = n /\ n - 1 \in 0 .. NumPackets
      BY <1>1, <3>2, <3>3
    <3>5. w[n - 1] = f[n - 1]
      BY <3>2, <3>4
    <3>6. w[n] = f[n]
      BY <1>2, <1>6, <3>4, <3>5 DEF IsWalk
    <3> QED
      BY <3>2, <3>6
  <2>2. \A k \in 0 .. NumPackets : w[k] = f[k]
    BY <2>1
  <2> QED
    BY <1>2, <1>4, <2>2 DEF IsWalk
<1> QED
  BY <1>2, <1>7 DEF w

\* A walk that has come to its end stays there.
LEMMA NullStays ==
  ASSUME NEW f, NEW h, NEW l, IsWalk(f, h, l), NEW k \in 0 .. NumPackets, f[k] = Null,
         NEW m \in 0 .. NumPackets, k <= m
  PROVE  f[m] = Null
<1> DEFINE D == {x \in k .. m : f[x] # Null}
<1>1. NumPackets \in Nat \ {0}
  BY FilterAssumption
<1>2. D = {}
  <2>1. SUFFICES ASSUME D # {} PROVE FALSE
    OBVIOUS
  <2>2. PICK n \in D : \A x \in D : n <= x
    <3>1. D \in SUBSET Nat
      OBVIOUS
    <3> QED
      BY <2>1, <3>1, LeastOne
  <2>3. n # k
    BY <2>2
  <2>4. n - 1 \in 0 .. NumPackets - 1 /\ (n - 1) + 1 = n /\ n - 1 \in k .. m
    BY <1>1, <2>2, <2>3
  <2>5. f[n - 1] = Null
    BY <2>2, <2>4
  <2> QED
    BY <2>2, <2>4, <2>5 DEF IsWalk
<1> QED
  BY <1>2

\* Links that lead somewhere lead there still: so do walks.
LEMMA WalksGrow ==
  ASSUME NEW f, NEW h, NEW l, IsWalk(f, h, l),
         NEW f2, NEW h2, NEW l2, IsWalk(f2, h2, l2),
         h # Null => h2 = h, \A i \in Entries : l[i] # Null => l2[i] = l[i],
         NEW k \in 0 .. NumPackets, f[k] # Null
  PROVE  f2[k] = f[k]
<1> DEFINE D == {x \in 0 .. NumPackets : f[x] # Null /\ f2[x] # f[x]}
<1>1. NumPackets \in Nat \ {0}
  BY FilterAssumption
<1>2. D = {}
  <2>1. SUFFICES ASSUME D # {} PROVE FALSE
    OBVIOUS
  <2>2. PICK n \in D : \A x \in D : n <= x
    <3>1. D \in SUBSET Nat
      BY <1>1
    <3> QED
      BY <2>1, <3>1, LeastOne
  <2>3. n # 0
    BY <2>2 DEF IsWalk
  <2>4. n - 1 \in 0 .. NumPackets - 1 /\ (n - 1) + 1 = n /\ n - 1 \in 0 .. NumPackets
    BY <1>1, <2>2, <2>3
  <2>5. f[n] = IF f[n - 1] = Null THEN Null ELSE l[f[n - 1]]
    BY <2>4 DEF IsWalk
  <2>6. f[n - 1] # Null /\ f[n] = l[f[n - 1]] /\ f[n] # Null
    BY <2>2, <2>5
  <2>7. f2[n - 1] = f[n - 1]
    BY <2>2, <2>4, <2>6
  <2>8. f[n - 1] \in Entries
    BY <2>4, <2>6 DEF IsWalk, Pointers
  <2>9. f2[n] = l2[f[n - 1]]
    BY <2>4, <2>6, <2>7 DEF IsWalk
  <2> QED
    BY <2>2, <2>6, <2>8, <2>9
<1> QED
  BY <1>2

-----------------------------------------------------------------------------
(***************************************************************************)
(* Look-ups.                                                               *)
(***************************************************************************)
LEMMA HashIs ==
  ASSUME NEW mid \in Mids \cup {Invalid}
  PROVE  Hash(mid) \in Buckets
BY FilterAssumption DEF Hash, Buckets

\* The list of an entry's ID leads to it.
Reached(i) == \E k \in 0 .. NumPackets : Nth(Hash(table[i]))[k] = i

LEMMA NullIsNone == Null \notin Entries /\ Endless \notin Entries /\ Null # Endless
BY DEF Null, Endless, Entries

\* A look-up ends at an entry with the ID, at the end of its list, or not at all.
LEMMA FindIs ==
  ASSUME Walks, NEW mid \in Mids \cup {Invalid}
  PROVE  /\ FindMsgID(mid) \in Pointers \cup {Endless}
         /\ FindMsgID(mid) \in Entries => table[FindMsgID(mid)] = mid
         /\ \A i \in Entries : table[i] = mid /\ Reached(i) => FindMsgID(mid) \in Entries
<1> DEFINE nth   == Nth(Hash(mid))
           stops == {k \in 0 .. NumPackets : nth[k] = Null \/ table[nth[k]] = mid}
<1>1. IsWalk(nth, head[Hash(mid)], link)
  BY HashIs DEF Walks
<1>2. FindMsgID(mid) = IF stops = {} THEN Endless ELSE nth[Lowest(stops)]
  BY DEF FindMsgID
<1>3. NumPackets \in Nat \ {0} /\ stops \in SUBSET Nat
  BY FilterAssumption
<1>4. stops # {} => Lowest(stops) \in stops /\ \A m \in stops : Lowest(stops) <= m
  BY <1>3, LowestIs
<1>5. \A k \in 0 .. NumPackets : nth[k] \in Pointers
  BY <1>1 DEF IsWalk
<1>6. FindMsgID(mid) \in Pointers \cup {Endless}
  BY <1>2, <1>4, <1>5
<1>7. ASSUME FindMsgID(mid) \in Entries PROVE table[FindMsgID(mid)] = mid
  BY <1>2, <1>4, <1>7, NullIsNone
<1>8. ASSUME NEW i \in Entries, table[i] = mid, Reached(i) PROVE FindMsgID(mid) \in Entries
  <2>1. PICK k \in 0 .. NumPackets : nth[k] = i
    BY <1>8 DEF Reached
  <2>2. k \in stops
    BY <1>8, <2>1
  <2> HIDE DEF stops
  <2> DEFINE low == Lowest(stops)
  <2>3. low \in stops /\ low <= k
    BY <1>4, <2>2
  <2>4. low \in 0 .. NumPackets
    BY <2>3 DEF stops
  <2> HIDE DEF low
  <2>5. nth[low] # Null
    BY <1>1, <2>1, <2>3, <2>4, NullStays, NullIsNone
  <2>6. FindMsgID(mid) = nth[low]
    BY <1>2, <2>3 DEF low
  <2> QED
    BY <1>5, <2>4, <2>5, <2>6 DEF Pointers
<1> QED
  BY <1>6, <1>7, <1>8

\* A list's last link: its walk ends right behind it.
LEMMA LastIs ==
  ASSUME Walks, NEW b \in Buckets
  PROVE  \/ LastLink(b) = Endless
         \/ LastLink(b) = Null /\ head[b] = Null
         \/ /\ LastLink(b) \in Entries /\ link[LastLink(b)] = Null
            /\ head[b] # Null
            /\ \E k \in 0 .. NumPackets - 1 : Nth(b)[k] = LastLink(b)
<1> DEFINE nth  == Nth(b)
           ends == {k \in 0 .. NumPackets : nth[k] = Null}
           low  == Lowest(ends)
<1>1. IsWalk(nth, head[b], link)
  BY DEF Walks
<1>2. NumPackets \in Nat \ {0} /\ ends \in SUBSET Nat
  BY FilterAssumption
<1>3. LastLink(b) = IF ends = {} THEN Endless ELSE IF low = 0 THEN Null ELSE nth[low - 1]
  BY DEF LastLink
<1>4. ends # {} => low \in ends /\ \A m \in ends : low <= m
  BY <1>2, LowestIs
<1>5. CASE ends # {} /\ low # 0
  <2>1. low \in 0 .. NumPackets /\ nth[low] = Null
    BY <1>4, <1>5
  <2>2. low - 1 \in 0 .. NumPackets - 1 /\ (low - 1) + 1 = low /\ low - 1 \in 0 .. NumPackets
    BY <1>2, <1>5, <2>1
  <2>3. nth[low - 1] # Null
    BY <1>4, <1>5, <2>2
  <2>4. head[b] # Null
    <3>1. 0 \in 0 .. NumPackets /\ nth[0] = head[b]
      BY <1>1, <1>2 DEF IsWalk
    <3> QED
      BY <1>4, <1>5, <2>1, <3>1
  <2>5. LastLink(b) = nth[low - 1]
    BY <1>3, <1>5
  <2> HIDE DEF low, ends
  <2>6. nth[low - 1] \in Entries
    BY <1>1, <2>2, <2>3 DEF IsWalk, Pointers
  <2>7. link[nth[low - 1]] = Null
    BY <1>1, <2>1, <2>2, <2>3 DEF IsWalk
  <2> QED
    BY <2>2, <2>4, <2>5, <2>6, <2>7
<1>6. CASE ends # {} /\ low = 0
  BY <1>1, <1>3, <1>4, <1>6 DEF IsWalk
<1> QED
  BY <1>3, <1>5, <1>6

-----------------------------------------------------------------------------
(***************************************************************************)
(* Lists that grow and lists made anew.                                    *)
(***************************************************************************)

\* An insertion leads every walk at least as far as before, and to the new link.
LEMMA AddLeads ==
  ASSUME ListsOK, NEW mid \in Mids, NEW i \in Entries, AddMsgID(mid, i)
  PROVE  /\ ListsOK'
         /\ \A b \in Buckets : \A k \in 0 .. NumPackets :
              Nth(b)[k] # Null => Nth(b)'[k] = Nth(b)[k]
         /\ ~hung' => \E k \in 0 .. NumPackets : Nth(Hash(mid))'[k] = i
<1> DEFINE h    == Hash(mid)
           last == LastLink(h)
<1>1. h \in Buckets
  BY HashIs
<1> HIDE DEF h
<1>2. Walks
  BY NthWalks
<1>3. \/ last = Endless
      \/ last = Null /\ head[h] = Null
      \/ /\ last \in Entries /\ link[last] = Null /\ head[h] # Null
         /\ \E k \in 0 .. NumPackets - 1 : Nth(h)[k] = last
  BY <1>1, <1>2, LastIs
<1>4. /\ hung' = (last = Endless)
      /\ head' = IF last = Null THEN [head EXCEPT ![h] = i] ELSE head
      /\ link' = IF last \in Entries THEN [link EXCEPT ![last] = i] ELSE link
  BY DEF AddMsgID, h
<1> HIDE DEF last
<1>5. ListsOK'
  BY <1>4 DEF ListsOK, Pointers
<1>6. Walks'
  BY <1>5, NthWalks, PTL
<1>7. \A j \in Entries : link[j] # Null => link'[j] = link[j]
  BY <1>3, <1>4, NullIsNone DEF ListsOK
<1>8. \A b \in Buckets : head[b] # Null => head'[b] = head[b]
  BY <1>1, <1>3, <1>4, NullIsNone DEF ListsOK
<1>9. ASSUME NEW b \in Buckets, NEW k \in 0 .. NumPackets, Nth(b)[k] # Null
      PROVE  Nth(b)'[k] = Nth(b)[k]
  <2>1. IsWalk(Nth(b), head[b], link)
    BY <1>2 DEF Walks
  <2>2. IsWalk(Nth(b)', head'[b], link')
    BY <1>6 DEF Walks
  <2>3. head[b] # Null => head'[b] = head[b]
    BY <1>8
  <2> QED
    BY <1>7, <1>9, <2>1, <2>2, <2>3, WalksGrow
<1>10. ASSUME ~hung' PROVE \E k \in 0 .. NumPackets : Nth(h)'[k] = i
  <2>1. IsWalk(Nth(h)', head'[h], link')
    BY <1>1, <1>6 DEF Walks
  <2>2. NumPackets \in Nat \ {0}
    BY FilterAssumption
  <2>3. CASE last = Null /\ head[h] = Null
    <3>1. head'[h] = i
      BY <1>1, <1>4, <2>3 DEF ListsOK
    <3> QED
      BY <2>1, <2>2, <3>1 DEF IsWalk
  <2>4. ASSUME last \in Entries, NEW k \in 0 .. NumPackets - 1, Nth(h)[k] = last
        PROVE  \E n \in 0 .. NumPackets : Nth(h)'[n] = i
    <3>1. k \in 0 .. NumPackets /\ k + 1 \in 0 .. NumPackets
      BY <2>2
    <3>2. Nth(h)'[k] = last /\ last # Null
      BY <1>1, <1>9, <2>4, <3>1, NullIsNone
    <3>3. link'[last] = i
      BY <1>4, <2>4 DEF ListsOK
    <3>4. Nth(h)'[k + 1] = i
      BY <2>1, <3>2, <3>3 DEF IsWalk
    <3> QED
      BY <3>1, <3>4
  <2>5. last # Endless
    BY <1>4, <1>10
  <2> QED
    BY <1>3, <2>3, <2>4, <2>5
<1> QED
  BY <1>5, <1>9, <1>10 DEF h

\* Lists made anew lead to every entry: else there were a first one none leads to.
LEMMA CreateLeads ==
  ASSUME NEW t \in [Entries -> Mids \cup {Invalid}], CreateHash(t)
  PROVE  /\ ListsOK'
         /\ \A i \in Entries : \E k \in 0 .. NumPackets : Nth(Hash(t[i]))'[k] = i
<1> DEFINE after(b, i) == {j \in Entries : j > i /\ Hash(t[j]) = b}
           first(S)    == IF S = {} THEN Null ELSE Lowest(S)
<1>1. /\ head' = [b \in Buckets |-> first(after(b, 0))]
      /\ link' = [i \in Entries |-> first(after(Hash(t[i]), i))]
  BY DEF CreateHash
<1>2. NumPackets \in Nat \ {0} /\ Entries \subseteq Nat
  BY FilterAssumption DEF Entries
<1>3. \A b, i : after(b, i) \in SUBSET Entries
  OBVIOUS
<1>4. ASSUME NEW S \in SUBSET Entries
      PROVE  first(S) \in Pointers /\ (S # {} => first(S) \in S /\ \A m \in S : first(S) <= m)
  <2>1. S \in SUBSET Nat
    BY <1>2
  <2> QED
    BY <2>1, LowestIs DEF Pointers
<1> HIDE DEF first
<1>5. ListsOK'
  <2>1. \A b \in Buckets : first(after(b, 0)) \in Pointers
    BY <1>3, <1>4
  <2>2. \A i \in Entries : first(after(Hash(t[i]), i)) \in Pointers
    BY <1>3, <1>4
  <2> HIDE DEF after
  <2> QED
    BY <1>1, <2>1, <2>2 DEF ListsOK
<1>6. Walks'
  BY <1>5, NthWalks, PTL
<1> DEFINE Leads(i) == \E k \in 0 .. i - 1 : Nth(Hash(t[i]))'[k] = i
           D == {i \in Entries : ~ Leads(i)}
<1>7. D = {}
  <2>1. SUFFICES ASSUME D # {} PROVE FALSE
    OBVIOUS
  <2>2. PICK i \in D : \A x \in D : i <= x
    <3>1. D \in SUBSET Nat
      BY <1>2
    <3> QED
      BY <2>1, <3>1, LeastOne
  <2> DEFINE b == Hash(t[i])
             S == {j \in Entries : j < i /\ Hash(t[j]) = b}
  <2>3. b \in Buckets /\ i \in Entries /\ i \in Nat /\ i >= 1 /\ i <= NumPackets
    BY <1>2, <2>2, HashIs DEF Entries
  <2>4. IsWalk(Nth(b)', head'[b], link')
    BY <1>6, <2>3 DEF Walks
  <2>5. CASE S = {}
    <3>1. i \in after(b, 0) /\ \A j \in after(b, 0) : j >= i
      BY <1>2, <2>3, <2>5
    <3>2. first(after(b, 0)) \in after(b, 0) /\ first(after(b, 0)) <= i
      BY <1>3, <1>4, <3>1
    <3>3. first(after(b, 0)) = i
      <4> DEFINE x == first(after(b, 0))
      <4>1. x \in after(b, 0) /\ x <= i
        BY <3>2
      <4>2. x \in Nat
        BY <1>2, <4>1
      <4>3. x >= i
        BY <3>1, <4>1
      <4> HIDE DEF x
      <4>4. x = i
        BY <2>3, <4>1, <4>2, <4>3
      <4> QED
        BY <4>4 DEF x
    <3>4. Nth(b)'[0] = i
      BY <1>1, <2>3, <2>4, <3>3 DEF IsWalk
    <3> QED
      BY <2>2, <2>3, <3>4
  <2>6. CASE S # {}
    <3>1. S \in SUBSET (0 .. NumPackets)
      BY <1>2 DEF Entries
    <3>2. PICK j \in S : \A m \in S : m <= j
      BY <1>2, <2>6, <3>1, GreatestOne
    <3>3. j \in Entries /\ j \in Nat /\ j >= 1 /\ j < i /\ Hash(t[j]) = b
      BY DEF Entries
    <3>4. Leads(j)
      BY <2>2, <2>3, <3>3
    <3>5. PICK k \in 0 .. j - 1 : Nth(b)'[k] = j
      BY <3>3, <3>4
    <3>6. k \in 0 .. NumPackets - 1 /\ k + 1 \in 0 .. i - 1
      BY <1>2, <2>3, <3>3
    <3>7. i \in after(b, j) /\ \A m \in after(b, j) : m >= i
      BY <1>2, <2>3, <3>2, <3>3
    <3>8. first(after(b, j)) \in after(b, j) /\ first(after(b, j)) <= i
      BY <1>3, <1>4, <3>7
    <3>9. first(after(b, j)) = i
      <4> DEFINE x == first(after(b, j))
      <4>1. x \in after(b, j) /\ x <= i
        BY <3>8
      <4>2. x \in Nat
        BY <1>2, <4>1
      <4>3. x >= i
        BY <3>7, <4>1
      <4> HIDE DEF x
      <4>4. x = i
        BY <2>3, <4>1, <4>2, <4>3
      <4> QED
        BY <4>4 DEF x
    <3>10. link'[j] = i
      BY <1>1, <3>3, <3>9
    <3>11. Nth(b)'[k + 1] = i
      BY <2>4, <3>3, <3>5, <3>6, <3>10, NullIsNone DEF IsWalk
    <3> QED
      BY <2>2, <2>3, <3>6, <3>11
  <2> QED
    BY <2>5, <2>6
<1>8. ASSUME NEW i \in Entries PROVE \E k \in 0 .. NumPackets : Nth(Hash(t[i]))'[k] = i
  <2>1. Leads(i)
    BY <1>7
  <2>2. 0 .. i - 1 \subseteq 0 .. NumPackets
    BY <1>2 DEF Entries
  <2> QED
    BY <2>1, <2>2
<1> QED
  BY <1>5, <1>8

-----------------------------------------------------------------------------
(***************************************************************************)
(* The invariant of the table, its lists and the subscriptions.            *)
(***************************************************************************)

\* No message ID has two entries.
Unique == \A i, j \in Entries : table[i] = table[j] /\ table[i] \in Mids => i = j

\* Every entry can be reached, whichever lists additions have joined; an addition
\* that hangs DS leaves the entry it was about to link, and no unused one, behind.
ListsLead == loaded => \A i \in Entries : table[i] = Invalid \/ ~hung => Reached(i)

\* Before the first load there is nothing to find.
EmptyBefore == ~loaded => \A i \in Entries : table[i] = Invalid

HashInv == TypeOK /\ Unique /\ ListsLead /\ EmptyBefore /\ SubscribedIsFiltered

\* A load puts the subscriptions of the old table's message IDs and of the new
\* table's right, where the bus lets it.
LEMMA Resubscribes ==
  ASSUME subs \subseteq Mids, refused \subseteq Mids, ~ hung, SubscribedIsFiltered,
         NEW t, table' = t, Resubscribe(t)
  PROVE  subs' \subseteq Mids /\ refused' \subseteq Mids /\ SubscribedIsFiltered'
<1> DEFINE old == MidsIn(table) \ OwnMids
           new == MidsIn(t) \ OwnMids
<1>1. PICK keep \in SUBSET (old \cap Refusable), deny \in SUBSET (new \cap Refusable) :
        /\ subs' = (subs \ (old \ keep)) \cup (new \ deny)
        /\ refused' = (((refused \ old) \cup keep) \ new) \cup deny
  BY DEF Resubscribe
<1>2. MidsIn(table) \subseteq Mids /\ MidsIn(t) \subseteq Mids /\ MidsIn(table') = MidsIn(t)
  BY DEF MidsIn
<1>3. ASSUME NEW mid \in Mids \ OwnMids, mid \notin refused'
      PROVE  mid \in subs' <=> mid \in MidsIn(table')
  <2>1. mid \in new <=> mid \in MidsIn(table')
    BY <1>2, <1>3
  <2>2. mid \in new => mid \in subs'
    BY <1>1, <1>3
  <2>3. ASSUME mid \notin new, mid \in subs' PROVE FALSE
    <3>1. (mid \in subs /\ mid \notin old) \/ mid \in keep
      BY <1>1, <2>3
    <3>2. mid \notin keep
      BY <1>1, <1>3, <2>3
    <3>3. mid \notin refused
      BY <1>1, <1>3, <2>3, <3>1, <3>2
    <3> QED
      BY <1>3, <3>1, <3>2, <3>3 DEF SubscribedIsFiltered
  <2> QED
    BY <2>1, <2>2, <2>3
<1> QED
  BY <1>1, <1>2, <1>3 DEF SubscribedIsFiltered

LEMMA LoadKeeps ==
  ASSUME HashInv, NEW t \in Tables, LoadTable(t)
  PROVE  HashInv'
<1>1. t \in [Entries -> Mids \cup {Invalid}]
      /\ \A i, j \in Entries : t[i] = t[j] /\ t[i] \in Mids => i = j
  BY FilterAssumption
<1>2. loaded' = TRUE /\ table' = t /\ hung' = hung /\ ~hung /\ CreateHash(t) /\ Resubscribe(t)
  BY DEF LoadTable
<1>3. /\ ListsOK'
      /\ \A i \in Entries : \E k \in 0 .. NumPackets : Nth(Hash(t[i]))'[k] = i
  BY <1>1, <1>2, CreateLeads
<1>4. subs' \subseteq Mids /\ refused' \subseteq Mids /\ SubscribedIsFiltered'
  BY <1>2, Resubscribes DEF HashInv, TypeOK
<1>5. TypeOK'
  BY <1>1, <1>2, <1>3, <1>4 DEF HashInv, TypeOK, ListsOK
<1>6. Unique'
  BY <1>1, <1>2 DEF Unique
<1>7. \A i \in Entries : Reached(i)'
  <2>1. \A i \in Entries : Nth(Hash(table[i]))' = Nth(Hash(t[i]))'
    BY <1>2, ZenonT(30) DEF Hash, Nth
  <2> QED
    BY <1>3, <2>1 DEF Reached
<1> QED
  BY <1>2, <1>4, <1>5, <1>6, <1>7 DEF HashInv, ListsLead, EmptyBefore

LEMMA HangKeeps ==
  ASSUME HashInv, Hang
  PROVE  HashInv'
<1>1. hung' = TRUE /\ UNCHANGED <<loaded, table, head, link, subs, refused>>
  BY DEF Hang
<1>2. TypeOK' /\ Unique' /\ SubscribedIsFiltered' /\ EmptyBefore'
  BY <1>1 DEF HashInv, TypeOK, Unique, SubscribedIsFiltered, EmptyBefore
<1>3. \A i \in Entries : Reached(i) => Reached(i)'
  BY <1>1, ZenonT(30) DEF Reached, Hash, Nth
<1> QED
  BY <1>1, <1>2, <1>3 DEF HashInv, ListsLead

LEMMA AddKeeps ==
  ASSUME HashInv, NEW mid \in Mids, AddMID(mid)
  PROVE  HashInv'
<1> DEFINE unused == FindMsgID(Invalid)
<1>1. CASE Hang
  BY <1>1, HangKeeps
<1>2. CASE ~Hang
  <2>1. /\ ~hung /\ loaded /\ FindMsgID(mid) = Null
        /\ unused \in Entries /\ table' = [table EXCEPT ![unused] = mid]
        /\ AddMsgID(mid, unused)
        /\ IF hung' THEN UNCHANGED <<subs, refused>> ELSE Subscribe(mid)
        /\ loaded' = loaded
    BY <1>2 DEF AddMID, Commandable
  <2>2. ListsOK
    BY DEF HashInv, TypeOK, ListsOK
  <2>3. Walks
    BY <2>2, NthWalks
  <2>4. table[unused] = Invalid
    BY <2>1, <2>3, FindIs
  <2> HIDE DEF unused
  <2>5. \A i \in Entries : table[i] # mid
    <3>1. \A i \in Entries : Reached(i)
      BY <2>1 DEF HashInv, ListsLead
    <3> QED
      BY <2>1, <2>3, <3>1, FindIs, NullIsNone
  <2>6. Invalid \notin Mids
    BY FilterAssumption
  <2>7. /\ ListsOK'
        /\ \A b \in Buckets : \A k \in 0 .. NumPackets :
             Nth(b)[k] # Null => Nth(b)'[k] = Nth(b)[k]
        /\ ~hung' => \E k \in 0 .. NumPackets : Nth(Hash(mid))'[k] = unused
    BY <2>1, <2>2, AddLeads
  <2>8. /\ table'[unused] = mid
        /\ \A i \in Entries \ {unused} : table'[i] = table[i]
        /\ table \in [Entries -> Mids \cup {Invalid}]
        /\ table' \in [Entries -> Mids \cup {Invalid}]
    BY <2>1 DEF HashInv, TypeOK
  <2>9. TypeOK'
    <3>1. hung' \in BOOLEAN /\ subs' \subseteq Mids /\ refused' \subseteq Mids
      BY <2>1 DEF AddMsgID, HashInv, TypeOK, Subscribe
    <3> QED
      BY <2>1, <2>7, <2>8, <3>1 DEF HashInv, TypeOK, ListsOK
  <2>10. Unique'
    BY <2>5, <2>8 DEF HashInv, Unique
  <2>11. ASSUME NEW i \in Entries, NEW b \in Buckets, b = Hash(table'[i]),
                NEW k \in 0 .. NumPackets, Nth(b)'[k] = i
         PROVE  Reached(i)'
    <3>1. Nth(Hash(table[i]))' = Nth(b)'
      BY <2>11, ZenonT(30) DEF Hash, Nth
    <3> QED
      BY <2>11, <3>1 DEF Reached
  <2>12. ASSUME NEW i \in Entries \ {unused} PROVE Reached(i)'
    <3>1. PICK k \in 0 .. NumPackets : Nth(Hash(table[i]))[k] = i
      BY <2>1 DEF HashInv, ListsLead, Reached
    <3>2. PICK b \in Buckets : b = Hash(table[i])
      BY <2>8, HashIs
    <3>3. Nth(b)'[k] = i
      BY <2>7, <3>1, <3>2, NullIsNone
    <3>4. b = Hash(table'[i])
      BY <2>8, <3>2
    <3> QED
      BY <2>11, <3>3, <3>4
  <2>13. ASSUME ~hung', NEW i \in Entries, i = unused PROVE Reached(i)'
    <3>1. PICK k \in 0 .. NumPackets : Nth(Hash(mid))'[k] = i
      BY <2>7, <2>13
    <3>2. Hash(mid) \in Buckets /\ Hash(mid) = Hash(table'[i])
      BY <2>8, <2>13, HashIs
    <3> QED
      BY <2>11, <3>1, <3>2
  <2>14. ListsLead'
    <3>1. ASSUME NEW i \in Entries, table'[i] = Invalid \/ ~hung' PROVE Reached(i)'
      BY <2>6, <2>8, <2>12, <2>13, <3>1
    <3> QED
      BY <3>1 DEF ListsLead
  <2>15. SubscribedIsFiltered'
    <3>1. MidsIn(table') = MidsIn(table) \cup {mid}
      BY <2>1, <2>4, <2>6, <2>8 DEF MidsIn
    <3> QED
      BY <2>1, <3>1 DEF HashInv, SubscribedIsFiltered, Subscribe
  <2>16. EmptyBefore'
    BY <2>1 DEF EmptyBefore
  <2> QED
    BY <2>9, <2>10, <2>14, <2>15, <2>16 DEF HashInv
<1> QED
  BY <1>1, <1>2
LEMMA RemoveKeeps ==
  ASSUME HashInv, NEW mid \in Mids, RemoveMID(mid)
  PROVE  HashInv'
<1> DEFINE found == FindMsgID(mid)
<1>1. CASE Hang
  BY <1>1, HangKeeps
<1>2. CASE ~Hang
  <2>1. /\ ~hung /\ loaded /\ found \in Entries
        /\ table' = [table EXCEPT ![found] = Invalid]
        /\ CreateHash(table')
        /\ Unsubscribe(mid) /\ loaded' = loaded /\ hung' = hung
    BY <1>2 DEF RemoveMID, Commandable
  <2>2. Walks
    <3>1. ListsOK
      BY DEF HashInv, TypeOK, ListsOK
    <3> QED
      BY <3>1, NthWalks
  <2>3. table[found] = mid
    BY <2>1, <2>2, FindIs
  <2> HIDE DEF found
  <2>4. Invalid \notin Mids
    BY FilterAssumption
  <2>5. /\ table'[found] = Invalid
        /\ \A i \in Entries \ {found} : table'[i] = table[i] /\ table[i] # mid
        /\ table \in [Entries -> Mids \cup {Invalid}]
        /\ table' \in [Entries -> Mids \cup {Invalid}]
    BY <2>1, <2>3 DEF HashInv, TypeOK, Unique
  <2>6. PICK t \in [Entries -> Mids \cup {Invalid}] : t = table'
    BY <2>5
  <2>7. /\ ListsOK'
        /\ \A i \in Entries : \E k \in 0 .. NumPackets : Nth(Hash(t[i]))'[k] = i
    <3>1. CreateHash(t)
      BY <2>1, <2>6
    <3> QED
      BY <3>1, CreateLeads
  <2>8. TypeOK'
    BY <2>1, <2>5, <2>7 DEF HashInv, TypeOK, ListsOK, Unsubscribe
  <2>9. Unique'
    BY <2>4, <2>5 DEF HashInv, Unique
  <2>10. \A i \in Entries : Reached(i)'
    <3>1. \A i \in Entries : Nth(Hash(table[i]))' = Nth(Hash(t[i]))'
      BY <2>6, ZenonT(30) DEF Hash, Nth
    <3> QED
      BY <2>7, <3>1 DEF Reached
  <2>11. SubscribedIsFiltered'
    <3>1. MidsIn(table') = MidsIn(table) \ {mid}
      BY <2>1, <2>3, <2>4, <2>5 DEF MidsIn
    <3> QED
      BY <2>1, <3>1 DEF HashInv, SubscribedIsFiltered, Unsubscribe
  <2>12. EmptyBefore'
    BY <2>1 DEF EmptyBefore
  <2> QED
    BY <2>8, <2>9, <2>10, <2>11, <2>12 DEF HashInv, ListsLead
<1> QED
  BY <1>1, <1>2

LEMMA HashInit == Init => HashInv
<1> SUFFICES ASSUME Init PROVE HashInv
  OBVIOUS
<1>1. TypeOK
  BY FilterAssumption DEF Init, TypeOK, Pointers, OwnMids
<1>2. \A i \in Entries : table[i] \notin Mids
  BY FilterAssumption DEF Init
<1>3. MidsIn(table) = {}
  BY <1>2 DEF MidsIn
<1> QED
  BY <1>1, <1>2, <1>3
  DEF Init, HashInv, Unique, ListsLead, EmptyBefore, SubscribedIsFiltered

LEMMA HashStays ==
  ASSUME HashInv, UNCHANGED vars
  PROVE  HashInv'
<1>1. TypeOK' /\ Unique' /\ SubscribedIsFiltered' /\ EmptyBefore'
  BY DEF vars, HashInv, TypeOK, Unique, SubscribedIsFiltered, EmptyBefore
<1>2. \A i \in Entries : Reached(i) => Reached(i)'
  <2>1. UNCHANGED <<table, head, link>>
    BY DEF vars
  <2> QED
    BY <2>1, ZenonT(30) DEF Reached, Hash, Nth
<1> QED
  BY <1>1, <1>2 DEF vars, HashInv, ListsLead

LEMMA HashInvariance == Spec => []HashInv
<1>1. HashInv /\ [Next]_vars => HashInv'
  <2> SUFFICES ASSUME HashInv, [Next]_vars PROVE HashInv'
    OBVIOUS
  <2>1. ASSUME NEW t \in Tables, LoadTable(t) PROVE HashInv'
    BY <2>1, LoadKeeps
  <2>2. ASSUME NEW mid \in Mids, AddMID(mid) PROVE HashInv'
    BY <2>2, AddKeeps
  <2>3. ASSUME NEW mid \in Mids, RemoveMID(mid) PROVE HashInv'
    BY <2>3, RemoveKeeps
  <2>4. ASSUME NEW mid \in Mids, LookUp(mid) PROVE HashInv'
    BY <2>4, HangKeeps DEF LookUp
  <2>5. CASE UNCHANGED vars
    BY <2>5, HashStays
  <2> QED
    BY <2>1, <2>2, <2>3, <2>4, <2>5 DEF Next
<1> QED
  BY <1>1, HashInit, PTL DEF Spec

-----------------------------------------------------------------------------
(***************************************************************************)
(* What the invariant says of look-ups.                                    *)
(***************************************************************************)
LEMMA HashHolds ==
  ASSUME HashInv
  PROVE  PresentIsFound /\ FullMeansFull
<1>1. Walks
  <2>1. ListsOK
    BY DEF HashInv, TypeOK, ListsOK
  <2> QED
    BY <2>1, NthWalks
<1>2. table \in [Entries -> Mids \cup {Invalid}] /\ Invalid \notin Mids
  BY FilterAssumption DEF HashInv, TypeOK
<1>3. ASSUME NEW i \in Entries, table[i] \in Mids, ~hung PROVE FindMsgID(table[i]) = i
  <2>1. loaded
    BY <1>2, <1>3 DEF HashInv, EmptyBefore
  <2>2. Reached(i)
    BY <1>3, <2>1 DEF HashInv, ListsLead
  <2>3. FindMsgID(table[i]) \in Entries /\ table[FindMsgID(table[i])] = table[i]
    BY <1>1, <1>3, <2>2, FindIs
  <2> QED
    BY <1>3, <2>3 DEF HashInv, Unique
<1>4. ASSUME NEW i \in Entries, loaded, FindMsgID(Invalid) = Null PROVE table[i] \in Mids
  <2>1. SUFFICES ASSUME table[i] = Invalid PROVE FALSE
    BY <1>2
  <2>2. Reached(i)
    BY <1>4, <2>1 DEF HashInv, ListsLead
  <2> QED
    BY <1>1, <1>4, <2>1, <2>2, FindIs, NullIsNone
<1> QED
  BY <1>3, <1>4 DEF PresentIsFound, FullMeansFull

\* Every message ID in the filter table is found, at its own entry, however
\* additions have joined lists: DS_TableAddMsgID leaves Next as it was.
THEOREM PresentIsFoundHolds == Spec => []PresentIsFound
BY HashInvariance, HashHolds, PTL

\* DS_AddMIDCmd refuses an addition for want of an entry only when there is none.
THEOREM FullMeansFullHolds == Spec => []FullMeansFull
BY HashInvariance, HashHolds, PTL

\* DS is subscribed to exactly what its filter table asks for, beside its own messages
\* and the IDs for which the bus refused the last request to subscribe or to leave off,
\* an answer DS does not look at.
THEOREM SubscribedIsFilteredHolds == Spec => []SubscribedIsFiltered
<1>1. HashInv => SubscribedIsFiltered
  BY DEF HashInv
<1> QED
  BY <1>1, HashInvariance, PTL

-----------------------------------------------------------------------------
(***************************************************************************)
(* Remainders.                                                             *)
(***************************************************************************)
LEMMA Product ==
  ASSUME NEW a \in Nat, NEW b \in Nat, NEW x \in Nat \ {0}, a < b
  PROVE  a * x \in Nat /\ b * x \in Nat /\ a * x + x <= b * x
OBVIOUS

LEMMA ModIs ==
  ASSUME NEW v \in Nat, NEW x \in Nat \ {0}
  PROVE  v % x \in 0 .. x - 1 /\ v \div x \in 0 .. v /\ v = (v \div x) * x + (v % x)
<1>1. v % x \in 0 .. x - 1 /\ v \div x \in Nat
  OBVIOUS
<1>2. v = (v \div x) * x + (v % x)
  OBVIOUS
<1>3. \A d \in Nat : d * x >= d
  OBVIOUS
<1> QED
  BY <1>1, <1>2, <1>3

LEMMA ModUnique ==
  ASSUME NEW v \in Nat, NEW x \in Nat \ {0}, NEW q \in Nat, NEW r \in 0 .. x - 1,
         v = q * x + r
  PROVE  v % x = r
<1> DEFINE q2 == v \div x
           r2 == v % x
<1>1. r2 \in 0 .. x - 1 /\ q2 \in 0 .. v /\ v = q2 * x + r2
  BY ModIs
<1> HIDE DEF q2, r2
<1>2. q2 \in Nat
  BY <1>1
<1>3. q2 = q
  <2>1. ~ q2 < q
    <3>1. SUFFICES ASSUME q2 < q PROVE FALSE
      OBVIOUS
    <3>2. q2 * x \in Nat /\ q * x \in Nat /\ q2 * x + x <= q * x
      BY <1>2, <3>1, Product
    <3> QED
      BY <1>1, <3>2
  <2>2. ~ q < q2
    <3>1. SUFFICES ASSUME q < q2 PROVE FALSE
      OBVIOUS
    <3>2. q2 * x \in Nat /\ q * x \in Nat /\ q * x + x <= q2 * x
      BY <1>2, <3>1, Product
    <3> QED
      BY <1>1, <3>2
  <2> QED
    BY <1>2, <2>1, <2>2
<1>4. r2 = r
  <2>1. q * x \in Nat
    OBVIOUS
  <2> QED
    BY <1>1, <1>3, <2>1
<1> QED
  BY <1>4 DEF r2

\* The low bits of a number that ends in whole units of b are those of its units.
LEMMA ModOfUnits ==
  ASSUME NEW n \in Nat, NEW m \in Nat \ {0}, NEW b \in Nat \ {0}, NEW u \in 0 .. b - 1
  PROVE  (n * b + u) % (m * b) = (n % m) * b + u
<1> DEFINE q == n \div m
           r == n % m
<1>1. r \in 0 .. m - 1 /\ q \in Nat /\ n = q * m + r
  <2>1. r \in 0 .. m - 1 /\ q \in 0 .. n /\ n = q * m + r
    BY ModIs
  <2> HIDE DEF q, r
  <2> QED
    BY <2>1
<1> HIDE DEF q, r
<1>2. m * b \in Nat \ {0} /\ n * b \in Nat /\ r * b \in Nat /\ r * b + b <= m * b
  <2>1. r \in Nat /\ r < m
    BY <1>1
  <2>2. r * b \in Nat /\ m * b \in Nat /\ r * b + b <= m * b
    BY <2>1, Product
  <2>3. n * b \in Nat
    OBVIOUS
  <2> QED
    BY <2>2, <2>3
<1>3. n * b = q * (m * b) + r * b
  BY <1>1
<1>4. r * b + u \in 0 .. (m * b) - 1
  BY <1>2
<1>5. n * b + u = q * (m * b) + (r * b + u) /\ n * b + u \in Nat
  BY <1>1, <1>2, <1>3
<1> QED
  BY <1>1, <1>2, <1>4, <1>5, ModUnique DEF r

\* A share of n in every x from o on, by remainders and by groups.
LEMMA ShareIs ==
  ASSUME NEW v \in Nat, NEW n \in Nat \ {0}, NEW x \in Nat, NEW o \in Nat, n <= x, o < x
  PROVE  (v >= o /\ (v - o) % x < n) <=> (\E g \in 0 .. v : o + g * x <= v /\ v < o + g * x + n)
<1>1. x \in Nat \ {0}
  OBVIOUS
<1>2. ASSUME v >= o, (v - o) % x < n
      PROVE  \E g \in 0 .. v : o + g * x <= v /\ v < o + g * x + n
  <2> DEFINE d == v - o
             g == d \div x
  <2>1. d \in Nat /\ d \in 0 .. v
    BY <1>2
  <2> HIDE DEF d
  <2>2. d % x \in 0 .. x - 1 /\ g \in 0 .. d /\ d = g * x + (d % x)
    BY <1>1, <2>1, ModIs
  <2>3. d % x < n /\ v = o + d
    BY <1>2 DEF d
  <2> HIDE DEF g
  <2>4. g \in 0 .. v /\ g * x \in Nat
    BY <2>1, <2>2
  <2> QED
    BY <2>2, <2>3, <2>4
<1>3. ASSUME NEW g \in 0 .. v, o + g * x <= v, v < o + g * x + n
      PROVE  v >= o /\ (v - o) % x < n
  <2>1. g * x \in Nat
    OBVIOUS
  <2> DEFINE r == v - o - g * x
  <2>2. r \in 0 .. x - 1 /\ r < n /\ v - o \in Nat /\ v - o = g * x + r
    BY <1>3, <2>1
  <2> HIDE DEF r
  <2>3. (v - o) % x = r
    BY <1>1, <2>2, ModUnique
  <2> QED
    BY <2>2, <2>3
<1> QED
  BY <1>2, <1>3

-----------------------------------------------------------------------------
(***************************************************************************)
(* Filters.  What they do to the table is what DsFilterHash says.          *)
(***************************************************************************)
LEMMA SetIs ==
  ASSUME NEW mid \in Mids, NEW s \in Slots, FilterCommand(mid, s)
  PROVE  UNCHANGED vars
<1>1. ASSUME NEW file \in 0 .. NumFiles, SetFilterFile(mid, s, file) PROVE UNCHANGED vars
  BY <1>1 DEF SetFilterFile, SetFilter
<1>2. ASSUME NEW type \in 0 .. 2, SetFilterType(mid, s, type) PROVE UNCHANGED vars
  BY <1>2 DEF SetFilterType, SetFilter
<1>3. ASSUME NEW p \in Parms, SetFilterParms(mid, s, p) PROVE UNCHANGED vars
  BY <1>3 DEF SetFilterParms, SetFilter
<1> QED
  BY <1>1, <1>2, <1>3 DEF FilterCommand

\* With the filters left out, DsFilter is DsFilterHash: filter commands and the
\* verification of loads do nothing to the table, its lists and the subscriptions
\* that additions, removals and loads could not do.
THEOREM FilterImplementsHash == FilterSpec => Spec
<1>1. FilterInit => Init
  BY DEF FilterInit
<1>2. [FilterNext]_filterVars => [Next]_vars
  <2> SUFFICES ASSUME [FilterNext]_filterVars PROVE Next \/ UNCHANGED vars
    OBVIOUS
  <2>1. ASSUME NEW t \in Tables, FilterLoad(t) PROVE Next
    BY <2>1 DEF FilterLoad, Next
  <2>2. ASSUME NEW mid \in Mids, FilterAdd(mid) \/ FilterRemove(mid) \/ FilterLookUp(mid)
        PROVE  Next
    BY <2>2 DEF FilterAdd, FilterRemove, FilterLookUp, Next
  <2>3. ASSUME NEW mid \in Mids, NEW s \in Slots, FilterCommand(mid, s) PROVE UNCHANGED vars
    BY <2>3, SetIs
  <2>4. CASE UNCHANGED filterVars
    BY <2>4 DEF filterVars
  <2> QED
    BY <2>1, <2>2, <2>3, <2>4 DEF FilterNext
<1> QED
  BY <1>1, <1>2, PTL DEF FilterSpec, Spec

\* Every entry in use has the filters last ordered for its message ID, every ID
\* without one has none.
Agreed ==
  ~hung => /\ \A i \in Entries : table[i] \in Mids => filters[i] = ordered[table[i]]
           /\ \A mid \in Mids \ MidsIn(table) : ordered[mid] = NoOrder

\* What can be ordered: verification has passed it.
ValidFilter(f) ==
  /\ f \in Filter
  /\ VerifyFileIndex(f.file) /\ f.type \in 0 .. 2 /\ VerifyParms(f)

OrdersValid == \A mid \in Mids, s \in Slots : ValidFilter(ordered[mid][s])

StoreInv == HashInv /\ FilterTypeOK /\ Agreed /\ OrdersValid

LEMMA UnusedValid == ValidFilter(Unused) /\ ValidFilter(Reset)
BY FiltersAssumption
DEF ValidFilter, Unused, Reset, Filter, VerifyFileIndex, VerifyParms, ByCount

LEMMA NoOrderIs ==
  /\ NoOrder \in [Slots -> Filter]
  /\ \A s \in Slots : NoOrder[s] = Reset
BY UnusedValid DEF NoOrder, ValidFilter

LEMMA StoreInit == FilterInit => StoreInv
<1> SUFFICES ASSUME FilterInit PROVE StoreInv
  OBVIOUS
<1>1. HashInv
  BY HashInit DEF FilterInit
<1>2. FilterTypeOK
  BY <1>1, UnusedValid, NoOrderIs, FiltersAssumption
  DEF FilterInit, FilterTypeOK, HashInv, ValidFilter
<1>3. Agreed
  <2>1. \A i \in Entries : table[i] \notin Mids
    BY FilterAssumption DEF FilterInit, Init
  <2> QED
    BY <2>1 DEF FilterInit, Agreed
<1>4. OrdersValid
  BY UnusedValid, NoOrderIs DEF FilterInit, OrdersValid
<1> QED
  BY <1>1, <1>2, <1>3, <1>4 DEF StoreInv

\* What DS_TableVerifyFilterEntry lets pass.
LEMMA VerifiedIsValid ==
  ASSUME NEW t \in Tables, VerifyFilter(t), NEW i \in Entries, t[i] \in Mids, NEW s \in Slots
  PROVE  ValidFilter(FiltersOf[t][i][s])
<1> DEFINE f == FiltersOf[t][i][s]
<1>1. f \in Filter
  BY FiltersAssumption
<1>2. t[i] # Invalid
  BY FilterAssumption
<1>3. f = Unused \/ (VerifyFileIndex(f.file) /\ VerifyType(f.type) /\ VerifyParms(f))
  BY <1>2 DEF VerifyFilter, VerifyFilterEntry
<1> HIDE DEF f
<1>4. ASSUME f = Unused PROVE ValidFilter(f)
  BY <1>4, UnusedValid
<1>5. ASSUME f # Unused PROVE ValidFilter(f)
  <2>1. f.type \in 0 .. 2
    BY <1>3, <1>5 DEF VerifyType, ByCount, ByTime
  <2> QED
    BY <1>1, <1>3, <1>5, <2>1 DEF ValidFilter
<1> QED
  BY <1>4, <1>5 DEF f

LEMMA FilterLoadKeeps ==
  ASSUME StoreInv, NEW t \in Tables, FilterLoad(t)
  PROVE  StoreInv'
<1> DEFINE at(mid) == CHOOSE i \in Entries : t[i] = mid
<1>1. /\ VerifyFilter(t) /\ LoadTable(t) /\ table' = t
      /\ filters' = FiltersOf[t]
      /\ ordered' = [mid \in Mids |-> IF mid \in MidsIn(t) THEN FiltersOf[t][at(mid)] ELSE NoOrder]
      /\ commands' = commands
  BY DEF FilterLoad, LoadTable
<1>2. HashInv'
  BY <1>1, LoadKeeps DEF StoreInv
<1>3. FiltersOf[t] \in [Entries -> [Slots -> Filter]]
  BY FiltersAssumption
<1>4. \A mid \in MidsIn(t) : at(mid) \in Entries /\ t[at(mid)] = mid /\ mid \in Mids
  BY DEF MidsIn
<1>5. \A i \in Entries : t[i] \in Mids => at(t[i]) = i
  <2>1. \A i, j \in Entries : t[i] = t[j] /\ t[i] \in Mids => i = j
    BY FilterAssumption
  <2> QED
    BY <2>1
<1> HIDE DEF at
<1>6. FilterTypeOK'
  <2>1. ordered' \in [Mids -> [Slots -> Filter]]
    BY <1>1, <1>3, <1>4, NoOrderIs
  <2> QED
    BY <1>1, <1>2, <1>3, <2>1 DEF FilterTypeOK, StoreInv, HashInv
<1>7. Agreed'
  <2>1. \A i \in Entries : t[i] \in Mids => t[i] \in MidsIn(t)
    BY DEF MidsIn
  <2> QED
    BY <1>1, <1>5, <2>1 DEF Agreed
<1>8. OrdersValid'
  <2>1. ASSUME NEW mid \in Mids, NEW s \in Slots PROVE ValidFilter(ordered'[mid][s])
    <3>1. CASE mid \in MidsIn(t)
      BY <1>1, <1>4, <3>1, VerifiedIsValid
    <3>2. CASE mid \notin MidsIn(t)
      BY <1>1, <3>2, NoOrderIs, UnusedValid
    <3> QED
      BY <3>1, <3>2
  <2> QED
    BY <2>1 DEF OrdersValid
<1> QED
  BY <1>2, <1>6, <1>7, <1>8 DEF StoreInv

LEMMA FilterAddKeeps ==
  ASSUME StoreInv, NEW mid \in Mids, FilterAdd(mid)
  PROVE  StoreInv'
<1> DEFINE unused == FindMsgID(Invalid)
<1>1. /\ AddMID(mid)
      /\ filters' = IF hung' THEN filters ELSE ResetChanged
      /\ ordered' = ordered /\ commands' = commands
  BY DEF FilterAdd
<1>2. HashInv'
  BY <1>1, AddKeeps DEF StoreInv
<1>3. /\ table \in [Entries -> Mids \cup {Invalid}]
      /\ filters \in [Entries -> [Slots -> Filter]]
  BY DEF StoreInv, HashInv, TypeOK, FilterTypeOK
<1>4. FilterTypeOK'
  <2>1. ResetChanged \in [Entries -> [Slots -> Filter]]
    BY <1>3, NoOrderIs DEF ResetChanged
  <2> QED
    BY <1>1, <1>2, <1>3, <2>1 DEF FilterTypeOK, StoreInv, HashInv
<1>5. OrdersValid'
  BY <1>1 DEF StoreInv, OrdersValid
<1>6. Agreed'
  <2>1. CASE Hang
    BY <2>1 DEF Hang, Agreed
  <2>2. CASE ~Hang
    <3>1. SUFFICES ASSUME ~hung' PROVE Agreed'
      BY DEF Agreed
    <3>2. /\ ~hung /\ loaded /\ FindMsgID(mid) = Null
          /\ unused \in Entries /\ table' = [table EXCEPT ![unused] = mid]
      BY <1>1, <2>2 DEF AddMID, Commandable
    <3> HIDE DEF unused
    <3>3. mid \notin MidsIn(table)
      <4>1. \A i \in Entries : table[i] = mid => FindMsgID(mid) = i
        BY <3>2, HashHolds DEF StoreInv, PresentIsFound
      <4> QED
        BY <3>2, <4>1, NullIsNone DEF MidsIn
    <3>4. \A i \in Entries : table'[i] = IF i = unused THEN mid ELSE table[i]
      BY <1>3, <3>2
    <3>5. \A i \in Entries : filters'[i] = IF table'[i] # table[i] THEN NoOrder ELSE filters[i]
      BY <1>1, <3>1 DEF ResetChanged
    <3>6. table[unused] # mid
      BY <3>2, <3>3 DEF MidsIn
    <3>7. ordered[mid] = NoOrder
      BY <3>2, <3>3 DEF StoreInv, Agreed
    <3>8. ASSUME NEW i \in Entries, table'[i] \in Mids
          PROVE  filters'[i] = ordered'[table'[i]]
      <4>1. CASE i = unused
        BY <1>1, <3>4, <3>5, <3>6, <3>7, <4>1
      <4>2. CASE i # unused
        BY <1>1, <3>2, <3>4, <3>5, <3>8, <4>2 DEF StoreInv, Agreed
      <4> QED
        BY <4>1, <4>2
    <3>9. MidsIn(table) \subseteq MidsIn(table')
      <4>1. table[unused] = Invalid
        <5>1. ListsOK
          BY DEF StoreInv, HashInv, TypeOK, ListsOK
        <5> QED
          BY <3>2, <5>1, NthWalks, FindIs DEF unused
      <4> QED
        BY <3>4, <4>1, FilterAssumption DEF MidsIn
    <3>10. \A m \in Mids \ MidsIn(table') : ordered'[m] = NoOrder
      BY <1>1, <3>2, <3>9 DEF StoreInv, Agreed
    <3> QED
      BY <3>8, <3>10 DEF Agreed
  <2> QED
    BY <2>1, <2>2
<1> QED
  BY <1>2, <1>4, <1>5, <1>6 DEF StoreInv

LEMMA FilterRemoveKeeps ==
  ASSUME StoreInv, NEW mid \in Mids, FilterRemove(mid)
  PROVE  StoreInv'
<1> DEFINE found == FindMsgID(mid)
<1>1. /\ RemoveMID(mid)
      /\ filters' = ResetChanged
      /\ ordered' = IF hung' THEN ordered ELSE [ordered EXCEPT ![mid] = NoOrder]
      /\ commands' = commands
  BY DEF FilterRemove
<1>2. HashInv'
  BY <1>1, RemoveKeeps DEF StoreInv
<1>3. /\ table \in [Entries -> Mids \cup {Invalid}]
      /\ filters \in [Entries -> [Slots -> Filter]]
      /\ ordered \in [Mids -> [Slots -> Filter]]
  BY DEF StoreInv, HashInv, TypeOK, FilterTypeOK
<1>4. FilterTypeOK'
  <2>1. ResetChanged \in [Entries -> [Slots -> Filter]]
    BY <1>3, NoOrderIs DEF ResetChanged
  <2>2. ordered' \in [Mids -> [Slots -> Filter]]
    BY <1>1, <1>3, NoOrderIs
  <2> QED
    BY <1>1, <1>2, <2>1, <2>2 DEF FilterTypeOK, StoreInv, HashInv
<1>5. OrdersValid'
  <2>1. \A m \in Mids : ordered'[m] = ordered[m] \/ ordered'[m] = NoOrder
    BY <1>1, <1>3
  <2>2. ASSUME NEW m \in Mids, NEW s \in Slots PROVE ValidFilter(ordered'[m][s])
    BY <2>1, NoOrderIs, UnusedValid DEF StoreInv, OrdersValid
  <2> QED
    BY <2>2 DEF OrdersValid
<1>6. Agreed'
  <2>1. CASE Hang
    BY <2>1 DEF Hang, Agreed
  <2>2. CASE ~Hang
    <3>1. /\ ~hung /\ loaded /\ found \in Entries /\ hung' = hung
          /\ table' = [table EXCEPT ![found] = Invalid]
      BY <1>1, <2>2 DEF RemoveMID, Commandable
    <3>2. table[found] = mid
      <4>1. ListsOK
        BY DEF StoreInv, HashInv, TypeOK, ListsOK
      <4> QED
        BY <3>1, <4>1, NthWalks, FindIs
    <3> HIDE DEF found
    <3>3. Invalid \notin Mids
      BY FilterAssumption
    <3>4. /\ table'[found] = Invalid
          /\ \A i \in Entries \ {found} : table'[i] = table[i] /\ table[i] # mid
      BY <1>3, <3>1, <3>2 DEF StoreInv, HashInv, Unique
    <3>5. \A i \in Entries \ {found} : filters'[i] = filters[i]
      BY <1>1, <3>4 DEF ResetChanged
    <3>6. ordered'[mid] = NoOrder /\ \A m \in Mids \ {mid} : ordered'[m] = ordered[m]
      BY <1>1, <1>3, <3>1
    <3>7. ASSUME NEW i \in Entries, table'[i] \in Mids
          PROVE  filters'[i] = ordered'[table'[i]]
      <4>1. i # found
        BY <3>3, <3>4, <3>7
      <4> QED
        BY <3>1, <3>4, <3>5, <3>6, <3>7, <4>1 DEF StoreInv, Agreed
    <3>8. ASSUME NEW m \in Mids \ MidsIn(table') PROVE ordered'[m] = NoOrder
      <4>1. CASE m = mid
        BY <3>6, <4>1
      <4>2. CASE m # mid
        <5>1. m \notin MidsIn(table)
          BY <3>2, <3>4, <4>2 DEF MidsIn
        <5> QED
          BY <3>1, <3>6, <4>2, <5>1 DEF StoreInv, Agreed
      <4> QED
        BY <4>1, <4>2
    <3> QED
      BY <3>7, <3>8 DEF Agreed
  <2> QED
    BY <2>1, <2>2
<1> QED
  BY <1>2, <1>4, <1>5, <1>6 DEF StoreInv

LEMMA FilterStays ==
  ASSUME StoreInv, HashInv', UNCHANGED <<filters, ordered, commands>>,
         table' = table, hung' = hung \/ hung' = TRUE
  PROVE  StoreInv'
<1>1. FilterTypeOK'
  BY DEF StoreInv, HashInv, FilterTypeOK
<1>2. OrdersValid'
  BY DEF StoreInv, OrdersValid
<1>3. Agreed'
  <2>1. CASE hung' = TRUE
    BY <2>1 DEF Agreed
  <2>2. CASE hung' = hung
    BY <2>2 DEF StoreInv, Agreed, MidsIn
  <2> QED
    BY <2>1, <2>2
<1> QED
  BY <1>1, <1>2, <1>3 DEF StoreInv

\* Entry and order of a message ID are given the same filter.
Sets(mid, s, f) ==
  /\ filters' = [filters EXCEPT ![FindMsgID(mid)][s] = f]
  /\ ordered' = [ordered EXCEPT ![mid][s] = f]
  /\ commands' \in 0 .. MaxCommands
  /\ UNCHANGED vars

LEMMA FoundIs ==
  ASSUME StoreInv, NEW mid \in Mids, ~hung, FindMsgID(mid) \in Entries
  PROVE  /\ table[FindMsgID(mid)] = mid
         /\ filters[FindMsgID(mid)] = ordered[mid]
<1>1. ListsOK
  BY DEF StoreInv, HashInv, TypeOK, ListsOK
<1>2. table[FindMsgID(mid)] = mid
  BY <1>1, NthWalks, FindIs
<1> QED
  BY <1>2 DEF StoreInv, Agreed

LEMMA SetKeeps ==
  ASSUME StoreInv, NEW mid \in Mids, NEW s \in Slots, NEW f, ValidFilter(f), Sets(mid, s, f),
         ~hung, FindMsgID(mid) \in Entries
  PROVE  StoreInv'
<1> DEFINE e == FindMsgID(mid)
<1>1. e \in Entries /\ table[e] = mid /\ filters[e] = ordered[mid]
  BY FoundIs
<1>2. /\ filters' = [filters EXCEPT ![e][s] = f] /\ ordered' = [ordered EXCEPT ![mid][s] = f]
      /\ commands' \in 0 .. MaxCommands /\ UNCHANGED vars
  BY DEF Sets
<1> HIDE DEF e
<1>3. /\ filters \in [Entries -> [Slots -> Filter]]
      /\ ordered \in [Mids -> [Slots -> Filter]]
      /\ f \in Filter
  BY DEF StoreInv, FilterTypeOK, ValidFilter
<1>4. UNCHANGED <<loaded, table, head, link, subs, hung, refused>>
  BY <1>2 DEF vars
<1>5. HashInv'
  BY <1>2, HashStays DEF StoreInv
<1>6. /\ \A i \in Entries \ {e} : filters'[i] = filters[i]
      /\ \A m \in Mids \ {mid} : ordered'[m] = ordered[m]
      /\ filters'[e] = [ordered[mid] EXCEPT ![s] = f]
      /\ ordered'[mid] = [ordered[mid] EXCEPT ![s] = f]
  BY <1>1, <1>2, <1>3
<1>7. FilterTypeOK'
  <2>1. filters' \in [Entries -> [Slots -> Filter]]
    BY <1>1, <1>2, <1>3
  <2>2. ordered' \in [Mids -> [Slots -> Filter]]
    BY <1>2, <1>3
  <2> QED
    BY <1>2, <1>5, <2>1, <2>2 DEF FilterTypeOK, HashInv
<1>8. OrdersValid'
  <2>1. ASSUME NEW m \in Mids, NEW r \in Slots PROVE ValidFilter(ordered'[m][r])
    <3>1. CASE m = mid /\ r = s
      BY <1>3, <1>6, <3>1
    <3>2. CASE m = mid /\ r # s
      BY <1>3, <1>6, <3>2 DEF StoreInv, OrdersValid
    <3>3. CASE m # mid
      BY <1>6, <3>3 DEF StoreInv, OrdersValid
    <3> QED
      BY <3>1, <3>2, <3>3
  <2> QED
    BY <2>1 DEF OrdersValid
<1>9. Agreed'
  <2>1. \A i \in Entries : table[i] = mid => i = e
    BY <1>1 DEF StoreInv, HashInv, Unique
  <2>2. ASSUME NEW i \in Entries, table[i] \in Mids PROVE filters'[i] = ordered'[table[i]]
    <3>1. CASE i = e
      BY <1>1, <1>6, <3>1
    <3>2. CASE i # e
      BY <1>6, <2>1, <2>2, <3>2 DEF StoreInv, Agreed
    <3> QED
      BY <3>1, <3>2
  <2>3. mid \in MidsIn(table)
    BY <1>1 DEF MidsIn
  <2>4. \A m \in Mids \ MidsIn(table) : ordered'[m] = NoOrder
    BY <1>6, <2>3 DEF StoreInv, Agreed
  <2>5. MidsIn(table)' = MidsIn(table)
    BY <1>4 DEF MidsIn
  <2> QED
    BY <1>4, <2>2, <2>4, <2>5 DEF Agreed
<1> QED
  BY <1>5, <1>7, <1>8, <1>9 DEF StoreInv

LEMMA FilterCommandKeeps ==
  ASSUME StoreInv, NEW mid \in Mids, NEW s \in Slots, FilterCommand(mid, s)
  PROVE  StoreInv'
<1> DEFINE o == ordered[mid][s]
<1>1. ValidFilter(o) /\ o \in Filter
  BY DEF StoreInv, OrdersValid, ValidFilter
<1>2. commands \in 0 .. MaxCommands /\ MaxCommands \in Nat
  BY FiltersAssumption DEF StoreInv, FilterTypeOK
<1>3. ASSUME NEW file \in 0 .. NumFiles, SetFilterFile(mid, s, file) PROVE StoreInv'
  <2> DEFINE f == [o EXCEPT !.file = file]
  <2>1. /\ ~hung /\ FindMsgID(mid) \in Entries /\ VerifyFileIndex(file)
        /\ commands < MaxCommands /\ commands' = commands + 1 /\ UNCHANGED vars
    BY <1>3 DEF SetFilterFile, SetFilter, Commandable
  <2>2. filters[FindMsgID(mid)] = ordered[mid]
    BY <2>1, FoundIs
  <2>3. Sets(mid, s, f)
    <3>1. /\ filters' = [filters EXCEPT ![FindMsgID(mid)][s] = f]
          /\ ordered' = [ordered EXCEPT ![mid][s] = f]
      BY <1>3, <2>2 DEF SetFilterFile, SetFilter
    <3> HIDE DEF f
    <3> QED
      BY <1>2, <2>1, <3>1 DEF Sets
  <2>4. ValidFilter(f)
    BY <1>1, <2>1 DEF ValidFilter, Filter, VerifyParms
  <2> HIDE DEF f
  <2> QED
    BY <2>1, <2>3, <2>4, SetKeeps
<1>4. ASSUME NEW type \in 0 .. 2, SetFilterType(mid, s, type) PROVE StoreInv'
  <2> DEFINE f == [o EXCEPT !.type = type]
  <2>1. /\ ~hung /\ FindMsgID(mid) \in Entries
        /\ commands < MaxCommands /\ commands' = commands + 1 /\ UNCHANGED vars
    BY <1>4 DEF SetFilterType, SetFilter, Commandable
  <2>2. filters[FindMsgID(mid)] = ordered[mid]
    BY <2>1, FoundIs
  <2>3. Sets(mid, s, f)
    <3>1. /\ filters' = [filters EXCEPT ![FindMsgID(mid)][s] = f]
          /\ ordered' = [ordered EXCEPT ![mid][s] = f]
      BY <1>4, <2>2 DEF SetFilterType, SetFilter
    <3> HIDE DEF f
    <3> QED
      BY <1>2, <2>1, <3>1 DEF Sets
  <2>4. ValidFilter(f)
    BY <1>1 DEF ValidFilter, Filter, VerifyParms, VerifyFileIndex
  <2> HIDE DEF f
  <2> QED
    BY <2>1, <2>3, <2>4, SetKeeps
<1>5. ASSUME NEW p \in Parms, SetFilterParms(mid, s, p) PROVE StoreInv'
  <2> DEFINE f == [o EXCEPT !.n = p.n, !.x = p.x, !.o = p.o]
  <2>1. /\ ~hung /\ FindMsgID(mid) \in Entries /\ VerifyParms(p)
        /\ commands < MaxCommands /\ commands' = commands + 1 /\ UNCHANGED vars
    BY <1>5 DEF SetFilterParms, SetFilter, Commandable
  <2>2. filters[FindMsgID(mid)] = ordered[mid]
    BY <2>1, FoundIs
  <2>3. Sets(mid, s, f)
    <3>1. /\ filters' = [filters EXCEPT ![FindMsgID(mid)][s] = f]
          /\ ordered' = [ordered EXCEPT ![mid][s] = f]
      BY <1>5, <2>2 DEF SetFilterParms, SetFilter
    <3> HIDE DEF f
    <3> QED
      BY <1>2, <2>1, <3>1 DEF Sets
  <2>4. ValidFilter(f)
    <3>1. p \in [n : Nat, x : Nat, o : Nat]
      BY FiltersAssumption
    <3> QED
      BY <1>1, <2>1, <3>1 DEF ValidFilter, Filter, VerifyParms, VerifyFileIndex
  <2> HIDE DEF f
  <2> QED
    BY <2>1, <2>3, <2>4, SetKeeps
<1> QED
  BY <1>3, <1>4, <1>5 DEF FilterCommand

LEMMA StoreInvariance == FilterSpec => []StoreInv
<1>1. StoreInv /\ [FilterNext]_filterVars => StoreInv'
  <2> SUFFICES ASSUME StoreInv, [FilterNext]_filterVars PROVE StoreInv'
    OBVIOUS
  <2>1. ASSUME NEW t \in Tables, FilterLoad(t) PROVE StoreInv'
    BY <2>1, FilterLoadKeeps
  <2>2. ASSUME NEW mid \in Mids, FilterAdd(mid) PROVE StoreInv'
    BY <2>2, FilterAddKeeps
  <2>3. ASSUME NEW mid \in Mids, FilterRemove(mid) PROVE StoreInv'
    BY <2>3, FilterRemoveKeeps
  <2>4. ASSUME NEW mid \in Mids, FilterLookUp(mid) PROVE StoreInv'
    <3>1. Hang /\ UNCHANGED <<filters, ordered, commands>>
      BY <2>4 DEF FilterLookUp, LookUp
    <3>2. HashInv'
      BY <3>1, HangKeeps DEF StoreInv
    <3> QED
      BY <3>1, <3>2, FilterStays DEF Hang
  <2>5. ASSUME NEW mid \in Mids, NEW s \in Slots, FilterCommand(mid, s) PROVE StoreInv'
    BY <2>5, FilterCommandKeeps
  <2>6. CASE UNCHANGED filterVars
    <3>1. UNCHANGED vars /\ UNCHANGED <<filters, ordered, commands>>
      BY <2>6 DEF filterVars
    <3>2. HashInv'
      BY <3>1, HashStays DEF StoreInv
    <3> QED
      BY <3>1, <3>2, FilterStays DEF vars
  <2> QED
    BY <2>1, <2>2, <2>3, <2>4, <2>5, <2>6 DEF FilterNext
<1> QED
  BY <1>1, StoreInit, PTL DEF FilterSpec

-----------------------------------------------------------------------------
(***************************************************************************)
(* Which packets pass.                                                     *)
(***************************************************************************)

\* The value a packet is judged by is the one its share is counted in.
LEMMA ValueIs ==
  ASSUME NEW p \in Packets, NEW type \in {ByCount, ByTime}
  PROVE  /\ PacketValue(type, p) \in Nat
         /\ PacketValue(type, p) = IF type = ByCount THEN p.count
                                   ELSE (p.seconds * SubsMod + p.subs) % (SecondsMod * SubsMod)
<1>1. /\ p.count \in Nat /\ p.seconds \in Nat /\ p.subs \in 0 .. SubsMod - 1
      /\ SecondsMod \in Nat \ {0} /\ SubsMod \in Nat \ {0}
  BY FiltersAssumption
<1>2. (p.seconds * SubsMod + p.subs) % (SecondsMod * SubsMod)
        = (p.seconds % SecondsMod) * SubsMod + p.subs
  BY <1>1, ModOfUnits
<1>3. (p.seconds % SecondsMod) * SubsMod + p.subs \in Nat
  <2> DEFINE r == p.seconds % SecondsMod
  <2>1. r \in 0 .. SecondsMod - 1
    BY <1>1, ModIs
  <2> HIDE DEF r
  <2>2. r \in Nat
    BY <1>1, <2>1
  <2>3. r * SubsMod \in Nat
    BY <1>1, <2>2
  <2> QED
    BY <1>1, <2>3 DEF r
<1> QED
  BY <1>1, <1>2, <1>3 DEF PacketValue

\* A filter that verification has passed lets through the share it names.
LEMMA PassesShare ==
  ASSUME NEW p \in Packets, NEW f, ValidFilter(f)
  PROVE  (f.n # 0 /\ f.file < NumFiles /\ ~ IsPacketFiltered(p, f))
           <=> (f.type # 0 /\ f.n > 0 /\ InShare(p, f))
<1>1. /\ f.n \in Nat /\ f.x \in Nat /\ f.o \in Nat /\ f.type \in 0 .. 2
      /\ f.file < NumFiles /\ VerifyParms(f)
  BY DEF ValidFilter, Filter, VerifyFileIndex
<1>2. CASE f.n = 0
  BY <1>1, <1>2
<1>3. CASE f.type = 0
  BY <1>1, <1>3 DEF IsPacketFiltered, VerifyType, ByCount, ByTime
<1>4. CASE f.n # 0 /\ f.type # 0
  <2>1. f.n \in Nat \ {0} /\ f.n <= f.x /\ f.o < f.x /\ f.type \in {ByCount, ByTime}
    BY <1>1, <1>4 DEF VerifyParms, ByCount, ByTime
  <2> DEFINE v == PacketValue(f.type, p)
  <2>2. v \in Nat
    BY <2>1, ValueIs
  <2>3. (v >= f.o /\ (v - f.o) % f.x < f.n)
          <=> (\E g \in 0 .. v : f.o + g * f.x <= v /\ v < f.o + g * f.x + f.n)
    <3> HIDE DEF v
    <3> QED
      BY <1>1, <2>1, <2>2, ShareIs
  <2>4. InShare(p, f) <=> \E g \in 0 .. v : f.o + g * f.x <= v /\ v < f.o + g * f.x + f.n
    BY <2>1, ValueIs DEF InShare
  <2>5. ~ IsPacketFiltered(p, f) <=> (v >= f.o /\ (v - f.o) % f.x < f.n)
    <3>1. (v - f.o) % f.x \in Nat \/ v < f.o
      <4> HIDE DEF v
      <4>1. ASSUME v >= f.o PROVE (v - f.o) % f.x \in Nat
        <5>1. v - f.o \in Nat /\ f.x \in Nat \ {0}
          BY <1>1, <2>1, <2>2, <4>1
        <5>2. (v - f.o) % f.x \in 0 .. f.x - 1
          BY <5>1, ModIs
        <5> QED
          BY <1>1, <5>2
      <4> QED
        BY <1>1, <2>2, <4>1
    <3>2. ~ IsPacketFiltered(p, f) <=> (~ v < f.o /\ ~ (v - f.o) % f.x >= f.n)
      <4>1. ~ (f.x = 0 \/ f.n = 0 \/ f.n > f.x \/ f.o >= f.x) /\ VerifyType(f.type)
        BY <1>1, <2>1 DEF VerifyType
      <4> QED
        BY <4>1 DEF IsPacketFiltered
    <3> HIDE DEF v
    <3> QED
      BY <1>1, <2>2, <3>1, <3>2
  <2> QED
    BY <1>1, <1>4, <2>3, <2>4, <2>5
<1> QED
  BY <1>2, <1>3, <1>4

LEMMA StoredHolds == StoreInv => StoredAsOrdered
<1> SUFFICES ASSUME StoreInv, ~hung, NEW mid \in Mids, NEW p \in Packets
             PROVE  LET fs == FiltersFor(mid)
                        os == ordered[mid]
                    IN /\ Stores(fs, p) = {s \in Slots : os[s].type # 0 /\ os[s].n > 0
                                                         /\ InShare(p, os[s])}
                       /\ \A s \in Stores(fs, p) : fs[s].file = os[s].file
  BY DEF StoredAsOrdered
<1>1. CASE FindMsgID(mid) \in Entries
  <2>1. FiltersFor(mid) = ordered[mid]
    BY <1>1, FoundIs DEF FiltersFor
  <2>2. \A s \in Slots : ValidFilter(ordered[mid][s])
    BY DEF StoreInv, OrdersValid
  <2> QED
    BY <2>1, <2>2, PassesShare DEF Stores
<1>2. CASE FindMsgID(mid) \notin Entries
  <2>1. FiltersFor(mid) = [s \in Slots |-> Unused]
    BY <1>2 DEF FiltersFor
  <2>2. mid \notin MidsIn(table)
    BY <1>2, HashHolds DEF StoreInv, PresentIsFound, MidsIn
  <2>3. ordered[mid] = NoOrder
    BY <2>2 DEF StoreInv, Agreed
  <2>4. \A s \in Slots : ordered[mid][s].n = 0 /\ FiltersFor(mid)[s].n = 0
    BY <2>1, <2>3, NoOrderIs DEF Reset, Unused
  <2> QED
    BY <2>4 DEF Stores
<1> QED
  BY <1>1, <1>2

THEOREM FilterTypesCorrect == FilterSpec => []FilterTypeOK
<1>1. StoreInv => FilterTypeOK
  BY DEF StoreInv
<1> QED
  BY <1>1, StoreInvariance, PTL

\* What the ground has asked for is what is stored, whatever additions, removals,
\* loads and filter commands came before.
THEOREM StoredAsOrderedHolds == FilterSpec => []StoredAsOrdered
BY StoreInvariance, StoredHolds, PTL

=============================================================================
