------------------------------ MODULE MCDsFile ------------------------------
(***************************************************************************)
(* DsFile on a small instance.  MaxPackets bounds the packets that arrive, *)
(* MaxEvents what the ground, the clock and resets do; DS is not bounded.  *)
(***************************************************************************)
EXTENDS DsFile, TLC

CONSTANTS hk, photos, MaxPackets, MaxEvents

VARIABLES packets, events

Stem(p, b, e) == [path |-> p, base |-> b, ext |-> e]
MCStem  == Stem("/cf", "b", ".ds")
MCStems == {MCStem, Stem("/ram", "b", ".ds"), Stem("/cf", "c", ".ds"), Stem("/cf", "b", ".x")}

MCSize   == (hk :> 3) @@ (photos :> 7)
\* A table of good entries and one with an entry that is not.
MCImages == {[DefaultTable EXCEPT ![photos].maxSize = 3], [DefaultTable EXCEPT ![hk].seq = MaxCount + 1]}
MCLists   == {<<photos, hk>>}

MCInit == Init /\ packets = 0 /\ events = 0
MCNext ==
  \/ Work /\ UNCHANGED <<packets, events>>
  \/ packets < MaxPackets /\ StorePacket /\ packets' = packets + 1
     /\ UNCHANGED events
  \/ events < MaxEvents /\ Disturbance /\ events' = events + 1
     /\ UNCHANGED packets
MCSpec == MCInit /\ [][MCNext]_<<vars, packets, events>> /\ Fairness
=============================================================================
