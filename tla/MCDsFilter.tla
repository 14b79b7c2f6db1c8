----------------------------- MODULE MCDsFilter -----------------------------
(***************************************************************************)
(* DsFilter with four entries and five message IDs, which hash as in       *)
(* MCDsFilterHash, two filters per packet and two files.                   *)
(***************************************************************************)
EXTENDS DsFilter, TLC

CONSTANTS m1, m2, m3, m4, m5

T1 == <<m1, Invalid, Invalid, Invalid>>
T2 == <<Invalid, m2, Invalid, m3>>
T3 == <<Invalid, m5, m1, Invalid>>
T4 == <<m1, m2, m3, m4>>
MCTables == {T1, T2, T3, T4}

F(file, type, n, x, o) == [file |-> file, type |-> type, n |-> n, x |-> x, o |-> o]
None == <<Unused, Unused>>

\* One packet in two by count, beside one in three by time; filters left over in an
\* unused entry; the delivered table; a filter without a type in T4, which is refused.
MCFiltersOf ==
  (T1 :> <<<<F(0, 1, 1, 2, 0), F(1, 2, 1, 3, 2)>>, None, <<F(1, 1, 1, 1, 0), F(5, 0, 2, 1, 9)>>, None>>) @@
  (T2 :> DeliveredFilters(T2)) @@
  (T3 :> <<None, <<F(1, 1, 0, 2, 1), Unused>>, <<F(1, 2, 3, 4, 3), F(1, 1, 2, 2, 0)>>, None>>) @@
  (T4 :> <<<<F(0, 0, 1, 1, 0), Unused>>, None, None, None>>)

Parm(n, x, o) == [n |-> n, x |-> x, o |-> o]
\* Not to be stored; two in three; refused.
MCParms == {Parm(0, 0, 0), Parm(2, 3, 1), Parm(1, 2, 2)}

\* Counts up to two of the longest groups; times past the end of a group of seconds.
MCPackets == {[count |-> c, seconds |-> c, subs |-> c % 2] : c \in 0 .. 7}
=============================================================================
