--------------------------- MODULE MCDsFilterHash ---------------------------
(***************************************************************************)
(* DsFilterHash with four entries and five message IDs: two that share a   *)
(* list, two more in another, and one in the list of the unused entries.   *)
(* DS's own two messages are among them, and one table stores the commands *)
(* DS is sent.                                                             *)
(***************************************************************************)
EXTENDS DsFilterHash, TLC

CONSTANTS m1, m2, m3, m4, m5

MCTables == { <<m1, Invalid, Invalid, Invalid>>,
              <<Invalid, m2, Invalid, m3>>,
              <<Invalid, m5, m1, Invalid>> }
=============================================================================
