-------------------------- MODULE MCCanSegmentation -------------------------
(***************************************************************************)
(* CanSegmentation with a stream of single frames and three that need a   *)
(* slot, of two, three and four frames, for two slots; four frames do not  *)
(* fit the buffer.                                                         *)
(***************************************************************************)
EXTENDS CanSegmentation, TLC

CONSTANTS s1, s2, s3, s4

MCFramesOf == (s1 :> 1) @@ (s2 :> 2) @@ (s3 :> 3) @@ (s4 :> 4)
=============================================================================
