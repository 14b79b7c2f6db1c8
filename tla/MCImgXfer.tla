----------------------------- MODULE MCImgXfer ------------------------------
(***************************************************************************)
(* ImgXfer on a small instance, with the photos' sizes chosen so that the  *)
(* last chunk is sometimes full and sometimes not.                         *)
(***************************************************************************)
EXTENDS ImgXferDelivery, TLC

CONSTANTS p1, p2, p3, ds1

\* One byte; a multiple of chunk sizes 3 and 1; a prime, so a short last chunk.
MCPhotoSize == (p1 :> 1) @@ (p2 :> 6) @@ (p3 :> 7)
=============================================================================
