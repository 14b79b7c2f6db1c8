--------------------------- MODULE MCImgXferLink ----------------------------
(***************************************************************************)
(* ImgXferLink with two photos, one of a single chunk and one that ends in *)
(* a short chunk.                                                          *)
(***************************************************************************)
EXTENDS ImgXferLink

CONSTANTS p1, p2

MCPhotoSize == (p1 :> 1) @@ (p2 :> 3)
=============================================================================
