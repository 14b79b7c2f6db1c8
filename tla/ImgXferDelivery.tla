-------------------------- MODULE ImgXferDelivery ---------------------------
(***************************************************************************)
(* ImgXfer implements ImageDelivery: the photo is the file open for the    *)
(* transfer, and the bytes accepted are those of the chunks the SPI        *)
(* service has confirmed.                                                  *)
(***************************************************************************)
EXTENDS ImgXfer

\* Bytes of the chunks confirmed so far; the last one may be short.
Confirmed ==
  IF state \notin Active THEN 0
  ELSE IF curChunk * chunkSize < totalSize THEN curChunk * chunkSize
  ELSE totalSize

Delivery == INSTANCE ImageDelivery WITH photo <- xferFile, done <- Confirmed

\* COMMMC counts a transfer as sent OK only after every byte of that photo was
\* confirmed by the SPI service, in file order and from one and the same file.
DeliversImages == Delivery!DSpec
=============================================================================
