---------------------------- MODULE MCImgXferIdle ---------------------------
(***************************************************************************)
(* ImgXferIdle with one photo of two chunks and the schedule's periods.    *)
(***************************************************************************)
EXTENDS ImgXferIdle, TLC

CONSTANTS p1

MCPhotoSize == p1 :> 2

MCSchedule == [mid \in {"COMMMC_SEND_HK_MID", "COMMMC_CMD_MID"} |-> InSeconds(mid)]
=============================================================================
