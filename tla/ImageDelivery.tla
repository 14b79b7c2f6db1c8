---------------------------- MODULE ImageDelivery ---------------------------
(***************************************************************************)
(* What an image transfer promises, with no protocol in it: the bytes of   *)
(* one photo are accepted from first to last, and the success counter      *)
(* moves only when all of them were.  ImgXfer implements it.               *)
(***************************************************************************)
EXTENDS Integers

CONSTANTS Photos, NoPhoto, PhotoSize, MaxChunk, CounterMod

VARIABLES
  photo,     \* the photo being delivered, or NoPhoto
  done,      \* how many of its bytes, from the first on, have been accepted
  okCount,   \* deliveries completed, modulo CounterMod
  errCount   \* deliveries given up, modulo CounterMod

dVars == <<photo, done, okCount, errCount>>

DInit == photo = NoPhoto /\ done = 0 /\ okCount = 0 /\ errCount = 0

Start(p) ==
  /\ photo = NoPhoto
  /\ PhotoSize[p] > 0
  /\ photo' = p
  /\ UNCHANGED <<done, okCount, errCount>>

\* The next n bytes are accepted, in file order.
Accept(n) ==
  /\ photo # NoPhoto
  /\ done + n <= PhotoSize[photo]
  /\ done' = done + n
  /\ UNCHANGED <<photo, okCount, errCount>>

Complete ==
  /\ photo # NoPhoto
  /\ done = PhotoSize[photo]
  /\ photo' = NoPhoto /\ done' = 0
  /\ okCount' = (okCount + 1) % CounterMod
  /\ UNCHANGED errCount

\* A delivery can be given up at any time, also when it could not be started.
GiveUp ==
  /\ photo' = NoPhoto /\ done' = 0
  /\ errCount' = (errCount + 1) % CounterMod
  /\ UNCHANGED okCount

DNext ==
  \/ \E p \in Photos : Start(p)
  \/ \E n \in 1 .. MaxChunk : Accept(n)
  \/ Complete
  \/ GiveUp

DSpec == DInit /\ [][DNext]_dVars
=============================================================================
