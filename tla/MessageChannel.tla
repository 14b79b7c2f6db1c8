---------------------------- MODULE MessageChannel --------------------------
(***************************************************************************)
(* What a receiver of segmented messages may rely on, with no frames and   *)
(* no slots in it: the messages of a stream are sent one after the other,  *)
(* and as each is over the receiver has it handed over, whole, or never    *)
(* gets it.  None is handed over later, twice or out of order.             *)
(* CanSegmentation implements it as long as no two frames of a stream in a *)
(* row are lost.                                                           *)
(***************************************************************************)
EXTENDS Integers

CONSTANTS Streams, MsgMod

VARIABLES
  sending,   \* the message each stream is at, modulo MsgMod
  delivered  \* what was handed over just now: <<stream, message>>, or Nothing

cVars == <<sending, delivered>>

Nothing == <<>>

CInit == sending = [s \in Streams |-> 0] /\ delivered = Nothing

\* The message of s is over, handed over or lost.
Finish(s) ==
  /\ sending' = [sending EXCEPT ![s] = (@ + 1) % MsgMod]
  /\ delivered' \in {Nothing, <<s, sending[s]>>}

InBetween == delivered' = Nothing /\ UNCHANGED sending

CNext == InBetween \/ \E s \in Streams : Finish(s)

CSpec == CInit /\ [][CNext]_cVars
=============================================================================
