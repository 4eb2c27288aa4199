---------------------------- MODULE MCClientSend ----------------------------
EXTENDS ClientSend, TLC

CONSTANTS t1, lt

(* A thread of the user's and the loop thread in a callback. *)
MCSender == {t1, lt}
MCCalls  == t1 :> 2 @@ lt :> 1
(* Nothing, all of a ring of two bytes and more than it. *)
MCLengths == {0, 2, 3}

(* Nothing but the callbacks sends. *)
MCLoopSender == {lt}
MCLoopCalls  == lt :> 2
MCFits       == {1, 2}
=============================================================================
