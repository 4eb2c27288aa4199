------------------------------- MODULE MCLink -------------------------------
EXTENDS Link, TLC

CONSTANTS t1, t2

(* A number that all data here differ in. *)
MCDigest(data) == FoldSeq(LAMBDA b, sum : 3 * sum + b, 0, data) % 251

(* One thread sends two messages, the other one without data. *)
MCSender  == {t1, t2}
MCText    == t1 :> <<<<TAIL>>, <<3>>>> @@ t2 :> <<<<>>>>
MCCalls   == t1 :> 2 @@ t2 :> 1
MCLengths == {6, 7}

(* Reads that begin and end inside of frames. *)
MCChunkSizes == {6, 7}
=============================================================================
