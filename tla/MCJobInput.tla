----------------------------- MODULE MCJobInput -----------------------------
(* Two controllers of a block, one with three inputs and one with two. *)
EXTENDS JobInput
CONSTANTS s1, s2
MCMaxInputs == s1 :> 3 @@ s2 :> 2
MCItems == UNION {[session : {s}, seqNum : 1..MCMaxInputs[s]] : s \in {s1, s2}}
=============================================================================
