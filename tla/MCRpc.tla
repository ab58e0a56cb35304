-------------------------------- MODULE MCRpc --------------------------------
(***************************************************************************)
(* An instance of Rpc for TLC: two clients with a method each, so that     *)
(* results with and without a transformation occur side by side.           *)
(***************************************************************************)
EXTENDS Rpc

CONSTANTS
    c1, c2,
    MaxTotal    \* bound: calls of both clients together

\* One client asks for the tip, the other one for hash preimages.
MCMethod == {"get_tip", "hash_preimage"}
MethodOf(c) == IF c = c1 THEN "get_tip" ELSE "hash_preimage"

\* The replies of the second client's method cannot always be streamed.
KindOf(c) == Kind \ (IF c = c1 THEN {"unstreamable"} ELSE {"r"})

TotalCalls == Len(calls[c1]) + Len(calls[c2])

MCCall(c) == TotalCalls < MaxTotal /\ Call(c, MethodOf(c))

MCNext ==
    \/ \E c \in Client :
        \/ MCCall(c)
        \/ \E n \in DOMAIN calls[c] : Cancel(c, n)
        \/ Read(c) \/ Take(c) \/ Lose(c)
    \/ \E job \in working : \E kind \in KindOf(job.client) : Finish(job, kind)
    \/ Write

MCFairSpec == Init /\ [][MCNext]_rpcVars /\ Fairness
=============================================================================
