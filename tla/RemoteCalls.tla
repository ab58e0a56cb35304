---------------------------- MODULE RemoteCalls ----------------------------
(***************************************************************************)
(* What callers of a remote proxy may rely on, whatever happens to the     *)
(* connection: a call ends at most once, with its own answer, with an      *)
(* error, or because its caller gave up; it is answered only if the server *)
(* has executed it, and executed at most once; when the connection is gone *)
(* all calls that wait fail together and later ones fail at once.  The     *)
(* exception is a connection that brings something else than an answer:    *)
(* the calls that wait are stranded, and only their callers can end them.  *)
(***************************************************************************)
EXTENDS Naturals, Sequences

CONSTANTS
    Client,         \* proxies, each with a connection of its own
    MaxCalls        \* calls each of them makes

VARIABLES
    calls,          \* the calls of each client, in the order they were made
    executed,       \* the calls the server has executed
    connected       \* clients whose connection still brings answers

callVars == <<calls, executed, connected>>

CallState == {"waiting", "answered", "reset", "refused", "dropped", "stranded"}

CallsInit ==
    /\ calls = [c \in Client |-> <<>>]
    /\ executed = {}
    /\ connected = Client

Issue(c) ==
    /\ Len(calls[c]) < MaxCalls
    /\ calls' = [calls EXCEPT ![c] =
            Append(@, IF c \in connected THEN "waiting" ELSE "refused")]
    /\ UNCHANGED <<executed, connected>>

Execute(c, n) ==
    /\ n \in DOMAIN calls[c]
    /\ calls[c][n] \in {"waiting", "stranded", "reset", "dropped"}
    /\ <<c, n>> \notin executed
    /\ executed' = executed \cup {<<c, n>>}
    /\ UNCHANGED <<calls, connected>>

IsWaiting(c, n) == n \in DOMAIN calls[c] /\ calls[c][n] = "waiting"

Return(c, n) ==
    /\ IsWaiting(c, n)
    /\ <<c, n>> \in executed
    /\ calls' = [calls EXCEPT ![c][n] = "answered"]
    /\ UNCHANGED <<executed, connected>>

Drop(c, n) ==
    /\ n \in DOMAIN calls[c]
    /\ calls[c][n] \in {"waiting", "stranded"}
    /\ calls' = [calls EXCEPT ![c][n] = "dropped"]
    /\ UNCHANGED <<executed, connected>>

Leave(c, state) ==
    /\ c \in connected
    /\ connected' = connected \ {c}
    /\ calls' = [calls EXCEPT ![c] =
            [n \in DOMAIN @ |-> IF @[n] = "waiting" THEN state ELSE @[n]]]
    /\ UNCHANGED executed

Disconnect(c) == Leave(c, "reset")

Strand(c) == Leave(c, "stranded")

CallsNext ==
    \E c \in Client :
        \/ Issue(c)
        \/ Disconnect(c) \/ Strand(c)
        \/ \E n \in 1 .. MaxCalls : Execute(c, n) \/ Return(c, n) \/ Drop(c, n)

\* A call does not wait for ever while its connection is in order.
End(c, n) ==
    /\ IsWaiting(c, n)
    /\ Return(c, n) \/ Drop(c, n) \/ Disconnect(c) \/ Strand(c)

CallsSafe == CallsInit /\ [][CallsNext]_callVars

CallsSpec ==
    /\ CallsSafe
    /\ \A c \in Client : \A n \in 1 .. MaxCalls : WF_callVars(End(c, n))
=============================================================================
