-------------------------------- MODULE Rpc --------------------------------
(***************************************************************************)
(* Remote calls: NonceWatcher and invoke_remote (chiasim/remote/client.py) *)
(* on one side, api_server (chiasim/remote/api_server.py) with several     *)
(* workers on the other, over connections that may be lost.                *)
(*                                                                         *)
(* Nonces are counted per connection and start from 0 in the code, from 1  *)
(* here, so that the call with nonce n is the n-th of its client.  CBOR    *)
(* framing is abstracted: a message arrives whole or not at all.           *)
(***************************************************************************)
EXTENDS Naturals, Sequences, FiniteSets

CONSTANTS
    Client,         \* proxies, each with a connection of its own
    Method,         \* the methods they call
    Transformed,    \* those with an entry in the proxy's signatures
    Kind,           \* what handlers make: "r", "e" or a reply that cannot be streamed
    Workers,        \* requests api_server works on at a time
    MaxCalls        \* bound: calls per client

ASSUME MethodAssumption == Transformed \subseteq Method
ASSUME KindAssumption == Kind \subseteq {"r", "e", "unstreamable"}
ASSUME WorkersAssumption == Workers \in Nat \ {0}
ASSUME MaxCallsAssumption == MaxCalls \in Nat

VARIABLES
    calls,          \* by client: the method of each call and how it stands
    watcher,        \* by client: NonceWatcher._task
    connected,      \* by client: is there still a connection?
    requests,       \* by client: messages on the way to the server
    working,        \* the requests that api_server's workers handle
    finished,       \* responses, each with its writer, in the order of completion
    answers,        \* by client: messages on the way back
    made            \* history: what handlers have made, by client and call

rpcVars ==
    <<calls, watcher, connected, requests, working, finished, answers, made>>

\* to_cbor puts a string in place of a response it cannot stream; it has no
\* nonce, whoever it is sent to.
Problem == [text |-> "problem streaming message"]

\* An answer carries its nonce and, under "r" or "e", what one handler made;
\* "of" tells which call that was.
Answer == [nonce : 1 .. MaxCalls, kind : {"r", "e"}, of : Client \X (1 .. MaxCalls)]

Outcome == {"result", "RemoteError", "TypeError"}

Open == {"waiting", "dropped", "reset", "refused"}

Init ==
    /\ calls = [c \in Client |-> <<>>]
    /\ watcher = [c \in Client |-> "running"]
    /\ connected = [c \in Client |-> TRUE]
    /\ requests = [c \in Client |-> <<>>]
    /\ working = {}
    /\ finished = <<>>
    /\ answers = [c \in Client |-> <<>>]
    /\ made = {}

IsWaiting(c, n) == n \in DOMAIN calls[c] /\ calls[c][n].state = "waiting"

-----------------------------------------------------------------------------
(* The client *)

\* Mutated form: the task is not asked whether it is done
NeverDone(c) == FALSE

TaskDone(c) == watcher[c] # "running"

\* invoke_remote up to its await.  A nonce is used up in any case; writing to
\* a connection that is gone does nothing.
Call(c, m) ==
    /\ Len(calls[c]) < MaxCalls
    /\ LET nonce == Len(calls[c]) + 1
           state == IF TaskDone(c) THEN "refused" ELSE "waiting"
       IN  /\ calls' = [calls EXCEPT ![c] = Append(@, [method |-> m, state |-> state])]
           /\ requests' = IF ~TaskDone(c) /\ connected[c]
                          THEN [requests EXCEPT ![c] = Append(@, [nonce |-> nonce, method |-> m])]
                          ELSE requests
    /\ UNCHANGED <<watcher, connected, working, finished, answers, made>>

\* The caller gives up: its future is cancelled, or forgotten by the weak
\* dictionary, and a late answer finds no one.
Cancel(c, n) ==
    /\ IsWaiting(c, n)
    /\ calls' = [calls EXCEPT ![c][n].state = "dropped"]
    /\ UNCHANGED <<watcher, connected, requests, working, finished, answers, made>>

\* Mutated form: the error is handed on as it came
Unconverted(method, kind) == IF kind = "r" THEN "result" ELSE kind

\* A RemoteError is the result of the future, not its exception; a
\* transformation then fails on it, as it expects a dictionary or bytes.
Convert(method, kind) ==
    IF kind = "r" THEN "result"
    ELSE IF method \in Transformed THEN "TypeError" ELSE "RemoteError"

\* Mutated form: answers are taken in the order of the calls
OldestWaiting(c, answer) ==
    LET waiting == {n \in DOMAIN calls[c] : IsWaiting(c, n)}
    IN  {n \in waiting : \A k \in waiting : n <= k}

\* The futures an answer resolves: the one of its nonce, if it is not done
Addressed(c, answer) ==
    {n \in DOMAIN calls[c] : n = answer.nonce /\ IsWaiting(c, n)}

\* NonceWatcher.run on an answer
Receive(c) ==
    /\ watcher[c] = "running" /\ answers[c] # <<>> /\ Head(answers[c]) # Problem
    /\ LET answer == Head(answers[c]) IN
        calls' = [calls EXCEPT ![c] = [n \in DOMAIN @ |->
            IF n \in Addressed(c, answer)
            THEN [method |-> @[n].method, of |-> answer.of, kind |-> answer.kind,
                  state |-> Convert(@[n].method, answer.kind)]
            ELSE @[n]]]
    /\ answers' = [answers EXCEPT ![c] = Tail(@)]
    /\ UNCHANGED <<watcher, connected, requests, working, finished, made>>

\* A string has no "get": event_stream_to_nonce_result raises, and so do the
\* stream and run, which never gets to the loop that fails its futures.
ReceiveProblem(c) ==
    /\ watcher[c] = "running" /\ answers[c] # <<>> /\ Head(answers[c]) = Problem
    /\ watcher' = [watcher EXCEPT ![c] = "failed"]
    /\ answers' = [answers EXCEPT ![c] = Tail(@)]
    /\ UNCHANGED <<calls, connected, requests, working, finished, made>>

\* Mutated forms: the futures that wait are left alone; only the first fails
LeaveWaiting(states) == states

ResetFirst(states) ==
    [n \in DOMAIN states |->
        IF states[n].state = "waiting" /\ \A k \in 1 .. n - 1 : states[k].state # "waiting"
        THEN [states[n] EXCEPT !.state = "reset"]
        ELSE states[n]]

ResetWaiting(states) ==
    [n \in DOMAIN states |->
        IF states[n].state = "waiting" THEN [states[n] EXCEPT !.state = "reset"]
        ELSE states[n]]

EndOfStream(c) ==
    /\ watcher[c] = "running" /\ ~connected[c] /\ answers[c] = <<>>
    /\ watcher' = [watcher EXCEPT ![c] = "done"]
    /\ calls' = [calls EXCEPT ![c] = ResetWaiting(@)]
    /\ UNCHANGED <<connected, requests, working, finished, answers, made>>

-----------------------------------------------------------------------------
(* The server *)

\* A worker takes the next event of the joined streams.  The messages of one
\* connection come in order.
Take(c) ==
    /\ Cardinality(working) < Workers
    /\ requests[c] # <<>>
    /\ working' = working \cup {[client |-> c, nonce |-> Head(requests[c]).nonce]}
    /\ requests' = [requests EXCEPT ![c] = Tail(@)]
    /\ UNCHANGED <<calls, watcher, connected, finished, answers, made>>

\* response_writer_for_event, then to_cbor.  Handlers end in any order.
Finish(job, kind) ==
    /\ job \in working
    /\ working' = working \ {job}
    /\ made' = made \cup {<<job.client, job.nonce, kind>>}
    /\ finished' = Append(finished,
            [writer |-> job.client,
             message |-> IF kind = "unstreamable" THEN Problem
                         ELSE [nonce |-> job.nonce, kind |-> kind,
                               of |-> <<job.client, job.nonce>>]])
    /\ UNCHANGED <<calls, watcher, connected, requests, answers>>

\* The loop of api_server; a writer whose connection is gone swallows it.
Write ==
    /\ finished # <<>>
    /\ LET c == Head(finished).writer IN
        answers' = IF connected[c]
                   THEN [answers EXCEPT ![c] = Append(@, Head(finished).message)]
                   ELSE answers
    /\ finished' = Tail(finished)
    /\ UNCHANGED <<calls, watcher, connected, requests, working, made>>

-----------------------------------------------------------------------------
(* The connection *)

Prefixes(s) == {SubSeq(s, 1, k) : k \in 0 .. Len(s)}

\* It ends at any time; of what was on the way, a prefix still arrives.
Lose(c) ==
    /\ connected[c]
    /\ connected' = [connected EXCEPT ![c] = FALSE]
    /\ \E s \in Prefixes(requests[c]) : requests' = [requests EXCEPT ![c] = s]
    /\ \E s \in Prefixes(answers[c]) : answers' = [answers EXCEPT ![c] = s]
    /\ UNCHANGED <<calls, watcher, working, finished, made>>

-----------------------------------------------------------------------------

Read(c) == Receive(c) \/ ReceiveProblem(c) \/ EndOfStream(c)

Next ==
    \/ \E c \in Client :
        \/ \E m \in Method : Call(c, m)
        \/ \E n \in DOMAIN calls[c] : Cancel(c, n)
        \/ Read(c) \/ Take(c) \/ Lose(c)
    \/ \E job \in working, kind \in Kind : Finish(job, kind)
    \/ Write

Spec == Init /\ [][Next]_rpcVars

\* The event loops of both sides run what is ready, handlers end, and bytes
\* written to a connection arrive unless it is lost.  Nobody must call, give
\* up, or lose a connection.
Fairness ==
    /\ \A c \in Client : WF_rpcVars(Read(c)) /\ WF_rpcVars(Take(c))
    /\ \A c \in Client : \A n \in 1 .. MaxCalls :
            WF_rpcVars(\E kind \in Kind : Finish([client |-> c, nonce |-> n], kind))
    /\ WF_rpcVars(Write)

FairSpec == Spec /\ Fairness

-----------------------------------------------------------------------------
(* Properties *)

CallRecord ==
    [method : Method, state : Open]
    \cup [method : Method, state : Outcome, kind : {"r", "e"},
          of : Client \X (1 .. MaxCalls)]

TypeOK ==
    /\ calls \in [Client -> Seq(CallRecord)]
    /\ \A c \in Client : Len(calls[c]) <= MaxCalls
    /\ requests \in [Client -> Seq([nonce : 1 .. MaxCalls, method : Method])]
    /\ answers \in [Client -> Seq(Answer \cup {Problem})]
    /\ watcher \in [Client -> {"running", "done", "failed"}]
    /\ connected \in [Client -> BOOLEAN]
    /\ working \subseteq [client : Client, nonce : 1 .. MaxCalls]
    /\ Cardinality(working) <= Workers
    /\ finished \in Seq([writer : Client, message : Answer \cup {Problem}])
    /\ made \subseteq Client \X (1 .. MaxCalls) \X Kind

\* A call that ends with an answer got the one the server made for it, although
\* answers come in the order handlers end, several clients use the same nonces,
\* and earlier callers may have given up (client.py:38-42, api_server.py:73-79).
OwnAnswer ==
    \A c \in Client : \A n \in DOMAIN calls[c] :
        calls[c][n].state \in Outcome =>
            /\ calls[c][n].of = <<c, n>>
            /\ <<c, n, calls[c][n].kind>> \in made

\* Once the task that reads answers has ended nobody waits for one: neither a
\* call made before the end of the stream nor one made after it (client.py:31-32
\* and 43-46).  A reply that cannot be streamed is the one exception, and it
\* strands nobody but the callers on its own connection.
NoneLeftWaiting ==
    \A c \in Client : \A n \in DOMAIN calls[c] :
        IsWaiting(c, n) /\ watcher[c] # "running" =>
            \E k \in DOMAIN calls[c] : <<c, k, "unstreamable">> \in made

\* While the answers of a connection can be read, each of its calls ends: with
\* an answer, with ConnectionResetError, or because its caller gave up.
CallsEndUnlessStreamFails ==
    \A c \in Client : \A n \in 1 .. MaxCalls :
        IsWaiting(c, n) ~> (~IsWaiting(c, n) \/ watcher[c] = "failed")

\* Messages "from the message stream" are routed "to corresponding futures"
\* (client.py:19-21) and every message's response is sent "back to the remote"
\* (api_server.py:50-51): every call ends.
EveryCallEnds ==
    \A c \in Client : \A n \in 1 .. MaxCalls :
        IsWaiting(c, n) ~> ~IsWaiting(c, n)

\* Rpc implements RemoteCalls: one answer for a call, and only if the server
\* executed it, once; a lost connection fails all that wait and all that follow.
Standing(c, n) ==
    IF calls[c][n].state \in Outcome THEN "answered"
    ELSE IF IsWaiting(c, n) /\ watcher[c] = "failed" THEN "stranded"
    ELSE calls[c][n].state

Standings == [c \in Client |-> [n \in DOMAIN calls[c] |-> Standing(c, n)]]

Executed == {<<t[1], t[2]>> : t \in made}

Reading == {c \in Client : watcher[c] = "running"}

Remote == INSTANCE RemoteCalls WITH
    calls <- Standings, executed <- Executed, connected <- Reading

ImplementsRemoteCalls == Remote!CallsSpec
=============================================================================
