----------------------------- MODULE RpcProofs -----------------------------
(***************************************************************************)
(* Remote calls are safe for every number of clients, calls and workers,   *)
(* whatever is lost, late or out of order.  TLC checks the same properties *)
(* on the instance of MCRpc.                                               *)
(***************************************************************************)
EXTENDS Rpc, SequenceTheorems, FiniteSetTheorems, TLAPS

-----------------------------------------------------------------------------
(* The inductive invariant *)

\* The call of client c with nonce n was sent.
Sent(c, n) == n \in DOMAIN calls[c] /\ calls[c][n].state # "refused"

HasMade(c, n) == \E kind \in Kind : <<c, n, kind>> \in made

\* The call was sent, no handler has seen it and no reply was made for it.
Fresh(c, n) ==
    Sent(c, n) /\ ~HasMade(c, n) /\ [client |-> c, nonce |-> n] \notin working

InOrder(s) == \A i, j \in DOMAIN s : i < j => s[i].nonce < s[j].nonce

Nonces(c) == {requests[c][i].nonce : i \in DOMAIN requests[c]}

\* Requests on their way are those of different fresh calls, in order.
RequestsAreNew ==
    \A c \in Client : InOrder(requests[c]) /\ \A n \in Nonces(c) : Fresh(c, n)

\* Handlers work on calls that were sent and have no reply yet.
WorkingAreNew ==
    /\ IsFiniteSet(working)
    /\ \A job \in working : Sent(job.client, job.nonce) /\ ~HasMade(job.client, job.nonce)

MadeWereSent == \A t \in made : Sent(t[1], t[2])

\* A message for client c is the reply made for the call it names, or the
\* string in place of one that could not be streamed.
Genuine(c, message) ==
    IF message = Problem THEN \E n \in DOMAIN calls[c] : <<c, n, "unstreamable">> \in made
    ELSE /\ message.of = <<c, message.nonce>>
         /\ <<c, message.nonce, message.kind>> \in made

MessagesGenuine ==
    /\ \A c \in Client : \A i \in DOMAIN answers[c] : Genuine(c, answers[c][i])
    /\ \A i \in DOMAIN finished : Genuine(finished[i].writer, finished[i].message)

\* How the task of a client can have ended.
EndOfTask ==
    \A c \in Client :
        /\ watcher[c] = "done" => \A n \in DOMAIN calls[c] : ~IsWaiting(c, n)
        /\ watcher[c] = "failed" =>
                \E n \in DOMAIN calls[c] : <<c, n, "unstreamable">> \in made

IInv ==
    /\ TypeOK
    /\ RequestsAreNew
    /\ WorkingAreNew
    /\ MadeWereSent
    /\ MessagesGenuine
    /\ EndOfTask
    /\ OwnAnswer

-----------------------------------------------------------------------------
(* Sequences and call records *)

LEMMA SequenceFacts ==
  ASSUME NEW S, NEW s \in Seq(S)
  PROVE  /\ Len(s) \in Nat /\ DOMAIN s = 1 .. Len(s)
         /\ \A i \in DOMAIN s : s[i] \in S
BY LenProperties, ElementOfSeq

LEMMA TailFacts ==
  ASSUME NEW S, NEW s \in Seq(S), s # <<>>
  PROVE  /\ Tail(s) \in Seq(S)
         /\ 1 \in DOMAIN s /\ Head(s) = s[1] /\ Head(s) \in S
         /\ \A i \in DOMAIN Tail(s) : i \in Nat /\ i + 1 \in DOMAIN s /\ Tail(s)[i] = s[i + 1]
<1>1. /\ Len(s) \in Nat \ {0} /\ DOMAIN s = 1 .. Len(s)
      /\ Tail(s) \in Seq(S) /\ Len(Tail(s)) = Len(s) - 1
      /\ \A i \in 1 .. Len(Tail(s)) : Tail(s)[i] = s[i + 1]
      /\ Head(s) \in S
  BY LenProperties, EmptySeq, HeadTailProperties
<1>2. DOMAIN Tail(s) = 1 .. Len(s) - 1
  BY <1>1, LenProperties
<1>3. Head(s) = s[1]
  OBVIOUS
<1> QED BY <1>1, <1>2, <1>3

LEMMA AppendFacts ==
  ASSUME NEW S, NEW s \in Seq(S), NEW e \in S
  PROVE  /\ Append(s, e) \in Seq(S) /\ Len(Append(s, e)) = Len(s) + 1
         /\ Len(s) \in Nat /\ DOMAIN s = 1 .. Len(s)
         /\ DOMAIN Append(s, e) = 1 .. Len(s) + 1
         /\ \A i \in DOMAIN s : Append(s, e)[i] = s[i]
         /\ Append(s, e)[Len(s) + 1] = e
BY AppendProperties, LenProperties

\* Of a prefix, every element is where it was.
LEMMA PrefixFacts ==
  ASSUME NEW S, NEW s \in Seq(S), NEW t \in Prefixes(s)
  PROVE  /\ t \in Seq(S)
         /\ \A i \in DOMAIN t : i \in DOMAIN s /\ t[i] = s[i]
<1>1. PICK k \in 0 .. Len(s) : t = SubSeq(s, 1, k)
  BY DEF Prefixes
<1>2. Len(s) \in Nat /\ DOMAIN s = 1 .. Len(s) /\ \A i \in 1 .. k : s[i] \in S
  BY LenProperties, ElementOfSeq
<1>3. /\ SubSeq(s, 1, k) \in Seq(S) /\ Len(SubSeq(s, 1, k)) = k
      /\ \A i \in 1 .. k : SubSeq(s, 1, k)[i] = s[i]
  BY <1>2, SubSeqProperties
<1>4. DOMAIN t = 1 .. k
  BY <1>1, <1>3, LenProperties
<1> QED BY <1>1, <1>2, <1>3, <1>4

LEMMA CallRecords ==
  ASSUME TypeOK, NEW c \in Client
  PROVE  /\ calls[c] \in Seq(CallRecord) /\ Len(calls[c]) \in 0 .. MaxCalls
         /\ DOMAIN calls[c] = 1 .. Len(calls[c])
         /\ \A n \in DOMAIN calls[c] : n \in 1 .. MaxCalls /\ calls[c][n] \in CallRecord
<1>1. calls[c] \in Seq(CallRecord) /\ Len(calls[c]) <= MaxCalls
  BY DEF TypeOK
<1> QED BY <1>1, SequenceFacts, MaxCallsAssumption

LEMMA OpenRecord ==
  ASSUME NEW r \in CallRecord, r.state \notin Outcome
  PROVE  r \in [method : Method, state : Open]
BY DEF CallRecord

LEMMA ConvertOutcome ==
  ASSUME NEW m, NEW kind
  PROVE  Convert(m, kind) \in Outcome
BY DEF Convert, Outcome

\* A step that changes the records of one client, each in its place.
LEMMA CallsType ==
  ASSUME TypeOK, NEW c \in Client, NEW s,
         s = [n \in DOMAIN calls[c] |-> s[n]],
         \A n \in DOMAIN calls[c] : s[n] \in CallRecord,
         calls' = [calls EXCEPT ![c] = s]
  PROVE  /\ calls' \in [Client -> Seq(CallRecord)]
         /\ \A d \in Client : Len(calls'[d]) <= MaxCalls
         /\ \A d \in Client : DOMAIN calls'[d] = DOMAIN calls[d]
<1>1. Len(calls[c]) \in Nat /\ DOMAIN calls[c] = 1 .. Len(calls[c]) /\ Len(calls[c]) <= MaxCalls
  BY CallRecords
<1>2. s \in [1 .. Len(calls[c]) -> CallRecord]
  BY <1>1
<1>3. s \in Seq(CallRecord)
  BY <1>1, <1>2, SeqDef
<1>4. Len(s) = Len(calls[c]) /\ DOMAIN s = DOMAIN calls[c]
  BY <1>1, <1>2, <1>3, LenProperties
<1> QED BY <1>1, <1>3, <1>4 DEF TypeOK

-----------------------------------------------------------------------------
(* One lemma per action *)

LEMMA InitStep == Init => IInv
<1> SUFFICES ASSUME Init PROVE IInv
  OBVIOUS
<1>1. /\ calls = [c \in Client |-> <<>>] /\ watcher = [c \in Client |-> "running"]
      /\ connected = [c \in Client |-> TRUE] /\ requests = [c \in Client |-> <<>>]
      /\ working = {} /\ finished = <<>> /\ answers = [c \in Client |-> <<>>] /\ made = {}
  BY DEF Init
<1>2. \A S : <<>> \in Seq(S) /\ Len(<<>>) = 0 /\ DOMAIN <<>> = {}
  BY EmptySeq
<1>3. IsFiniteSet(working) /\ Cardinality(working) = 0
  BY <1>1, FS_EmptySet
<1>4. TypeOK
  BY <1>1, <1>2, <1>3, MaxCallsAssumption, WorkersAssumption DEF TypeOK
<1>5. RequestsAreNew /\ WorkingAreNew /\ MadeWereSent
  BY <1>1, <1>2, <1>3 DEF RequestsAreNew, InOrder, Nonces, WorkingAreNew, MadeWereSent
<1>6. MessagesGenuine /\ EndOfTask /\ OwnAnswer
  BY <1>1, <1>2 DEF MessagesGenuine, EndOfTask, OwnAnswer
<1> QED BY <1>4, <1>5, <1>6 DEF IInv

\* What is not about the client's own calls survives if calls stay sent.
LEMMA FrameForCalls ==
  ASSUME IInv, UNCHANGED <<working, finished, made>>,
         \A c \in Client : \A n \in DOMAIN calls[c] : n \in DOMAIN calls'[c],
         \A c \in Client : \A n : Sent(c, n) => Sent(c, n)',
         made \subseteq Client \X (1 .. MaxCalls) \X Kind,
         working \subseteq [client : Client, nonce : 1 .. MaxCalls],
         \A i \in DOMAIN finished : finished[i].writer \in Client
  PROVE  /\ WorkingAreNew' /\ MadeWereSent'
         /\ \A c \in Client : \A m : Genuine(c, m) => Genuine(c, m)'
         /\ \A i \in DOMAIN finished : Genuine(finished[i].writer, finished[i].message)'
<1>1. WorkingAreNew'
  BY DEF IInv, WorkingAreNew, HasMade
<1>2. MadeWereSent'
  BY DEF IInv, MadeWereSent
<1>3. \A c \in Client : \A m : Genuine(c, m) => Genuine(c, m)'
  BY DEF Genuine
<1>4. \A i \in DOMAIN finished : Genuine(finished[i].writer, finished[i].message)'
  BY <1>3 DEF IInv, MessagesGenuine
<1> QED BY <1>1, <1>2, <1>3, <1>4

\* What the types say of messages, handlers and replies.
LEMMA Types ==
  ASSUME TypeOK
  PROVE  /\ made \subseteq Client \X (1 .. MaxCalls) \X Kind
         /\ working \subseteq [client : Client, nonce : 1 .. MaxCalls]
         /\ finished \in Seq([writer : Client, message : Answer \cup {Problem}])
         /\ \A i \in DOMAIN finished : finished[i].writer \in Client
         /\ \A c \in Client :
                /\ answers[c] \in Seq(Answer \cup {Problem})
                /\ requests[c] \in Seq([nonce : 1 .. MaxCalls, method : Method])
<1>1. finished \in Seq([writer : Client, message : Answer \cup {Problem}])
  BY DEF TypeOK
<1>2. \A i \in DOMAIN finished :
        finished[i] \in [writer : Client, message : Answer \cup {Problem}]
  BY <1>1, SequenceFacts
<1> QED BY <1>1, <1>2 DEF TypeOK

LEMMA CallStep ==
  ASSUME IInv, NEW c \in Client, NEW m \in Method, Call(c, m)
  PROVE  IInv'
<1>n. PICK nonce : nonce = Len(calls[c]) + 1
  OBVIOUS
<1> DEFINE state == IF TaskDone(c) THEN "refused" ELSE "waiting"
           record == [method |-> m, state |-> state]
           request == [nonce |-> nonce, method |-> m]
<1>1. /\ Len(calls[c]) < MaxCalls
      /\ calls' = [calls EXCEPT ![c] = Append(@, record)]
      /\ requests' = IF ~TaskDone(c) /\ connected[c]
                     THEN [requests EXCEPT ![c] = Append(@, request)] ELSE requests
      /\ UNCHANGED <<watcher, connected, working, finished, answers, made>>
  BY <1>n DEF Call
<1>2. TypeOK /\ calls \in [Client -> Seq(CallRecord)]
  BY DEF IInv, TypeOK
<1>3. /\ calls[c] \in Seq(CallRecord) /\ Len(calls[c]) \in Nat
      /\ DOMAIN calls[c] = 1 .. Len(calls[c]) /\ nonce \in 1 .. MaxCalls
  BY <1>1, <1>2, <1>n, CallRecords, MaxCallsAssumption
<1>4. record \in CallRecord /\ request \in [nonce : 1 .. MaxCalls, method : Method]
      /\ record.state = state
  BY <1>3 DEF CallRecord, Open
<1> HIDE DEF record
<1>5. /\ Append(calls[c], record) \in Seq(CallRecord)
      /\ Len(Append(calls[c], record)) = nonce
      /\ DOMAIN Append(calls[c], record) = 1 .. nonce
      /\ \A n \in DOMAIN calls[c] : Append(calls[c], record)[n] = calls[c][n]
      /\ Append(calls[c], record)[nonce] = record
  BY <1>3, <1>4, <1>n, AppendFacts
<1>6. /\ calls' \in [Client -> Seq(CallRecord)]
      /\ calls'[c] = Append(calls[c], record)
      /\ \A d \in Client : d # c => calls'[d] = calls[d]
  BY <1>1, <1>2, <1>5
<1>7. /\ \A d \in Client : \A n \in DOMAIN calls[d] :
            n \in DOMAIN calls'[d] /\ calls'[d][n] = calls[d][n]
      /\ \A d \in Client : \A n \in DOMAIN calls'[d] :
            n \in DOMAIN calls[d] \/ (d = c /\ n = nonce /\ calls'[d][n] = record)
      /\ \A d \in Client : Len(calls'[d]) <= MaxCalls
  BY <1>1, <1>2, <1>3, <1>5, <1>6, CallRecords, MaxCallsAssumption
<1>8. \A d \in Client : \A n : Sent(d, n) => Sent(d, n)'
  BY <1>7 DEF Sent
<1>9. /\ WorkingAreNew' /\ MadeWereSent'
      /\ \A d \in Client : \A x : Genuine(d, x) => Genuine(d, x)'
      /\ \A i \in DOMAIN finished : Genuine(finished[i].writer, finished[i].message)'
  BY <1>1, <1>2, <1>7, <1>8, FrameForCalls, Types
<1>10. MessagesGenuine'
  BY <1>1, <1>9 DEF IInv, MessagesGenuine
<1>11. EndOfTask'
  <2>1. state # "waiting" \/ watcher[c] = "running"
    BY DEF TaskDone
  <2>2. \A d \in Client : watcher[d] = "done" =>
            \A n \in DOMAIN calls'[d] : calls'[d][n].state # "waiting"
    BY <1>4, <1>7, <2>1 DEF IInv, EndOfTask, IsWaiting
  <2>3. \A d \in Client : watcher[d] = "failed" =>
            \E n \in DOMAIN calls'[d] : <<d, n, "unstreamable">> \in made
    BY <1>7 DEF IInv, EndOfTask
  <2> QED BY <1>1, <2>2, <2>3 DEF EndOfTask, IsWaiting
<1>12. OwnAnswer'
  <2>1. state \notin Outcome
    BY DEF Outcome
  <2> QED BY <1>1, <1>4, <1>7, <2>1 DEF IInv, OwnAnswer
<1>13. CASE requests' = requests
  <2>1. RequestsAreNew'
    BY <1>1, <1>8, <1>13 DEF IInv, RequestsAreNew, Fresh, HasMade, Nonces
  <2>2. TypeOK'
    BY <1>1, <1>2, <1>6, <1>7, <1>13 DEF TypeOK
  <2> QED BY <1>9, <1>10, <1>11, <1>12, <2>1, <2>2 DEF IInv
<1>14. CASE ~TaskDone(c) /\ connected[c]
  <2>1. requests' = [requests EXCEPT ![c] = Append(@, request)]
    BY <1>1, <1>14
  <2>2. state = "waiting"
    BY <1>14
  <2> HIDE DEF request
  <2>3. requests[c] \in Seq([nonce : 1 .. MaxCalls, method : Method])
    BY <1>2, Types
  <2>4. /\ Append(requests[c], request) \in Seq([nonce : 1 .. MaxCalls, method : Method])
        /\ Len(requests[c]) \in Nat /\ DOMAIN requests[c] = 1 .. Len(requests[c])
        /\ DOMAIN Append(requests[c], request) = 1 .. Len(requests[c]) + 1
        /\ \A i \in DOMAIN requests[c] : Append(requests[c], request)[i] = requests[c][i]
        /\ Append(requests[c], request)[Len(requests[c]) + 1] = request
    BY <1>4, <2>3, AppendFacts
  <2>5. requests \in [Client -> Seq([nonce : 1 .. MaxCalls, method : Method])]
    BY <1>2 DEF TypeOK
  <2>6. /\ requests' \in [Client -> Seq([nonce : 1 .. MaxCalls, method : Method])]
        /\ requests'[c] = Append(requests[c], request)
        /\ \A d \in Client : d # c => requests'[d] = requests[d]
    BY <2>1, <2>4, <2>5
  <2>7. TypeOK'
    BY <1>1, <1>2, <1>6, <1>7, <2>6 DEF TypeOK
  <2>8. request.nonce = nonce
    BY DEF request
  <2>9. Sent(c, nonce)' /\ ~Sent(c, nonce)
    BY <1>3, <1>4, <1>5, <1>6, <2>2 DEF Sent
  <2>10. ~HasMade(c, nonce) /\ [client |-> c, nonce |-> nonce] \notin working
    BY <2>9 DEF IInv, MadeWereSent, HasMade, WorkingAreNew
  <2>11. \A i \in DOMAIN requests[c] : requests[c][i].nonce < nonce
    <3> SUFFICES ASSUME NEW i \in DOMAIN requests[c] PROVE requests[c][i].nonce < nonce
      OBVIOUS
    <3>1. Sent(c, requests[c][i].nonce)
      BY DEF IInv, RequestsAreNew, Nonces, Fresh
    <3> QED BY <1>3, <1>n, <3>1 DEF Sent
  <2>12. \A i \in DOMAIN requests'[c] :
            \/ i \in DOMAIN requests[c] /\ requests'[c][i] = requests[c][i]
            \/ i = Len(requests[c]) + 1 /\ requests'[c][i] = request
    BY <2>4, <2>6
  <2>13. InOrder(requests'[c])
    <3> SUFFICES ASSUME NEW i \in DOMAIN requests'[c], NEW j \in DOMAIN requests'[c], i < j
                 PROVE  requests'[c][i].nonce < requests'[c][j].nonce
      BY DEF InOrder
    <3>1. i \in DOMAIN requests[c] /\ requests'[c][i] = requests[c][i]
      BY <2>4, <2>6, <2>12
    <3> QED BY <2>8, <2>11, <2>12, <3>1 DEF IInv, RequestsAreNew, InOrder
  <2>14. Nonces(c)' \subseteq Nonces(c) \cup {nonce}
    BY <2>8, <2>12 DEF Nonces
  <2>15. \A d \in Client : \A n : Fresh(d, n) => Fresh(d, n)'
    BY <1>1, <1>8 DEF Fresh, HasMade
  <2>16. Fresh(c, nonce)'
    BY <1>1, <2>9, <2>10 DEF Fresh, HasMade
  <2>17. RequestsAreNew'
    <3> SUFFICES ASSUME NEW d \in Client
                 PROVE  InOrder(requests'[d]) /\ \A n \in Nonces(d)' : Fresh(d, n)'
      BY DEF RequestsAreNew
    <3>1. CASE d # c
      <4>1. Nonces(d)' = Nonces(d) /\ requests'[d] = requests[d]
        BY <2>6, <3>1 DEF Nonces
      <4> QED BY <2>15, <4>1 DEF IInv, RequestsAreNew
    <3>2. CASE d = c
      BY <2>13, <2>14, <2>15, <2>16, <3>2 DEF IInv, RequestsAreNew
    <3> QED BY <3>1, <3>2
  <2> QED BY <1>9, <1>10, <1>11, <1>12, <2>7, <2>17 DEF IInv
<1> QED BY <1>1, <1>13, <1>14

\* A step that changes records of client c in their places and refuses none.
LEMMA InPlace ==
  ASSUME IInv, NEW c \in Client, NEW s,
         s = [n \in DOMAIN calls[c] |-> s[n]],
         \A n \in DOMAIN calls[c] :
            /\ s[n] \in CallRecord
            /\ s[n].state = "refused" => calls[c][n].state = "refused",
         calls' = [calls EXCEPT ![c] = s],
         UNCHANGED <<requests, working, finished, made>>
  PROVE  /\ calls' \in [Client -> Seq(CallRecord)]
         /\ \A d \in Client : Len(calls'[d]) <= MaxCalls
         /\ \A d \in Client : DOMAIN calls'[d] = DOMAIN calls[d]
         /\ RequestsAreNew' /\ WorkingAreNew' /\ MadeWereSent'
         /\ \A d \in Client : \A m : Genuine(d, m) => Genuine(d, m)'
         /\ \A i \in DOMAIN finished : Genuine(finished[i].writer, finished[i].message)'
<1>1. /\ calls' \in [Client -> Seq(CallRecord)]
      /\ \A d \in Client : Len(calls'[d]) <= MaxCalls
      /\ \A d \in Client : DOMAIN calls'[d] = DOMAIN calls[d]
  BY CallsType DEF IInv
<1>2. \A d \in Client : \A n : Sent(d, n) => Sent(d, n)'
  BY <1>1 DEF Sent, IInv, TypeOK
<1>3. /\ WorkingAreNew' /\ MadeWereSent'
      /\ \A d \in Client : \A m : Genuine(d, m) => Genuine(d, m)'
      /\ \A i \in DOMAIN finished : Genuine(finished[i].writer, finished[i].message)'
  BY <1>1, <1>2, FrameForCalls, Types DEF IInv
<1>4. RequestsAreNew'
  BY <1>2 DEF IInv, RequestsAreNew, Fresh, HasMade, Nonces
<1> QED BY <1>1, <1>3, <1>4

LEMMA CancelStep ==
  ASSUME IInv, NEW c \in Client, NEW n \in DOMAIN calls[c], Cancel(c, n)
  PROVE  IInv'
<1> DEFINE s == [calls[c] EXCEPT ![n].state = "dropped"]
<1>1. /\ calls[c][n].state = "waiting"
      /\ calls' = [calls EXCEPT ![c] = s]
      /\ UNCHANGED <<watcher, connected, requests, working, finished, answers, made>>
  BY DEF Cancel, IsWaiting
<1>2. /\ calls \in [Client -> Seq(CallRecord)]
      /\ \A k \in DOMAIN calls[c] : calls[c][k] \in CallRecord
  BY CallRecords DEF IInv, TypeOK
<1>3. s[n] = [calls[c][n] EXCEPT !.state = "dropped"]
      /\ \A k \in DOMAIN calls[c] : k # n => s[k] = calls[c][k]
  OBVIOUS
<1>12. s = [k \in DOMAIN calls[c] |-> s[k]]
  OBVIOUS
<1>4. s[n] \in CallRecord /\ s[n].state = "dropped"
  <2>1. calls[c][n] \in [method : Method, state : Open]
    BY <1>1, <1>2, OpenRecord DEF Outcome
  <2> HIDE DEF s
  <2> QED BY <1>3, <2>1 DEF CallRecord, Open
<1> HIDE DEF s
<1>5. calls'[c] = s /\ \A d \in Client : d # c => calls'[d] = calls[d]
  BY <1>1, <1>2
<1>11. \A k \in DOMAIN calls[c] :
        /\ s[k] \in CallRecord
        /\ s[k].state = "refused" => calls[c][k].state = "refused"
  BY <1>2, <1>3, <1>4
<1>13. UNCHANGED <<requests, working, finished, made>> /\ calls' = [calls EXCEPT ![c] = s]
  BY <1>1
<1>6. /\ calls' \in [Client -> Seq(CallRecord)]
      /\ \A d \in Client : Len(calls'[d]) <= MaxCalls
      /\ \A d \in Client : DOMAIN calls'[d] = DOMAIN calls[d]
      /\ RequestsAreNew' /\ WorkingAreNew' /\ MadeWereSent'
      /\ \A d \in Client : \A m : Genuine(d, m) => Genuine(d, m)'
      /\ \A i \in DOMAIN finished : Genuine(finished[i].writer, finished[i].message)'
  BY <1>11, <1>12, <1>13, InPlace
<1>7. TypeOK'
  BY <1>1, <1>6 DEF IInv, TypeOK
<1>8. MessagesGenuine'
  BY <1>1, <1>6 DEF IInv, MessagesGenuine
<1>9. EndOfTask'
  <2>1. \A d \in Client : \A k \in DOMAIN calls'[d] : IsWaiting(d, k)' => IsWaiting(d, k)
    BY <1>3, <1>4, <1>5, <1>6 DEF IsWaiting
  <2>2. watcher' = watcher /\ made' = made /\ EndOfTask
    BY <1>1 DEF IInv
  <2> QED BY <1>6, <2>1, <2>2 DEF EndOfTask
<1>10. OwnAnswer'
  <2>1. \A d \in Client : \A k \in DOMAIN calls[d] :
            \/ calls'[d][k] = calls[d][k]
            \/ calls'[d][k].state = "dropped"
    BY <1>3, <1>4, <1>5
  <2>2. "dropped" \notin Outcome
    BY DEF Outcome
  <2> QED BY <1>1, <1>6, <2>1, <2>2 DEF IInv, OwnAnswer
<1> QED BY <1>6, <1>7, <1>8, <1>9, <1>10 DEF IInv

LEMMA ReceiveStep ==
  ASSUME IInv, NEW c \in Client, Receive(c)
  PROVE  IInv'
<1> DEFINE answer == Head(answers[c])
           s == [n \in DOMAIN calls[c] |->
                    IF n \in Addressed(c, answer)
                    THEN [method |-> calls[c][n].method, of |-> answer.of,
                          kind |-> answer.kind,
                          state |-> Convert(calls[c][n].method, answer.kind)]
                    ELSE calls[c][n]]
<1>1. /\ watcher[c] = "running" /\ answers[c] # <<>> /\ answer # Problem
      /\ calls' = [calls EXCEPT ![c] = s]
      /\ answers' = [answers EXCEPT ![c] = Tail(@)]
      /\ UNCHANGED <<watcher, connected, requests, working, finished, made>>
  BY DEF Receive
<1>2. /\ calls \in [Client -> Seq(CallRecord)]
      /\ answers \in [Client -> Seq(Answer \cup {Problem})]
      /\ \A n \in DOMAIN calls[c] : calls[c][n] \in CallRecord
  BY CallRecords DEF IInv, TypeOK
<1>3. /\ Tail(answers[c]) \in Seq(Answer \cup {Problem})
      /\ 1 \in DOMAIN answers[c] /\ answer = answers[c][1] /\ answer \in Answer \cup {Problem}
      /\ \A i \in DOMAIN Tail(answers[c]) :
            i + 1 \in DOMAIN answers[c] /\ Tail(answers[c])[i] = answers[c][i + 1]
  BY <1>1, <1>2, TailFacts
<1>4. /\ answer \in Answer
      /\ answer.of = <<c, answer.nonce>> /\ <<c, answer.nonce, answer.kind>> \in made
  BY <1>1, <1>3 DEF IInv, MessagesGenuine, Genuine
<1> HIDE DEF answer
<1>5. \A n \in DOMAIN calls[c] :
        \/ s[n] = calls[c][n]
        \/ /\ calls[c][n].state = "waiting" /\ n = answer.nonce
           /\ s[n] = [method |-> calls[c][n].method, of |-> answer.of, kind |-> answer.kind,
                      state |-> Convert(calls[c][n].method, answer.kind)]
  BY DEF Addressed, IsWaiting
<1>6. s = [n \in DOMAIN calls[c] |-> s[n]]
  OBVIOUS
<1> HIDE DEF s
<1>7. ASSUME NEW n \in DOMAIN calls[c], s[n] # calls[c][n]
      PROVE  /\ s[n] \in CallRecord /\ s[n].state \in Outcome
             /\ s[n].of = <<c, n>> /\ <<c, n, s[n].kind>> \in made
  <2>1. /\ calls[c][n].state = "waiting" /\ n = answer.nonce
        /\ s[n] = [method |-> calls[c][n].method, of |-> answer.of, kind |-> answer.kind,
                   state |-> Convert(calls[c][n].method, answer.kind)]
    BY <1>5, <1>7
  <2>2. calls[c][n].method \in Method
    BY <1>2 DEF CallRecord
  <2>3. answer.of \in Client \X (1 .. MaxCalls) /\ answer.kind \in {"r", "e"}
    BY <1>4 DEF Answer
  <2> QED BY <1>4, <2>1, <2>2, <2>3, ConvertOutcome DEF CallRecord
<1>8. \A n \in DOMAIN calls[c] :
        /\ s[n] \in CallRecord
        /\ s[n].state = "refused" => calls[c][n].state = "refused"
        /\ s[n].state = "waiting" => calls[c][n].state = "waiting"
  BY <1>2, <1>7 DEF Outcome
<1>9. calls'[c] = s /\ \A d \in Client : d # c => calls'[d] = calls[d]
  BY <1>1, <1>2
<1>10. /\ calls' \in [Client -> Seq(CallRecord)]
       /\ \A d \in Client : Len(calls'[d]) <= MaxCalls
       /\ \A d \in Client : DOMAIN calls'[d] = DOMAIN calls[d]
       /\ RequestsAreNew' /\ WorkingAreNew' /\ MadeWereSent'
       /\ \A d \in Client : \A m : Genuine(d, m) => Genuine(d, m)'
       /\ \A i \in DOMAIN finished : Genuine(finished[i].writer, finished[i].message)'
  BY <1>1, <1>6, <1>8, InPlace
<1>11. TypeOK'
  BY <1>1, <1>2, <1>3, <1>10 DEF IInv, TypeOK
<1>12. MessagesGenuine'
  <2>1. \A d \in Client : \A i \in DOMAIN answers'[d] :
            \E j \in DOMAIN answers[d] : answers'[d][i] = answers[d][j]
    BY <1>1, <1>2, <1>3
  <2>2. \A d \in Client : \A i \in DOMAIN answers'[d] : Genuine(d, answers'[d][i])
    BY <2>1 DEF IInv, MessagesGenuine
  <2>3. \A d \in Client : \A i \in DOMAIN answers'[d] : Genuine(d, answers[d][i])'
    <3> SUFFICES ASSUME NEW d \in Client, NEW m, Genuine(d, m) PROVE Genuine(d, m)'
      BY <2>2
    <3> QED BY <1>10
  <2> QED BY <1>1, <1>10, <2>3 DEF MessagesGenuine
<1>13. EndOfTask'
  BY <1>1, <1>8, <1>9, <1>10 DEF IInv, EndOfTask, IsWaiting
<1>14. OwnAnswer'
  BY <1>1, <1>7, <1>9, <1>10 DEF IInv, OwnAnswer
<1> QED BY <1>10, <1>11, <1>12, <1>13, <1>14 DEF IInv

LEMMA ReceiveProblemStep ==
  ASSUME IInv, NEW c \in Client, ReceiveProblem(c)
  PROVE  IInv'
<1>1. /\ watcher[c] = "running" /\ answers[c] # <<>> /\ Head(answers[c]) = Problem
      /\ watcher' = [watcher EXCEPT ![c] = "failed"]
      /\ answers' = [answers EXCEPT ![c] = Tail(@)]
      /\ UNCHANGED <<calls, connected, requests, working, finished, made>>
  BY DEF ReceiveProblem
<1>2. /\ answers \in [Client -> Seq(Answer \cup {Problem})]
      /\ watcher \in [Client -> {"running", "done", "failed"}]
  BY DEF IInv, TypeOK
<1>3. /\ Tail(answers[c]) \in Seq(Answer \cup {Problem})
      /\ 1 \in DOMAIN answers[c] /\ Head(answers[c]) = answers[c][1]
      /\ \A i \in DOMAIN Tail(answers[c]) :
            i + 1 \in DOMAIN answers[c] /\ Tail(answers[c])[i] = answers[c][i + 1]
  BY <1>1, <1>2, TailFacts
<1>4. \E n \in DOMAIN calls[c] : <<c, n, "unstreamable">> \in made
  BY <1>1, <1>3 DEF IInv, MessagesGenuine, Genuine
<1>5. TypeOK'
  BY <1>1, <1>2, <1>3 DEF IInv, TypeOK
<1>6. RequestsAreNew' /\ WorkingAreNew' /\ MadeWereSent' /\ OwnAnswer'
  <2>1. RequestsAreNew'
    BY <1>1 DEF IInv, RequestsAreNew, Fresh, Nonces, Sent, HasMade
  <2>2. WorkingAreNew' /\ MadeWereSent'
    BY <1>1 DEF IInv, WorkingAreNew, MadeWereSent, Sent, HasMade
  <2>3. OwnAnswer'
    BY <1>1 DEF IInv, OwnAnswer
  <2> QED BY <2>1, <2>2, <2>3
<1>7. MessagesGenuine'
  <2>1. \A d \in Client : \A i \in DOMAIN answers'[d] :
            \E j \in DOMAIN answers[d] : answers'[d][i] = answers[d][j]
    BY <1>1, <1>2, <1>3
  <2>2. \A d \in Client : \A m : Genuine(d, m) => Genuine(d, m)'
    BY <1>1 DEF Genuine
  <2>3. \A d \in Client : \A i \in DOMAIN answers'[d] : Genuine(d, answers'[d][i])
    BY <2>1 DEF IInv, MessagesGenuine
  <2>4. \A d \in Client : \A i \in DOMAIN answers'[d] : Genuine(d, answers[d][i])'
    <3> SUFFICES ASSUME NEW d \in Client, NEW m, Genuine(d, m) PROVE Genuine(d, m)'
      BY <2>3
    <3> QED BY <2>2
  <2>5. \A i \in DOMAIN finished : Genuine(finished[i].writer, finished[i].message)'
    BY <1>1 DEF IInv, MessagesGenuine, Genuine
  <2> QED BY <1>1, <2>4, <2>5 DEF MessagesGenuine
<1>8. EndOfTask'
  BY <1>1, <1>2, <1>4 DEF IInv, EndOfTask, IsWaiting
<1> QED BY <1>5, <1>6, <1>7, <1>8 DEF IInv

LEMMA EndOfStreamStep ==
  ASSUME IInv, NEW c \in Client, EndOfStream(c)
  PROVE  IInv'
<1> DEFINE s == ResetWaiting(calls[c])
<1>1. /\ watcher[c] = "running"
      /\ watcher' = [watcher EXCEPT ![c] = "done"]
      /\ calls' = [calls EXCEPT ![c] = s]
      /\ UNCHANGED <<connected, requests, working, finished, answers, made>>
  BY DEF EndOfStream
<1>2. /\ calls \in [Client -> Seq(CallRecord)]
      /\ watcher \in [Client -> {"running", "done", "failed"}]
      /\ \A k \in DOMAIN calls[c] : calls[c][k] \in CallRecord
  BY CallRecords DEF IInv, TypeOK
<1>3. /\ s = [n \in DOMAIN calls[c] |-> s[n]]
      /\ \A n \in DOMAIN calls[c] :
            s[n] = IF calls[c][n].state = "waiting" THEN [calls[c][n] EXCEPT !.state = "reset"]
                   ELSE calls[c][n]
  BY DEF ResetWaiting
<1> HIDE DEF s
<1>4. ASSUME NEW n \in DOMAIN calls[c], calls[c][n].state = "waiting"
      PROVE  s[n] \in CallRecord /\ s[n].state = "reset"
  <2>1. calls[c][n] \in [method : Method, state : Open]
    BY <1>2, <1>4, OpenRecord DEF Outcome
  <2> QED BY <1>3, <1>4, <2>1 DEF CallRecord, Open
<1>5. \A n \in DOMAIN calls[c] :
        /\ s[n] \in CallRecord
        /\ s[n].state = "refused" => calls[c][n].state = "refused"
        /\ s[n].state # "waiting"
        /\ s[n].state \in Outcome => s[n] = calls[c][n]
  BY <1>2, <1>3, <1>4 DEF Outcome
<1>6. calls'[c] = s /\ \A d \in Client : d # c => calls'[d] = calls[d]
  BY <1>1, <1>2
<1>7. /\ calls' \in [Client -> Seq(CallRecord)]
      /\ \A d \in Client : Len(calls'[d]) <= MaxCalls
      /\ \A d \in Client : DOMAIN calls'[d] = DOMAIN calls[d]
      /\ RequestsAreNew' /\ WorkingAreNew' /\ MadeWereSent'
      /\ \A d \in Client : \A m : Genuine(d, m) => Genuine(d, m)'
      /\ \A i \in DOMAIN finished : Genuine(finished[i].writer, finished[i].message)'
  BY <1>1, <1>3, <1>5, InPlace
<1>8. TypeOK'
  BY <1>1, <1>2, <1>7 DEF IInv, TypeOK
<1>9. MessagesGenuine'
  BY <1>1, <1>7 DEF IInv, MessagesGenuine
<1>10. EndOfTask'
  BY <1>1, <1>2, <1>5, <1>6, <1>7 DEF IInv, EndOfTask, IsWaiting
<1>11. OwnAnswer'
  BY <1>1, <1>5, <1>6, <1>7 DEF IInv, OwnAnswer
<1> QED BY <1>7, <1>8, <1>9, <1>10, <1>11 DEF IInv

LEMMA TakeStep ==
  ASSUME IInv, NEW c \in Client, Take(c)
  PROVE  IInv'
<1>n. PICK nonce : nonce = Head(requests[c]).nonce
  OBVIOUS
<1>1. /\ Cardinality(working) < Workers /\ requests[c] # <<>>
      /\ working' = working \cup {[client |-> c, nonce |-> nonce]}
      /\ requests' = [requests EXCEPT ![c] = Tail(@)]
      /\ UNCHANGED <<calls, watcher, connected, finished, answers, made>>
  BY <1>n DEF Take
<1>2. requests \in [Client -> Seq([nonce : 1 .. MaxCalls, method : Method])]
  BY DEF IInv, TypeOK
<1>3. /\ Tail(requests[c]) \in Seq([nonce : 1 .. MaxCalls, method : Method])
      /\ 1 \in DOMAIN requests[c] /\ Head(requests[c]) = requests[c][1]
      /\ Head(requests[c]) \in [nonce : 1 .. MaxCalls, method : Method]
      /\ \A i \in DOMAIN Tail(requests[c]) :
            /\ i \in Nat /\ i + 1 \in DOMAIN requests[c]
            /\ Tail(requests[c])[i] = requests[c][i + 1]
  BY <1>1, <1>2, TailFacts
<1>4. /\ requests' \in [Client -> Seq([nonce : 1 .. MaxCalls, method : Method])]
      /\ requests'[c] = Tail(requests[c])
      /\ \A d \in Client : d # c => requests'[d] = requests[d]
  BY <1>1, <1>2, <1>3
<1>5. Fresh(c, nonce) /\ nonce \in 1 .. MaxCalls
  BY <1>n, <1>3 DEF IInv, RequestsAreNew, Nonces
<1>6. IsFiniteSet(working') /\ Cardinality(working') <= Workers
  <2>1. IsFiniteSet(working) /\ Cardinality(working) \in Nat
    BY FS_CardinalityType DEF IInv, WorkingAreNew
  <2>2. /\ IsFiniteSet(working')
        /\ Cardinality(working') = Cardinality(working)
           \/ Cardinality(working') = Cardinality(working) + 1
    BY <1>1, <2>1, FS_AddElement
  <2> QED BY <1>1, <2>1, <2>2, WorkersAssumption
<1>7. TypeOK'
  <2>1. working' \subseteq [client : Client, nonce : 1 .. MaxCalls]
    BY <1>1, <1>5 DEF IInv, TypeOK
  <2> QED BY <1>1, <1>4, <1>6, <2>1 DEF IInv, TypeOK
<1>8. \A d \in Client : InOrder(requests'[d])
  <2>1. InOrder(requests[c])
    BY DEF IInv, RequestsAreNew
  <2>2. InOrder(Tail(requests[c]))
    <3> SUFFICES ASSUME NEW i \in DOMAIN Tail(requests[c]), NEW j \in DOMAIN Tail(requests[c]),
                        i < j
                 PROVE  Tail(requests[c])[i].nonce < Tail(requests[c])[j].nonce
      BY DEF InOrder
    <3>1. /\ i + 1 \in DOMAIN requests[c] /\ Tail(requests[c])[i] = requests[c][i + 1]
          /\ j + 1 \in DOMAIN requests[c] /\ Tail(requests[c])[j] = requests[c][j + 1]
          /\ i + 1 < j + 1
      <4>1. /\ i \in Nat /\ i + 1 \in DOMAIN requests[c]
            /\ Tail(requests[c])[i] = requests[c][i + 1]
        BY <1>3
      <4>2. /\ j \in Nat /\ j + 1 \in DOMAIN requests[c]
            /\ Tail(requests[c])[j] = requests[c][j + 1]
        BY <1>3
      <4>3. i + 1 < j + 1
        BY <4>1, <4>2
      <4> QED BY <4>1, <4>2, <4>3
    <3>2. \A k, l \in DOMAIN requests[c] : k < l => requests[c][k].nonce < requests[c][l].nonce
      BY <2>1 DEF InOrder
    <3> QED BY <3>1, <3>2
  <2> QED BY <1>4, <2>2 DEF IInv, RequestsAreNew
<1>9. \A d \in Client : \A n \in Nonces(d)' : n \in Nonces(d) /\ ~(d = c /\ n = nonce)
  <2>1. ASSUME NEW n \in Nonces(c)' PROVE n \in Nonces(c) /\ n # nonce
    <3>1. PICK i \in DOMAIN Tail(requests[c]) : n = Tail(requests[c])[i].nonce
      BY <1>4 DEF Nonces
    <3>2. i \in Nat /\ i + 1 \in DOMAIN requests[c] /\ n = requests[c][i + 1].nonce
      BY <1>3, <3>1
    <3>3. 1 < i + 1
      BY <2>1, <3>1, <3>2, <1>3, <1>4, SequenceFacts
    <3>4. nonce < n
      BY <1>n, <1>3, <3>2, <3>3 DEF IInv, RequestsAreNew, InOrder
    <3>5. nonce \in Nat
      BY <1>5
    <3> QED BY <3>2, <3>4, <3>5 DEF Nonces
  <2>2. ASSUME NEW d \in Client, d # c PROVE Nonces(d)' = Nonces(d)
    BY <1>4, <2>2 DEF Nonces
  <2> QED BY <2>1, <2>2
<1>10. RequestsAreNew'
  <2> SUFFICES ASSUME NEW d \in Client, NEW n \in Nonces(d)' PROVE Fresh(d, n)'
    BY <1>8 DEF RequestsAreNew
  <2>1. Fresh(d, n) /\ ~(d = c /\ n = nonce)
    BY <1>9 DEF IInv, RequestsAreNew
  <2> QED BY <1>1, <2>1 DEF Fresh, Sent, HasMade
<1>11. WorkingAreNew'
  <2>1. Sent(c, nonce) /\ ~HasMade(c, nonce)
    BY <1>5 DEF Fresh
  <2>2. ASSUME NEW job \in working' PROVE Sent(job.client, job.nonce) /\ ~HasMade(job.client, job.nonce)
    <3>1. CASE job \in working
      BY <3>1 DEF IInv, WorkingAreNew
    <3>2. CASE job = [client |-> c, nonce |-> nonce]
      BY <2>1, <3>2
    <3> QED BY <1>1, <2>2, <3>1, <3>2
  <2>3. \A d, n : (Sent(d, n)' <=> Sent(d, n)) /\ (HasMade(d, n)' <=> HasMade(d, n))
    BY <1>1 DEF Sent, HasMade
  <2> QED BY <1>6, <2>2, <2>3 DEF WorkingAreNew
<1>12. MadeWereSent' /\ MessagesGenuine' /\ EndOfTask' /\ OwnAnswer'
  BY <1>1 DEF IInv, MadeWereSent, MessagesGenuine, Genuine, EndOfTask, OwnAnswer, Sent, IsWaiting
<1> QED BY <1>7, <1>10, <1>11, <1>12 DEF IInv

LEMMA FinishStep ==
  ASSUME IInv, NEW job \in working, NEW kind \in Kind, Finish(job, kind)
  PROVE  IInv'
<1>j. PICK c, n : c = job.client /\ n = job.nonce
  OBVIOUS
<1>m. PICK message : message = IF kind = "unstreamable" THEN Problem
                               ELSE [nonce |-> n, kind |-> kind, of |-> <<c, n>>]
  OBVIOUS
<1>1. /\ working' = working \ {job}
      /\ made' = made \cup {<<c, n, kind>>}
      /\ finished' = Append(finished, [writer |-> c, message |-> message])
      /\ UNCHANGED <<calls, watcher, connected, requests, answers>>
  BY <1>j, <1>m DEF Finish
<1>2. TypeOK
  BY DEF IInv
<1>3. c \in Client /\ n \in 1 .. MaxCalls /\ job = [client |-> c, nonce |-> n]
  BY <1>j, <1>2, Types
<1>4. Sent(c, n) /\ ~HasMade(c, n)
  BY <1>j DEF IInv, WorkingAreNew
<1>5. message \in Answer \cup {Problem}
  BY <1>m, <1>3, KindAssumption DEF Answer
<1>6. /\ finished' \in Seq([writer : Client, message : Answer \cup {Problem}])
      /\ Len(finished) \in Nat /\ DOMAIN finished = 1 .. Len(finished)
      /\ DOMAIN finished' = 1 .. Len(finished) + 1
      /\ \A i \in DOMAIN finished : finished'[i] = finished[i]
      /\ finished'[Len(finished) + 1] = [writer |-> c, message |-> message]
  BY <1>1, <1>2, <1>3, <1>5, AppendFacts, Types
<1>7. IsFiniteSet(working') /\ Cardinality(working') <= Workers
  <2>1. IsFiniteSet(working) /\ Cardinality(working) \in Nat /\ Cardinality(working) <= Workers
    BY FS_CardinalityType DEF IInv, TypeOK, WorkingAreNew
  <2>2. IsFiniteSet(working') /\ Cardinality(working') = Cardinality(working) - 1
    BY <1>1, <2>1, FS_RemoveElement
  <2> QED BY <2>1, <2>2, WorkersAssumption
<1>8. TypeOK'
  <2>1. made' \subseteq Client \X (1 .. MaxCalls) \X Kind
    BY <1>1, <1>2, <1>3, Types
  <2>2. working' \subseteq [client : Client, nonce : 1 .. MaxCalls]
    BY <1>1, <1>2, Types
  <2> QED BY <1>1, <1>2, <1>6, <1>7, <2>1, <2>2 DEF TypeOK
<1>9. \A d \in Client : \A k : ~(d = c /\ k = n) /\ ~HasMade(d, k) => ~HasMade(d, k)'
  BY <1>1 DEF HasMade
<1>10. \A d \in Client : \A k : Fresh(d, k) => Fresh(d, k)'
  BY <1>1, <1>3, <1>9 DEF Fresh, Sent
<1>11. RequestsAreNew'
  BY <1>1, <1>10 DEF IInv, RequestsAreNew, Nonces
<1>12. WorkingAreNew'
  <2> SUFFICES ASSUME NEW other \in working'
               PROVE  Sent(other.client, other.nonce)' /\ ~HasMade(other.client, other.nonce)'
    BY <1>7 DEF WorkingAreNew
  <2>1. other \in working /\ other # job
    BY <1>1
  <2>2. /\ other.client \in Client
        /\ other = [client |-> other.client, nonce |-> other.nonce]
    BY <1>2, <2>1, Types
  <2>3. ~(other.client = c /\ other.nonce = n)
    BY <1>3, <2>1, <2>2
  <2>4. Sent(other.client, other.nonce) /\ ~HasMade(other.client, other.nonce)
    BY <2>1 DEF IInv, WorkingAreNew
  <2> QED BY <1>1, <1>9, <2>2, <2>3, <2>4 DEF Sent
<1>13. MadeWereSent'
  <2>1. \A t \in made' : t \in made \/ (t[1] = c /\ t[2] = n)
    BY <1>1
  <2> QED BY <1>1, <1>4, <2>1 DEF IInv, MadeWereSent, Sent
<1>14. MessagesGenuine'
  <2>1. \A d \in Client : \A x : Genuine(d, x) => Genuine(d, x)'
    BY <1>1 DEF Genuine
  <2>2. Genuine(c, message)'
    <3>1. CASE kind = "unstreamable"
      BY <1>1, <1>4, <1>m, <3>1 DEF Genuine, Sent
    <3>2. CASE kind # "unstreamable"
      <4>1. message = [nonce |-> n, kind |-> kind, of |-> <<c, n>>] /\ message # Problem
        BY <1>m, <3>2 DEF Problem
      <4> QED BY <1>1, <4>1 DEF Genuine
    <3> QED BY <3>1, <3>2
  <2>3. \A i \in DOMAIN finished' : Genuine(finished[i].writer, finished[i].message)'
    <3> SUFFICES ASSUME NEW i \in DOMAIN finished', NEW d, NEW x,
                        d = finished'[i].writer, x = finished'[i].message
                 PROVE  Genuine(d, x)'
      OBVIOUS
    <3>1. CASE i \in DOMAIN finished
      <4>1. d = finished[i].writer /\ x = finished[i].message
        BY <1>6, <3>1
      <4>2. d \in Client /\ Genuine(d, x)
        BY <1>2, <3>1, <4>1, Types DEF IInv, MessagesGenuine
      <4> QED BY <2>1, <4>2
    <3>2. CASE i = Len(finished) + 1
      <4>1. d = c /\ x = message
        BY <1>6, <3>2
      <4> QED BY <2>2, <4>1
    <3> QED BY <1>6, <3>1, <3>2
  <2>4. \A d \in Client : \A i \in DOMAIN answers[d] : Genuine(d, answers[d][i])
    BY DEF IInv, MessagesGenuine
  <2>5. \A d \in Client : \A i \in DOMAIN answers'[d] : Genuine(d, answers[d][i])'
    BY <1>1, <2>4 DEF Genuine
  <2> QED BY <1>1, <2>3, <2>5 DEF MessagesGenuine
<1>15. EndOfTask' /\ OwnAnswer'
  BY <1>1 DEF IInv, EndOfTask, OwnAnswer, IsWaiting
<1> QED BY <1>8, <1>11, <1>12, <1>13, <1>14, <1>15 DEF IInv

\* A step that only passes replies on: each message was on its way before.
LEMMA PassedOn ==
  ASSUME IInv, UNCHANGED <<calls, watcher, working, made>>,
         answers' \in [Client -> Seq(Answer \cup {Problem})],
         finished' \in Seq([writer : Client, message : Answer \cup {Problem}]),
         \A d \in Client : \A i \in DOMAIN answers'[d] :
            \/ \E j \in DOMAIN answers[d] : answers'[d][i] = answers[d][j]
            \/ \E j \in DOMAIN finished :
                    finished[j].writer = d /\ answers'[d][i] = finished[j].message,
         \A i \in DOMAIN finished' : \E j \in DOMAIN finished : finished'[i] = finished[j]
  PROVE  WorkingAreNew' /\ MadeWereSent' /\ MessagesGenuine' /\ EndOfTask' /\ OwnAnswer'
<1>1. WorkingAreNew' /\ MadeWereSent'
  BY DEF IInv, WorkingAreNew, MadeWereSent, Sent, HasMade
<1>2. EndOfTask' /\ OwnAnswer'
  BY DEF IInv, EndOfTask, OwnAnswer, IsWaiting
<1>3. \A d : \A m : Genuine(d, m) => Genuine(d, m)'
  BY DEF Genuine
<1>4. \A d \in Client : \A i \in DOMAIN answers'[d] : Genuine(d, answers'[d][i])
  BY DEF IInv, MessagesGenuine
<1>5. \A i \in DOMAIN finished' : Genuine(finished'[i].writer, finished'[i].message)
  BY DEF IInv, MessagesGenuine
<1>6. \A d \in Client : \A i \in DOMAIN answers'[d] : Genuine(d, answers[d][i])'
  <2> SUFFICES ASSUME NEW d, NEW m, Genuine(d, m) PROVE Genuine(d, m)'
    BY <1>4
  <2> QED BY <1>3
<1>7. \A i \in DOMAIN finished' : Genuine(finished[i].writer, finished[i].message)'
  <2> SUFFICES ASSUME NEW d, NEW m, Genuine(d, m) PROVE Genuine(d, m)'
    BY <1>5
  <2> QED BY <1>3
<1>8. MessagesGenuine'
  BY <1>6, <1>7 DEF MessagesGenuine
<1> QED BY <1>1, <1>2, <1>8

LEMMA WriteStep ==
  ASSUME IInv, Write
  PROVE  IInv'
<1>c. PICK c : c = Head(finished).writer
  OBVIOUS
<1>1. /\ finished # <<>>
      /\ answers' = IF connected[c]
                    THEN [answers EXCEPT ![c] = Append(@, Head(finished).message)] ELSE answers
      /\ finished' = Tail(finished)
      /\ UNCHANGED <<calls, watcher, connected, requests, working, made>>
  BY <1>c DEF Write
<1>2. /\ answers \in [Client -> Seq(Answer \cup {Problem})]
      /\ finished \in Seq([writer : Client, message : Answer \cup {Problem}])
  BY DEF IInv, TypeOK
<1>3. /\ finished' \in Seq([writer : Client, message : Answer \cup {Problem}])
      /\ 1 \in DOMAIN finished /\ Head(finished) = finished[1]
      /\ Head(finished) \in [writer : Client, message : Answer \cup {Problem}]
      /\ \A i \in DOMAIN finished' : \E j \in DOMAIN finished : finished'[i] = finished[j]
  BY <1>1, <1>2, TailFacts
<1>4. c \in Client /\ Head(finished).message \in Answer \cup {Problem}
  BY <1>c, <1>3
<1>5. answers[c] \in Seq(Answer \cup {Problem})
  BY <1>2, <1>4
<1>6. /\ Append(answers[c], Head(finished).message) \in Seq(Answer \cup {Problem})
      /\ DOMAIN answers[c] = 1 .. Len(answers[c]) /\ Len(answers[c]) \in Nat
      /\ DOMAIN Append(answers[c], Head(finished).message) = 1 .. Len(answers[c]) + 1
      /\ \A i \in DOMAIN answers[c] :
            Append(answers[c], Head(finished).message)[i] = answers[c][i]
      /\ Append(answers[c], Head(finished).message)[Len(answers[c]) + 1] = Head(finished).message
  BY <1>4, <1>5, AppendFacts
<1>7. answers' \in [Client -> Seq(Answer \cup {Problem})]
  BY <1>1, <1>2, <1>6
<1>8. \A d \in Client : \A i \in DOMAIN answers'[d] :
        \/ \E j \in DOMAIN answers[d] : answers'[d][i] = answers[d][j]
        \/ \E j \in DOMAIN finished :
                finished[j].writer = d /\ answers'[d][i] = finished[j].message
  <2> SUFFICES ASSUME NEW d \in Client, NEW i \in DOMAIN answers'[d], answers'[d] # answers[d]
               PROVE  \/ \E j \in DOMAIN answers[d] : answers'[d][i] = answers[d][j]
                      \/ \E j \in DOMAIN finished :
                            finished[j].writer = d /\ answers'[d][i] = finished[j].message
    OBVIOUS
  <2>1. d = c /\ answers'[c] = Append(answers[c], Head(finished).message)
    BY <1>1, <1>2, <1>4
  <2>2. CASE i \in DOMAIN answers[c]
    BY <1>6, <2>1, <2>2
  <2>3. CASE i = Len(answers[c]) + 1
    BY <1>c, <1>3, <1>6, <2>1, <2>3
  <2> QED BY <1>6, <2>1, <2>2, <2>3
<1>9. WorkingAreNew' /\ MadeWereSent' /\ MessagesGenuine' /\ EndOfTask' /\ OwnAnswer'
  BY <1>1, <1>3, <1>7, <1>8, PassedOn
<1>10. TypeOK'
  BY <1>1, <1>3, <1>7 DEF IInv, TypeOK
<1>11. RequestsAreNew'
  BY <1>1 DEF IInv, RequestsAreNew, Fresh, Nonces, Sent, HasMade
<1> QED BY <1>9, <1>10, <1>11 DEF IInv

LEMMA LoseStep ==
  ASSUME IInv, NEW c \in Client, Lose(c)
  PROVE  IInv'
<1>1. PICK s \in Prefixes(requests[c]) : requests' = [requests EXCEPT ![c] = s]
  BY DEF Lose
<1>2. PICK t \in Prefixes(answers[c]) : answers' = [answers EXCEPT ![c] = t]
  BY DEF Lose
<1>3. /\ connected' = [connected EXCEPT ![c] = FALSE]
      /\ UNCHANGED <<calls, watcher, working, finished, made>>
  BY DEF Lose
<1>4. /\ requests \in [Client -> Seq([nonce : 1 .. MaxCalls, method : Method])]
      /\ answers \in [Client -> Seq(Answer \cup {Problem})]
      /\ finished \in Seq([writer : Client, message : Answer \cup {Problem}])
  BY DEF IInv, TypeOK
<1>5. /\ s \in Seq([nonce : 1 .. MaxCalls, method : Method])
      /\ \A i \in DOMAIN s : i \in DOMAIN requests[c] /\ s[i] = requests[c][i]
  <2>1. PICK S, q : S = [nonce : 1 .. MaxCalls, method : Method] /\ q = requests[c]
    OBVIOUS
  <2>2. q \in Seq(S) /\ s \in Prefixes(q)
    BY <1>4, <2>1
  <2>3. s \in Seq(S) /\ \A i \in DOMAIN s : i \in DOMAIN q /\ s[i] = q[i]
    BY <2>2, PrefixFacts
  <2> QED BY <2>1, <2>3
<1>6. /\ t \in Seq(Answer \cup {Problem})
      /\ \A i \in DOMAIN t : i \in DOMAIN answers[c] /\ t[i] = answers[c][i]
  <2>1. PICK S, q : S = Answer \cup {Problem} /\ q = answers[c]
    OBVIOUS
  <2>2. q \in Seq(S) /\ t \in Prefixes(q)
    BY <1>4, <2>1
  <2>3. t \in Seq(S) /\ \A i \in DOMAIN t : i \in DOMAIN q /\ t[i] = q[i]
    BY <2>2, PrefixFacts
  <2> QED BY <2>1, <2>3
<1>7. /\ requests' \in [Client -> Seq([nonce : 1 .. MaxCalls, method : Method])]
      /\ \A d \in Client : \A i \in DOMAIN requests'[d] :
            i \in DOMAIN requests[d] /\ requests'[d][i] = requests[d][i]
  BY <1>1, <1>4, <1>5
<1>8. /\ answers' \in [Client -> Seq(Answer \cup {Problem})]
      /\ \A d \in Client : \A i \in DOMAIN answers'[d] :
            \E j \in DOMAIN answers[d] : answers'[d][i] = answers[d][j]
  BY <1>2, <1>4, <1>6
<1>9. WorkingAreNew' /\ MadeWereSent' /\ MessagesGenuine' /\ EndOfTask' /\ OwnAnswer'
  BY <1>3, <1>4, <1>8, PassedOn
<1>10. TypeOK'
  BY <1>3, <1>7, <1>8 DEF IInv, TypeOK
<1>11. RequestsAreNew'
  <2>1. \A d \in Client : InOrder(requests'[d])
    BY <1>7 DEF IInv, RequestsAreNew, InOrder
  <2>2. \A d \in Client : Nonces(d)' \subseteq Nonces(d)
    BY <1>7 DEF Nonces
  <2>3. \A d \in Client : \A n : Fresh(d, n) => Fresh(d, n)'
    BY <1>3 DEF Fresh, Sent, HasMade
  <2> QED BY <2>1, <2>2, <2>3 DEF IInv, RequestsAreNew
<1> QED BY <1>9, <1>10, <1>11 DEF IInv

LEMMA NextStep == IInv /\ [Next]_rpcVars => IInv'
<1> SUFFICES ASSUME IInv, [Next]_rpcVars PROVE IInv'
  OBVIOUS
<1>1. CASE UNCHANGED rpcVars
  <2>1. UNCHANGED <<calls, watcher, connected, requests, working, finished, answers, made>>
    BY <1>1 DEF rpcVars
  <2>2. TypeOK'
    BY <2>1 DEF IInv, TypeOK
  <2>3. RequestsAreNew'
    BY <2>1 DEF IInv, RequestsAreNew, Nonces, Fresh, Sent, HasMade
  <2>4. WorkingAreNew' /\ MadeWereSent' /\ MessagesGenuine' /\ EndOfTask' /\ OwnAnswer'
    BY <2>1, PassedOn DEF IInv, TypeOK
  <2> QED BY <2>2, <2>3, <2>4 DEF IInv
<1>2. ASSUME NEW c \in Client, NEW m \in Method, Call(c, m) PROVE IInv'
  BY <1>2, CallStep
<1>3. ASSUME NEW c \in Client, NEW n \in DOMAIN calls[c], Cancel(c, n) PROVE IInv'
  BY <1>3, CancelStep
<1>4. ASSUME NEW c \in Client, Read(c) PROVE IInv'
  BY <1>4, ReceiveStep, ReceiveProblemStep, EndOfStreamStep DEF Read
<1>5. ASSUME NEW c \in Client, Take(c) \/ Lose(c) PROVE IInv'
  BY <1>5, TakeStep, LoseStep
<1>6. ASSUME NEW job \in working, NEW kind \in Kind, Finish(job, kind) PROVE IInv'
  BY <1>6, FinishStep
<1>7. CASE Write
  BY <1>7, WriteStep
<1> QED BY <1>1, <1>2, <1>3, <1>4, <1>5, <1>6, <1>7 DEF Next

-----------------------------------------------------------------------------
(* The theorems *)

LEMMA Inductive == Spec => []IInv
BY InitStep, NextStep, PTL DEF Spec

\* Every variable stays in its type; in particular no more than Workers
\* requests are worked on at a time (api_server.py:57-79).
THEOREM RpcTypeCorrect == Spec => []TypeOK
<1>1. IInv => TypeOK
  BY DEF IInv
<1> QED BY <1>1, Inductive, PTL

\* A call that ends with an answer got its own: replies are matched to callers
\* by nonces that are each worked on once, whatever the order of the replies.
THEOREM AnswersAreOwn == Spec => []OwnAnswer
<1>1. IInv => OwnAnswer
  BY DEF IInv
<1> QED BY <1>1, Inductive, PTL

\* Nobody waits for a task that has ended, unless a reply to this client could
\* not be streamed.
THEOREM NobodyIsForgotten == Spec => []NoneLeftWaiting
<1>1. IInv => NoneLeftWaiting
  <2> SUFFICES ASSUME IInv, NEW c \in Client, NEW n \in DOMAIN calls[c],
                      IsWaiting(c, n), watcher[c] # "running"
               PROVE  \E k \in DOMAIN calls[c] : <<c, k, "unstreamable">> \in made
    BY DEF NoneLeftWaiting
  <2>1. watcher[c] \in {"running", "done", "failed"}
    BY DEF IInv, TypeOK
  <2> QED BY <2>1 DEF IInv, EndOfTask
<1> QED BY <1>1, Inductive, PTL

-----------------------------------------------------------------------------
(* Rpc implements RemoteCalls *)

LEMMA Mapped ==
  ASSUME IInv
  PROVE  /\ Standings = [c \in Client |-> Standings[c]]
         /\ \A c \in Client :
            /\ DOMAIN Standings[c] = DOMAIN calls[c]
            /\ Len(Standings[c]) = Len(calls[c])
            /\ Standings[c] \in Seq(Remote!CallState)
            /\ Len(calls[c]) \in Nat /\ DOMAIN calls[c] = 1 .. Len(calls[c])
            /\ \A n \in DOMAIN calls[c] : Standings[c][n] = Standing(c, n)
<1> SUFFICES ASSUME NEW c \in Client
             PROVE  /\ DOMAIN Standings[c] = DOMAIN calls[c]
                    /\ Len(Standings[c]) = Len(calls[c])
                    /\ Standings[c] \in Seq(Remote!CallState)
                    /\ Len(calls[c]) \in Nat /\ DOMAIN calls[c] = 1 .. Len(calls[c])
                    /\ \A n \in DOMAIN calls[c] : Standings[c][n] = Standing(c, n)
  BY DEF Standings
<1>1. /\ Len(calls[c]) \in Nat /\ DOMAIN calls[c] = 1 .. Len(calls[c])
      /\ \A n \in DOMAIN calls[c] : calls[c][n] \in CallRecord
  BY CallRecords DEF IInv
<1>2. Standings[c] = [n \in DOMAIN calls[c] |-> Standing(c, n)]
  BY DEF Standings
<1>3. \A n \in DOMAIN calls[c] : Standing(c, n) \in Remote!CallState
  BY <1>1 DEF Standing, CallRecord, Open, Outcome, Remote!CallState
<1>4. Standings[c] \in [1 .. Len(calls[c]) -> Remote!CallState]
  BY <1>1, <1>2, <1>3
<1>5. Standings[c] \in Seq(Remote!CallState)
  BY <1>1, <1>4, SeqDef
<1>6. Len(Standings[c]) = Len(calls[c])
  BY <1>1, <1>4, <1>5, LenProperties
<1> QED BY <1>1, <1>2, <1>5, <1>6

LEMMA InitRefined == Init => Remote!CallsInit
<1> SUFFICES ASSUME Init PROVE Remote!CallsInit
  OBVIOUS
<1>1. calls = [c \in Client |-> <<>>] /\ made = {} /\ watcher = [c \in Client |-> "running"]
  BY DEF Init
<1>2. Standings = [c \in Client |-> <<>>]
  <2>1. \A c \in Client : [n \in DOMAIN calls[c] |-> Standing(c, n)] = <<>>
    BY <1>1
  <2> QED BY <2>1 DEF Standings
<1>3. Executed = {} /\ Reading = Client
  BY <1>1 DEF Executed, Reading
<1> QED BY <1>2, <1>3 DEF Remote!CallsInit

\* Standings of other clients, and all of them if records and tasks stay.
LEMMA SameStandings ==
  ASSUME NEW c, calls'[c] = calls[c], watcher'[c] = watcher[c]
  PROVE  \A n : Standing(c, n)' = Standing(c, n)
BY DEF Standing, IsWaiting

LEMMA CallRefined ==
  ASSUME IInv, IInv', NEW c \in Client, NEW m \in Method, Call(c, m)
  PROVE  Remote!Issue(c)
<1>s. PICK state : state = IF TaskDone(c) THEN "refused" ELSE "waiting"
  OBVIOUS
<1>1. /\ Len(calls[c]) < MaxCalls
      /\ calls' = [calls EXCEPT ![c] = Append(@, [method |-> m, state |-> state])]
      /\ UNCHANGED <<watcher, made>>
  BY <1>s DEF Call
<1>2. calls \in [Client -> Seq(CallRecord)] /\ calls[c] \in Seq(CallRecord)
  BY DEF IInv, TypeOK
<1>3. [method |-> m, state |-> state] \in CallRecord
  BY <1>s DEF CallRecord, Open
<1>4. /\ calls'[c] = Append(calls[c], [method |-> m, state |-> state])
      /\ \A d \in Client : d # c => calls'[d] = calls[d]
  BY <1>1, <1>2
<1>5. /\ Len(calls[c]) \in Nat /\ DOMAIN calls[c] = 1 .. Len(calls[c])
      /\ DOMAIN calls'[c] = 1 .. Len(calls[c]) + 1
      /\ \A n \in DOMAIN calls[c] : calls'[c][n] = calls[c][n]
      /\ calls'[c][Len(calls[c]) + 1] = [method |-> m, state |-> state]
  BY <1>2, <1>3, <1>4, AppendFacts
<1>6. Standings'[c] = Append(Standings[c], state)
  <2>1. /\ Standings'[c] = [n \in DOMAIN calls'[c] |-> Standing(c, n)']
        /\ Standings[c] = [n \in DOMAIN calls[c] |-> Standing(c, n)]
    BY DEF Standings
  <2>2. \A n \in DOMAIN calls[c] : Standing(c, n)' = Standing(c, n)
    BY <1>1, <1>5 DEF Standing, IsWaiting
  <2>3. \A n : n = Len(calls[c]) + 1 => Standing(c, n)' = state
    BY <1>1, <1>5, <1>s DEF Standing, IsWaiting, Outcome, TaskDone
  <2>4. Standings[c] \in Seq(Remote!CallState) /\ Len(Standings[c]) = Len(calls[c])
    BY Mapped
  <2>5. state \in Remote!CallState
    BY <1>s DEF Remote!CallState
  <2>6. /\ DOMAIN Append(Standings[c], state) = 1 .. Len(calls[c]) + 1
        /\ \A n \in DOMAIN calls[c] : Append(Standings[c], state)[n] = Standing(c, n)
        /\ Append(Standings[c], state)[Len(calls[c]) + 1] = state
        /\ Append(Standings[c], state) \in Seq(Remote!CallState)
    BY <1>5, <2>1, <2>4, <2>5, AppendFacts
  <2>7. Append(Standings[c], state) = [n \in 1 .. Len(calls[c]) + 1 |-> Append(Standings[c], state)[n]]
    BY <2>6, SeqDef
  <2>8. \A n \in 1 .. Len(calls[c]) + 1 : Standing(c, n)' = Append(Standings[c], state)[n]
    BY <1>5, <2>2, <2>3, <2>6
  <2> QED BY <1>5, <2>1, <2>7, <2>8
<1>7. \A d \in Client : d # c => Standings'[d] = Standings[d]
  BY <1>1, <1>4, SameStandings DEF Standings
<1>8. Standings' = [Standings EXCEPT ![c] = Append(@, state)]
  BY <1>6, <1>7 DEF Standings
<1>9. Executed' = Executed /\ Reading' = Reading
  BY <1>1 DEF Executed, Reading
<1>10. state = IF c \in Reading THEN "waiting" ELSE "refused"
  BY <1>s DEF Reading, TaskDone
<1>11. Len(Standings[c]) < MaxCalls
  BY <1>1, Mapped
<1> QED BY <1>8, <1>9, <1>10, <1>11 DEF Remote!Issue

\* The standings when the n-th call of client c goes over to another state
Marked(c, n, state) == [Standings EXCEPT ![c][n] = state]

LEMMA OneStandingChanges ==
  ASSUME IInv, NEW c \in Client, NEW n \in DOMAIN calls[c], NEW s, NEW state,
         calls' = [calls EXCEPT ![c] = s], DOMAIN s = DOMAIN calls[c],
         \A k \in DOMAIN calls[c] : k # n => s[k] = calls[c][k],
         watcher' = watcher, Standing(c, n)' = state
  PROVE  Standings' = Marked(c, n, state)
<1>1. calls'[c] = s /\ \A d \in Client : d # c => calls'[d] = calls[d]
  BY DEF IInv, TypeOK
<1>2. \A d \in Client : d # c => Standings'[d] = Standings[d]
  BY <1>1, SameStandings DEF Standings
<1>3. \A k \in DOMAIN calls[c] : k # n => Standing(c, k)' = Standing(c, k)
  BY <1>1 DEF Standing, IsWaiting
<1>4. Standings'[c] = [Standings[c] EXCEPT ![n] = state]
  BY <1>1, <1>3 DEF Standings
<1>5. /\ Standings = [d \in Client |-> Standings[d]]
      /\ Standings' = [d \in Client |-> Standings'[d]]
  BY DEF Standings
<1> QED BY <1>2, <1>4, <1>5 DEF Marked

LEMMA CancelRefined ==
  ASSUME IInv, NEW c \in Client, NEW n \in DOMAIN calls[c], Cancel(c, n)
  PROVE  \E k \in 1 .. MaxCalls : Remote!Drop(c, k)
<1> DEFINE s == [calls[c] EXCEPT ![n].state = "dropped"]
<1>1. /\ calls[c][n].state = "waiting" /\ calls' = [calls EXCEPT ![c] = s]
      /\ UNCHANGED <<watcher, made>>
  BY DEF Cancel, IsWaiting
<1>2. calls[c][n] \in [method : Method, state : Open] /\ n \in 1 .. MaxCalls
  BY <1>1, CallRecords, OpenRecord DEF IInv, Outcome
<1>3. /\ s[n].state = "dropped" /\ DOMAIN s = DOMAIN calls[c]
      /\ \A k \in DOMAIN calls[c] : k # n => s[k] = calls[c][k]
  BY <1>2
<1> HIDE DEF s
<1>4. calls'[c] = s
  BY <1>1 DEF IInv, TypeOK
<1>5. Standing(c, n)' = "dropped"
  BY <1>3, <1>4 DEF Standing, IsWaiting, Outcome
<1>6. Standings' = Marked(c, n, "dropped")
  <2>1. calls' = [calls EXCEPT ![c] = s] /\ watcher' = watcher
    BY <1>1
  <2>2. DOMAIN s = DOMAIN calls[c] /\ \A k \in DOMAIN calls[c] : k # n => s[k] = calls[c][k]
    BY <1>3
  <2> QED BY <1>5, <2>1, <2>2, OneStandingChanges
<1>7. Standing(c, n) \in {"waiting", "stranded"}
  BY <1>1 DEF Standing, Outcome
<1>8. Standings[c][n] \in {"waiting", "stranded"} /\ n \in DOMAIN Standings[c]
  BY <1>7, Mapped
<1>9. Executed' = Executed /\ Reading' = Reading
  BY <1>1 DEF Executed, Reading
<1> QED BY <1>2, <1>6, <1>8, <1>9 DEF Remote!Drop, Marked

LEMMA ReceiveRefined ==
  ASSUME IInv, IInv', NEW c \in Client, Receive(c)
  PROVE  (\E n \in 1 .. MaxCalls : Remote!Return(c, n)) \/ UNCHANGED Remote!callVars
<1> DEFINE answer == Head(answers[c])
           s == [n \in DOMAIN calls[c] |->
                    IF n \in Addressed(c, answer)
                    THEN [method |-> calls[c][n].method, of |-> answer.of,
                          kind |-> answer.kind,
                          state |-> Convert(calls[c][n].method, answer.kind)]
                    ELSE calls[c][n]]
<1>1. /\ watcher[c] = "running" /\ calls' = [calls EXCEPT ![c] = s]
      /\ UNCHANGED <<watcher, made>>
  BY DEF Receive
<1>2. Executed' = Executed /\ Reading' = Reading
  BY <1>1 DEF Executed, Reading
<1>3. calls'[c] = s
  BY <1>1 DEF IInv, TypeOK
<1>4. CASE \E n \in DOMAIN calls[c] : n \in Addressed(c, answer)
  <2>1. PICK n \in DOMAIN calls[c] : n \in Addressed(c, answer)
    BY <1>4
  <2>2. /\ calls[c][n].state = "waiting" /\ n = answer.nonce
        /\ \A k \in DOMAIN calls[c] : k # n => k \notin Addressed(c, answer)
    BY <2>1 DEF Addressed, IsWaiting
  <2> HIDE DEF answer
  <2>3. /\ s[n].state \in Outcome /\ DOMAIN s = DOMAIN calls[c]
        /\ \A k \in DOMAIN calls[c] : k # n => s[k] = calls[c][k]
    BY <2>1, <2>2, ConvertOutcome
  <2> HIDE DEF s
  <2>4. Standing(c, n)' = "answered"
    BY <1>3, <2>3 DEF Standing
  <2>5. Standings' = Marked(c, n, "answered")
    <3>1. calls' = [calls EXCEPT ![c] = s] /\ watcher' = watcher
      BY <1>1
    <3>2. DOMAIN s = DOMAIN calls[c] /\ \A k \in DOMAIN calls[c] : k # n => s[k] = calls[c][k]
      BY <2>3
    <3> QED BY <2>4, <3>1, <3>2, OneStandingChanges
  <2>6. Standing(c, n) = "waiting"
    BY <1>1, <2>2 DEF Standing, Outcome
  <2>7. Standings[c][n] = "waiting" /\ n \in DOMAIN Standings[c]
    BY <2>6, Mapped
  <2>8. <<c, n>> \in Executed
    <3>1. <<c, n, calls'[c][n].kind>> \in made
      BY <1>1, <1>3, <2>3 DEF IInv, OwnAnswer
    <3> QED BY <3>1 DEF Executed
  <2>9. n \in 1 .. MaxCalls
    BY CallRecords DEF IInv
  <2> QED BY <1>2, <2>5, <2>7, <2>8, <2>9 DEF Remote!Return, Remote!IsWaiting, Marked
<1>5. CASE \A n \in DOMAIN calls[c] : n \notin Addressed(c, answer)
  <2>1. s = [n \in DOMAIN calls[c] |-> calls[c][n]]
    BY <1>5
  <2>2. calls[c] = [n \in DOMAIN calls[c] |-> calls[c][n]]
    <3>1. calls[c] \in Seq(CallRecord)
      BY CallRecords DEF IInv
    <3> QED BY <3>1
  <2>3. calls' = calls
    BY <1>1, <2>1, <2>2 DEF IInv, TypeOK
  <2>4. Standings' = Standings
    BY <1>1, <2>3, SameStandings DEF Standings
  <2> QED BY <1>2, <2>4 DEF Remote!callVars
<1> QED BY <1>4, <1>5

\* The end of the task of client c, with its calls as in s.
LEMMA LeaveRefined ==
  ASSUME IInv, NEW c \in Client, NEW s, NEW ended \in {"done", "failed"}, NEW state,
         watcher[c] = "running", watcher' = [watcher EXCEPT ![c] = ended],
         calls' = [calls EXCEPT ![c] = s], DOMAIN s = DOMAIN calls[c], made' = made,
         \A n \in DOMAIN calls[c] :
            Standing(c, n)' = IF Standing(c, n) = "waiting" THEN state ELSE Standing(c, n)
  PROVE  Remote!Leave(c, state)
<1>1. calls'[c] = s /\ \A d \in Client : d # c => calls'[d] = calls[d] /\ watcher'[d] = watcher[d]
  BY DEF IInv, TypeOK
<1>2. watcher'[c] = ended /\ ended # "running"
  BY DEF IInv, TypeOK
<1>3. c \in Reading /\ Reading' = Reading \ {c}
  BY <1>1, <1>2 DEF Reading
<1>4. Executed' = Executed
  BY DEF Executed
<1>5. \A d \in Client : d # c => Standings'[d] = Standings[d]
  BY <1>1, SameStandings DEF Standings
<1>6. Standings'[c] = [n \in DOMAIN Standings[c] |->
            IF Standings[c][n] = "waiting" THEN state ELSE Standings[c][n]]
  BY <1>1 DEF Standings
<1>7. Standings' = [Standings EXCEPT ![c] =
            [n \in DOMAIN @ |-> IF @[n] = "waiting" THEN state ELSE @[n]]]
  <2>1. PICK t : t = [n \in DOMAIN Standings[c] |->
            IF Standings[c][n] = "waiting" THEN state ELSE Standings[c][n]]
    OBVIOUS
  <2>2. /\ Standings = [d \in Client |-> Standings[d]]
        /\ Standings' = [d \in Client |-> Standings'[d]]
    BY DEF Standings
  <2>3. Standings' = [Standings EXCEPT ![c] = t]
    BY <1>5, <1>6, <2>1, <2>2
  <2> QED BY <2>1, <2>3
<1> QED BY <1>3, <1>4, <1>7 DEF Remote!Leave

LEMMA ReceiveProblemRefined ==
  ASSUME IInv, NEW c \in Client, ReceiveProblem(c)
  PROVE  Remote!Strand(c)
<1>1. /\ watcher[c] = "running" /\ watcher' = [watcher EXCEPT ![c] = "failed"]
      /\ calls' = calls /\ made' = made
  BY DEF ReceiveProblem
<1>2. calls' = [calls EXCEPT ![c] = calls[c]]
  BY <1>1 DEF IInv, TypeOK
<1>3. \A n \in DOMAIN calls[c] :
        Standing(c, n)' = IF Standing(c, n) = "waiting" THEN "stranded" ELSE Standing(c, n)
  BY <1>1 DEF Standing, IsWaiting, IInv, TypeOK
<1> QED BY <1>1, <1>2, <1>3, LeaveRefined DEF Remote!Strand

LEMMA EndOfStreamRefined ==
  ASSUME IInv, NEW c \in Client, EndOfStream(c)
  PROVE  Remote!Disconnect(c)
<1> DEFINE s == ResetWaiting(calls[c])
<1>1. /\ watcher[c] = "running" /\ watcher' = [watcher EXCEPT ![c] = "done"]
      /\ calls' = [calls EXCEPT ![c] = s] /\ made' = made
  BY DEF EndOfStream
<1>2. DOMAIN s = DOMAIN calls[c]
  BY DEF ResetWaiting
<1>3. \A n \in DOMAIN calls[c] :
        s[n].state = IF calls[c][n].state = "waiting" THEN "reset" ELSE calls[c][n].state
  <2> SUFFICES ASSUME NEW n \in DOMAIN calls[c], calls[c][n].state = "waiting"
               PROVE  s[n].state = "reset"
    BY DEF ResetWaiting
  <2>1. calls[c][n] \in [method : Method, state : Open]
    BY CallRecords, OpenRecord DEF IInv, Outcome
  <2> QED BY <2>1 DEF ResetWaiting
<1> HIDE DEF s
<1>4. calls'[c] = s /\ watcher'[c] = "done"
  BY <1>1 DEF IInv, TypeOK
<1>5. \A n \in DOMAIN calls[c] :
        Standing(c, n)' = IF Standing(c, n) = "waiting" THEN "reset" ELSE Standing(c, n)
  BY <1>1, <1>2, <1>3, <1>4 DEF Standing, IsWaiting, Outcome
<1> QED BY <1>1, <1>2, <1>5, LeaveRefined DEF Remote!Disconnect

LEMMA FinishRefined ==
  ASSUME IInv, NEW job \in working, NEW kind \in Kind, Finish(job, kind)
  PROVE  \E c \in Client : \E n \in 1 .. MaxCalls : Remote!Execute(c, n)
<1>j. PICK c, n : c = job.client /\ n = job.nonce
  OBVIOUS
<1>1. made' = made \cup {<<c, n, kind>>} /\ UNCHANGED <<calls, watcher>>
  BY <1>j DEF Finish
<1>2. c \in Client /\ n \in 1 .. MaxCalls
  BY <1>j, Types DEF IInv
<1>3. Sent(c, n) /\ ~HasMade(c, n)
  BY <1>j DEF IInv, WorkingAreNew
<1>4. made \subseteq Client \X (1 .. MaxCalls) \X Kind
  BY Types DEF IInv
<1>5. calls[c][n].state \in Open \ {"refused"}
  <2>1. calls[c][n] \in CallRecord
    BY <1>2, <1>3, CallRecords DEF IInv, Sent
  <2>2. calls[c][n].state \notin Outcome
    <3> SUFFICES ASSUME calls[c][n].state \in Outcome PROVE FALSE
      OBVIOUS
    <3>1. <<c, n, calls[c][n].kind>> \in made
      BY <1>2, <1>3 DEF IInv, OwnAnswer, Sent
    <3>2. calls[c][n].kind \in Kind
      BY <1>4, <3>1
    <3> QED BY <1>3, <3>1, <3>2 DEF HasMade
  <2>3. calls[c][n].state \in Open
    BY <2>1, <2>2, OpenRecord
  <2> QED BY <1>3, <2>3 DEF Sent
<1>6. Standing(c, n) \in {"waiting", "stranded", "reset", "dropped"}
  BY <1>5 DEF Standing, Open, Outcome
<1>7. n \in DOMAIN Standings[c] /\ Standings[c][n] = Standing(c, n)
  BY <1>2, <1>3, Mapped DEF Sent
<1>8. <<c, n>> \notin Executed
  <2> SUFFICES ASSUME NEW t \in made, <<t[1], t[2]>> = <<c, n>> PROVE FALSE
    BY DEF Executed
  <2>1. t = <<c, n, t[3]>> /\ t[3] \in Kind
    BY <1>4
  <2> QED BY <1>3, <2>1 DEF HasMade
<1>9. Executed' = Executed \cup {<<c, n>>}
  <2>0. <<<<c, n, kind>>[1], <<c, n, kind>>[2]>> = <<c, n>>
    OBVIOUS
  <2>1. PICK t : t = <<c, n, kind>> /\ <<t[1], t[2]>> = <<c, n>>
    BY <2>0
  <2>2. made' = made \cup {t}
    BY <1>1, <2>1
  <2>3. Executed' = {<<u[1], u[2]>> : u \in made \cup {t}}
    BY <2>2 DEF Executed
  <2> QED BY <2>1, <2>3 DEF Executed
<1>10. Standings' = Standings /\ Reading' = Reading
  BY <1>1, SameStandings DEF Standings, Reading
<1> QED BY <1>2, <1>6, <1>7, <1>8, <1>9, <1>10 DEF Remote!Execute

\* Every step is a step of RemoteCalls or changes nothing that callers see.
LEMMA StepRefined ==
  ASSUME IInv, IInv', [Next]_rpcVars
  PROVE  [Remote!CallsNext]_Remote!callVars
<1>1. ASSUME UNCHANGED <<calls, watcher, made>> PROVE UNCHANGED Remote!callVars
  <2>1. Standings' = Standings /\ Executed' = Executed /\ Reading' = Reading
    BY <1>1, SameStandings DEF Standings, Executed, Reading
  <2> QED BY <2>1 DEF Remote!callVars
<1>2. CASE UNCHANGED rpcVars
  BY <1>1, <1>2 DEF rpcVars
<1>3. ASSUME NEW c \in Client, NEW m \in Method, Call(c, m) PROVE Remote!CallsNext
  BY <1>3, CallRefined DEF Remote!CallsNext
<1>4. ASSUME NEW c \in Client, NEW n \in DOMAIN calls[c], Cancel(c, n) PROVE Remote!CallsNext
  BY <1>4, CancelRefined DEF Remote!CallsNext
<1>5. ASSUME NEW c \in Client, Receive(c) PROVE Remote!CallsNext \/ UNCHANGED Remote!callVars
  BY <1>5, ReceiveRefined DEF Remote!CallsNext
<1>6. ASSUME NEW c \in Client, ReceiveProblem(c) \/ EndOfStream(c) PROVE Remote!CallsNext
  BY <1>6, ReceiveProblemRefined, EndOfStreamRefined DEF Remote!CallsNext
<1>7. ASSUME NEW job \in working, NEW kind \in Kind, Finish(job, kind) PROVE Remote!CallsNext
  BY <1>7, FinishRefined DEF Remote!CallsNext
<1>8. ASSUME (\E c \in Client : Take(c) \/ Lose(c)) \/ Write PROVE UNCHANGED Remote!callVars
  BY <1>1, <1>8 DEF Take, Lose, Write
<1> QED BY <1>2, <1>3, <1>4, <1>5, <1>6, <1>7, <1>8 DEF Next, Read

\* The safety part of ImplementsRemoteCalls: whatever the connection does, a call
\* ends at most once, is answered only if its handler ran, and a handler runs at
\* most once for it; the calls of a lost connection fail together.
THEOREM RemoteCallsKept == Spec => Remote!CallsSafe
<1>1. IInv /\ IInv' /\ [Next]_rpcVars => [Remote!CallsNext]_Remote!callVars
  BY StepRefined
<1> QED BY InitRefined, <1>1, Inductive, PTL DEF Spec, Remote!CallsSafe
=============================================================================
