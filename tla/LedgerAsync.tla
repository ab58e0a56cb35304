---------------------------- MODULE LedgerAsync ----------------------------
(***************************************************************************)
(* The requests of LedgerAPI as asyncio tasks.  api_server hands requests  *)
(* to several workers (parallel_map_aiter), so that push_tx and next_block *)
(* run interleaved; _next_block_lock is all that orders them.              *)
(*                                                                         *)
(* The storage calls are coroutines that never suspend.  A request gives   *)
(* way to others only while it waits for the lock and in accept_new_block, *)
(* where coins and Unspent records are looked up by tasks of their own     *)
(* (chainview.py:202-211 and 221-228).  What it took from the ledger at    *)
(* the call of new_chain_view stays in its arguments.  A request that      *)
(* spends nothing has no lookups to wait for; its steps here may           *)
(* be interleaved all the same, which only adds behaviours.                *)
(***************************************************************************)
EXTENDS Ledger, SequencesExt

CONSTANT Worker     \* the workers of api_server

VARIABLES
    lock,           \* _next_block_lock: its holder, then who waits, first come first served
    pc,             \* where each worker is suspended
    task,           \* what each worker has taken from the ledger for its request
    accepted        \* history: the bundles push_tx has answered "accepted"

asyncVars == <<vars, lock, pc, task, accepted>>

Request ==
    [do : {"push_tx"}, tx : Bundle] \cup [do : {"next_block"}, hashes : RewardHashes]

PC == {"idle", "waiting", "coins", "unspents", "checks", "debugger"}

NoTask == <<>>

Busy == {w \in Worker : pc[w] # "idle"}

\* Requests past the lock that have not been answered
Inside == {w \in Worker : pc[w] \in {"coins", "unspents", "checks", "debugger"}}

\* breakpoint() in accept_new_block stops the one thread there is.
Stopped == \E w \in Worker : pc[w] = "debugger"

AsyncInit ==
    /\ Init
    /\ lock = <<>>
    /\ pc = [w \in Worker |-> "idle"]
    /\ task = [w \in Worker |-> NoTask]
    /\ accepted = {}

-----------------------------------------------------------------------------
(* What new_chain_view is called with *)

BundleOf(request) ==
    IF request.do = "push_tx" THEN Aggregate(spend_bundle, request.tx) ELSE spend_bundle

HashesOf(request) ==
    IF request.do = "push_tx" THEN <<ZERO_PH, FF_PH>> ELSE request.hashes

\* What push_tx and next_block would answer now if they were one step
Verdict(request) ==
    LET h == HashesOf(request)
    IN  FirstError(NewChainView(BundleOf(request), h[1], h[2], now))

\* The first checks of new_chain_view, up to the double spends within the
\* body, need no lookup.
BeforeLookups(request) ==
    LET h == HashesOf(request)
    IN  SubSeq(NewChainView(BundleOf(request), h[1], h[2], now), 1, 6)

-----------------------------------------------------------------------------
(* Steps of a worker *)

\* Mutated form: a request that fails keeps the lock
KeepLock(w, answer) ==
    /\ lock' = IF answer = "OK" THEN Tail(lock) ELSE lock
    /\ pc' = [pc EXCEPT ![w] = "idle"]
    /\ task' = [task EXCEPT ![w] = NoTask]
    /\ reply' = answer

\* async with releases the lock on success and on every exception.
Answer(w, answer) ==
    /\ lock' = Tail(lock)
    /\ pc' = [pc EXCEPT ![w] = "idle"]
    /\ task' = [task EXCEPT ![w] = NoTask]
    /\ reply' = answer

WellSigned(request) ==
    request.do = "push_tx" =>
        ValidSignature(request.tx.aggregated_signature, request.tx.coin_solutions)

\* A signature that does not match is refused without waiting for the lock.
Submit(w, request) ==
    /\ ~Stopped
    /\ pc[w] = "idle"
    /\ IF WellSigned(request)
       THEN /\ lock' = Append(lock, w)
            /\ pc' = [pc EXCEPT ![w] = "waiting"]
            /\ task' = [task EXCEPT ![w] = [request |-> request]]
            /\ UNCHANGED reply
       ELSE /\ reply' = "ValueError"
            /\ UNCHANGED <<lock, pc, task>>
    /\ UNCHANGED <<viewVars, spend_bundle, now, accepted>>

StartBody(w) ==
    LET request == task[w].request
        h == HashesOf(request)
    IN  IF AllPass(BeforeLookups(request))
        THEN /\ pc' = [pc EXCEPT ![w] = "coins"]
             /\ task' = [task EXCEPT ![w] =
                    [request |-> request, view |-> chain, time |-> now,
                     body |-> FarmedBody(BundleOf(request), h[1], h[2]),
                     verdict |-> Verdict(request)]]     \* history, read by no step
             /\ UNCHANGED <<lock, reply>>
        ELSE Answer(w, FirstError(BeforeLookups(request)))

\* Mutated form: next_block does not wait for the lock
BeginUnlocked(w) ==
    /\ ~Stopped
    /\ pc[w] = "waiting"
    /\ task[w].request.do = "push_tx" => Head(lock) = w
    /\ StartBody(w)
    /\ UNCHANGED <<viewVars, spend_bundle, now, accepted>>

\* The lock is acquired and new_chain_view called with the ledger's state.
Begin(w) ==
    /\ ~Stopped
    /\ pc[w] = "waiting"
    /\ Head(lock) = w
    /\ StartBody(w)
    /\ UNCHANGED <<viewVars, spend_bundle, now, accepted>>

\* The coins are looked up.  For one that nobody knows the lookup fails with
\* an exception of Python's, and the handler for those calls breakpoint().
ReadCoins(w) ==
    /\ ~Stopped
    /\ pc[w] = "coins"
    /\ LET body == task[w].body
           sols == body.coin_solutions
       IN  \/ /\ ~(Removals(body) \subseteq KnownCoins(body))
              /\ pc' = [pc EXCEPT ![w] = "debugger"]
              /\ UNCHANGED <<lock, task, reply>>
           \/ /\ Removals(body) \subseteq KnownCoins(body)
              /\ \A i \in DOMAIN sols : PuzzleMatches(sols[i])
              /\ pc' = [pc EXCEPT ![w] = "unspents"]
              /\ UNCHANGED <<lock, task, reply>>
           \/ /\ Removals(body) \subseteq KnownCoins(body)
              /\ \E i \in DOMAIN sols : ~PuzzleMatches(sols[i])
              /\ Answer(w, "WRONG_PUZZLE_HASH")
    /\ UNCHANGED <<viewVars, spend_bundle, now, accepted>>

\* Somebody types "continue" at the debugger's prompt.
Continue(w) ==
    /\ pc[w] = "debugger"
    /\ Answer(w, "UNKNOWN")
    /\ UNCHANGED <<viewVars, spend_bundle, now, accepted>>

\* The Unspent records are looked up.
ReadUnspents(w) ==
    /\ ~Stopped
    /\ pc[w] = "unspents"
    /\ pc' = [pc EXCEPT ![w] = "checks"]
    /\ task' = [task EXCEPT ![w] =
            [request |-> @.request, view |-> @.view, time |-> @.time,
             body |-> @.body, verdict |-> @.verdict, unspents |-> unspent_db]]
    /\ UNCHANGED <<vars, lock, accepted>>

\* The checks that follow the lookups, on what the task has read
Found(view, unspents) ==
    INSTANCE ChainView WITH chain <- view, unspent_db <- unspents

Checks(w) ==
    Found(task[w].view, task[w].unspents)!AcceptNewBlock(task[w].body, task[w].time)

\* From the last lookup to the answer nothing suspends: the deltas are written
\* and the ledger takes the bundle, or the block, as its own.
Extend(w) ==
    LET body == task[w].body
    IN  /\ ~Stopped
        /\ pc[w] = "checks"
        /\ AllPass(Checks(w))
        /\ unspent_db' = ApplyDeltas(Len(task[w].view) + 1, Additions(body), Removals(body))
        /\ preimage_db' = preimage_db \cup Additions(body)
        /\ Answer(w, "OK")
        /\ UNCHANGED now

TakeBundle(w) ==
    /\ task[w] # NoTask /\ task[w].request.do = "push_tx"
    /\ Extend(w)
    /\ spend_bundle' = Aggregate(spend_bundle, task[w].request.tx)
    /\ accepted' = accepted \cup {task[w].request.tx}
    /\ UNCHANGED chain

\* Mutated form: what the block contains stays pending
TakeBlockOnly(w) ==
    /\ task[w] # NoTask /\ task[w].request.do = "next_block"
    /\ Extend(w)
    /\ chain' = Append(task[w].view, task[w].body)
    /\ UNCHANGED <<spend_bundle, accepted>>

TakeBlock(w) ==
    /\ task[w] # NoTask /\ task[w].request.do = "next_block"
    /\ Extend(w)
    /\ spend_bundle' = EmptyBundle
    /\ chain' = Append(task[w].view, task[w].body)
    /\ UNCHANGED accepted

Refuse(w) ==
    /\ ~Stopped
    /\ pc[w] = "checks"
    /\ ~AllPass(Checks(w))
    /\ Answer(w, FirstError(Checks(w)))
    /\ UNCHANGED <<viewVars, spend_bundle, now, accepted>>

Step(w) ==
    \/ Begin(w) \/ ReadCoins(w) \/ ReadUnspents(w)
    \/ TakeBundle(w) \/ TakeBlock(w) \/ Refuse(w)

-----------------------------------------------------------------------------

\* skip_milliseconds takes no lock.
MoveClock(ms) ==
    /\ ~Stopped
    /\ SkipMilliseconds(ms)
    /\ UNCHANGED <<lock, pc, task, accepted>>

AsyncNext ==
    \/ \E w \in Worker :
        \/ \E request \in Request : Submit(w, request)
        \/ Step(w)
        \/ Continue(w)
    \/ \E ms \in Skip : MoveClock(ms)

AsyncSpec == AsyncInit /\ [][AsyncNext]_asyncVars

Ready(w) ==
    /\ ~Stopped
    /\ \/ pc[w] \in {"coins", "unspents", "checks"}
       \/ pc[w] = "waiting" /\ Head(lock) = w

\* A step that moves worker w on: of the actions above only Step(w) does when
\* w is ready, and it is enabled exactly then.
Turn(w) == Ready(w) /\ \E c \in PC \ {pc[w]} : pc' = [pc EXCEPT ![w] = c]

\* The event loop runs every callback that is ready, in turn.  Nothing obliges
\* clients to ask for anything or anyone to leave the debugger.
Fairness == \A w \in Worker : WF_pc(Turn(w))

AsyncFairSpec == AsyncSpec /\ Fairness

\* What a worker keeps, by where it is suspended
Task(w) ==
    CASE pc[w] = "idle" -> {NoTask}
      [] pc[w] = "waiting" -> [request : Request]
      [] pc[w] \in {"coins", "unspents", "debugger"} ->
            [request : Request, view : {chain}, time : 0 .. now, body : Body,
             verdict : Reply]
      [] pc[w] = "checks" ->
            [request : Request, view : {chain}, time : 0 .. now, body : Body,
             verdict : Reply, unspents : {unspent_db}]

-----------------------------------------------------------------------------
(* Properties *)

AsyncTypeOK ==
    /\ TypeOK
    /\ lock \in Seq(Worker)
    /\ pc \in [Worker -> PC]
    /\ DOMAIN task = Worker
    /\ \A w \in Worker : task[w] \in Task(w)
    /\ accepted \subseteq Bundle

\* What a request took from the ledger before it gave way is still the
\* ledger's state when it goes on, whatever ran in between: _next_block_lock
\* covers every suspension of push_tx and next_block (ledger_api.py:44-52 and
\* 108-117).
HolderSeesLedger ==
    /\ \A v, w \in Inside : v = w
    /\ \A w \in Inside :
        /\ Head(lock) = w
        /\ task[w].view = chain
        /\ task[w].body.coin_solutions = BundleOf(task[w].request).coin_solutions
        /\ pc[w] = "checks" => task[w].unspents = unspent_db

\* A bundle push_tx answered "accepted" is pending or in a block: a block
\* farmed meanwhile does not empty _spend_bundles of a bundle it did not
\* contain (ledger_api.py:52 and 113).
AcceptedNeverLost ==
    \A tx \in accepted :
        \/ ToSet(tx.coin_solutions) \subseteq ToSet(spend_bundle.coin_solutions)
        \/ \E i \in DOMAIN chain :
                ToSet(tx.coin_solutions) \subseteq ToSet(chain[i].coin_solutions)

\* A request gets the answer, success or error, that it would have got in one
\* step when its turn came, although other requests and the clock went on
\* between its lookups.
AnsweredAsInOneStep ==
    [][\A w \in Inside : pc'[w] = "idle" => reply' = task[w].verdict]_asyncVars

\* The interleaved ledger implements Ledger, where every request is one step; a
\* refusal changes nothing.  The clock may have gone on since the request read
\* it, past CLOCK_LIMIT even.
Sequential == INSTANCE Ledger WITH reply <- "OK"

SequentialNext ==
    \/ \E time \in 0 .. now : Sequential!Answered(time)
    \/ \E ms \in Skip : Sequential!SkipMilliseconds(ms)

ImplementsLedger == Sequential!Init /\ [][SequentialNext]_(Sequential!vars)

\* Nobody waits for a lock that nobody will release: when a request has not
\* been answered, some request can go on or the process is in the debugger.
SomeoneCanGoOn == Busy # {} => Stopped \/ \E w \in Worker : Ready(w)

\* A request that has the lock, from its last lookup back to its start
StepsLeft(stage) ==
    CASE stage \in {"checks", "debugger"} -> 1
      [] stage = "unspents" -> 2
      [] stage = "coins" -> 3
      [] stage = "waiting" -> 4

Place(w) == CHOOSE i \in DOMAIN lock : lock[i] = w

\* So many steps of the requests at the head of the lock answer w at the latest.
TurnsLeft(w) == 4 * (Place(w) - 1) + StepsLeft(pc[Head(lock)])

\* Every step of any request brings all that wait closer to their answers, and
\* new requests and the clock set none of them back: the lock is handed on in
\* the order of arrival, on every error path too (ledger_api.py:44 and 108).
EveryTurnCounts ==
    [][\A w \in Busy : pc'[w] # "idle" =>
            IF \E v \in Busy : pc'[v] # pc[v]
            THEN TurnsLeft(w)' < TurnsLeft(w)
            ELSE TurnsLeft(w)' = TurnsLeft(w)]_asyncVars

\* While nobody leaves the process in the debugger for good, every push_tx and
\* next_block is answered: no error path keeps the lock, and waiting for it is
\* first come, first served.
RequestsAnswered ==
    []<>~Stopped => \A w \in Worker : w \in Busy ~> w \notin Busy
=============================================================================
