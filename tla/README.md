# A verification model of ledger_sim

`chiasim` is a simulator of the early Chia ledger: one process that keeps a
chain of blocks in memory, accepts spend bundles, farms a block on request and
answers questions about coins, over a small request/response protocol. This
directory models it in TLA+, checks the models with TLC and proves with TLAPS the
safety properties of the ledger, of its requests interleaved, of blocks of others
and of the client.

## The system

| component | state | operations | what makes it correct |
|---|---|---|---|
| **Data model** (`hashable/`, `validation/consensus.py`, `validation/Conditions.py`, `wallet/deltas.py`) | none | coin names, aggregation of bundles and signatures, outputs, removals, fees, grouping of conditions | equal names mean equal coins; sums and aggregates agree with the parts |
| **Block validation** (`validation/chainview.py`, `check_conditions.py`) | tip hash, signature and index; the unspent database | `accept_new_block`, `apply_deltas`, `augment_chain_view`, `check_tip_signature` | only legal blocks are accepted; the database records exactly what the blocks did |
| **Ledger API** (`ledger/ledger_api.py`) | the chain view, the stores, pending bundles, a clock, a lock | `push_tx`, `next_block`, `skip_milliseconds`; the reads `get_tip`, `get_recent_blocks`, `get_all_blocks`, `all_unspents`, `hash_preimage`, `unspent_for_coin_name` | a bundle is accepted iff it is legal on the chain with what is pending; pending bundles can always be farmed |
| **Farming and pool** (`farming/`, `pool/`) | fixed keys | `farm_new_block`, `sign_header`, `create_coinbase_coin_and_signature` | a farmed body claims all fees and one reward |
| **Storage** (`storage/`) | preimages by hash, `Unspent` records by coin name | get, set, overlays, `rollback_to_block` | overlays shadow in the right order; rollback undoes a block |
| **Client** (`remote/client.py`, `proxy.py`, `clients/`) | next nonce, futures by nonce, the reading task | `invoke_remote`, `NonceWatcher.run` | every call ends once, with its own answer or an error |
| **API server** (`remote/api_server.py`, `utils/`) | tasks of up to `workers` requests | dispatch, reply | one reply per request that carries a nonce |
| **Header signatures** (`hashable/Signature.py`, `Header.py`) | none | XOR signatures on headers | a signature validates for what was signed |
| **Codecs** (`atoms/`) | none | parse and stream | round trips, ranges and length limits |
| **Wallet, puzzles** (`wallet/`, `hack/`, `puzzles/`, `Program.py`) | a key table | signing, running CLVM programs | signatures a keychain makes are those the conditions ask for; only the owner's programs spend a coin |
| **Commands** (`cmds/`, `utils/log.py`) | none | wiring and logging | — |

How they interact: the server turns a message into a call of `LedgerAPI.do_*`.
`push_tx` checks a bundle's signature, takes `_next_block_lock`, farms a *trial*
block from all pending bundles plus the new one and appends the bundle if
`augment_chain_view` accepts the block. `next_block` takes the same lock, farms
a block from the pending bundles and makes the resulting chain view the
ledger's. Both go through `new_chain_view`, and both hand it the ledger's own
stores: **a trial block's deltas stay in the database although the block is
dropped.** Most of what is hard about this program follows from that line. A
record whose index is one more than the tip may be the trace of a pending spend,
of a trial block's reward or of a pending output; `accept_new_block` copes by
comparing both indices of every record with the tip, and the question is
whether that is enough after any history.

What is hard to test, in the order of importance (the full list, with lines, is
in `PROJECT.json`): the stale records just described; judging a bundle after
refused, conflicting and repeated pushes; coins created and spent in one block;
equal outputs and negative or signed amounts; conditions on index, age and time
at their boundary, judged again when the block is farmed; interleavings of
requests around the lock; header checks that come after the deltas; answers,
nonces and lost connections in the client; walks over short chains.

## The modules

- **Coins** — the data. A coin name is a hash; it is modelled by what it commits
  to, the block index that starts a coin's ancestry and the (puzzle hash,
  amount) of every ancestor, so names are injective and acyclic by
  construction. A solution is its coin, the hash of the puzzle it reveals and the
  conditions it yields; of `AGG_SIG` it counts how often each (key, message) pair
  stands, since a pair that is asked for twice must be signed twice. An aggregated
  signature counts how often each pair was signed; `ValidSignature` keeps the code's special case that no
  pairs means valid whatever the signature. Outputs are identified by *slot* so
  that two equal outputs remain two in sums and one in the database, as in the
  code.
- **ChainView** — the stores (`chain`, `unspent_db`, `preimage_db`),
  `AcceptNewBlock` as the list of the checks in the order of the code, each
  yielding `"OK"` or the code of the error, and `WriteDeltas`, what
  `apply_deltas` leaves in the stores. `chain` stands for the headers and bodies
  reachable from `tip_hash`; `tip_index` is its length.
- **Farming** (extends ChainView) — the body `farm_new_block` makes on top of a
  chain, and `FeesFit`, the range a packed amount must have.
- **Ledger** (extends Farming) — `LedgerAPI`, one step per request. `AcceptTx` and
  `RefuseTx` are the two outcomes of `do_push_tx`, `FarmBlock` and `RefuseBlock`
  of `do_next_block`, `SkipMilliseconds` is `do_skip_milliseconds`. `NewChainView`
  has the failures of `new_chain_view` in their order, the header's timestamp among
  them: `_now / 1000` overflows from `FLOAT_LIMIT` on, and from `CLOCK_LIMIT` on its
  whole seconds fit no `uint64` and streaming the header fails. `reply` keeps
  how the last request ended. `spend_bundle` is the aggregate of
  `_spend_bundles`, the only form in which the code uses the list. Its
  properties are at its end.
- **UtxoLedger** — what a client may rely on: blocks spend coins for good,
  create coins from what they spend and add one reward. `Ledger` implements it
  with `utxo` and `spent` read *from the database* as `accept_new_block` reads
  it, so the refinement also says that trial blocks are invisible.
- **LedgerAsync** (extends Ledger) — the same requests as asyncio tasks of several
  workers. A task gives way at the lock and at the two rounds of lookups of
  `accept_new_block`, nowhere else: the storage coroutines never suspend. `lock`
  is the holder and the queue of `_next_block_lock`, `pc` where a worker is
  suspended, `task` what it took from the ledger before (the chain view and the
  clock are arguments of `augment_chain_view`, the Unspent records are
  futures). `Begin`, `ReadCoins`, `ReadUnspents` and `TakeBundle`, `TakeBlock` or
  `Refuse` are its steps; a signature that does not match is refused without the
  lock; an unknown coin stops the process at `breakpoint()` until somebody types
  `continue` (`Continue`). The checks run on what the task has read, through
  `INSTANCE ChainView`.
- **BlockReceiver** (extends Farming, EORSignature) — `augment_chain_view` fed with
  blocks of others: new ones on the tip, ones that come before the block they
  extend and old ones again, each with the right signature, another key's or none,
  and with any part of the blobs it points to. Their bodies are those
  `farm_new_block` makes and any others (`OtherBody`), since `accept_new_block` asks
  nothing of reward coins but their sum. `Extend`, `RefuseStale`, `Refuse` and
  `RefuseWritten` are its outcomes, the last one for headers refused after the deltas
  are written. `RefusedGetOn` says of a state that every block refused in that way is
  on the chain or still next; `misplaced` remembers that deltas were written of a
  block whose reward coins do not descend from its own index. `Orderly`, the premise
  of the properties, is the first without the second.
- **EORSignature** — header signatures; a 32 byte value is the set of the
  independent values it is the exclusive or of, and the running exclusive or is
  symmetric difference.
- **Wallet** (extends Ledger) — what `p2_delegated_puzzle` and `p2_conditions`
  yield, how a keychain signs it, `build_spend_bundle`; the walks
  `do_get_recent_blocks` and `do_get_all_blocks`; and a wallet that pays from an
  account it replays from their answers. A bundle is sent as bytes, so only coins
  with an unsigned amount are paid with (`CanSend`). The replaying client is not in `src/`;
  it uses the API in the one way that cannot miss a block: the tip, with its
  header, first, the blocks in a later request.
- **RemoteCalls** — what a caller of the proxy may rely on. **Rpc** implements it:
  `NonceWatcher`, `invoke_remote` and `api_server`, with a queue in each
  direction per connection, a set of requests the workers handle and a list of
  finished responses in the order of completion. `Cancel` is a caller that gives
  up; `Lose` ends a connection at any time and lets a prefix of what was on its
  way arrive.
- **MCLedger**, **MCLedgerAsync**, **MCReceiver**, **MCRpc**, **MCWallet** —
  constants, bounds and bundles for TLC.
- **SumProofs**, **ChainViewProofs**, **LedgerProofs**, **LedgerPendingProofs**,
  **LedgerAsyncProofs**, **ReceiverProofs**, **WalletProofs**, **RpcProofs** — lemmas
  and theorems; see *The proofs*.

How they compose: LedgerAsync puts the steps of Ledger in tasks and implements
Ledger, with the clock as a request has read it, which may be earlier than the clock
when it ends (`SequentialNext`); Ledger implements UtxoLedger; so what the ledger's runs and theorems say
of one-step requests holds of interleaved ones. Wallet drives Ledger from
outside. BlockReceiver shares ChainView and Farming with Ledger but has the
header checks that never fail for the ledger's own blocks. Rpc leaves the
handlers abstract: what they return is any of its kinds.

Two things every definition relies on: hashes do not collide, and CLVM programs
terminate with conditions or make the request fail. Malformed conditions and
undecodable signatures are left out. In the ledger an `AGG_SIG` without its arguments
or with a key that cannot be decoded raises in `validate_spend_bundle_signature`, a
malformed `CREATE_COIN` when `farm_new_block` counts the fees; an undecodable signature
fails to validate or, if nothing asks for one, to aggregate: all of this comes before
there is a block. An `ASSERT_...`
condition without its argument raises only in `accept_new_block`, as does every
malformed condition in a block of others, and so stops the process at `breakpoint()`
(`chainview.py:281`) like an unknown coin, to end as `UNKNOWN`. In neither case has
anything been written to the unspent database. The header and body preimages
`new_chain_view` stores are looked up only along the chain and are represented
by `chain`.

## The runs

Bounds of the `ledger` runs: three blocks (`MaxBlocks`), so that a coin of block 1 can
be spent in block 2 and met again in block 3 with a stale record; three or four
pending solutions (`MaxPending`), enough for a chain of dependent spends and an
independent one; reward 2, maximal amount 4 and an integer width of 8, so that
both limits can be reached with sums of rewards. `CLOCK_LIMIT` and `FLOAT_LIMIT` are
2 and 3 where the clock moves, up to 3 and, in `async`, 2; in the code they are
1000 · (2^64 - 1024) and 1000 · (2^1024 - 2^970) milliseconds, where rounding to a
float reaches 2^64 and infinity. `next_block` is asked for two
reward puzzle hashes and for one twice, which it may refuse. Refusals are not bounded: they
return to a state already seen, but for `reply`.

| run | shows |
|---|---|
| `ledger_spend` | In every order of twelve bundles and three blocks: no double spend, spends only of coins the chain created, database = chain, supply = rewards, bundles judged by the chain alone, mempool always farmable, leftovers harmless, spent records final, and the refinement of UtxoLedger. The bundles conflict, depend on each other, repeat outputs and inputs, create value, spend a trial coinbase and empty fees. |
| `ledger_conditions` | The two mempool properties with time, index, age, coin and signature conditions and a clock that moves, past both limits too. Includes a bundle signed for nothing, which is valid alone, and one signed once for a pair it asks for twice. |
| `trial_blocks_leave_coins` | *violated*: the database may list coins as confirmed that no block created. |
| `same_reward_hashes` | *violated*: `next_block` fails if one puzzle hash is given twice and fees equal the reward. |
| `signed_amounts` | *violated*: an output may be given a negative amount. |
| `async` | Three workers, two blocks, two pending solutions, a clock that moves: the request that holds the lock still sees the ledger it started from; accepted bundles are pending or in a block; every answer is the one a single step would have given when the request's turn came; the refinement of Ledger; while a request waits some request can go on, and each step brings all that wait closer to their answers; every request is answered. |
| `rpc_calls` | Two clients, two calls with equal nonces at most, three in all, two workers: own answers only, nobody left waiting, every call ends, the refinement of RemoteCalls. |
| `rpc_unstreamable` | *violated*: a response that cannot be streamed leaves the calls of its connection waiting for ever. |
| `receiver_foreign` | Three blocks out of six kinds of bodies (empty, a split, a spend of the split's output, one that passes it on, split and spend at once, a spend with a time condition) and four that `farm_new_block` does not make (the first coinbase coin once more, the reward shared otherwise between the two coins, a wrong sum, a missing signature), old and early blocks, up to two refusals, with written deltas or without: as long as no refused block is overtaken and reward coins descend from their block's index, temporary errors are temporary, all others but those of time are final, and a refused header does no harm. |
| `receiver_refused_header` | *violated*: if another block is taken instead, a coin can be spent twice. |
| `receiver_time` | *violated*: a block refused with a permanent error is accepted later (with an error of time, as `OnlyTimeHeals` says). |
| `wallet` | Three blocks, two pending payments, one key in the keychain and one outside, a fitting payment and an uneven one, which is more than one coin is worth and leaves a coin no bundle can be sent with, coins of p2_delegated_puzzle and p2_conditions: the account is that of the chain, spends are authorised, good payments are taken. |

Why the bounds from `async` on are enough: `async` needs two workers to
interleave and a third to queue behind both; two blocks let a bundle be judged
before, within and after the block that creates or spends its coin. In
`rpc_calls` two calls on one connection can be answered in either order while
the other connection uses the same nonces. In `receiver_foreign` the third
block can spend what the second created, with a refusal before each; a refusal
without written deltas changes nothing but the history: it is remembered alone, or
(up to the second block) beside one with deltas that might heal it. The made-up bodies
are for index 2; what is no longer `Orderly` never is again, so such states are
checked and not explored further.
In `wallet` the second block can be delivered twice and the third one spend
what it created; the coinbase of even blocks goes to p2_conditions.

Deadlock is checked where the system goes on for ever; `rpc_calls` and
`rpc_unstreamable` switch it off because all calls may have been made and ended.

`PushTxJudgesByChain` deserves a word, since it is the sentence a user of the
simulator would expect. It compares `do_push_tx` with `LegalOnChain`, a
definition of legality that mentions no database: a coin can be spent if a block
created it and no block removed it, its age is computed from the block that
contains it. What it adds is the clock's limit (`ledger_api.py:139`), after which no
bundle is accepted. Every record, overlay and trial block of the implementation is on
the other side of the equivalence.

### Fairness

`LedgerAsync`: weak fairness of each worker's turn. The asyncio event loop runs
every callback that is ready, lookups end at once, and a lock released by
`async with` wakes its first waiter. Nothing is assumed of clients, the clock,
or of whoever sits at the debugger: `RequestsAnswered` is therefore stated for
behaviours in which the process does not stay at `breakpoint()` for good. `Turn`
is written as a change of `pc`, which only `Step` makes for a worker that is
ready, because TLC then decides fairness without evaluating the checks.

`Rpc`: weak fairness of reading on the client, of the workers, of each handler
(handlers end, see `async`) and of writing. Nothing obliges anyone to call, to
give up or to lose a connection, so the liveness properties do not rest on
failures either.

### Disagreements found

1. `push_tx` leaves the trial block's reward coins in the live database
   (`ledger_api.py:49`). `all_unspents` lists coins that are in no body.
   `StrayCoinsAreTrialRewards` bounds the damage: they are unspent rewards with
   the two trial puzzle hashes.
2. The comment at `ledger_api.py:42` promises that a block can be farmed after
   an accepted push; this fails for equal coinbase and fees puzzle hashes when
   the pending fees equal the reward. `MempoolFarmable` says exactly when `next_block`
   succeeds: in all other cases, as long as a timestamp can hold the clock.
3. `Coin.amount` is declared `uint64`; outputs are decoded as signed integers
   (`consensus.py:45`).
4. `augment_chain_view` verifies a header after it has applied the block's deltas
   (`chainview.py:94-99`). `TemporaryErrorsPass` and `NoHarmIfRetried` say, and
   `ReceiverProofs` proves, how far this is harmless: while every block refused in
   that way is on the chain or still next (`RefusedGetOn`), and reward coins descend
   from their block's index, each of them passes at the next attempt, even after competitors were refused likewise, and the stores
   are right. If another block overtakes it, the refused one's coins count as
   confirmed, a coin can be spent twice, and a block that waits may never pass:
   it may spend such a coin, which a competitor creates anew.
5. `ConsensusError.py:18` calls the errors below it permanent;
   `ASSERT_TIME_EXCEEDS_FAILED` depends on the time at which the block is looked
   at. Under the premises of 4 (`Orderly`) it is the only one that does not last
   (`OnlyTimeHeals`).
6. A response that cannot be streamed is replaced by a string without nonce
   (`api_server.py:38`), which ends the client's reading task by an exception and
   leaves its callers waiting (`client.py:43-46` is never reached).

Met while modelling, with no text in the repository to compare with: an error
reply to a method with a transformation reaches the caller as a `TypeError`
(`client.py:66-70`); `get_recent_blocks` returns block 1 once more to the
client that holds its header (`ledger_api.py:78-80`), which does no harm to an
account kept as a set (`AccountMatchesChain`) and would to a sum of amounts; a
pending bundle with a signature nobody asked for makes `push_tx` refuse every
signed bundle until the next block (`BLSSignature.py:43`, the exception in
`PaymentsAccepted`); all of the server waits at `breakpoint()`
(`chainview.py:281`) when a spent coin is unknown; `skip_milliseconds` takes a number
of any length, and once the clock's seconds fit no `uint64` every `push_tx` and
`next_block` fails for good (`ledger_api.py:139`); `accept_new_block` takes a coinbase
coin with any parent (`chainview.py:166`), so a block of another's whose coinbase coin
is an old one resets that coin's record, and it can be spent again. The repository's
server makes all its blocks itself and so never meets the last one; the properties of
BlockReceiver exclude it by name (`misplaced`).

## The proofs

The theorems hold for every set of puzzle hashes, bundles, farming requests, bodies of
others and clock steps, any limits of the clock, for chains of any length and for any number of workers, clients
and calls, where the runs check small instances.

| module | theorem | states |
|---|---|---|
| LedgerProofs | `TypeCorrect`, `NeverDoubleSpent`, `OnlyCreatedCoinsSpent`, `DatabaseCorrect`, `StrayCoinsHarmless`, `SpentForGood`, `MoneyConserved`, `UtxoRefinement` | `TypeOK`, `NoDoubleSpend`, `SpentWereCreated`, `DbMatchesChain`, `StrayCoinsAreTrialRewards`, `SpentRecordsAreFinal`, `SupplyConserved`, `ImplementsUtxoLedger` |
| LedgerPendingProofs | `JudgedByTheChain`, `PendingCanBeFarmed` | `PushTxJudgesByChain`, `MempoolFarmable` |
| LedgerAsyncProofs | `AsyncTypeCorrect`, `HolderIsAlone`, `AsyncDatabaseCorrect`, `AcceptedStays`, `AsyncRefinement`, `AnsweredAtOnce` | `AsyncTypeOK`, `HolderSeesLedger`, `DbMatchesChain`, `AcceptedNeverLost`, `ImplementsLedger`, `AnsweredAsInOneStep` |
| | `NobodyIsStranded`, `NobodyIsOvertaken` | `SomeoneCanGoOn`, `EveryTurnCounts` |
| | `AsyncMoneyCorrect`, `AsyncMempoolCorrect`, `AsyncUtxoRefinement` | what the ledger promises, of interleaved requests |
| ReceiverProofs | `ReceiverTypeCorrect`, `RetriesPass`, `OffersDoNoHarm`, `RefusalsAreFinal` | `ReceiverTypeOK`, `TemporaryErrorsPass`, `NoHarmIfRetried`, `OnlyTimeHeals` |
| WalletProofs | `WalletTypeCorrect`, `AccountIsTheChains`, `OnlyAuthorisedSpends`, `GoodPaymentsPass` | `WalletTypeOK`, `AccountMatchesChain`, `SpendsAuthorised`, `PaymentsAccepted` |
| | `LedgerBesideWallet`, `WalletUtxoRefinement` | what the ledger promises, beside a wallet |
| RpcProofs | `RpcTypeCorrect`, `AnswersAreOwn`, `NobodyIsForgotten`, `RemoteCallsKept` | `TypeOK`, `OwnAnswer`, `NoneLeftWaiting`, the safety part of `ImplementsRemoteCalls` |

SumProofs and ChainViewProofs hold lemmas only: sums over finite sets, and what a
block does to the chain and the stores.

The assumptions are those the modules name: the reward is below the maximal
amount, which fits 64 bits; clients push spends of coins with unsigned amounts, and
bodies of others have reward coins with such amounts, since both arrive as bytes
(`BundleAssumption`, `ForeignAssumption`); the clock moves by natural numbers, and
`FLOAT_LIMIT` is not below `CLOCK_LIMIT` (`ClockAssumption`); the trial puzzle hashes differ, and no solution
reveals a puzzle that hashes to one of them (`BundleAssumption`: nobody knows a
preimage of 32 zero or 255 bytes), nor does a wallet's puzzle (`PuzzleAssumption`, which
also says that different puzzles have different hashes); the plot's key is not
the other key (`ForeignAssumption`).

### The chain and the stores

None of the properties is inductive alone. `ViewIInv` (ChainViewProofs) adds what
ties them together, and both Ledger and BlockReceiver rest on it:

- the reward coins of block *i* descend from index *i*, and nothing else on the
  chain descends directly from an index;
- the two stores know the same coins, every coin on the chain among them, with
  the record its block wrote;
- no coin is removed twice, and every removed coin was created before or by the
  same block;
- a record says *spent at j*, for *j* up to the tip, only if block *j* removes the
  coin.

The step that adds a block must show that the deltas never overwrite a record of a
coin on the chain. Two lemmas carry it. `FreshRemovals`: a removed coin that is
not created by the same block is confirmed and unspent on the chain, and one that is
created by the same block is new; it takes the removed coin of least ancestry
that would contradict this and looks at its parent. `FreshAdditions` concludes that
an output's name is new, because its parent was never spent before
(`CommonParent`, from the injectivity of names). This is the argument behind the
exemption for ephemeral coins at `chainview.py:233`, which has no check of its
own in the code. `ChainStep` and `TrialStep` then say that `ViewIInv` survives a
block taken and a block only written.

`IInv` (LedgerProofs) adds what is special to the ledger: a record of the *next*
index belongs to a pending bundle, stray coins are trial rewards, and pending
bundles reveal no trial puzzle.

### Supply and the refinement of UtxoLedger

Amounts are sums over finite sets, defined by the community modules as a fold, that
is by recursion over a chosen order. SumProofs derives from this definition what
sums need: a set extended by one, disjoint unions, and reindexing along a
bijection. Its inductions on the size of a set are written out with a least
counterexample, since the library's induction theorems take an operator as
parameter. `MoneyConserved` then follows block by block: the outputs, the reward
and the claimed fees balance what is removed. For `UtxoRefinement` the unspent coins
read from the records are shown equal to created-and-not-removed by `ViewIInv`.

### What is pending

`PushTxJudgesByChain` and `MempoolFarmable` need two invariants more. `PendingInStores`:
the outputs of pending bundles are in the stores with the next index, so a later
push finds them although the trial body that wrote them was dropped. `PendingIsLegal`:
what is pending is legal on the chain alone; index, age and time conditions once
met remain met because the tip and the clock only grow. Past `CLOCK_LIMIT` the checks
fail before they reach the body, and both properties say so. The proof that the checks and
`LegalOnChain` agree goes error code by error code. A block to be farmed differs
from the trial that was accepted in its reward coins alone (`FarmedOutputs`), and
these have two names unless both puzzle hashes and both amounts are equal: this is
why `MempoolFarmable` is an equivalence.

### Requests interleaved

`AsyncIInv` (LedgerAsyncProofs) says of the lock that its holder and its queue are
exactly the workers not idle, once each, and that only the holder is past the
wait; and of the holder that what it has computed of the ledger (`Holds`) is what it
would compute now. Only the clock can move under it, past `CLOCK_LIMIT` even, so the
steps of Ledger take the time at which the clock was read. `TakeBundle` and `TakeBlock`
are `AcceptTx` and `FarmBlock` of that time, and every other step leaves Ledger's variables alone, which gives
the refinement. The step lemmas of Ledger (`UtxoStep`, `SpentStep`,
`PendingUnchanged` and those of `IInv`) then serve here as well, so supply, mempool
and the refinement of UtxoLedger are theorems of the interleaved requests, and of
the ledger beside a wallet (below) in the same way.

*The lock.* `RequestsAnswered` needs fairness and stays with TLC, but the two facts
it rests on are safety and are proved for any number of workers. `SomeoneCanGoOn`: the
head of the queue always has the lock and is at a place from which it can go on,
so nobody waits for a lock that no path releases. `EveryTurnCounts`: four
steps for each place in the queue bound the wait (`TurnsLeft`). A step of the holder
lowers this number for all behind it; one that leaves the lock moves all of them
up one place and makes a worker with all its four steps the new head
(`NobodyOvertakes`); a new request joins at the end; nothing else moves it. What
fairness adds is only that a worker which can go on does.

### Blocks of others

Here records may come from blocks that never were on the chain. `ReceiverIInv` says,
as long as `Orderly` holds, that the stores satisfy `ViewIInv`, that records of the
next index come from the blocks that wait for it, and that each of these still
passes the checks. Writing the deltas of one of two competing blocks must not
make the other fail, although both may spend the same coin and mark it: the
marks have the next index, which `accept_new_block` does not count as spent. An
earlier form of `TemporaryErrorsPass`, without `RefusedGetOn`, was found false by
TLC while the invariant was sought (finding 4). The other half of `Orderly` is what
`ViewIInv` says of reward coins, which `farm_new_block` sees to and no check does.

`RefusalsAreFinal` is the converse: a refusal lasts. Its invariant, `HealingIInv`, needs
a verdict that no later write can change, and `SoundOnChain` is one: it says of the
chain alone, without stores and clock, what `accept_new_block` asks. As long as the
stores are in order, a block that passes is sound (`AcceptedIsSound`, which needs
that its removals and additions are new), and a sound one fails of the clock alone
(`SoundFailsByTime`, check by check). So one refused for another reason is not sound,
remains so while its index is free, and differs from the block that takes it.

### The wallet

`WalletIInv` ties three things together: the ledger's `IInv`; the headers the wallet
holds, which are of blocks on the chain and no newer than what it has been
given (`Synced`); and that not only farmed but also pending solutions are authorised
(`PendingAuthorised`), for they are farmed later without another look at the wallet.

*The account.* `RecentBlocks` gives the walk of `get_recent_blocks` in closed form: the
blocks from the client's header on, or that of block 1 itself if the header is
its. `ReplayIs` gives the account after replaying blocks *m* to the tip in closed form:
a coin is in it if it was last created, or held before, and not removed since.
`CaughtUp` shows that this is what the chain leaves unspent for every *m* up to the first
block not seen, so that any overlap is harmless: a coin is created once, and no
block removes it before (`CoinsInOrder`, from `ViewIInv`); for a client that starts
too late it would be false. The inductions,
over the walk and over the fold, are written out over sets of numbers.

*The spends.* `SignedPairs`: a bundle of one solution carries a valid signature only if it
covers the pairs the solution asks for, and `do_push_tx` checks each bundle
before it is aggregated (`ledger_api.py:38`). So what is accepted is signed, without a word
about the aggregate.

*The payments.* `PaymentsAccepted` is proved through `TxJudgedByChain`: a payment together with
what is pending is shown legal on the chain, condition by condition. Signatures,
fees and outputs are compared between a list of solutions and the list with one
more (`Follows`). The property has the bounds this needs, whether the instance of TLC
reaches them or not: the coin's amount can be streamed, the clock is below its limit,
and the outputs of the payment, and the fees of all that is then pending, stay below
`MAX_COIN_AMOUNT`.

### The client

`RpcProofs` ties every message in transit to the call it is for: requests and
requests being handled carry nonces that were issued and not yet answered, every
response is of the kind its handler made, nonces grow. `OwnAnswer` follows when
the client pops the future of a response's nonce; `NoneLeftWaiting` from the order in
which the end of the task resets the futures and marks itself done.

### Only model-checked

- Liveness: `RequestsAnswered`, `CallsEndUnlessStreamFails` and the fairness half of
  `ImplementsRemoteCalls`. The provers cannot reason about fairness and ENABLED;
  what `RequestsAnswered` rests on besides is proved (*The lock*).
- The properties of the violation runs, which are false.

## Plan

The models of the plan are written, and every safety invariant and action
property a run checks is a theorem, for the safety part of the refinements too.
What is left is liveness, which stays with TLC, and five hazards without a property,
all listed in PROJECT.json with their reason: a refused block whose header and body
stay stored, the two requests on an empty chain, the process that stands at the
debugger, the transformation of an error reply, and a coinbase coin of another's
that is an old coin, which the properties have as an exception.

## Not modelled

- CLVM evaluation and BLS arithmetic: libraries outside `src/`. Programs are what
  they yield, keys and signatures abstract values. Key derivation from seeds.
- Malformed programs, conditions and signatures: in the code they raise before
  anything is written, as any failing check does; a missing argument of an `ASSERT_...`
  condition does so by way of `breakpoint()` (*The modules*).
- CBOR framing and the codecs of `atoms/`, but for the range of packed amounts:
  sequential conversions. A message arrives whole or not at all.
- Messages without a nonce or that are no dictionaries, sent to the server: no
  client in the repository sends them.
- `RAM_DB.rollback_to_block`, `collect_best_bundle`, `EORSignature.__add__`,
  `solution_for_delegated_puzzle`: called by nothing.
- The values of `Header.previous_signature` and `timestamp`, `Body.coinbase_signature`
  and `program_cost`: written, and read by nothing. That a timestamp may not fit its
  field is modelled.
- A genesis signature other than zero: `for_genesis_hash` makes none.
- Command lines, logging, `readline_messages`: no state of their own.
