---------------------------- MODULE BlockReceiver ----------------------------
(***************************************************************************)
(* ChainView.augment_chain_view fed with blocks that others have farmed,   *)
(* as the tests feed it: they come more than once, too early, on top of    *)
(* older blocks, with a header signature that may be wrong, and before the *)
(* blobs they point to can be resolved.  accept_new_block asks nothing of  *)
(* a body's reward coins but their sum, so bodies that farm_new_block      *)
(* would not make are offered as well.                                     *)
(*                                                                         *)
(* The header's hash stands for the header, which names all its ancestors, *)
(* and the tip for its chain.  Headers arrive as bytes: body and proof of  *)
(* space are looked up in storage.  One RAM_DB is storage and unspent      *)
(* database, as everywhere in the code.                                    *)
(***************************************************************************)
EXTENDS Farming, EORSignature

CONSTANTS
    Bundle,         \* what others spend in their blocks
    RewardHashes,   \* their (coinbase, fees) puzzle hashes
    OtherBody,      \* bodies they put together without farm_new_block
    PLOT_KEY,       \* the plot key of the proof of space
    OTHER_KEY       \* a key that is not

\* A body is read from a stream, its reward coins with unsigned amounts.
ASSUME ForeignAssumption ==
    /\ Bundle \subseteq SpendBundle
    /\ RewardHashes \subseteq PuzzleHash \X PuzzleHash
    /\ OtherBody \subseteq Body
    /\ \A body \in OtherBody :
        {body.coinbase_coin.amount, body.fees_coin.amount} \subseteq 0 .. UINT64_LIMIT - 1
    /\ PLOT_KEY # OTHER_KEY

VARIABLES
    now,            \* the timestamp the next call will pass
    refused,        \* history: blocks refused on top of the chain of their time
    misplaced       \* history: have deltas been written of a block whose reward
                    \* coins do not descend from the block's own index?

receiverVars == <<chain, unspent_db, preimage_db, now, refused, misplaced>>

Blob == {"body", "proof_of_space"}

\* The codes of ConsensusError.py by its two headings; UNKNOWN has neither.
Temporary == {"DOES_NOT_EXTEND", "BAD_HEADER_SIGNATURE", "MISSING_FROM_STORAGE"}
Permanent == Err \ {"UNKNOWN"}

ReceiverInit ==
    /\ ViewInit
    /\ now = 0
    /\ refused = {}
    /\ misplaced = FALSE

-----------------------------------------------------------------------------
(* Blocks on offer *)

\* The bodies that farm_new_block makes on top of the chain
FarmedBodies ==
    {FarmedBody(x[1], x[2][1], x[2][2]) :
        x \in {y \in Bundle \X RewardHashes :
            FeesFit(y[1]) /\ ValidSignature(y[1].aggregated_signature, y[1].coin_solutions)}}

FreshBlocks == {[previous |-> chain, body |-> body] : body \in FarmedBodies \cup OtherBody}

\* Blocks on top of one that is still on offer.  No check gets as far as their
\* bodies, so any will do.
EarlyBlocks ==
    {[previous |-> Append(chain, parent.body), body |-> parent.body] : parent \in FreshBlocks}

\* Blocks that are on the chain already
OldBlocks ==
    {[previous |-> SubSeq(chain, 1, i - 1), body |-> chain[i]] : i \in DOMAIN chain}

Offered == FreshBlocks \cup EarlyBlocks \cup OldBlocks

HeaderHash(block) == {<<block.previous, block.body>>}

\* What a header may come with: its signature, another key's, none
HeaderSignatures(block) ==
    {Sign({PLOT_KEY}, HeaderHash(block)), Sign({OTHER_KEY}, HeaderHash(block)), zero}

-----------------------------------------------------------------------------
(* augment_chain_view *)

\* Mutated form: the parent is not compared
AnyParent(block) == TRUE

Extends(block) == block.previous = chain

\* accept_new_block from the start.  What follows the header's checks is not
\* evaluated before they pass.
AcceptErrors(block, blobs) ==
    <<Raise(~Extends(block), "DOES_NOT_EXTEND"),
      Raise("body" \notin blobs, "MISSING_FROM_STORAGE")>>
    \o AcceptNewBlock(block.body, now)

\* check_tip_signature: the header itself is at hand
CheckHeaderSignature(block, signature, blobs) ==
    <<Raise("proof_of_space" \notin blobs, "MISSING_FROM_STORAGE"),
      Raise(~Validate(signature,
                <<[public_key |-> public_key({PLOT_KEY}), message_hash |-> HeaderHash(block)]>>),
            "BAD_HEADER_SIGNATURE")>>

\* farm_new_block's reward coins do (farming/__init__.py:77-81), but nothing in
\* accept_new_block sees to it.
OwnRewards(block) ==
    {block.body.coinbase_coin.parent_coin_info, block.body.fees_coin.parent_coin_info}
        = {BlockIndexHash(Len(block.previous) + 1)}

Write(block) ==
    /\ WriteDeltas(block.body)
    /\ misplaced' = (misplaced \/ ~OwnRewards(block))

Refusal(block, error, written) ==
    refused' = refused \cup
        {[index |-> tip_index + 1, body |-> block.body, error |-> error, written |-> written]}

Extend(block, signature, blobs) ==
    /\ AllPass(AcceptErrors(block, blobs))
    /\ AllPass(CheckHeaderSignature(block, signature, blobs))
    /\ Write(block)
    /\ chain' = Append(chain, block.body)
    /\ UNCHANGED <<now, refused>>

RefuseStale(block) ==
    /\ ~Extends(block)
    /\ UNCHANGED receiverVars

Refuse(block, blobs) ==
    /\ Extends(block)
    /\ ~AllPass(AcceptErrors(block, blobs))
    /\ Refusal(block, FirstError(AcceptErrors(block, blobs)), FALSE)
    /\ UNCHANGED <<viewVars, now, misplaced>>

\* The header is judged after apply_deltas.
RefuseWritten(block, signature, blobs) ==
    LET errs == CheckHeaderSignature(block, signature, blobs)
    IN  /\ AllPass(AcceptErrors(block, blobs))
        /\ ~AllPass(errs)
        /\ Write(block)
        /\ Refusal(block, FirstError(errs), TRUE)
        /\ UNCHANGED <<chain, now>>

Offer(block, signature, blobs) ==
    \/ Extend(block, signature, blobs)
    \/ RefuseStale(block)
    \/ Refuse(block, blobs)
    \/ RefuseWritten(block, signature, blobs)

Tick ==
    /\ now' = now + 1
    /\ UNCHANGED <<viewVars, refused, misplaced>>

ReceiverNext ==
    \/ \E block \in Offered :
        \E signature \in HeaderSignatures(block), blobs \in SUBSET Blob :
            Offer(block, signature, blobs)
    \/ Tick

ReceiverSpec == ReceiverInit /\ [][ReceiverNext]_receiverVars

-----------------------------------------------------------------------------
(* Properties *)

ReceiverTypeOK ==
    /\ ViewTypeOK
    /\ now \in Nat
    /\ refused \subseteq
        [index : Nat, body : Body, error : Err \cup Temporary, written : BOOLEAN]
    /\ misplaced \in BOOLEAN

\* Every block whose deltas were written before its header was refused is the
\* next to get on the chain, or still may be.
RefusedGetOn ==
    \A r \in refused : r.written =>
        r.index = tip_index + 1 \/ (r.index <= tip_index /\ chain[r.index] = r.body)

\* What the properties below ask of the blocks that others make.  A coinbase coin
\* that is an old coin again would reset its record (chainview.py:166): it could
\* be spent twice.
Orderly == RefusedGetOn /\ ~misplaced

\* A block refused with a temporary error (ConsensusError.py:11-14) can still
\* be taken: offered again on the same tip, with its signature and its blobs,
\* it passes, although its deltas, and those of competing blocks refused in the
\* same way, have been written in between (chainview.py:94-99).  It need not
\* where an earlier refused block was overtaken: then the block may have spent
\* coins no block created, and a competitor may take them back.
TemporaryErrorsPass ==
    Orderly => \A r \in refused :
        r.written /\ r.index = tip_index + 1 => AllPass(AcceptNewBlock(r.body, now))

\* The opposite for the errors of accept_new_block itself: what fails a check
\* other than one against the clock can never be taken, neither now, whatever
\* competing blocks have left in the stores, nor when its turn came.
OnlyTimeHeals ==
    Orderly => \A r \in refused :
        r.error \in Err \ {"ASSERT_TIME_EXCEEDS_FAILED"} =>
            /\ r.index = tip_index + 1 => ~AllPass(AcceptNewBlock(r.body, now))
            /\ r.index <= tip_index => chain[r.index] # r.body

\* Blocks that come too early, too late, again or incomplete do no harm, nor do
\* deltas written for a block whose header was refused, as long as that very
\* block gets on the chain at the next attempt and reward coins descend from the
\* index their block has for its maker.
NoHarmIfRetried == Orderly => NoDoubleSpend /\ SpentWereCreated /\ DbMatchesChain

\* "permanent errors. Block is unsalvageable garbage" (ConsensusError.py:18): a
\* block refused with one of them never gets on the chain.
GarbageStaysOut ==
    \A r \in refused :
        r.error \in Permanent /\ r.index <= tip_index => chain[r.index] # r.body
=============================================================================
