------------------------------ MODULE MCWallet ------------------------------
(***************************************************************************)
(* An instance of Wallet for TLC: one key in the keychain and one outside. *)
(***************************************************************************)
EXTENDS Wallet

CONSTANTS
    k1, k2,             \* keys
    h1, h2, h3,         \* puzzle hashes: of the keys, of p2_conditions
    zero, ff,           \* the trial puzzle hashes
    MaxBlocks,          \* blocks farmed
    MaxPending          \* solutions pending at a time

MCPuzzleHash == {h1, h2, h3, zero, ff}
MCKey == {k1, k2}
Split == <<[puzzle_hash |-> h1, amount |-> 1], [puzzle_hash |-> h2, amount |-> 1]>>

\* More than one coin of Split is worth, and an amount that CREATE_COIN takes but
\* no bundle that spends it can be sent with
Uneven == <<[puzzle_hash |-> h2, amount |-> 3], [puzzle_hash |-> h1, amount |-> -1]>>

MCPayment == {Split, Uneven}
MCPair == MCKey \X MCPayment
MCIndexHash == (k1 :> h1) @@ (k2 :> h2)
MCConditionsHash == Split :> h3
MCHashes == {<<h1, h3>>, <<h3, h1>>}

\* The coinbase of even blocks goes to p2_conditions, of the others to a key.
Bounds ==
    /\ tip_index' <= MaxBlocks
    /\ Len(spend_bundle'.coin_solutions) <= MaxPending
    /\ \A i \in DOMAIN chain' :
        chain'[i].coinbase_coin.puzzle_hash = IF i % 2 = 0 THEN h3 ELSE h1

MCWalletSpec == WalletInit /\ [][WalletNext /\ Bounds]_<<vars, walletVars>>
=============================================================================
