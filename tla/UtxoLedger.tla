----------------------------- MODULE UtxoLedger -----------------------------
(***************************************************************************)
(* What the simulator's ledger promises its clients, without stores,       *)
(* pending bundles, trial blocks or signatures: a sequence of blocks, each *)
(* of which spends coins once and for all, creates coins whose ancestry is *)
(* known and adds exactly one reward to the money in circulation.          *)
(***************************************************************************)
EXTENDS Coins

CONSTANT REWARD

VARIABLES
    utxo,       \* the coins that can be spent
    spent,      \* the coins that have been spent
    height      \* the number of blocks

utxoVars == <<utxo, spent, height>>

UtxoInit == utxo = {} /\ spent = {} /\ height = 0

\* A new coin is one of the block's two reward coins or the output of a coin
\* the same block spends; a spent coin was spendable or is itself new.
Block ==
    LET created == (utxo' \cup spent') \ (utxo \cup spent)
        consumed == spent' \ spent
    IN  /\ height' = height + 1
        /\ spent \subseteq spent'
        /\ utxo \subseteq utxo' \cup spent'
        /\ utxo' \cap spent' = {}
        /\ Cardinality({c \in created : c.parent_coin_info = BlockIndexHash(height')}) = 2
        /\ \A c \in created :
            c.parent_coin_info \in {BlockIndexHash(height')} \cup Names(consumed)
        /\ Value(utxo') = Value(utxo) + REWARD

UtxoSpec == UtxoInit /\ [][Block]_utxoVars
=============================================================================
