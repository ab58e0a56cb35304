--------------------------- MODULE MCLedgerAsync ---------------------------
(***************************************************************************)
(* Instances of LedgerAsync for TLC: the bundles clients push at the same  *)
(* time, and bounds on what is under way.                                  *)
(***************************************************************************)
EXTENDS LedgerAsync, MCLedger

AsyncHashes == {<<a, b>>}

AsyncBundles ==
    LET first == Coinbase(1, a)
        second == Coinbase(2, a)
        Asking == [NoConditions EXCEPT !.agg_sig[p] = 1]
        Timed == [NoConditions EXCEPT !.time_exceeds = {0}]
    IN  {Unsigned(<<Spend(first, <<Out(b, 2)>>)>>),                 \* conflicts with itself
         Unsigned(<<Solve(second, Timed)>>),                        \* unknown at first
         Unsigned(<<[Spend(first, <<>>) EXCEPT !.puzzle_hash = b]>>),
         Signed(<<Solve(first, Asking)>>, [ZERO96 EXCEPT ![q] = 1])}

\* Solutions of bundles being pushed and blocks being farmed count as well.
Pushers == {w \in Busy : task[w].request.do = "push_tx"}
Farmers == Busy \ Pushers

MCSubmit(w, request) ==
    /\ IF ~WellSigned(request) THEN TRUE
       ELSE IF request.do = "push_tx"
       THEN Len(spend_bundle.coin_solutions) + Cardinality(Pushers) < MaxPending
       ELSE tip_index + Cardinality(Farmers) < MaxBlocks
    /\ Submit(w, request)

MCAsyncNext ==
    \/ \E w \in Worker :
        \/ \E request \in Request : MCSubmit(w, request)
        \/ Step(w)
        \/ Continue(w)
    \/ \E ms \in Skip : now + ms <= MaxNow /\ MoveClock(ms)

MCAsyncSpec == AsyncInit /\ [][MCAsyncNext]_asyncVars /\ Fairness
=============================================================================
