---------------------------- MODULE MCSearchPair ----------------------------
(* Pairs of searches: pruned against exhaustive, guarded against full.     *)
EXTENDS SearchPair, MCMemos

Exhaustive == {[prune |-> FALSE, greedy |-> FALSE]}
Pruned     == {[prune |-> TRUE,  greedy |-> FALSE]}
Guarded    == {[prune |-> TRUE,  greedy |-> TRUE]}
Shortened  == Pruned \cup Guarded

SharedAggregateMemo == {SharedAggregate(Single)}
UpdateJoinMemo      == {UpdateJoin(<<StaleColumn, RowStore>>)}

EveryMemo ==
  { FilteredScan(<<RowStore, StaleColumn>>, Single), WindowOverSort,
    Union(Single), Intersection, SemiAggregate(2), SemiAggregate(8),
    Write("Update", <<StaleColumn, RowStore>>, Single),
    Write("Delete", <<StaleColumn>>, Single),
    Write("CreateTableAs", <<StaleColumn>>, Single),
    JoinChain(BuiltinJoins, Single), JoinChain(MergingJoins, Single), Recursive }
    \cup SharedAggregateMemo \cup UpdateJoinMemo
=============================================================================
