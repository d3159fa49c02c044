----------------------------- MODULE MCPlanner ------------------------------
(* Whole lowerings: search, extraction, enforcement.                       *)
EXTENDS Planner, MCMemos

LocalMemos ==
  { FilteredScan(<<RowStore, StaleColumn>>, Single),
    JoinChain(BuiltinJoins, Single), JoinChain(MergingJoins, Single),
    SharedAggregate(Single), WindowOverSort, WindowOverNothing, Union(Single), Intersection,
    SortOverCube, Recursive, RecursiveFilter, SemiAggregate(2), SemiAggregate(8),
    Write("Update", <<StaleColumn, RowStore>>, Single),
    Write("Delete", <<StaleColumn>>, Single),
    Write("CreateTableAs", <<StaleColumn>>, Single),
    UpdateJoin(<<StaleColumn, RowStore>>) }

(* SELECT .. FROM a UNION ALL SELECT .. FROM b JOIN c, on one node.        *)
UnionOfJoin ==
  Estimated(
  << Scan(4, <<RowStore>>, Single), Scan(2, <<RowStore>>, Single),
     Join(1, 2, Key(0, 0)), Combined("UnionAll", <<1, 3>>) >>)

UnionOfJoinMemo == {UnionOfJoin}

(* One table in one place, joined to one that is partitioned by the key.   *)
HalfPartitioned ==
  Estimated(
  << Scan(4, <<RowStore>>, Single), Scan(2, <<RowStore>>, HashedOn({0})),
     Join(1, 2, Key(0, 0)) >>)

HalfPartitionedMemo == {HalfPartitioned}

(* SELECT .. OVER (PARTITION BY k) FROM (SELECT b AS k, a FROM (SELECT a, b *)
(* FROM t ORDER BY a)).                                                    *)
WindowOverRenamed ==
  Estimated(
  << Scan(4, <<RowStore>>, Single), Ordered("Sort", By(0), 0, <<1>>),
     Projecting(<<1, 0>>, <<2>>), Ordered("Window", By(0), 0, <<3>>) >>)

WindowOverRenamedMemo == {WindowOverRenamed}

(* Every table hashed on its first column, or every table on its second.   *)
ClusterMemos ==
  UNION { { FilteredScan(<<RowStore, StaleColumn>>, d), JoinChain(BuiltinJoins, d),
            JoinChainOf(BuiltinJoins, d, 4, 2, 16), JoinChain(MergingJoins, d),
            SharedAggregate(d), Union(d),
            Write("Update", <<StaleColumn, RowStore>>, d) }
          : d \in {HashedOn({0}), HashedOn({1})} }

(* SELECT .. FROM a JOIN b ON .. WHERE EXISTS (..) GROUP BY k: the rows a  *)
(* join leaves in one order are moved, and grouped in that order.          *)
SemiOverJoin(d) ==
  Estimated(
  << Scan(8, <<RowStore>>, d), Scan(2, <<RowStore>>, d), Join(1, 2, Key(0, 0)),
     Scan(4, <<RowStore>>, d), SemiJoin(3, 4, Key(1, 0)),
     Ordered("Aggregate", By(0), 1, <<5>>) >>)

PlannedMemos ==
  LocalMemos \cup ClusterMemos \cup UnionOfJoinMemo \cup HalfPartitionedMemo
    \cup {SemiOverJoin(Single), SemiOverJoin(HashedOn({0}))}
PlannedRequirements == LocalRequirements \cup PlacedRequirements

(* What the theorem about orders supposes is so of what is checked here; a *)
(* window over a renamed column is where it is not, and where the          *)
(* theorem's claim fails.                                                  *)
ASSUME OrdersAssumption ==
  /\ \A m \in PlannedMemos : OrdersStayInPlace(m)
  /\ ~OrdersStayInPlace(WindowOverRenamed)

(* So is what the theorem about prices supposes.  Candidates of one group  *)
(* are estimated alike but where no first operator applies: of grouping    *)
(* sets, and of a set operation that is no UNION ALL.                      *)
ASSUME PricesAssumption ==
  /\ EnforcersCost /\ \A m \in Memos : EmptyStaysEmpty(m)
  /\ {m \in PlannedMemos : ~EstimatesAgree(m)} = {Intersection, SortOverCube}
=============================================================================
