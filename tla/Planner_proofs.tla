--------------------------- MODULE Planner_proofs ----------------------------
(***************************************************************************)
(* Whole lowerings, for every memo, requirement, calibration and switch    *)
(* setting: what extraction builds from the winner table, and that nothing *)
(* lower() reports after a successful search can occur.                    *)
(***************************************************************************)
EXTENDS Planner, PlanSearch_proofs

(* The nodes of a plan's tree, and plans.                                  *)
TreeOps == Operators \cup {"Exchange", "FormatConvert"}

TreeNodes == [op : TreeOps, buildRight : BOOLEAN, keys : Seq(JoinKeys),
              dist : Distributions, kids : Seq(Int)]

Plans == [cost : Nat, rows : Nat, props : Properties, stale : BOOLEAN, staleWrite : BOOLEAN,
          order : Seq(SortKeys), misordered : BOOLEAN, tree : Seq(TreeNodes)]

PlanNodes == [group : Nat, winner : Entries, kids : Seq(Plans)]

(* The cardinality model makes a row count of as many row counts as an     *)
(* operator has inputs.                                                    *)
EstimatesAreRows ==
  \A e \in GroupExprs, g \in Groups : \A in \in [1..Arity(e.op) -> Nat] :
    RowsOf(e, g, in) \in Nat
-----------------------------------------------------------------------------
(* Trees.                                                                  *)

Moved(tree) == \E n \in 1..Len(tree) : tree[n].op = "Exchange"

HashJoins == {"HashJoin", "HashSemiJoin", "HashAntiJoin"}

(* Hash joins have two inputs.                                             *)
Paired(tree) == \A n \in 1..Len(tree) : tree[n].op \in HashJoins => Len(tree[n].kids) = 2

(* No node is an input twice.                                              *)
ReadOnce(tree) ==
  \A m, n \in 1..Len(tree) : \A j \in 1..Len(tree[m].kids), k \in 1..Len(tree[n].kids) :
    tree[m].kids[j] = tree[n].kids[k] => m = n /\ j = k

(* A tree in post-order: every node but the last is an input of exactly    *)
(* one, which comes after it.                                              *)
PostOrder(tree) ==
  /\ tree # <<>>
  /\ \A n \in 1..Len(tree) : \A k \in 1..Len(tree[n].kids) : tree[n].kids[k] \in 1..(n - 1)
  /\ \A x \in 1..(Len(tree) - 1) :
       \E n \in 1..Len(tree) : \E k \in 1..Len(tree[n].kids) : tree[n].kids[k] = x
  /\ ReadOnce(tree)

Shaped(tree) == Paired(tree) /\ PostOrder(tree)

(* Moving a tree's positions keeps its nodes.                              *)
LEMMA ShiftedTree ==
  ASSUME NEW tree \in Seq(TreeNodes), NEW by \in Nat
  PROVE  /\ Shifted(tree, by) \in Seq(TreeNodes)
         /\ Len(Shifted(tree, by)) = Len(tree)
         /\ \A n \in 1..Len(tree) :
              /\ Shifted(tree, by)[n].op = tree[n].op
              /\ Len(Shifted(tree, by)[n].kids) = Len(tree[n].kids)
              /\ \A k \in 1..Len(tree[n].kids) :
                   Shifted(tree, by)[n].kids[k] = tree[n].kids[k] + by
  <1> DEFINE kids(n) == [k \in 1..Len(tree[n].kids) |-> tree[n].kids[k] + by]
             node(n) == [tree[n] EXCEPT !.kids = kids(n)]
  <1>1. \A n \in 1..Len(tree) : tree[n] \in TreeNodes
    OBVIOUS
  <1>2. ASSUME NEW n \in 1..Len(tree)
        PROVE  /\ [k \in DOMAIN tree[n].kids |-> tree[n].kids[k] + by] = kids(n)
               /\ kids(n) \in Seq(Int) /\ Len(kids(n)) = Len(tree[n].kids)
               /\ \A k \in 1..Len(tree[n].kids) : kids(n)[k] = tree[n].kids[k] + by
    <2>1. tree[n].kids \in Seq(Int)
      BY <1>1 DEF TreeNodes
    <2>2. /\ DOMAIN tree[n].kids = 1..Len(tree[n].kids) /\ Len(tree[n].kids) \in Nat
          /\ \A k \in 1..Len(tree[n].kids) : tree[n].kids[k] + by \in Int
      BY <2>1
    <2> QED
      BY <2>2
  <1>3. ASSUME NEW n \in 1..Len(tree)
        PROVE  /\ node(n) \in TreeNodes /\ node(n).op = tree[n].op
               /\ node(n).kids = kids(n)
    <2> HIDE DEF kids
    <2> QED
      BY <1>1, <1>2 DEF TreeNodes
  <1>4. Shifted(tree, by) = [n \in 1..Len(tree) |-> node(n)]
    BY <1>2 DEF Shifted
  <1> HIDE DEF node, kids
  <1>5. Shifted(tree, by) \in Seq(TreeNodes) /\ Len(Shifted(tree, by)) = Len(tree)
    BY <1>3, <1>4
  <1>6. \A n \in 1..Len(tree) : Shifted(tree, by)[n] = node(n)
    BY <1>4
  <1> QED
    BY <1>2, <1>3, <1>5, <1>6

(* A forest has the nodes of its trees. *)
LEMMA ForestTree ==
  ASSUME NEW trees \in Seq(Seq(TreeNodes)), Len(trees) <= 2
  PROVE  /\ Forest(trees) \in Seq(TreeNodes)
         /\ (\E k \in 1..Len(trees) : Moved(trees[k])) => Moved(Forest(trees))
         /\ (\A k \in 1..Len(trees) : Paired(trees[k])) => Paired(Forest(trees))
  <1>1. CASE Len(trees) = 0
    BY <1>1 DEF Forest, Paired
  <1>2. CASE Len(trees) = 1
    <2>1. Forest(trees) = trees[1] /\ trees[1] \in Seq(TreeNodes)
      BY <1>2 DEF Forest
    <2> QED
      BY <1>2, <2>1
  <1>3. CASE Len(trees) = 2
    <2> DEFINE s == trees[1]
               t == Shifted(trees[2], Len(trees[1]))
    <2>1. Forest(trees) = s \o t /\ s \in Seq(TreeNodes) /\ trees[2] \in Seq(TreeNodes)
      BY <1>3 DEF Forest
    <2>2. /\ t \in Seq(TreeNodes) /\ Len(t) = Len(trees[2])
          /\ \A n \in 1..Len(t) : /\ t[n].op = trees[2][n].op
                                  /\ Len(t[n].kids) = Len(trees[2][n].kids)
      BY <2>1, ShiftedTree
    <2>3. (Moved(trees[2]) => Moved(t)) /\ (Paired(trees[2]) => Paired(t))
      BY <2>2 DEF Moved, Paired
    <2> HIDE DEF s, t
    <2>4. /\ s \o t \in Seq(TreeNodes) /\ Len(s \o t) = Len(s) + Len(t)
          /\ \A n \in 1..Len(s) : (s \o t)[n] = s[n] /\ n \in 1..Len(s \o t)
          /\ \A n \in 1..Len(t) : (s \o t)[Len(s) + n] = t[n] /\ Len(s) + n \in 1..Len(s \o t)
      <3>1. /\ s \o t \in Seq(TreeNodes) /\ Len(s \o t) = Len(s) + Len(t)
            /\ Len(s) \in Nat /\ Len(t) \in Nat
        <4>1. s \in Seq(TreeNodes) /\ t \in Seq(TreeNodes)
          BY <2>1, <2>2
        <4> QED
          BY <4>1, ConcatProperties, LenProperties
      <3>2. \A n \in 1..(Len(s) + Len(t)) :
              (s \o t)[n] = IF n <= Len(s) THEN s[n] ELSE t[n - Len(s)]
        BY <2>1, <2>2, ConcatProperties
      <3>3. /\ \A n \in 1..Len(s) : n \in 1..(Len(s) + Len(t)) /\ n <= Len(s)
            /\ \A n \in 1..Len(t) : /\ Len(s) + n \in 1..(Len(s) + Len(t))
                                    /\ ~(Len(s) + n <= Len(s)) /\ (Len(s) + n) - Len(s) = n
        BY <3>1
      <3> QED
        BY <3>1, <3>2, <3>3
    <2>5. Moved(s) \/ Moved(t) => Moved(s \o t)
      BY <2>4 DEF Moved
    <2>6. Paired(s) /\ Paired(t) => Paired(s \o t)
      <3> SUFFICES ASSUME Paired(s), Paired(t), NEW n \in 1..Len(s \o t),
                          (s \o t)[n].op \in HashJoins
                   PROVE  Len((s \o t)[n].kids) = 2
        BY DEF Paired
      <3>1. CASE n \in 1..Len(s)
        BY <2>4, <3>1 DEF Paired
      <3>2. CASE n \notin 1..Len(s)
        <4>1. n - Len(s) \in 1..Len(t) /\ Len(s) + (n - Len(s)) = n
          BY <2>1, <2>2, <2>4, <3>2
        <4> QED
          BY <2>4, <4>1 DEF Paired
      <3> QED
        BY <3>1, <3>2
    <2> QED
      BY <1>3, <2>1, <2>3, <2>4, <2>5, <2>6 DEF s
  <1>4. Len(trees) \in {0, 1, 2}
    <2> DEFINE n == Len(trees)
    <2>1. n \in Nat /\ n <= 2
      BY LenProperties
    <2> HIDE DEF n
    <2>2. n \in {0, 1, 2}
      BY <2>1
    <2> QED
      BY <2>2 DEF n
  <1> QED
    BY <1>1, <1>2, <1>3, <1>4

LEMMA TreeFacts ==
  ASSUME NEW tree \in Seq(TreeNodes), PostOrder(tree)
  PROVE  /\ Len(tree) \in Nat /\ Len(tree) >= 1 /\ DOMAIN tree = 1..Len(tree)
         /\ \A n \in 1..Len(tree) :
              /\ Len(tree[n].kids) \in Nat /\ DOMAIN tree[n].kids = 1..Len(tree[n].kids)
              /\ StreamedInputs(tree[n]) \subseteq 1..Len(tree[n].kids)
              /\ StoppedInputs(tree[n]) = 1..Len(tree[n].kids) \ StreamedInputs(tree[n])
              /\ \A k \in 1..Len(tree[n].kids) : tree[n].kids[k] \in 1..(n - 1)
  <1>1. Len(tree) \in Nat /\ DOMAIN tree = 1..Len(tree) /\ Len(tree) # 0
    BY EmptySeq, LenProperties DEF PostOrder
  <1>2. ASSUME NEW n \in 1..Len(tree)
        PROVE  Len(tree[n].kids) \in Nat /\ DOMAIN tree[n].kids = 1..Len(tree[n].kids)
    <2>1. tree[n] \in TreeNodes
      OBVIOUS
    <2>2. tree[n].kids \in Seq(Int)
      BY <2>1 DEF TreeNodes
    <2> QED
      BY <2>2, LenProperties
  <1> QED
    BY <1>1, <1>2 DEF StreamedInputs, StoppedInputs, PostOrder

(* Node x is input k of node n.                                            *)
Feeds(tree, n, k, x) ==
  n \in 1..Len(tree) /\ k \in 1..Len(tree[n].kids) /\ tree[n].kids[k] = x

LEMMA FeedsOnce ==
  ASSUME NEW tree, ReadOnce(tree), NEW m, NEW n, NEW j, NEW k, NEW x,
         Feeds(tree, m, j, x), Feeds(tree, n, k, x)
  PROVE  m = n /\ j = k
  BY DEF ReadOnce, Feeds

(* A forest in post-order, with the roots of its trees.                    *)
Grove(forest, roots) ==
  /\ \A n \in 1..Len(forest) : \A k \in 1..Len(forest[n].kids) :
       forest[n].kids[k] \in 1..(n - 1)
  /\ \A j \in 1..Len(roots) :
       /\ roots[j] \in 1..Len(forest)
       /\ \A i \in 1..Len(roots) : roots[i] = roots[j] => i = j
       /\ \A n \in 1..Len(forest) : \A k \in 1..Len(forest[n].kids) : forest[n].kids[k] # roots[j]
  /\ \A x \in 1..Len(forest) :
       \/ \E j \in 1..Len(roots) : roots[j] = x
       \/ \E n \in 1..Len(forest) : \E k \in 1..Len(forest[n].kids) : forest[n].kids[k] = x
  /\ ReadOnce(forest)

LEMMA GroveOfOne ==
  ASSUME NEW tree \in Seq(TreeNodes), PostOrder(tree), NEW roots,
         Len(roots) = 1, roots[1] = Len(tree)
  PROVE  Grove(tree, roots)
  <1> DEFINE N == Len(tree)
  <1>1. /\ N \in Nat /\ N >= 1
        /\ \A n \in 1..N : \A k \in 1..Len(tree[n].kids) : tree[n].kids[k] \in 1..(n - 1)
    BY TreeFacts
  <1>2. \A n \in 1..N : N \notin 1..(n - 1)
    <2> HIDE DEF N
    <2> QED
      BY <1>1
  <1>3. \A x \in 1..N : x = N \/ x \in 1..(N - 1)
    <2> HIDE DEF N
    <2> QED
      BY <1>1
  <1>4. N \in 1..N
    <2> HIDE DEF N
    <2> QED
      BY <1>1
  <1>5. \A j \in 1..Len(roots) : j = 1 /\ roots[j] = N
    OBVIOUS
  <1>6. \A n \in 1..N : \A k \in 1..Len(tree[n].kids) : tree[n].kids[k] # N
    BY <1>1, <1>2
  <1>7. \A x \in 1..N :
          \/ \E j \in 1..Len(roots) : roots[j] = x
          \/ \E n \in 1..N : \E k \in 1..Len(tree[n].kids) : tree[n].kids[k] = x
    BY <1>3 DEF PostOrder
  <1> QED
    BY <1>1, <1>4, <1>5, <1>6, <1>7 DEF Grove, PostOrder

LEMMA GroveOfTwo ==
  ASSUME NEW s \in Seq(TreeNodes), PostOrder(s), NEW tree \in Seq(TreeNodes), PostOrder(tree),
         NEW roots, Len(roots) = 2, roots[1] = Len(s), roots[2] = Len(s) + Len(tree)
  PROVE  Grove(s \o Shifted(tree, Len(s)), roots)
  <1> DEFINE S == Len(s)
             T == Len(tree)
             t == Shifted(tree, S)
             f == s \o t
  <1>1. /\ S \in Nat /\ S >= 1 /\ T \in Nat /\ T >= 1
        /\ \A n \in 1..S : \A k \in 1..Len(s[n].kids) : s[n].kids[k] \in 1..(n - 1)
        /\ \A n \in 1..T : \A k \in 1..Len(tree[n].kids) : tree[n].kids[k] \in 1..(n - 1)
    BY TreeFacts
  <1>2. /\ t \in Seq(TreeNodes) /\ Len(t) = T
        /\ \A n \in 1..T : /\ Len(t[n].kids) = Len(tree[n].kids)
                           /\ \A k \in 1..Len(tree[n].kids) : t[n].kids[k] = tree[n].kids[k] + S
    BY <1>1, ShiftedTree
  <1> HIDE DEF t
  <1>3. /\ Len(f) = S + T
        /\ \A n \in 1..(S + T) : f[n] = IF n <= S THEN s[n] ELSE t[n - S]
    <2>1. t \in Seq(TreeNodes) /\ Len(t) = T
      BY <1>2
    <2>2. /\ Len(f) = Len(s) + Len(t)
          /\ \A n \in 1..(Len(s) + Len(t)) : f[n] = IF n <= Len(s) THEN s[n] ELSE t[n - Len(s)]
      <3>1. Len(f) = Len(s) + Len(t)
        BY <2>1, ConcatProperties
      <3> QED
        BY <2>1, <3>1, ConcatProperties
    <2> HIDE DEF T, f
    <2> QED
      BY <2>1, <2>2
  <1> DEFINE Link(n, k, x) == n \in 1..(S + T) /\ k \in 1..Len(f[n].kids) /\ f[n].kids[k] = x
             Low(n, k, x)  == Feeds(s, n, k, x)
             High(n, k, x) == Feeds(tree, n - S, k, x - S)
  <1>4. ASSUME NEW n \in 1..(S + T), NEW k, NEW x \in Int
        PROVE  Link(n, k, x) <=> Low(n, k, x) \/ High(n, k, x)
    <2>1. CASE n <= S
      <3>1. n \in 1..S /\ n - S \notin 1..T /\ f[n] = s[n]
        <4>1. n \in 1..S /\ n - S \notin 1..T
          <5> HIDE DEF S, T
          <5> QED
            BY <1>1, <2>1
        <4> QED
          BY <1>3, <2>1, <4>1
      <3> QED
        BY <3>1 DEF Feeds
    <2>2. CASE ~(n <= S)
      <3>1. n \notin 1..S /\ n - S \in 1..T
        <4> HIDE DEF S, T
        <4> QED
          BY <1>1, <2>2
      <3>2. f[n] = t[n - S]
        BY <1>3, <2>2
      <3> DEFINE m == n - S
      <3>3. /\ m \in 1..T /\ f[n] = t[m] /\ Len(t[m].kids) = Len(tree[m].kids)
            /\ \A j \in 1..Len(tree[m].kids) : t[m].kids[j] = tree[m].kids[j] + S
                                                /\ tree[m].kids[j] \in Int
        BY <1>1, <1>2, <3>1, <3>2
      <3>4. \A c \in Int : c + S = x <=> c = x - S
        BY <1>1
      <3>5. Link(n, k, x) <=> k \in 1..Len(tree[m].kids) /\ tree[m].kids[k] = x - S
        <4> HIDE DEF m, S, T, f
        <4> QED
          BY <3>3, <3>4
      <3> QED
        BY <3>1, <3>5 DEF Feeds
    <2> QED
      BY <2>1, <2>2
  <1>5. \A n, k : \A x \in Int : Low(n, k, x) => x \in 1..(n - 1) /\ x < S
    <2>1. \A n \in 1..S : \A x \in 1..(n - 1) : x < S
      <3> HIDE DEF S
      <3> QED
        BY <1>1
    <2> QED
      BY <1>1, <2>1 DEF Feeds
  <1>6. ASSUME NEW n \in 1..(S + T), NEW k, NEW x \in Int, High(n, k, x)
        PROVE  x \in 1..(n - 1) /\ x > S /\ x < S + T
    <2>1. x - S \in 1..(n - S - 1) /\ n - S \in 1..T
      BY <1>1, <1>6 DEF Feeds
    <2> HIDE DEF S, T
    <2> QED
      BY <1>1, <2>1
  <1>7. \A n \in 1..(S + T) : \A k \in 1..Len(f[n].kids) :
          f[n].kids[k] \in Int /\ Link(n, k, f[n].kids[k])
    <2>1. f \in Seq(TreeNodes)
      BY <1>2, ConcatProperties
    <2> HIDE DEF f
    <2>2. \A n \in 1..(S + T) : f[n] \in TreeNodes
      BY <1>3, <2>1
    <2>3. \A n \in 1..(S + T) : f[n].kids \in Seq(Int)
      BY <2>2 DEF TreeNodes
    <2> QED
      BY <2>3
  <1> HIDE DEF f
  <1>8. \A n \in 1..(S + T) : \A k \in 1..Len(f[n].kids) :
          LET x == f[n].kids[k] IN
          x \in 1..(n - 1) /\ x # S /\ x # S + T
    <2> SUFFICES ASSUME NEW n \in 1..(S + T), NEW k \in 1..Len(f[n].kids),
                        NEW x \in Int, x = f[n].kids[k]
                 PROVE  x \in 1..(n - 1) /\ x # S /\ x # S + T
      BY <1>7
    <2>1. Link(n, k, x)
      BY <1>7
    <2>2. Low(n, k, x) \/ High(n, k, x)
      BY <1>4, <2>1
    <2> HIDE DEF S, T, Low, High, Link
    <2> QED
      BY <1>1, <1>5, <1>6, <2>2
  <1>9. ASSUME NEW m \in 1..(S + T), NEW n \in 1..(S + T), NEW j, NEW k, NEW x \in Int,
               Link(m, j, x), Link(n, k, x)
        PROVE  m = n /\ j = k
    <2>0. ReadOnce(s) /\ ReadOnce(tree)
      BY DEF PostOrder
    <2>1. CASE Low(m, j, x) /\ Low(n, k, x)
      BY <2>0, <2>1, FeedsOnce
    <2>2. CASE High(m, j, x) /\ High(n, k, x)
      <3>1. m - S = n - S /\ j = k
        BY <2>0, <2>2, FeedsOnce
      <3> HIDE DEF S, T
      <3> QED
        BY <1>1, <3>1
    <2>3. CASE (Low(m, j, x) /\ High(n, k, x)) \/ (High(m, j, x) /\ Low(n, k, x))
      <3> HIDE DEF S, T, Low, High
      <3> QED
        BY <1>1, <1>5, <1>6, <2>3
    <2>4. (Low(m, j, x) \/ High(m, j, x)) /\ (Low(n, k, x) \/ High(n, k, x))
      <3> HIDE DEF Low, High, Link
      <3> QED
        BY <1>4, <1>9
    <2> HIDE DEF Low, High, Link
    <2> QED
      BY <2>1, <2>2, <2>3, <2>4
  <1>10. ASSUME NEW x \in 1..(S + T), x # S, x # S + T
         PROVE  \E n \in 1..(S + T) : \E k \in 1..Len(f[n].kids) : f[n].kids[k] = x
    <2> SUFFICES \E n \in 1..(S + T) : \E k : Low(n, k, x) \/ High(n, k, x)
      <3>1. PICK n \in 1..(S + T) : \E k : Low(n, k, x) \/ High(n, k, x)
        OBVIOUS
      <3>2. PICK k : Low(n, k, x) \/ High(n, k, x)
        BY <3>1
      <3>3. x \in Int
        OBVIOUS
      <3>4. Link(n, k, x)
        <4> HIDE DEF Low, High, Link
        <4> QED
          BY <1>4, <3>2, <3>3
      <3> QED
        BY <3>4
    <2>1. x \in 1..(S - 1) \/ x - S \in 1..(T - 1)
      <3> HIDE DEF S, T
      <3> QED
        BY <1>1, <1>10
    <2>2. CASE x \in 1..(S - 1)
      <3>1. PICK n \in 1..S : \E k \in 1..Len(s[n].kids) : s[n].kids[k] = x
        BY <2>2 DEF PostOrder
      <3>2. n \in 1..(S + T)
        <4> HIDE DEF S, T
        <4> QED
          BY <1>1, <3>1
      <3> QED
        BY <3>1, <3>2 DEF Feeds
    <2>3. CASE x - S \in 1..(T - 1)
      <3>1. PICK m \in 1..T : \E k \in 1..Len(tree[m].kids) : tree[m].kids[k] = x - S
        BY <2>3 DEF PostOrder
      <3> DEFINE n == m + S
      <3>2. n \in 1..(S + T) /\ n - S = m
        <4> HIDE DEF S, T
        <4> QED
          BY <1>1, <3>1
      <3>3. \E k : High(n, k, x)
        BY <3>1, <3>2 DEF Feeds
      <3> QED
        BY <3>2, <3>3
    <2> QED
      BY <2>1, <2>2, <2>3
  <1>11. S \in 1..(S + T) /\ S + T \in 1..(S + T) /\ S # S + T
    <2> HIDE DEF S, T
    <2> QED
      BY <1>1
  <1>12. \A j \in 1..Len(roots) : (j = 1 /\ roots[j] = S) \/ (j = 2 /\ roots[j] = S + T)
    OBVIOUS
  <1>13. /\ \A n \in 1..(S + T) : \A k \in 1..Len(f[n].kids) : f[n].kids[k] \in 1..(n - 1)
         /\ \A j \in 1..Len(roots) :
              /\ roots[j] \in 1..(S + T)
              /\ \A i \in 1..Len(roots) : roots[i] = roots[j] => i = j
              /\ \A n \in 1..(S + T) : \A k \in 1..Len(f[n].kids) : f[n].kids[k] # roots[j]
    <2> DEFINE R == S + T
    <2> HIDE DEF S, R
    <2> QED
      BY <1>8, <1>11, <1>12 DEF R
  <1>14. \A x \in 1..(S + T) :
           \/ \E j \in 1..Len(roots) : roots[j] = x
           \/ \E n \in 1..(S + T) : \E k \in 1..Len(f[n].kids) : f[n].kids[k] = x
    <2>1. 1 \in 1..Len(roots) /\ roots[1] = S /\ 2 \in 1..Len(roots) /\ roots[2] = S + T
      OBVIOUS
    <2> QED
      BY <1>10, <2>1
  <1>15. ReadOnce(f)
    <2>1. \A m, n \in 1..(S + T) : \A j \in 1..Len(f[m].kids), k \in 1..Len(f[n].kids) :
            f[m].kids[j] = f[n].kids[k] => m = n /\ j = k
      <3> HIDE DEF Link
      <3> QED
        BY <1>7, <1>9
    <2> HIDE DEF S, T
    <2> QED
      BY <1>3, <2>1 DEF ReadOnce
  <1> HIDE DEF S, T
  <1>16. Grove(f, roots)
    BY <1>3, <1>13, <1>14, <1>15 DEF Grove
  <1> QED
    BY <1>16 DEF f, t, S

(* A node over a forest makes it a tree.                                   *)
LEMMA GroveTopped ==
  ASSUME NEW f \in Seq(TreeNodes), NEW node \in TreeNodes, Grove(f, node.kids)
  PROVE  PostOrder(Append(f, node))
  <1> DEFINE N == Len(f)
             r == node.kids
             tree == Append(f, node)
  <1>1. /\ N \in Nat /\ Len(tree) = N + 1 /\ tree[N + 1] = node
        /\ \A n \in 1..N : tree[n] = f[n]
    BY LenProperties
  <1>2. \A n \in 1..(N + 1) : n = N + 1 \/ n \in 1..N
    <2> HIDE DEF N
    <2> QED
      BY <1>1
  <1>3. 1..((N + 1) - 1) = 1..N /\ N + 1 \in 1..(N + 1) /\ 1..N \subseteq 1..(N + 1)
    <2> HIDE DEF N
    <2> QED
      BY <1>1
  <1>4. tree # <<>>
    BY <1>1
  <1> HIDE DEF tree
  <1>5. \A n \in 1..(N + 1) : \A k \in 1..Len(tree[n].kids) : tree[n].kids[k] \in 1..(n - 1)
    BY <1>1, <1>2, <1>3 DEF Grove
  <1>6. \A x \in 1..N :
          \E n \in 1..(N + 1) : \E k \in 1..Len(tree[n].kids) : tree[n].kids[k] = x
    <2> SUFFICES ASSUME NEW x \in 1..N
                 PROVE  \E n \in 1..(N + 1) : \E k \in 1..Len(tree[n].kids) : tree[n].kids[k] = x
      OBVIOUS
    <2>1. CASE \E j \in 1..Len(r) : r[j] = x
      BY <1>1, <1>3, <2>1
    <2>2. CASE \E n \in 1..N : \E k \in 1..Len(f[n].kids) : f[n].kids[k] = x
      BY <1>1, <1>3, <2>2
    <2> QED
      BY <2>1, <2>2 DEF Grove
  <1>7. ASSUME NEW m \in 1..(N + 1), NEW n \in 1..(N + 1), NEW j \in 1..Len(tree[m].kids),
               NEW k \in 1..Len(tree[n].kids), tree[m].kids[j] = tree[n].kids[k]
        PROVE  m = n /\ j = k
    <2>1. CASE m = N + 1 /\ n = N + 1
      BY <1>1, <1>7, <2>1 DEF Grove
    <2>2. CASE m = N + 1 /\ n \in 1..N
      BY <1>1, <1>7, <2>2 DEF Grove
    <2>3. CASE m \in 1..N /\ n = N + 1
      BY <1>1, <1>7, <2>3 DEF Grove
    <2>4. CASE m \in 1..N /\ n \in 1..N
      <3>1. tree[m] = f[m] /\ tree[n] = f[n]
        BY <1>1, <2>4
      <3> QED
        BY <1>7, <2>4, <3>1 DEF Grove, ReadOnce
    <2> QED
      BY <1>2, <2>1, <2>2, <2>3, <2>4
  <1> QED
    BY <1>1, <1>3, <1>4, <1>5, <1>6, <1>7 DEF PostOrder, ReadOnce, tree
(* A node over up to two trees.                                            *)
LEMMA PlantedPostOrder ==
  ASSUME NEW trees \in Seq(Seq(TreeNodes)), Len(trees) <= 2,
         \A k \in 1..Len(trees) : PostOrder(trees[k]),
         NEW node \in TreeNodes, node.kids = RootsOf(trees)
  PROVE  PostOrder(Append(Forest(trees), node))
  <1> DEFINE f == Forest(trees)
             roots == RootsOf(trees)
  <1>1. f \in Seq(TreeNodes)
    BY ForestTree
  <1> SUFFICES Grove(f, roots)
    <2> HIDE DEF f, roots
    <2>1. PostOrder(Append(f, node))
      BY <1>1, GroveTopped DEF roots
    <2> QED
      BY <2>1 DEF f
  <1>2. /\ Len(roots) = Len(trees)
        /\ \A k \in 1..Len(trees) : roots[k] = IF k = 1 THEN Len(trees[1]) ELSE Len(f)
    <2> HIDE DEF f
    <2> QED
      BY DEF RootsOf, f
  <1>3. CASE Len(trees) = 0
    <2>1. f = <<>> /\ Len(roots) = 0
      BY <1>2, <1>3 DEF Forest
    <2>2. Grove(<<>>, roots)
      <3> HIDE DEF roots
      <3> QED
        BY <2>1 DEF Grove, ReadOnce
    <2> QED
      BY <2>1, <2>2
  <1>4. CASE Len(trees) = 1
    <2>1. /\ f = trees[1] /\ trees[1] \in Seq(TreeNodes) /\ PostOrder(trees[1])
          /\ Len(roots) = 1 /\ roots[1] = Len(trees[1])
      <3>1. f = trees[1] /\ trees[1] \in Seq(TreeNodes)
        BY <1>4 DEF Forest
      <3> HIDE DEF f, roots
      <3> QED
        BY <1>2, <1>4, <3>1
    <2> HIDE DEF f, roots
    <2> QED
      BY <2>1, GroveOfOne
  <1>5. CASE Len(trees) = 2
    <2> DEFINE s == trees[1]
               t == trees[2]
    <2>1. /\ f = s \o Shifted(t, Len(s))
          /\ s \in Seq(TreeNodes) /\ PostOrder(s) /\ t \in Seq(TreeNodes) /\ PostOrder(t)
          /\ Len(roots) = 2 /\ roots[1] = Len(s) /\ roots[2] = Len(f)
      <3>1. f = s \o Shifted(t, Len(s)) /\ s \in Seq(TreeNodes) /\ t \in Seq(TreeNodes)
        <4>1. s \in Seq(TreeNodes) /\ t \in Seq(TreeNodes)
          BY <1>5
        <4>2. Len(trees) # 0 /\ Len(trees) # 1
          BY <1>5
        <4>3. f = trees[1] \o Shifted(trees[2], Len(trees[1]))
          BY <4>2 DEF Forest
        <4> QED
          BY <4>1, <4>3
      <3> HIDE DEF f, roots
      <3>2. 1 \in 1..Len(trees) /\ 2 \in 1..Len(trees) /\ 2 # 1
        BY <1>5
      <3>3. PostOrder(s) /\ PostOrder(t)
        BY <3>2
      <3> QED
        BY <1>2, <1>5, <3>1, <3>2, <3>3
    <2> HIDE DEF f, s, t, roots
    <2>2. Len(f) = Len(s) + Len(t)
      <3>1. Shifted(t, Len(s)) \in Seq(TreeNodes) /\ Len(Shifted(t, Len(s))) = Len(t)
        BY <2>1, ShiftedTree, LenProperties
      <3> DEFINE u == Shifted(t, Len(s))
      <3> HIDE DEF u
      <3>2. u \in Seq(TreeNodes) /\ Len(u) = Len(t) /\ f = s \o u
        BY <2>1, <3>1 DEF u
      <3>3. Len(s \o u) = Len(s) + Len(u)
        BY <2>1, <3>2, ConcatProperties
      <3> QED
        BY <3>2, <3>3
    <2> QED
      BY <2>1, <2>2, GroveOfTwo
  <1>6. Len(trees) \in {0, 1, 2}
    <2> DEFINE n == Len(trees)
    <2>1. n \in Nat /\ n <= 2
      BY LenProperties
    <2> HIDE DEF n
    <2>2. n \in {0, 1, 2}
      BY <2>1
    <2> QED
      BY <2>2 DEF n
  <1> HIDE DEF f, roots
  <1> QED
    BY <1>3, <1>4, <1>5, <1>6

(* A node over trees. *)
LEMMA PlantedTree ==
  ASSUME NEW trees \in Seq(Seq(TreeNodes)), Len(trees) <= 2,
         NEW op \in TreeOps, NEW buildRight \in BOOLEAN, NEW keys \in Seq(JoinKeys),
         NEW dist \in Distributions
  PROVE  LET tree == Planted(trees, op, buildRight, keys, dist)
         IN  /\ tree \in Seq(TreeNodes)
             /\ op = "Exchange" \/ (\E k \in 1..Len(trees) : Moved(trees[k])) => Moved(tree)
             /\ /\ \A k \in 1..Len(trees) : Shaped(trees[k])
                /\ op \in HashJoins => Len(trees) = 2
                => Shaped(tree)
  <1> DEFINE f    == Forest(trees)
             node == [op |-> op, buildRight |-> buildRight, keys |-> keys, dist |-> dist,
                      kids |-> RootsOf(trees)]
  <1>1. f \in Seq(TreeNodes)
    BY ForestTree
  <1>2. RootsOf(trees) \in Seq(Int) /\ Len(RootsOf(trees)) = Len(trees)
    <2>1. \A k \in 1..Len(trees) : (IF k = 1 THEN Len(trees[1]) ELSE Len(f)) \in Int
      <3>1. \A k \in 1..Len(trees) : trees[k] \in Seq(TreeNodes)
        OBVIOUS
      <3> HIDE DEF f
      <3> QED
        BY <1>1, <3>1
    <2>2. RootsOf(trees) = [k \in 1..Len(trees) |-> IF k = 1 THEN Len(trees[1]) ELSE Len(f)]
      BY DEF RootsOf
    <2> HIDE DEF f
    <2> QED
      BY <2>1, <2>2
  <1>3. node \in TreeNodes /\ node.op = op /\ Len(node.kids) = Len(trees)
    BY <1>2 DEF TreeNodes
  <1>4. Planted(trees, op, buildRight, keys, dist) = Append(f, node)
    BY DEF Planted
  <1>5. /\ (\E k \in 1..Len(trees) : Moved(trees[k])) => Moved(f)
        /\ (\A k \in 1..Len(trees) : Paired(trees[k])) => Paired(f)
    BY ForestTree
  <1>9. (\A k \in 1..Len(trees) : PostOrder(trees[k])) => PostOrder(Append(f, node))
    <2>1. node.kids = RootsOf(trees)
      OBVIOUS
    <2> HIDE DEF node
    <2> QED
      BY <1>3, <2>1, PlantedPostOrder
  <1> HIDE DEF f, node
  <1>6. /\ Append(f, node) \in Seq(TreeNodes) /\ Len(Append(f, node)) = Len(f) + 1
        /\ Len(f) \in Nat /\ Append(f, node)[Len(f) + 1] = node
        /\ \A n \in 1..Len(f) : Append(f, node)[n] = f[n]
    BY <1>1, <1>3
  <1>7. op = "Exchange" \/ Moved(f) => Moved(Append(f, node))
    BY <1>3, <1>6 DEF Moved
  <1>8. Paired(f) /\ (op \in HashJoins => Len(trees) = 2) => Paired(Append(f, node))
    BY <1>3, <1>6 DEF Paired
  <1> QED
    BY <1>4, <1>5, <1>6, <1>7, <1>8, <1>9 DEF Shaped

(* An enforcer over a tree. *)
LEMMA ToppedTree ==
  ASSUME NEW tree \in Seq(TreeNodes), NEW op \in TreeOps, op \notin HashJoins,
         NEW needed \in BOOLEAN, NEW dist \in Distributions
  PROVE  LET topped == Topped(tree, op, needed, dist)
         IN  /\ topped \in Seq(TreeNodes)
             /\ Moved(tree) \/ (needed /\ op = "Exchange") => Moved(topped)
             /\ Shaped(tree) => Shaped(topped)
  <1>1. CASE needed
    <2>1. /\ <<tree>> \in Seq(Seq(TreeNodes)) /\ Len(<<tree>>) = 1
          /\ <<tree>>[1] = tree /\ <<>> \in Seq(JoinKeys)
      OBVIOUS
    <2> DEFINE trees == <<tree>>
               keys  == <<>>
             node  == Planted(trees, op, FALSE, keys, dist)
    <2>2. trees \in Seq(Seq(TreeNodes)) /\ Len(trees) = 1 /\ trees[1] = tree
      BY <2>1
    <2> HIDE DEF trees, keys
    <2>3. /\ node \in Seq(TreeNodes)
          /\ op = "Exchange" \/ (\E k \in 1..Len(trees) : Moved(trees[k])) => Moved(node)
          /\ /\ \A k \in 1..Len(trees) : Shaped(trees[k])
             /\ op \in HashJoins => Len(trees) = 2
             => Shaped(node)
      <3>1. keys \in Seq(JoinKeys) /\ FALSE \in BOOLEAN /\ Len(trees) <= 2
        BY <2>1, <2>2 DEF keys
      <3> QED
        BY <2>2, <3>1, PlantedTree
    <2>4. Topped(tree, op, needed, dist) = node
      BY <1>1 DEF Topped, trees, keys
    <2> HIDE DEF node
    <2>5. 1 \in 1..Len(trees) /\ \A k \in 1..Len(trees) : trees[k] = tree
      BY <2>2
    <2> QED
      BY <2>3, <2>4, <2>5
  <1>2. CASE ~needed
    BY <1>2 DEF Topped
  <1> QED
    BY <1>1, <1>2

(* What enforce() puts over a plan's tree. *)
LEMMA EnforcedTreeOK ==
  ASSUME NEW tree \in Seq(TreeNodes), NEW have \in Properties, NEW required \in Properties
  PROVE  LET final == EnforcedTree(tree, have, required)
         IN  /\ final \in Seq(TreeNodes)
             /\ Moved(tree) \/ NeedsExchange(have, required) => Moved(final)
             /\ Shaped(tree) => Shaped(final)
  <1> DEFINE dist      == Enforced(have, required).dist
             moved     == Topped(tree, "Exchange", NeedsExchange(have, required), dist)
             converted == Topped(moved, "FormatConvert", NeedsConvert(have, required), dist)
             final     == Topped(converted, "Sort", NeedsSort(have, required), dist)
  <1>1. dist \in Distributions
    BY EnforcedType DEF Properties
  <1>2. /\ NeedsExchange(have, required) \in BOOLEAN
        /\ NeedsConvert(have, required) \in BOOLEAN
        /\ NeedsSort(have, required) \in BOOLEAN
    BY DEF NeedsExchange, NeedsConvert, NeedsSort
  <1>3. /\ "Exchange" \in TreeOps /\ "FormatConvert" \in TreeOps /\ "Sort" \in TreeOps
        /\ "Exchange" \notin HashJoins /\ "FormatConvert" \notin HashJoins
        /\ "Sort" \notin HashJoins
    <2>1. "Exchange" \in TreeOps /\ "FormatConvert" \in TreeOps /\ "Sort" \in TreeOps
      BY DEF TreeOps, Operators
    <2>2. "Exchange" \notin HashJoins
      BY DEF HashJoins
    <2>3. "FormatConvert" \notin HashJoins
      BY DEF HashJoins
    <2>4. "Sort" \notin HashJoins
      BY DEF HashJoins
    <2> QED
      BY <2>1, <2>2, <2>3, <2>4
  <1>4. EnforcedTree(tree, have, required) = final
    BY DEF EnforcedTree
  <1> HIDE DEF dist
  <1>5. /\ moved \in Seq(TreeNodes)
        /\ Moved(tree) \/ NeedsExchange(have, required) => Moved(moved)
        /\ Shaped(tree) => Shaped(moved)
    <2> DEFINE needed == NeedsExchange(have, required)
               op     == "Exchange"
    <2>1. needed \in BOOLEAN /\ op \in TreeOps /\ op \notin HashJoins
      BY <1>2, <1>3
    <2> HIDE DEF needed, op
    <2>2. /\ Topped(tree, op, needed, dist) \in Seq(TreeNodes)
          /\ Moved(tree) \/ (needed /\ op = "Exchange") => Moved(Topped(tree, op, needed, dist))
          /\ Shaped(tree) => Shaped(Topped(tree, op, needed, dist))
      BY <1>1, <2>1, ToppedTree
    <2> QED
      BY <2>2 DEF needed, op
  <1> HIDE DEF moved
  <1>6. /\ converted \in Seq(TreeNodes)
        /\ Moved(moved) => Moved(converted)
        /\ Shaped(moved) => Shaped(converted)
    BY <1>1, <1>2, <1>3, <1>5, ToppedTree
  <1> HIDE DEF converted
  <1>7. /\ final \in Seq(TreeNodes)
        /\ Moved(converted) => Moved(final)
        /\ Shaped(converted) => Shaped(final)
    BY <1>1, <1>2, <1>3, <1>6, ToppedTree
  <1> QED
    BY <1>4, <1>5, <1>6, <1>7
-----------------------------------------------------------------------------
(* Pipelines.                                                              *)

(* Which nodes a row passes on its way to each node.                       *)
Passed(tree, n, runs) ==
  [k \in 1..Len(tree[n].kids) |->
     IF k \in StreamedInputs(tree[n]) THEN runs[tree[n].kids[k]] ELSE <<>>]

RunsOf(tree, runs) ==
  /\ runs \in [1..Len(tree) -> Seq(1..Len(tree))]
  /\ \A n \in 1..Len(tree) : /\ runs[n] = Append(FlattenSeq(Passed(tree, n, runs)), n)
                             /\ Members(tree, n) = runs[n]

LEMMA KidFacts ==
  ASSUME NEW tree \in Seq(TreeNodes), PostOrder(tree), NEW n \in 1..Len(tree)
  PROVE  /\ 1..(n - 1) \subseteq 1..Len(tree)
         /\ \A k \in StreamedInputs(tree[n]) : k \in 1..Len(tree[n].kids)
         /\ \A k \in StoppedInputs(tree[n]) :
              k \in 1..Len(tree[n].kids) /\ k \notin StreamedInputs(tree[n])
         /\ \A k \in 1..Len(tree[n].kids) :
              /\ tree[n].kids[k] \in 1..(n - 1) /\ tree[n].kids[k] \in 1..Len(tree)
              /\ k \in StreamedInputs(tree[n]) \/ k \in StoppedInputs(tree[n])
  <1> DEFINE N == Len(tree)
             Streamed == StreamedInputs(tree[n])
             Stopped  == StoppedInputs(tree[n])
  <1>1. /\ N \in Nat /\ n \in 1..N
        /\ Streamed \subseteq 1..Len(tree[n].kids)
        /\ Stopped = 1..Len(tree[n].kids) \ Streamed
        /\ \A k \in 1..Len(tree[n].kids) : tree[n].kids[k] \in 1..(n - 1)
    BY TreeFacts
  <1>2. 1..(n - 1) \subseteq 1..N
    <2> HIDE DEF N
    <2> QED
      BY <1>1
  <1>3. \A k \in 1..Len(tree[n].kids) : tree[n].kids[k] \in 1..N
    BY <1>1, <1>2
  <1>4. \A k \in Streamed : k \in 1..Len(tree[n].kids)
    BY <1>1
  <1>5. \A k \in Stopped : k \in 1..Len(tree[n].kids) /\ k \notin Streamed
    BY <1>1
  <1>6. \A k \in 1..Len(tree[n].kids) : k \in Streamed \/ k \in Stopped
    BY <1>1
  <1>7. \A k \in 1..Len(tree[n].kids) : tree[n].kids[k] \in 1..(n - 1) /\ tree[n].kids[k] \in 1..N
    BY <1>1, <1>3
  <1> QED
    BY <1>2, <1>4, <1>5, <1>6, <1>7

(* One node streams into another.                                          *)
Streams(tree, x, n) == \E k \in StreamedInputs(tree[n]) : tree[n].kids[k] = x

LEMMA StreamFeeds ==
  ASSUME NEW tree \in Seq(TreeNodes), PostOrder(tree), NEW n \in 1..Len(tree), NEW x,
         Streams(tree, x, n)
  PROVE  /\ x \in 1..(n - 1)
         /\ \E k : k \in StreamedInputs(tree[n]) /\ Feeds(tree, n, k, x)
  <1>1. PICK k \in StreamedInputs(tree[n]) : tree[n].kids[k] = x
    BY DEF Streams
  <1>2. k \in 1..Len(tree[n].kids) /\ tree[n].kids[k] \in 1..(n - 1)
    BY KidFacts
  <1>3. Feeds(tree, n, k, x)
    BY <1>1, <1>2 DEF Feeds
  <1> QED
    BY <1>1, <1>2, <1>3

LEMMA MembersRun ==
  ASSUME NEW tree \in Seq(TreeNodes), PostOrder(tree)
  PROVE  \E runs : RunsOf(tree, runs)
  <1> DEFINE N == Len(tree)
             D == 1..N
             V == Seq(1..N)
             Value(n, h) == Append(FlattenSeq(Passed(tree, n, h)), n)
             Steps == [n \in D |-> [h \in [D -> V] |-> Value(n, h)]]
             Kids(n) == 1..Len(tree[n].kids)
             Passes(n, g) == [k \in DOMAIN tree[n].kids |->
                                IF k \in StreamedInputs(tree[n]) THEN g[tree[n].kids[k]]
                                ELSE <<>>]
             Is(g) == g = [n \in DOMAIN tree |-> Append(FlattenSeq(Passes(n, g)), n)]
             F == CHOOSE g : Is(g)
  <1>1. /\ N \in Nat /\ DOMAIN tree = D
        /\ \A n \in D : /\ Len(tree[n].kids) \in Nat /\ DOMAIN tree[n].kids = Kids(n)
                        /\ \A k \in Kids(n) : tree[n].kids[k] \in D /\ tree[n].kids[k] < n
    <2>1. \A n \in D : 1..(n - 1) \subseteq D /\ \A x \in 1..(n - 1) : x < n
      BY TreeFacts
    <2> QED
      BY <2>1, TreeFacts
  <1>2. ASSUME NEW n \in D, NEW h \in [D -> V] PROVE Value(n, h) \in V
    <2>1. Len(tree[n].kids) \in Nat /\ Passed(tree, n, h) \in [1..Len(tree[n].kids) -> V]
      BY <1>1, EmptySeq DEF Passed
    <2>2. FlattenSeq(Passed(tree, n, h)) \in V
      <3> DEFINE ss == Passed(tree, n, h)
                 l  == Len(tree[n].kids)
      <3>1. l \in Nat /\ ss \in [1..l -> Seq(D)]
        BY <2>1
      <3> HIDE DEF ss, l, D
      <3>2. FlattenSeq(ss) \in Seq(D)
        BY <3>1, FlattenFun
      <3> QED
        BY <3>2 DEF ss, D
    <2> QED
      BY <2>2, AppendProperties
  <1>3. ASSUME NEW n \in D, NEW g \in [D -> V], NEW h \in [D -> V],
               \A j \in D : j < n => g[j] = h[j]
        PROVE  Value(n, g) = Value(n, h)
    <2>1. Passed(tree, n, g) = Passed(tree, n, h)
      BY <1>1, <1>3 DEF Passed
    <2> QED
      BY <2>1
  <1>4. \A n \in D : \A h \in [D -> V] : Steps[n][h] = Value(n, h)
    OBVIOUS
  <1>5. GivenByEarlier(Steps, D, V)
    <2> HIDE DEF Value, Steps, D, V
    <2> QED
      BY <1>2, <1>3, <1>4 DEF GivenByEarlier
  <1>6. PICK p : Solves(p, Steps, D, V)
    <2>1. <<>> \in V
      BY EmptySeq
    <2> HIDE DEF Steps, V
    <2> QED
      BY <1>1, <1>5, <2>1, Recursion
  <1>7. p \in [D -> V] /\ \A n \in D : p[n] = Value(n, p)
    <2> HIDE DEF Value, Steps, D, V
    <2> QED
      BY <1>4, <1>6 DEF Solves
  <1>8. \A n \in D : \A g : Passes(n, g) = Passed(tree, n, g)
    BY <1>1 DEF Passed
  <1>9. Is(p)
    <2> HIDE DEF Passes, D, V
    <2> QED
      BY <1>1, <1>7, <1>8
  <1>10. Is(F)
    <2> HIDE DEF Is
    <2> QED
      BY <1>9
  <1>11. \A n : Members(tree, n) = F[n]
    BY DEF Members
  <1>12. DOMAIN F = D /\ \A n \in D : F[n] = Value(n, F)
    <2> HIDE DEF F, Passes, D
    <2> QED
      BY <1>1, <1>8, <1>10
  <1> HIDE DEF F
  <1> DEFINE T == {n \in D : F[n] = p[n]}
  <1>13. ASSUME NEW n \in 1..N, \A j \in 1..(n - 1) : j \in T PROVE n \in T
    <2>1. \A k \in Kids(n) : F[tree[n].kids[k]] = p[tree[n].kids[k]]
      BY <1>13, TreeFacts
    <2>2. Passed(tree, n, F) = Passed(tree, n, p)
      BY <2>1 DEF Passed
    <2> QED
      BY <1>7, <1>12, <2>2
  <1>14. \A n \in 1..N : n \in T
    <2> HIDE DEF T, N
    <2> QED
      BY <1>1, <1>13, StrongInduction
  <1>15. \A n \in D : Members(tree, n) = p[n]
    BY <1>11, <1>14
  <1> QED
    BY <1>7, <1>15 DEF RunsOf

(* ... as sets: a node, and those passed on the way to an input it streams. *)
Flows(tree, sets) ==
  \A n \in 1..Len(tree) :
    sets[n] = {n} \cup UNION {sets[tree[n].kids[k]] : k \in StreamedInputs(tree[n])}

LEMMA RunsFlow ==
  ASSUME NEW tree \in Seq(TreeNodes), PostOrder(tree), NEW runs, RunsOf(tree, runs)
  PROVE  Flows(tree, [n \in 1..Len(tree) |-> Range(runs[n])])
  <1> DEFINE N == Len(tree)
             sets == [n \in 1..N |-> Range(runs[n])]
  <1> SUFFICES ASSUME NEW n \in 1..N
               PROVE  sets[n] = {n} \cup UNION {sets[tree[n].kids[k]] :
                                                  k \in StreamedInputs(tree[n])}
    BY DEF Flows
  <1> DEFINE l  == Len(tree[n].kids)
             ss == Passed(tree, n, runs)
             flat == FlattenSeq(ss)
             Streamed == StreamedInputs(tree[n])
  <1>1. /\ N \in Nat /\ l \in Nat /\ Streamed \subseteq 1..l
        /\ \A k \in 1..l : tree[n].kids[k] \in 1..N
    BY TreeFacts
  <1>2. /\ runs \in [1..N -> Seq(1..N)]
        /\ runs[n] = Append(flat, n)
    BY DEF RunsOf
  <1>3. ss \in [1..l -> Seq(1..N)]
    BY <1>1, <1>2, EmptySeq DEF Passed
  <1>4. /\ \A k \in Streamed : ss[k] = runs[tree[n].kids[k]]
        /\ \A k \in 1..l \ Streamed : ss[k] = <<>>
    BY <1>1 DEF Passed
  <1> HIDE DEF ss, l, Streamed, N
  <1>5. flat \in Seq(1..N) /\ Range(flat) = UNION {Range(ss[k]) : k \in 1..l}
    <2>1. ss \in Seq(Seq(1..N)) /\ Len(ss) = l
      BY <1>1, <1>3
    <2> QED
      BY <2>1, FlattenElements
  <1>6. Range(<<>>) = {}
    BY DEF Range
  <1>7. UNION {Range(ss[k]) : k \in 1..l} = UNION {sets[tree[n].kids[k]] : k \in Streamed}
    <2>1. \A k \in Streamed : k \in 1..l /\ sets[tree[n].kids[k]] = Range(ss[k])
      BY <1>1, <1>4
    <2>2. \A k \in 1..l : k \notin Streamed => Range(ss[k]) = {}
      BY <1>4, <1>6
    <2> HIDE DEF sets
    <2> QED
      BY <2>1, <2>2
  <1> HIDE DEF flat
  <1>8. Range(Append(flat, n)) = Range(flat) \cup {n}
    <2> DEFINE D == 1..N
    <2>1. flat \in Seq(D) /\ n \in D
      BY <1>5
    <2> HIDE DEF D
    <2> QED
      BY <2>1, AppendElements
  <1>9. sets[n] = Range(flat) \cup {n}
    BY <1>2, <1>8
  <1> HIDE DEF sets
  <1> QED
    BY <1>5, <1>7, <1>9 DEF Streamed

(* A row passes only nodes that come before.                               *)
LEMMA FlowsBelow ==
  ASSUME NEW tree \in Seq(TreeNodes), PostOrder(tree), NEW sets, Flows(tree, sets)
  PROVE  \A n \in 1..Len(tree) : sets[n] \subseteq 1..n
  <1> DEFINE N == Len(tree)
             T == {n \in 1..N : sets[n] \subseteq 1..n}
  <1>1. ASSUME NEW n \in 1..N, \A j \in 1..(n - 1) : j \in T PROVE n \in T
    <2>1. ASSUME NEW k \in StreamedInputs(tree[n]) PROVE sets[tree[n].kids[k]] \subseteq 1..n
      <3> DEFINE m == tree[n].kids[k]
      <3>1. m \in 1..(n - 1)
        BY TreeFacts
      <3>2. sets[m] \subseteq 1..m
        BY <1>1, <3>1
      <3>3. 1..m \subseteq 1..n
        <4> HIDE DEF m
        <4> QED
          BY <3>1
      <3> QED
        BY <3>2, <3>3
    <2>2. sets[n] = {n} \cup UNION {sets[tree[n].kids[k]] : k \in StreamedInputs(tree[n])}
      BY DEF Flows
    <2>3. n \in 1..n
      BY TreeFacts
    <2> QED
      BY <2>1, <2>2, <2>3
  <1>2. \A n \in 1..N : n \in T
    <2>1. N \in Nat
      BY TreeFacts
    <2> HIDE DEF T, N
    <2> QED
      BY <1>1, <2>1, StrongInduction
  <1> QED
    BY <1>2

(* What is passed on the way, short of the end, is streamed into something *)
(* that is passed on the way; and what streams into it is passed too.      *)
LEMMA FlowsOn ==
  ASSUME NEW tree \in Seq(TreeNodes), PostOrder(tree), NEW sets, Flows(tree, sets)
  PROVE  \A s \in 1..Len(tree) :
           /\ \A x \in sets[s] \ {s} : \E n \in sets[s] : Streams(tree, x, n)
           /\ \A n \in sets[s] : \A x : Streams(tree, x, n) => x \in sets[s]
  <1> DEFINE N == Len(tree)
             On(s) ==
               /\ \A x \in sets[s] \ {s} : \E n \in sets[s] : Streams(tree, x, n)
               /\ \A n \in sets[s] : \A x : Streams(tree, x, n) => x \in sets[s]
             T == {s \in 1..N : On(s)}
  <1>1. ASSUME NEW s \in 1..N, \A j \in 1..(s - 1) : j \in T PROVE s \in T
    <2> DEFINE Kids == {tree[s].kids[k] : k \in StreamedInputs(tree[s])}
    <2>1. \A x : x \in sets[s] <=> x = s \/ \E c \in Kids : x \in sets[c]
      BY DEF Flows
    <2>2. \A c \in Kids : c \in 1..(s - 1)
      BY KidFacts
    <2>3. \A c \in Kids : On(c) /\ c \in 1..N
      <3>1. \A c \in 1..(s - 1) : c \in T
        BY <1>1
      <3> HIDE DEF Kids, On
      <3> QED
        BY <2>2, <3>1
    <2>4. \A x : Streams(tree, x, s) <=> x \in Kids
      BY DEF Streams
    <2>5. \A c \in Kids : c \in sets[c]
      BY <2>3 DEF Flows
    <2> HIDE DEF Kids
    <2>6. ASSUME NEW x \in sets[s] \ {s} PROVE \E n \in sets[s] : Streams(tree, x, n)
      <3>1. PICK c \in Kids : x \in sets[c]
        BY <2>1, <2>6
      <3>2. CASE x = c
        BY <2>1, <2>4, <3>2
      <3>3. CASE x # c
        <4>1. PICK n \in sets[c] : Streams(tree, x, n)
          BY <2>3, <3>1, <3>3
        <4> QED
          BY <2>1, <4>1
      <3> QED
        BY <3>2, <3>3
    <2>7. ASSUME NEW n \in sets[s], NEW x, Streams(tree, x, n) PROVE x \in sets[s]
      <3>1. CASE n = s
        BY <2>1, <2>4, <2>5, <2>7, <3>1
      <3>2. CASE n # s
        <4>1. PICK c \in Kids : n \in sets[c]
          BY <2>1, <2>7, <3>2
        <4>2. x \in sets[c]
          BY <2>3, <2>7, <4>1
        <4> QED
          BY <2>1, <4>2
      <3> QED
        BY <3>1, <3>2
    <2> QED
      BY <2>6, <2>7
  <1>2. \A s \in 1..N : s \in T
    <2>1. N \in Nat
      BY TreeFacts
    <2> HIDE DEF T, N
    <2> QED
      BY <1>1, <2>1, StrongInduction
  <1> QED
    BY <1>2

(* Ways to two nodes, neither of which streams on into the other's, share  *)
(* no node.                                                                *)
LEMMA FlowsApart ==
  ASSUME NEW tree \in Seq(TreeNodes), PostOrder(tree), NEW sets, Flows(tree, sets),
         NEW s \in 1..Len(tree), NEW t \in 1..Len(tree), s # t,
         \A n \in sets[t] : ~Streams(tree, s, n),
         \A n \in sets[s] : ~Streams(tree, t, n)
  PROVE  sets[s] \cap sets[t] = {}
  <1> DEFINE N == Len(tree)
             T == {d \in 0..N : N - d \notin sets[s] \cap sets[t]}
  <1>1. N \in Nat /\ s \in 1..N /\ t \in 1..N
    BY TreeFacts
  <1>2. sets[s] \subseteq 1..N /\ sets[t] \subseteq 1..N
    <2>1. sets[s] \subseteq 1..s /\ sets[t] \subseteq 1..t
      BY FlowsBelow
    <2>2. 1..s \subseteq 1..N /\ 1..t \subseteq 1..N
      <3> HIDE DEF N
      <3> QED
        BY <1>1
    <2> QED
      BY <2>1, <2>2
  <1>3. ASSUME NEW d \in 0..N, \A j \in 0..(d - 1) : j \in T PROVE d \in T
    <2> SUFFICES ASSUME N - d \in sets[s] \cap sets[t] PROVE FALSE
      OBVIOUS
    <2> DEFINE x == N - d
    <2>1. x # s
      BY FlowsOn
    <2>2. x # t
      BY FlowsOn
    <2>3. PICK m \in sets[s] : Streams(tree, x, m)
      BY <2>1, FlowsOn
    <2>4. PICK n \in sets[t] : Streams(tree, x, n)
      BY <2>2, FlowsOn
    <2>5. m \in 1..N /\ n \in 1..N
      BY <1>2
    <2>6. m = n /\ x < n
      <3> HIDE DEF x, N
      <3>1. PICK j, k : Feeds(tree, m, j, x) /\ Feeds(tree, n, k, x)
        BY <2>3, <2>4, <2>5, StreamFeeds DEF N
      <3>2. m = n
        BY <3>1, FeedsOnce DEF PostOrder
      <3>3. x \in 1..(n - 1)
        BY <2>4, <2>5, StreamFeeds DEF N
      <3> QED
        BY <2>5, <3>2, <3>3
    <2>7. N - n \in 0..(d - 1) /\ N - (N - n) = n
      <3> HIDE DEF N
      <3> QED
        BY <1>1, <2>5, <2>6 DEF x
    <2>8. n \in sets[s] \cap sets[t]
      BY <2>6
    <2> HIDE DEF N
    <2> QED
      BY <1>3, <2>7, <2>8
  <1>4. \A d \in 0..N : d \in T
    <2> HIDE DEF T, N
    <2> QED
      BY <1>1, <1>3, StrongInduction
  <1>5. ASSUME NEW x \in sets[s] \cap sets[t] PROVE FALSE
    <2>1. N - x \in 0..N /\ N - (N - x) = x
      <3>1. x \in 1..N
        BY <1>2, <1>5
      <3> HIDE DEF N
      <3> QED
        BY <1>1, <3>1
    <2> HIDE DEF N
    <2> QED
      BY <1>4, <1>5, <2>1
  <1> QED
    BY <1>5

(* Inputs of one node share no node, nor do places where rows stop, to one *)
(* of which every node leads.                                              *)
LEMMA InputsApart ==
  ASSUME NEW tree \in Seq(TreeNodes), PostOrder(tree), NEW sets, Flows(tree, sets),
         NEW n \in 1..Len(tree), NEW j \in StreamedInputs(tree[n]),
         NEW k \in StreamedInputs(tree[n]), j # k
  PROVE  sets[tree[n].kids[j]] \cap sets[tree[n].kids[k]] = {}
  <1> DEFINE s == tree[n].kids[j]
             t == tree[n].kids[k]
  <1>1. /\ j \in 1..Len(tree[n].kids) /\ k \in 1..Len(tree[n].kids)
        /\ s \in 1..(n - 1) /\ t \in 1..(n - 1)
    BY TreeFacts
  <1>2. s # t
    BY <1>1 DEF PostOrder, ReadOnce
  <1>3. ASSUME NEW c \in 1..(n - 1), NEW x \in {s, t} PROVE \A m \in sets[c] : ~Streams(tree, x, m)
    <2> SUFFICES ASSUME NEW m \in sets[c], Streams(tree, x, m) PROVE FALSE
      OBVIOUS
    <2>1. c \in 1..Len(tree) /\ n \in Int
      BY TreeFacts
    <2>2. m \in 1..c
      BY <2>1, FlowsBelow
    <2>3. m \in 1..Len(tree) /\ m # n
      BY <2>1, <2>2, TreeFacts
    <2>4. PICK i \in 1..Len(tree[m].kids) : tree[m].kids[i] = x
      BY <2>3, TreeFacts DEF Streams
    <2> QED
      BY <1>1, <2>3, <2>4 DEF PostOrder, ReadOnce
  <1>4. s \in 1..Len(tree) /\ t \in 1..Len(tree)
    BY <1>1, TreeFacts
  <1> HIDE DEF s, t
  <1>5. sets[s] \cap sets[t] = {}
    BY <1>1, <1>2, <1>3, <1>4, FlowsApart
  <1> QED
    BY <1>5 DEF s, t

LEMMA StopsApart ==
  ASSUME NEW tree \in Seq(TreeNodes), PostOrder(tree), NEW sets, Flows(tree, sets)
  PROVE  /\ Stops(tree) \subseteq 1..Len(tree)
         /\ \A s, t \in Stops(tree) : s # t => sets[s] \cap sets[t] = {}
         /\ \A x \in 1..Len(tree) : \E s \in Stops(tree) : x \in sets[s]
  <1> DEFINE N == Len(tree)
  <1>1. N \in Nat /\ N >= 1 /\ DOMAIN tree = 1..N
    BY TreeFacts
  <1>2. \A s : s \in Stops(tree) <=>
          s = N \/ \E n \in 1..N : \E k \in StoppedInputs(tree[n]) : tree[n].kids[k] = s
    BY <1>1 DEF Stops
  <1>3. Stops(tree) \subseteq 1..N
    <2> SUFFICES ASSUME NEW n \in 1..N, NEW k \in StoppedInputs(tree[n])
                 PROVE  tree[n].kids[k] \in 1..N
      BY <1>1, <1>2
    <2> QED
      BY KidFacts
  <1>4. ASSUME NEW s \in Stops(tree), NEW n \in 1..N PROVE ~Streams(tree, s, n)
    <2> SUFFICES ASSUME Streams(tree, s, n) PROVE FALSE
      OBVIOUS
    <2>1. PICK k : k \in StreamedInputs(tree[n]) /\ Feeds(tree, n, k, s)
      BY StreamFeeds
    <2>2. s # N
      <3>1. s \in 1..(n - 1)
        BY StreamFeeds
      <3> HIDE DEF N
      <3> QED
        BY <1>1, <3>1
    <2>3. PICK m \in 1..N : \E j \in StoppedInputs(tree[m]) : tree[m].kids[j] = s
      BY <1>2, <2>2
    <2>4. PICK j \in StoppedInputs(tree[m]) : tree[m].kids[j] = s
      BY <2>3
    <2>5. j \in 1..Len(tree[m].kids) /\ j \notin StreamedInputs(tree[m])
      BY KidFacts
    <2>6. Feeds(tree, m, j, s)
      BY <2>4, <2>5 DEF Feeds
    <2>7. m = n /\ j = k
      BY <2>1, <2>6, FeedsOnce DEF PostOrder
    <2> QED
      BY <2>1, <2>5, <2>7
  <1>5. ASSUME NEW s \in Stops(tree), NEW t \in Stops(tree), s # t
        PROVE  sets[s] \cap sets[t] = {}
    <2>1. s \in 1..N /\ t \in 1..N
      BY <1>3
    <2>2. sets[s] \subseteq 1..N /\ sets[t] \subseteq 1..N
      <3>1. sets[s] \subseteq 1..s /\ sets[t] \subseteq 1..t
        BY <2>1, FlowsBelow
      <3>2. 1..s \subseteq 1..N /\ 1..t \subseteq 1..N
        <4> HIDE DEF N
        <4> QED
          BY <1>1, <2>1
      <3> QED
        BY <3>1, <3>2
    <2>3. /\ \A n \in sets[t] : ~Streams(tree, s, n)
          /\ \A n \in sets[s] : ~Streams(tree, t, n)
      BY <1>4, <2>2
    <2> QED
      BY <1>5, <2>1, <2>3, FlowsApart
  <1> DEFINE Leads(x) == \E s \in Stops(tree) : x \in sets[s]
             T == {d \in 0..(N - 1) : Leads(N - d)}
  <1>6. ASSUME NEW d \in 0..(N - 1), \A j \in 0..(d - 1) : j \in T PROVE d \in T
    <2> DEFINE x == N - d
    <2>1. x \in 1..N
      <3> HIDE DEF N
      <3> QED
        BY <1>1
    <2>2. CASE x \in Stops(tree)
      <3>1. x \in sets[x]
        BY <2>1 DEF Flows
      <3> QED
        BY <2>2, <3>1
    <2>3. CASE x \notin Stops(tree)
      <3>1. x \in 1..(N - 1)
        <4>1. x # N
          BY <1>2, <2>3
        <4> HIDE DEF N, x
        <4> QED
          BY <1>1, <2>1, <4>1
      <3>2. PICK n \in 1..N : \E k \in 1..Len(tree[n].kids) : tree[n].kids[k] = x
        BY <3>1 DEF PostOrder
      <3> PICK k \in 1..Len(tree[n].kids) : tree[n].kids[k] = x
        BY <3>2
      <3>3. k \in StreamedInputs(tree[n])
        <4>1. k \notin StoppedInputs(tree[n])
          BY <1>2, <2>3, <3>2
        <4> QED
          BY <4>1, KidFacts
      <3>4. x \in 1..(n - 1)
        BY <3>2, TreeFacts
      <3>5. N - n \in 0..(d - 1) /\ N - (N - n) = n
        <4> HIDE DEF N
        <4> QED
          BY <1>1, <3>4 DEF x
      <3>6. Leads(n)
        <4> HIDE DEF N, Leads
        <4> QED
          BY <1>6, <3>5
      <3>7. PICK s \in Stops(tree) : n \in sets[s]
        BY <3>6
      <3>8. x \in sets[s]
        BY <1>3, <3>2, <3>3, <3>7, FlowsOn DEF Streams
      <3> QED
        BY <3>7, <3>8
    <2> QED
      BY <2>2, <2>3
  <1>7. \A d \in 0..(N - 1) : d \in T
    <2>1. N - 1 \in Nat
      BY <1>1
    <2> DEFINE M == N - 1
    <2> HIDE DEF T, M
    <2>2. \A d \in 0..M : (\A j \in 0..(d - 1) : j \in T) => d \in T
      BY <1>6 DEF M
    <2>3. \A d \in 0..M : d \in T
      BY <2>1, <2>2, StrongInduction DEF M
    <2> QED
      BY <2>3 DEF M
  <1>8. ASSUME NEW x \in 1..N PROVE Leads(x)
    <2>1. N - x \in 0..(N - 1) /\ N - (N - x) = x
      <3> HIDE DEF N
      <3> QED
        BY <1>1
    <2> HIDE DEF N, Leads
    <2> QED
      BY <1>7, <2>1
  <1> QED
    BY <1>3, <1>5, <1>8

(* A list without repetition of some of N numbers has no more than N.      *)
LEMMA InjectiveLength ==
  ASSUME NEW N \in Nat, NEW s \in Seq(1..N), IsInjective(s)
  PROVE  Len(s) <= N
  <1> DEFINE l == Len(s)
  <1>1. l \in Nat /\ s \in [1..l -> 1..N]
    BY LenProperties
  <1>2. s \in Injection(1..l, 1..N)
    BY <1>1 DEF Injection, IsInjective
  <1>3. \A m \in Nat : IsFiniteSet(1..m) /\ Cardinality(1..m) = m
    BY FS_Interval
  <1>4. Cardinality(1..l) <= Cardinality(1..N)
    BY <1>2, <1>3, FS_Injection
  <1> QED
    BY <1>1, <1>3, <1>4

(* A row passes no node twice.                                             *)
LEMMA RunsInjective ==
  ASSUME NEW tree \in Seq(TreeNodes), PostOrder(tree), NEW runs, RunsOf(tree, runs)
  PROVE  \A n \in 1..Len(tree) : IsInjective(runs[n])
  <1> DEFINE N == Len(tree)
             sets == [n \in 1..N |-> Range(runs[n])]
             T == {n \in 1..N : IsInjective(runs[n])}
  <1>1. Flows(tree, sets) /\ N \in Nat
    BY RunsFlow, TreeFacts
  <1>2. ASSUME NEW n \in 1..N, \A j \in 1..(n - 1) : j \in T PROVE n \in T
    <2> DEFINE l  == Len(tree[n].kids)
               ss == Passed(tree, n, runs)
               flat == FlattenSeq(ss)
               Streamed == StreamedInputs(tree[n])
    <2>1. /\ l \in Nat /\ Streamed \subseteq 1..l
          /\ \A k \in 1..l : tree[n].kids[k] \in 1..N /\ tree[n].kids[k] \in 1..(n - 1)
      BY KidFacts, TreeFacts
    <2>2. runs \in [1..N -> Seq(1..N)] /\ runs[n] = Append(flat, n)
      BY DEF RunsOf
    <2>3. ss \in [1..l -> Seq(1..N)]
      BY <2>1, <2>2, EmptySeq DEF Passed
    <2>4. /\ \A k \in Streamed : ss[k] = runs[tree[n].kids[k]]
          /\ \A k \in 1..l \ Streamed : ss[k] = <<>>
      BY <2>1 DEF Passed
    <2>5. Range(<<>>) = {} /\ IsInjective(<<>>)
      BY DEF Range, IsInjective
    <2>6. \A k \in 1..l : IsInjective(ss[k])
      <3>1. \A k \in Streamed : IsInjective(runs[tree[n].kids[k]])
        BY <1>2, <2>1
      <3> HIDE DEF ss, l, Streamed
      <3> QED
        BY <2>1, <2>4, <2>5, <3>1
    <2>7. ASSUME NEW j \in 1..l, NEW k \in 1..l, j < k PROVE Range(ss[j]) \cap Range(ss[k]) = {}
      <3>1. CASE j \in Streamed /\ k \in Streamed
        <4>1. sets[tree[n].kids[j]] \cap sets[tree[n].kids[k]] = {}
          <5>1. j # k
            BY <2>7
          <5> HIDE DEF sets
          <5> QED
            BY <1>1, <3>1, <5>1, InputsApart
        <4>2. /\ sets[tree[n].kids[j]] = Range(ss[j])
              /\ sets[tree[n].kids[k]] = Range(ss[k])
          BY <2>1, <2>4, <3>1
        <4> QED
          BY <4>1, <4>2
      <3>2. CASE j \notin Streamed \/ k \notin Streamed
        <4> HIDE DEF ss, l, Streamed
        <4> QED
          BY <2>4, <2>5, <2>7, <3>2
      <3> QED
        BY <3>1, <3>2
    <2>8. \A k \in 1..l : n \notin Range(ss[k])
      <3>1. ASSUME NEW k \in Streamed PROVE n \notin Range(ss[k])
        <4> DEFINE c == tree[n].kids[k]
        <4>1. c \in 1..N /\ c \in 1..(n - 1)
          BY <2>1
        <4>2. sets[c] \subseteq 1..c
          <5> HIDE DEF sets, c
          <5> QED
            BY <1>1, <4>1, FlowsBelow
        <4>3. n \notin 1..c
          <5> HIDE DEF c
          <5> QED
            BY <1>2, <4>1
        <4>4. sets[c] = Range(ss[k])
          BY <2>4, <4>1
        <4> QED
          BY <4>2, <4>3, <4>4
      <3> HIDE DEF ss, l, Streamed
      <3> QED
        BY <2>4, <2>5, <3>1
    <2> HIDE DEF ss, l, Streamed
    <2> DEFINE D == 1..N
    <2>9. flat \in Seq(D) /\ IsInjective(flat) /\ n \notin Range(flat)
      <3>1. ss \in Seq(Seq(D)) /\ Len(ss) = l
        BY <2>1, <2>3
      <3> HIDE DEF D
      <3>2. /\ \A k \in 1..Len(ss) : IsInjective(ss[k])
            /\ \A j, k \in 1..Len(ss) : j < k => Range(ss[j]) \cap Range(ss[k]) = {}
        BY <2>6, <2>7, <3>1
      <3>3. /\ flat \in Seq(D) /\ IsInjective(flat)
            /\ Range(flat) = UNION {Range(ss[k]) : k \in 1..Len(ss)}
        BY <3>1, <3>2, FlattenElements
      <3> HIDE DEF flat
      <3> QED
        BY <2>8, <3>1, <3>3
    <2>10. n \in D
      OBVIOUS
    <2> HIDE DEF flat, D
    <2>11. IsInjective(Append(flat, n))
      BY <2>9, <2>10, AppendElements
    <2> QED
      BY <2>2, <2>11
  <1>3. \A n \in 1..N : n \in T
    <2> HIDE DEF T, N
    <2> QED
      BY <1>1, <1>2, StrongInduction
  <1> QED
    BY <1>3

(* The pipelines of a tree in post-order: each ends where rows stop, one   *)
(* after the other, and has the nodes a row passes on its way there.       *)
LEMMA PipelinesFacts ==
  ASSUME NEW tree \in Seq(TreeNodes), PostOrder(tree), NEW runs, RunsOf(tree, runs)
  PROVE  LET cut == PipelinesOf(tree)
         IN  /\ Len(Sinks(tree)) \in Nat /\ DOMAIN cut = 1..Len(Sinks(tree))
             /\ \A p \in DOMAIN cut : /\ cut[p].sink \in Stops(tree)
                                      /\ cut[p].sink \in 1..Len(tree)
                                      /\ cut[p].members = runs[cut[p].sink]
             /\ \A s \in Stops(tree) : \E p \in DOMAIN cut : cut[p].sink = s
             /\ \A p, q \in DOMAIN cut : p < q => cut[p].sink < cut[q].sink
  <1> DEFINE N == Len(tree)
             all == [n \in 1..N |-> n]
             passes == [i \in 1..N |-> all[i] \in Stops(tree)]
             kept == Kept(all, passes)
             cut == PipelinesOf(tree)
  <1>1. N \in Nat /\ DOMAIN tree = 1..N
    BY TreeFacts
  <1>2. Sinks(tree) = kept
    BY <1>1 DEF Sinks, Passing
  <1>3. /\ kept \in Seq(1..N)
        /\ \A i \in 1..Len(kept) : passes[kept[i]]
        /\ \A m \in 1..N : passes[m] => \E i \in 1..Len(kept) : kept[i] = m
        /\ \A i, j \in 1..Len(kept) : i < j => kept[i] < kept[j]
    <2> HIDE DEF N, passes
    <2> QED
      BY <1>1, KeptPositions
  <1>4. \A m \in 1..N : passes[m] <=> m \in Stops(tree)
    OBVIOUS
  <1> HIDE DEF all, passes, kept
  <1>5. /\ Len(kept) \in Nat /\ DOMAIN kept = 1..Len(kept)
        /\ \A i \in 1..Len(kept) : kept[i] \in 1..N
    BY <1>3
  <1>6. cut = [p \in 1..Len(kept) |-> [sink |-> kept[p], members |-> Members(tree, kept[p])]]
    BY <1>2, <1>5 DEF PipelinesOf
  <1>7. \A n \in 1..N : Members(tree, n) = runs[n]
    BY DEF RunsOf
  <1>8. Stops(tree) \subseteq 1..N
    <2>1. Flows(tree, [n \in 1..N |-> Range(runs[n])])
      BY RunsFlow
    <2> QED
      BY <2>1, StopsApart
  <1> HIDE DEF N
  <1>9. DOMAIN cut = 1..Len(kept) /\ \A p \in 1..Len(kept) : /\ cut[p].sink = kept[p]
                                                            /\ cut[p].members = runs[kept[p]]
    BY <1>5, <1>6, <1>7
  <1> HIDE DEF cut
  <1>10. /\ \A p \in DOMAIN cut : /\ cut[p].sink \in Stops(tree)
                                 /\ cut[p].sink \in 1..N
                                 /\ cut[p].members = runs[cut[p].sink]
         /\ \A p, q \in DOMAIN cut : p < q => cut[p].sink < cut[q].sink
    <2>1. \A p \in 1..Len(kept) : kept[p] \in 1..N /\ kept[p] \in Stops(tree)
      BY <1>3, <1>4, <1>5
    <2> HIDE DEF N
    <2> QED
      BY <1>3, <1>9, <2>1
  <1>11. \A s \in Stops(tree) : \E p \in DOMAIN cut : cut[p].sink = s
    BY <1>3, <1>4, <1>8, <1>9
  <1> QED
    BY <1>2, <1>5, <1>9, <1>10, <1>11 DEF cut, N

(* The pipelines of a tree in post-order share out its nodes, and a loop   *)
(* waits only for pipelines that came before its own.                      *)
LEMMA TreeScheduled ==
  ASSUME NEW tree \in Seq(TreeNodes), PostOrder(tree)
  PROVE  LET cut == PipelinesOf(tree)
         IN  /\ \A n \in DOMAIN tree :
                  Cardinality({at \in (DOMAIN cut) \X (DOMAIN tree) :
                                 /\ at[2] \in DOMAIN cut[at[1]].members
                                 /\ cut[at[1]].members[at[2]] = n}) = 1
             /\ \A p \in DOMAIN cut : \A i \in DOMAIN cut[p].members :
                  LET node == tree[cut[p].members[i]] IN
                  \A k \in StoppedInputs(node) :
                    \E q \in 1..(p - 1) : cut[q].sink = node.kids[k]
  <1> DEFINE N == Len(tree)
             cut == PipelinesOf(tree)
  <1>1. PICK runs : RunsOf(tree, runs)
    BY MembersRun
  <1> DEFINE sets == [n \in 1..N |-> Range(runs[n])]
             P == Len(Sinks(tree))
  <1>2. /\ Flows(tree, sets)
        /\ \A n \in 1..N : IsInjective(runs[n])
        /\ N \in Nat /\ DOMAIN tree = 1..N
    BY <1>1, RunsFlow, RunsInjective, TreeFacts
  <1>3. /\ P \in Nat /\ DOMAIN cut = 1..P
        /\ \A p \in 1..P : /\ cut[p].sink \in Stops(tree)
                           /\ cut[p].sink \in 1..N
                           /\ cut[p].members = runs[cut[p].sink]
        /\ \A s \in Stops(tree) : \E p \in 1..P : cut[p].sink = s
        /\ \A p, q \in 1..P : p < q => cut[p].sink < cut[q].sink
    BY <1>1, PipelinesFacts
  <1>4. /\ Stops(tree) \subseteq 1..N
        /\ \A s, t \in Stops(tree) : s # t => sets[s] \cap sets[t] = {}
        /\ \A x \in 1..N : \E s \in Stops(tree) : x \in sets[s]
    <2> HIDE DEF sets
    <2> QED
      BY <1>2, StopsApart
  <1>5. \A s \in 1..N : /\ sets[s] = Range(runs[s]) /\ sets[s] \subseteq 1..s
                        /\ runs[s] \in Seq(1..N)
    <2>1. \A s \in 1..N : sets[s] = Range(runs[s])
      OBVIOUS
    <2>2. \A s \in 1..N : sets[s] \subseteq 1..s
      <3> HIDE DEF sets
      <3> QED
        BY <1>2, FlowsBelow
    <2> QED
      BY <1>1, <2>1, <2>2 DEF RunsOf
  <1> HIDE DEF cut, P, sets
  <1>6. ASSUME NEW n \in DOMAIN tree
        PROVE  Cardinality({at \in (DOMAIN cut) \X (DOMAIN tree) :
                              /\ at[2] \in DOMAIN cut[at[1]].members
                              /\ cut[at[1]].members[at[2]] = n}) = 1
    <2> DEFINE At == {at \in (DOMAIN cut) \X (DOMAIN tree) :
                        /\ at[2] \in DOMAIN cut[at[1]].members
                        /\ cut[at[1]].members[at[2]] = n}
    <2>1. PICK s \in Stops(tree) : n \in sets[s]
      BY <1>2, <1>4, <1>6
    <2>2. PICK p \in 1..P : cut[p].sink = s
      BY <1>3
    <2>3. s \in 1..N
      BY <1>4
    <2>4. PICK i \in DOMAIN runs[s] : runs[s][i] = n
      BY <1>5, <2>1, <2>3 DEF Range
    <2>5. i \in 1..N
      <3>1. runs[s] \in Seq(1..N) /\ IsInjective(runs[s])
        BY <1>2, <1>5, <2>3
      <3>2. Len(runs[s]) <= N
        BY <1>2, <3>1, InjectiveLength
      <3> DEFINE l == Len(runs[s])
      <3>3. l \in Nat /\ DOMAIN runs[s] = 1..l
        BY <3>1
      <3> HIDE DEF l, N
      <3> QED
        BY <1>2, <2>4, <3>2, <3>3 DEF l
    <2>6. <<p, i>> \in At
      BY <1>2, <1>3, <2>2, <2>4, <2>5
    <2>7. ASSUME NEW at \in At PROVE at = <<p, i>>
      <3>1. PICK q \in 1..P, j \in 1..N : at = <<q, j>>
        BY <1>2, <1>3, <2>7
      <3> DEFINE t == cut[q].sink
      <3>2. t \in Stops(tree) /\ t \in 1..N /\ j \in DOMAIN runs[t] /\ runs[t][j] = n
        BY <1>3, <2>7, <3>1
      <3> HIDE DEF t
      <3>3. n \in sets[t]
        BY <1>5, <3>2 DEF Range
      <3>4. t = s
        BY <1>4, <2>1, <3>2, <3>3
      <3>5. j = i
        BY <1>2, <2>3, <2>4, <3>2, <3>4 DEF IsInjective
      <3>6. q = p
        <4>1. ~(q < p) /\ ~(p < q)
          BY <1>2, <1>3, <2>2, <2>3, <3>4 DEF t
        <4> QED
          BY <1>3, <4>1
      <3> QED
        BY <3>1, <3>5, <3>6
    <2> HIDE DEF At
    <2>8. At = {<<p, i>>}
      BY <2>6, <2>7
    <2>9. Cardinality(At) = 1
      BY <2>8, FS_Singleton
    <2> QED
      BY <2>9 DEF At
  <1>7. ASSUME NEW p \in DOMAIN cut, NEW i \in DOMAIN cut[p].members
        PROVE  LET node == tree[cut[p].members[i]] IN
               \A k \in StoppedInputs(node) : \E q \in 1..(p - 1) : cut[q].sink = node.kids[k]
    <2> DEFINE s == cut[p].sink
               n == cut[p].members[i]
    <2>1. s \in 1..N /\ cut[p].members = runs[s]
      BY <1>3
    <2>2. n \in 1..s /\ n \in 1..N
      <3>1. n \in sets[s]
        BY <1>5, <1>7, <2>1 DEF Range
      <3>2. sets[s] \subseteq 1..s /\ s \in Nat /\ s <= N
        BY <1>5, <2>1
      <3> HIDE DEF s, n, N
      <3> QED
        BY <1>2, <3>1, <3>2
    <2> SUFFICES ASSUME NEW k \in StoppedInputs(tree[n])
                 PROVE  \E q \in 1..(p - 1) : cut[q].sink = tree[n].kids[k]
      OBVIOUS
    <2> DEFINE x == tree[n].kids[k]
    <2> HIDE DEF n
    <2>3. x \in 1..(n - 1)
      BY <2>2, KidFacts
    <2>4. x \in Stops(tree)
      BY <1>2, <2>2 DEF Stops
    <2> HIDE DEF x
    <2>5. PICK q \in 1..P : cut[q].sink = x
      BY <1>3, <2>4
    <2>6. x < s
      <3> HIDE DEF s, N
      <3> QED
        BY <1>2, <2>1, <2>2, <2>3
    <2>7. q < p
      <3>1. ~(p < q) /\ p # q
        <4>1. p < q => s < x
          BY <1>3, <2>5
        <4>2. p = q => s = x
          BY <2>5
        <4>3. s \in Int /\ x \in Int
          BY <2>1, <2>2, <2>3
        <4> HIDE DEF s
        <4> QED
          BY <2>6, <4>1, <4>2, <4>3
      <3> QED
        BY <1>3, <3>1
    <2>8. q \in 1..(p - 1)
      BY <2>7, <1>3
    <2> QED
      BY <2>5, <2>8 DEF x
  <1> QED
    BY <1>6, <1>7 DEF cut
-----------------------------------------------------------------------------
(* The order of rows.                                                      *)

(* Keys that are projected, up to the first that is not, are still keys.   *)
LEMMA RenumberedType ==
  ASSUME NEW order \in Seq(SortKeys), NEW projects \in Seq(Nat)
  PROVE  Renumbered(order, projects) \in Seq(SortKeys)
  <1> DEFINE shown(k) == order[k].column \in Range(projects)
             kept     == {k \in DOMAIN order : \A j \in 1..k : shown(j)}
             became(key) == CHOOSE i \in DOMAIN projects : projects[i] = key.column
             key(k)   == [order[k] EXCEPT !.column = became(order[k]) - 1]
             T        == {n \in Nat : n + 1 \notin kept}
  <1>1. /\ DOMAIN order = 1..Len(order) /\ Len(order) \in Nat
        /\ DOMAIN projects = 1..Len(projects) /\ Len(projects) \in Nat
    OBVIOUS
  <1>2. Len(order) \in T
    BY <1>1
  <1>3. PICK n \in T : \A m \in T : n <= m
    <2>1. T \in SUBSET Nat /\ T # {}
      BY <1>2
    <2> HIDE DEF T
    <2> QED
      BY <2>1, LeastNatural
  <1>4. n \in Nat /\ n + 1 \notin kept /\ \A m \in Nat : m + 1 \notin kept => n <= m
    <2> HIDE DEF kept
    <2> QED
      BY <1>3
  <1>5. \A k \in kept : \A j \in 1..k : j \in kept
    <2> SUFFICES ASSUME NEW k \in kept, NEW j \in 1..k PROVE j \in kept
      OBVIOUS
    <2>1. k \in 1..Len(order) /\ \A i \in 1..k : shown(i)
      BY <1>1
    <2> HIDE DEF shown
    <2>2. j \in 1..Len(order) /\ \A i \in 1..j : i \in 1..k
      BY <1>1, <2>1
    <2> QED
      BY <1>1, <2>1, <2>2
  <1>6. kept \subseteq 1..Len(order) /\ \A k \in kept : shown(k)
    <2>1. \A k \in 1..Len(order) : k \in 1..k
      BY <1>1
    <2> HIDE DEF shown
    <2> QED
      BY <1>1, <2>1
  <1> HIDE DEF kept
  <1>7. kept = 1..n
    <2>1. ASSUME NEW k \in 1..n PROVE k \in kept
      <3>1. k - 1 \in Nat /\ ~(n <= k - 1) /\ (k - 1) + 1 = k
        BY <1>4
      <3> QED
        BY <1>4, <3>1
    <2>2. ASSUME NEW k \in kept PROVE k \in 1..n
      <3>1. k \in 1..Len(order) /\ n \in Nat /\ n + 1 \notin kept
        BY <1>4, <1>6
      <3>2. ~(n + 1 \in 1..k)
        BY <1>5, <3>1
      <3> QED
        BY <3>1, <3>2
    <2> QED
      BY <2>1, <2>2
  <1>8. \A k \in kept : key(k) \in SortKeys
    <2> SUFFICES ASSUME NEW k \in kept PROVE key(k) \in SortKeys
      OBVIOUS
    <2>1. order[k] \in SortKeys /\ \E i \in DOMAIN projects : projects[i] = order[k].column
      BY <1>1, <1>6 DEF Range
    <2>2. became(order[k]) \in 1..Len(projects)
      BY <1>1, <2>1
    <2> HIDE DEF became
    <2>3. became(order[k]) - 1 \in Nat
      BY <1>1, <2>2
    <2> QED
      BY <2>1, <2>3 DEF SortKeys
  <1>9. Renumbered(order, projects) = [k \in kept |-> key(k)]
    BY DEF Renumbered, kept
  <1> HIDE DEF key
  <1>10. n \in Nat /\ \A k \in 1..n : key(k) \in SortKeys
    BY <1>4, <1>7, <1>8
  <1> QED
    BY <1>7, <1>9, <1>10

(* The order rows really leave an operator in is an order. *)
LEMMA RowOrderType ==
  ASSUME NEW e \in GroupExprs, NEW g \in Groups, NEW in \in Seq(SortKeys)
  PROVE  RowOrder(e, g, in) \in Seq(SortKeys)
  <1> DEFINE grouped == [k \in DOMAIN g.sortKeys |-> [g.sortKeys[k] EXCEPT !.column = k - 1]]
             ins     == <<[sort |-> in]>>
             merged  == [k \in 1..Len(e.keys) |-> Ascending(e.keys[k]["left"])]
  <1>1. g.sortKeys \in Seq(SortKeys) /\ g.projects \in Seq(Nat) /\ e.keys \in Seq(JoinKeys)
    BY DEF Groups, GroupExprs
  <1>2. grouped \in Seq(SortKeys)
    <2>1. DOMAIN g.sortKeys = 1..Len(g.sortKeys) /\ Len(g.sortKeys) \in Nat
      BY <1>1
    <2>2. \A k \in 1..Len(g.sortKeys) : [g.sortKeys[k] EXCEPT !.column = k - 1] \in SortKeys
      <3> TAKE k \in 1..Len(g.sortKeys)
      <3>1. g.sortKeys[k] \in SortKeys /\ k - 1 \in Nat
        BY <1>1, <2>1
      <3> QED
        BY <3>1 DEF SortKeys
    <2> QED
      BY <2>1, <2>2
  <1>3. merged \in Seq(SortKeys) /\ merged = [k \in 1..Len(e.keys) |-> Ascending(e.keys[k].left)]
    BY <1>1, OrderOnColumns
  <1>4. ins[1].sort = in /\ <<>> \in Seq(SortKeys)
    OBVIOUS
  <1>5. OutputOrder(e, g, ins) \in {in, merged, g.sortKeys, <<>>}
    <2> HIDE DEF merged, ins
    <2> QED
      BY <1>3, <1>4 DEF OutputOrder
  <1>6. OutputOrder(e, g, ins) \in Seq(SortKeys)
    <2> HIDE DEF merged, ins
    <2> QED
      BY <1>1, <1>3, <1>4, <1>5
  <1>7. RowOrder(e, g, in) \in {Renumbered(in, g.projects), grouped, OutputOrder(e, g, ins)}
    BY DEF RowOrder
  <1> HIDE DEF grouped, ins
  <1> QED
    BY <1>1, <1>2, <1>6, <1>7, RenumberedType
-----------------------------------------------------------------------------
(* Plans.                                                                  *)

(* Inputs' properties and trees, as sequences. *)
LEMMA KidsType ==
  ASSUME NEW kids \in Seq(Plans)
  PROVE  /\ [k \in DOMAIN kids |-> kids[k].props] \in Seq(Properties)
         /\ Len([k \in DOMAIN kids |-> kids[k].props]) = Len(kids)
         /\ \A k \in 1..Len(kids) : [j \in DOMAIN kids |-> kids[j].props][k] = kids[k].props
         /\ [k \in DOMAIN kids |-> kids[k].tree] \in Seq(Seq(TreeNodes))
         /\ Len([k \in DOMAIN kids |-> kids[k].tree]) = Len(kids)
         /\ \A k \in 1..Len(kids) : [j \in DOMAIN kids |-> kids[j].tree][k] = kids[k].tree
  <1>1. DOMAIN kids = 1..Len(kids) /\ Len(kids) \in Nat
    OBVIOUS
  <1>2. \A k \in 1..Len(kids) : kids[k].props \in Properties /\ kids[k].tree \in Seq(TreeNodes)
    <2> TAKE k \in 1..Len(kids)
    <2>1. kids[k] \in Plans
      BY <1>1
    <2> QED
      BY <2>1 DEF Plans
  <1>3. \A S : \A f \in [1..Len(kids) -> S] : f \in Seq(S) /\ Len(f) = Len(kids)
    BY <1>1
  <1>4. /\ [k \in DOMAIN kids |-> kids[k].props] \in [1..Len(kids) -> Properties]
        /\ [k \in DOMAIN kids |-> kids[k].tree] \in [1..Len(kids) -> Seq(TreeNodes)]
    BY <1>1, <1>2
  <1> QED
    BY <1>1, <1>3, <1>4

(* What finished inputs cost together. *)
LEMMA KidsCostType ==
  ASSUME NEW e \in GroupExprs, NEW kids \in Seq(Plans), Len(kids) <= 2
  PROVE  KidsCost(e, kids) \in Nat
  <1> DEFINE cost(k) == kids[k].cost * InputEvaluations(e.op, k)
  <1>1. \A k \in 1..Len(kids) : cost(k) \in Nat
    <2> TAKE k \in 1..Len(kids)
    <2>1. kids[k].cost \in Nat
      <3>1. kids[k] \in Plans
        OBVIOUS
      <3> QED
        BY <3>1 DEF Plans
    <2>2. InputEvaluations(e.op, k) \in Nat
      BY IterationsAssumption DEF InputEvaluations
    <2> QED
      BY <2>1, <2>2, NatTimes
  <1>2. KidsCost(e, kids) = CASE Len(kids) = 0 -> 0 [] Len(kids) = 1 -> cost(1)
                              [] OTHER -> cost(1) + cost(2)
    BY DEF KidsCost
  <1> DEFINE n == Len(kids)
  <1>3. n \in Nat /\ n <= 2
    BY LenProperties
  <1> HIDE DEF cost, n
  <1>4. n = 0 \/ (n = 1 /\ 1 \in 1..n) \/ (n = 2 /\ 1 \in 1..n /\ 2 \in 1..n)
    BY <1>3
  <1>5. /\ \A k \in 1..n : cost(k) \in Nat
        /\ KidsCost(e, kids) = CASE n = 0 -> 0 [] n = 1 -> cost(1) [] OTHER -> cost(1) + cost(2)
    BY <1>1, <1>2 DEF n
  <1> QED
    BY <1>4, <1>5

(* An operator over finished inputs is a plan; what moves below it, and    *)
(* the shape of what is below it, stay as they were.                       *)
LEMMA AssembledType ==
  ASSUME NEW g \in 1..Len(memo), memo[g] \in Groups, NEW e \in GroupExprs,
         NEW kids \in Seq(Plans), Len(kids) = Arity(e.op), EstimatesAreRows
  PROVE  LET p == Assembled(g, e, kids)
         IN  /\ p \in Plans
             /\ (\E k \in 1..Len(kids) : Moved(kids[k].tree)) => Moved(p.tree)
             /\ (\A k \in 1..Len(kids) : Shaped(kids[k].tree)) => Shaped(p.tree)
  <1> DEFINE ins   == [k \in DOMAIN kids |-> kids[k].props]
             trees == [k \in DOMAIN kids |-> kids[k].tree]
             props == DeriveOp(e, memo[g], ins)
             order == RowOrder(e, memo[g], IF kids = <<>> THEN <<>> ELSE kids[1].order)
             tree  == Planted(trees, e.op, e.buildRight, e.keys, props.dist)
             in    == [k \in DOMAIN kids |-> kids[k].rows]
             rows  == RowsOf(e, memo[g], in)
             own   == OperatorCost(e, [memo[g] EXCEPT !.rows = rows], in)
             p     == Assembled(g, e, kids)
  <1>1. /\ e.op \in TreeOps /\ e.buildRight \in BOOLEAN /\ e.keys \in Seq(JoinKeys)
        /\ Len(kids) \in Nat /\ Len(kids) <= 2
        /\ e.op \in HashJoins => Len(kids) = 2
    <2>1. e.op \in Operators /\ e.buildRight \in BOOLEAN /\ e.keys \in Seq(JoinKeys)
      BY DEF GroupExprs
    <2>2. e.op \in HashJoins => e.op \in Binary
      BY DEF HashJoins, Binary, Joins, SemiJoins
    <2>3. Arity(e.op) \in {0, 1, 2}
      BY DEF Arity
    <2> QED
      BY <2>1, <2>2, <2>3, ArityType DEF TreeOps
  <1>2. /\ ins \in Seq(Properties) /\ Len(ins) = Len(kids)
        /\ trees \in Seq(Seq(TreeNodes)) /\ Len(trees) = Len(kids)
        /\ \A k \in 1..Len(kids) : trees[k] = kids[k].tree
    BY KidsType
  <1> HIDE DEF ins, trees
  <1>3. props \in Properties
    BY <1>2, DeriveOpType
  <1>4. props.dist \in Distributions
    BY <1>3 DEF Properties
  <1> HIDE DEF props
  <1>5. order \in Seq(SortKeys)
    <2> DEFINE below == IF kids = <<>> THEN <<>> ELSE kids[1].order
    <2>1. below \in Seq(SortKeys)
      <3>1. kids # <<>> => kids[1] \in Plans
        BY <1>1
      <3> QED
        BY <3>1 DEF Plans
    <2> HIDE DEF below
    <2> QED
      BY <2>1, RowOrderType DEF below
  <1>6. /\ tree \in Seq(TreeNodes)
        /\ (\E k \in 1..Len(kids) : Moved(kids[k].tree)) => Moved(tree)
        /\ (\A k \in 1..Len(kids) : Shaped(kids[k].tree)) => Shaped(tree)
    <2>1. /\ tree \in Seq(TreeNodes)
          /\ e.op = "Exchange" \/ (\E k \in 1..Len(trees) : Moved(trees[k])) => Moved(tree)
          /\ /\ \A k \in 1..Len(trees) : Shaped(trees[k])
             /\ e.op \in HashJoins => Len(trees) = 2
             => Shaped(tree)
      BY <1>1, <1>2, <1>4, PlantedTree
    <2> HIDE DEF tree
    <2> QED
      BY <1>1, <1>2, <2>1
  <1>7. rows \in Nat /\ KidsCost(e, kids) + own \in Nat
    <2>1. KidsCost(e, kids) \in Nat
      BY <1>1, KidsCostType
    <2>2. in \in [1..Arity(e.op) -> Nat]
      <3>1. \A k \in 1..Len(kids) : kids[k] \in Plans
        OBVIOUS
      <3>2. DOMAIN kids = 1..Arity(e.op) /\ \A k \in 1..Arity(e.op) : kids[k].rows \in Nat
        BY <3>1 DEF Plans
      <3> QED
        BY <3>2
    <2> HIDE DEF in
    <2>3. rows \in Nat
      BY <2>2 DEF EstimatesAreRows
    <2> DEFINE priced == [memo[g] EXCEPT !.rows = rows]
    <2> HIDE DEF rows
    <2>4. priced \in Groups
      BY <2>3 DEF Groups
    <2> HIDE DEF priced
    <2>5. OperatorCost(e, priced, in) \in Nat
      <3>1. \A k \in 1..Arity(e.op) : in[k] \in Nat
        BY <2>2
      <3> QED
        BY <2>4, <3>1, OperatorCostType
    <2> QED
      BY <2>1, <2>3, <2>5 DEF priced
  <1>8. /\ p.cost = KidsCost(e, kids) + own /\ p.rows = rows /\ p.props = props
        /\ p.order = order /\ p.tree = tree
    BY DEF Assembled, props, ins, trees
  <1>9. p.stale \in BOOLEAN /\ p.staleWrite \in BOOLEAN /\ p.misordered \in BOOLEAN
    BY DEF Assembled
  <1>10. p = [cost |-> p.cost, rows |-> p.rows, props |-> p.props, stale |-> p.stale,
              staleWrite |-> p.staleWrite, order |-> p.order, misordered |-> p.misordered,
              tree |-> p.tree]
    BY DEF Assembled
  <1> HIDE DEF p, order, tree, rows, own
  <1>11. p \in Plans
    BY <1>3, <1>5, <1>6, <1>7, <1>8, <1>9, <1>10 DEF Plans
  <1> QED
    BY <1>6, <1>8, <1>11 DEF p

(* An operator over inputs that are estimated as their groups are is       *)
(* estimated, and priced, as the search did.                               *)
LEMMA EstimatedAlike ==
  ASSUME EstimatesAgree(memo), NEW g \in 1..Len(memo), memo[g] \in Groups,
         NEW i \in 1..Len(memo[g].exprs), NEW e, e = memo[g].exprs[i],
         e \in GroupExprs, NEW kids \in Seq(Plans), Len(kids) = Len(e.inputs),
         \A k \in 1..Len(kids) : kids[k].rows = memo[e.inputs[k]].rows
  PROVE  /\ Assembled(g, e, kids).rows = memo[g].rows
         /\ Assembled(g, e, kids).cost = KidsCost(e, kids) + OwnIn(memo, e, memo[g])
  <1> DEFINE in   == [k \in DOMAIN kids |-> kids[k].rows]
             told == [k \in DOMAIN e.inputs |-> memo[e.inputs[k]].rows]
             rows == RowsOf(e, memo[g], in)
  <1>1. e.inputs \in Seq(Nat)
    BY DEF GroupExprs
  <1>2. in = told
    <2>1. DOMAIN kids = 1..Len(kids) /\ DOMAIN e.inputs = 1..Len(kids)
      BY <1>1
    <2> QED
      BY <2>1
  <1>3. RowsOf(e, memo[g], told) = memo[g].rows
    BY DEF EstimatesAgree
  <1>4. rows = memo[g].rows
    BY <1>2, <1>3
  <1>5. [memo[g] EXCEPT !.rows = rows] = memo[g]
    BY <1>4 DEF Groups
  <1>6. /\ Assembled(g, e, kids).rows = rows
        /\ Assembled(g, e, kids).cost
             = KidsCost(e, kids) + OperatorCost(e, [memo[g] EXCEPT !.rows = rows], in)
    BY DEF Assembled
  <1> QED
    BY <1>2, <1>4, <1>5, <1>6 DEF OwnIn

(* Freshness is that of the inputs, wherever else they differ. *)
LEMMA FreshnessOfInputs ==
  ASSUME NEW e \in GroupExprs, NEW a \in Seq(Properties), NEW b \in Seq(Properties),
         Len(a) = Arity(e.op), Len(b) = Arity(e.op),
         \A k \in 1..Arity(e.op) : a[k].freshness = b[k].freshness
  PROVE  OutputFreshness(e, a) = OutputFreshness(e, b)
  <1>1. DOMAIN a = 1..Arity(e.op) /\ DOMAIN b = 1..Arity(e.op)
    OBVIOUS
  <1>2. CASE e.op \in Binary
    BY <1>1, <1>2 DEF OutputFreshness
  <1>3. CASE e.op \in Leaves
    BY <1>3 DEF OutputFreshness, Leaves
  <1>4. CASE e.op \notin Binary /\ e.op \notin Leaves
    <2>1. Arity(e.op) = 1
      BY <1>4 DEF Arity
    <2>2. 1 \in 1..Arity(e.op)
      BY <2>1
    <2> QED
      BY <1>4, <2>2 DEF OutputFreshness
  <1> QED
    BY <1>2, <1>3, <1>4

(* Rows of a lagging copy are known to be such as far as they get, and no  *)
(* write picks its rows from them.                                         *)
LEMMA StalenessKnown ==
  ASSUME NEW g \in 1..Len(memo), NEW e \in GroupExprs, NEW kids \in Seq(Plans),
         Len(kids) = Arity(e.op), NEW reqs,
         e.op \in {"Update", "Delete"} => reqs[1].freshness = "Fresh",
         \A k \in 1..Len(kids) :
           /\ kids[k].stale => kids[k].props.freshness = "Stale"
           /\ ~kids[k].staleWrite
           /\ FreshEnough(kids[k].props, reqs[k])
  PROVE  LET p == Assembled(g, e, kids)
         IN  (p.stale => p.props.freshness = "Stale") /\ ~p.staleWrite
  <1> DEFINE ins == [k \in DOMAIN kids |-> kids[k].props]
             p   == Assembled(g, e, kids)
  <1>1. /\ DOMAIN kids = 1..Len(kids) /\ Len(kids) \in Nat
        /\ ins \in Seq(Properties) /\ Len(ins) = Len(kids) /\ DOMAIN ins = 1..Len(kids)
        /\ \A k \in 1..Len(kids) : ins[k] = kids[k].props
    <2>1. /\ ins \in Seq(Properties) /\ Len(ins) = Len(kids)
          /\ \A k \in 1..Len(kids) : ins[k] = kids[k].props
      BY KidsType
    <2> HIDE DEF ins
    <2> QED
      BY <2>1
  <1>2. /\ p.props.freshness = OutputFreshness(e, ins)
        /\ p.stale <=> \/ e.op = "SeqScan" /\ e.freshness = "Stale"
                       \/ /\ \E k \in DOMAIN kids : kids[k].stale
                          /\ e.op \notin {"Insert", "Update", "Delete"}
        /\ p.staleWrite <=> \/ /\ \E k \in DOMAIN kids : kids[k].stale
                                /\ e.op \in {"Update", "Delete"}
                             \/ \E k \in DOMAIN kids : kids[k].staleWrite
    BY DEF Assembled, DeriveOp
  <1> HIDE DEF ins, p
  <1>3. ASSUME NEW k \in 1..Len(kids), kids[k].stale, e.op \notin {"Insert", "Update", "Delete"}
        PROVE  OutputFreshness(e, ins) = "Stale"
    <2>1. ins[k].freshness = "Stale"
      BY <1>1, <1>3
    <2>2. CASE e.op \in Binary
      <3>1. e.op \notin {"SeqScan", "ValuesScan", "WorkingTableScan", "Insert", "Update", "Delete"}
        BY <2>2 DEF Binary, Joins, SemiJoins, SetOperators
      <3>2. \E j \in DOMAIN ins : ins[j].freshness = "Stale"
        BY <1>1, <2>1
      <3> QED
        BY <2>2, <3>1, <3>2 DEF OutputFreshness
    <2>3. CASE e.op \in Leaves
      BY <1>1, <2>3 DEF Arity
    <2>4. CASE e.op \notin Binary /\ e.op \notin Leaves
      <3>1. k = 1
        BY <1>1, <2>4 DEF Arity
      <3>2. e.op \notin {"SeqScan", "ValuesScan", "WorkingTableScan"}
        BY <2>4 DEF Leaves
      <3> QED
        BY <1>3, <2>1, <2>4, <3>1, <3>2 DEF OutputFreshness
    <2> QED
      BY <2>2, <2>3, <2>4
  <1>4. p.stale => p.props.freshness = "Stale"
    <2>1. e.op = "SeqScan" /\ e.freshness = "Stale" => OutputFreshness(e, ins) = "Stale"
      BY DEF OutputFreshness, Binary, Joins, SemiJoins, SetOperators
    <2> QED
      BY <1>1, <1>2, <1>3, <2>1
  <1>5. ASSUME NEW k \in 1..Len(kids), kids[k].stale, e.op \in {"Update", "Delete"}
        PROVE  FALSE
    <2>1. k = 1
      <3>1. Arity(e.op) = 1
        BY <1>5 DEF Arity, Leaves, Binary, Joins, SemiJoins, SetOperators
      <3> QED
        BY <1>1, <3>1
    <2> QED
      BY <1>5, <2>1 DEF FreshEnough
  <1>6. ~p.staleWrite
    BY <1>1, <1>2, <1>5
  <1> QED
    BY <1>4, <1>6 DEF p

(* What an operator provides over inputs that are at least as sorted, and  *)
(* of the same format, as others -- as far as it passes either on.         *)
LEMMA ProvidedOverInputs ==
  ASSUME NEW e \in GroupExprs, NEW g \in Groups,
         NEW a \in Seq(Properties), NEW b \in Seq(Properties),
         Len(a) = Arity(e.op), Len(b) = Arity(e.op),
         e.op \in {"Filter", "Project", "Sort", "Limit", "Window", "StreamingDistinct",
                   "CreateTableAs"}
           => a[1].format = b[1].format /\ SortPrefix(a[1].sort, b[1].sort)
  PROVE  /\ DeriveOp(e, g, a).format = DeriveOp(e, g, b).format
         /\ SortPrefix(DeriveOp(e, g, a).sort, DeriveOp(e, g, b).sort)
  <1>1. OutputFormat(e, a) = OutputFormat(e, b)
    BY DEF OutputFormat
  <1>2. SortPrefix(OutputOrder(e, g, a), OutputOrder(e, g, b))
    <2>1. CASE e.op \in {"Filter", "Project", "Window", "Limit", "StreamingDistinct",
                         "CreateTableAs"}
      <3>1. OutputOrder(e, g, a) = a[1].sort /\ OutputOrder(e, g, b) = b[1].sort
        BY <2>1 DEF OutputOrder
      <3> QED
        BY <2>1, <3>1
    <2>2. CASE e.op \notin {"Filter", "Project", "Window", "Limit", "StreamingDistinct",
                            "CreateTableAs"}
      <3>1. OutputOrder(e, g, a) = OutputOrder(e, g, b)
        BY <2>2 DEF OutputOrder
      <3>2. OutputOrder(e, g, a) \in Seq(SortKeys)
        BY DeriveOpType DEF DeriveOp, Properties
      <3> QED
        BY <3>1, <3>2, SortPrefixReflexive
    <2> QED
      BY <2>1, <2>2
  <1> QED
    BY <1>1, <1>2 DEF DeriveOp

-----------------------------------------------------------------------------
(* The enforcers of a plan against those its winner was charged for.       *)

(* Rows that are as sorted as the search was told, in the format it was    *)
(* told, and that need not move, need no enforcer it did not count.        *)
LEMMA ChargeCovers ==
  ASSUME NEW sub \in Properties, NEW given \in Properties,
         NEW r \in Properties, NEW asked \in Properties, SameRequirement(asked, r),
         NEW rows \in Nat, ~NeedsExchange(sub, r),
         FreshEnough(sub, r), FreshEnough(given, asked),
         rows # 0 => sub.format = given.format /\ SortPrefix(sub.sort, given.sort)
  PROVE  /\ EnforcementCost(sub, r, rows) \in Nat
         /\ EnforcementCost(given, asked, rows) \in Nat
         /\ EnforcementCost(sub, r, rows) <= EnforcementCost(given, asked, rows)
  <1> DEFINE exchange == IF NeedsExchange(given, asked) THEN ExchangeCost(asked, rows) ELSE 0
             convert  == rows * Calibration["convert"]
             sort     == SortCost(rows)
  <1>1. exchange \in Nat /\ convert \in Nat /\ sort \in Nat
    <2>1. ExchangeCost(asked, rows) \in Nat
      <3>1. Calibration["exchange"] \in Nat /\ Calibration["clusterNodes"] \in Nat
        BY CoefficientType DEF CoefficientNames
      <3> QED
        BY <3>1, NatTimes DEF ExchangeCost
    <2>2. Calibration["convert"] \in Nat
      BY CoefficientType DEF CoefficientNames
    <2> QED
      BY <2>1, <2>2, NatTimes, SortCostType
  <1>2. rows = 0 => convert = 0 /\ sort = 0
    <2>1. \A n \in Nat : 0 * n = 0
      OBVIOUS
    <2>2. /\ Calibration["convert"] \in Nat /\ Calibration["sort"] \in Nat
          /\ Log2(IF rows < 2 THEN 2 ELSE rows) \in Nat
      BY CoefficientType, Log2Type DEF CoefficientNames
    <2>3. rows = 0 => convert = 0
      BY <2>1, <2>2
    <2>4. rows = 0 => sort = 0
      <3> DEFINE log == Log2(IF rows < 2 THEN 2 ELSE rows)
      <3>1. sort = rows * log * Calibration["sort"] /\ log \in Nat
        BY <2>2 DEF SortCost
      <3> HIDE DEF log
      <3> QED
        BY <2>1, <2>2, <3>1
    <2> QED
      BY <2>3, <2>4
  <1>3. rows # 0 /\ NeedsConvert(sub, r) => NeedsConvert(given, asked)
    BY DEF NeedsConvert, FormatSatisfies, SameRequirement
  <1>4. rows # 0 /\ NeedsSort(sub, r) => NeedsSort(given, asked)
    <2> SUFFICES ASSUME rows # 0, ~NeedsSort(given, asked) PROVE ~NeedsSort(sub, r)
      OBVIOUS
    <2>1. /\ asked.sort = r.sort /\ AfterExchange(sub, r) = sub
          /\ SortPrefix(AfterExchange(given, asked).sort, r.sort)
      BY DEF SameRequirement, AfterExchange, NeedsSort
    <2>2. sub.sort \in Seq(SortKeys) /\ given.sort \in Seq(SortKeys) /\ r.sort \in Seq(SortKeys)
      BY DEF Properties
    <2>3. CASE NeedsExchange(given, asked)
      <3>1. AfterExchange(given, asked).sort = <<>>
        BY <2>3 DEF AfterExchange, Properties
      <3>2. Len(r.sort) = 0 /\ Len(sub.sort) \in Nat
        BY <2>1, <2>2, <3>1 DEF SortPrefix
      <3>3. SortPrefix(sub.sort, r.sort)
        BY <3>2 DEF SortPrefix
      <3> QED
        BY <2>1, <3>3 DEF NeedsSort
    <2>4. CASE ~NeedsExchange(given, asked)
      <3>1. SortPrefix(given.sort, r.sort)
        BY <2>1, <2>4 DEF AfterExchange
      <3> QED
        BY <2>1, <2>2, <3>1, SortPrefixTransitive DEF NeedsSort
    <2> QED
      BY <2>3, <2>4
  <1>5. EnforcementCost(sub, r, rows) = (IF NeedsConvert(sub, r) THEN convert ELSE 0)
                                          + (IF NeedsSort(sub, r) THEN sort ELSE 0)
    <2>1. EnforcementCost(sub, r, rows) = 0 + (IF NeedsConvert(sub, r) THEN convert ELSE 0)
                                            + (IF NeedsSort(sub, r) THEN sort ELSE 0)
      BY DEF EnforcementCost
    <2> HIDE DEF convert, sort
    <2> QED
      BY <1>1, <2>1
  <1>6. EnforcementCost(given, asked, rows)
          = exchange + (IF NeedsConvert(given, asked) THEN convert ELSE 0)
                     + (IF NeedsSort(given, asked) THEN sort ELSE 0)
    BY DEF EnforcementCost
  <1> HIDE DEF exchange, convert, sort
  <1> QED
    BY <1>1, <1>2, <1>3, <1>4, <1>5, <1>6

(* Enforced, such rows are again as sorted, and of the format, that the    *)
(* winner is recorded to provide.                                          *)
LEMMA EnforcedAsRecorded ==
  ASSUME NEW sub \in Properties, NEW given \in Properties,
         NEW r \in Properties, NEW asked \in Properties, SameRequirement(asked, r),
         ~NeedsExchange(sub, r), sub.format = given.format, SortPrefix(sub.sort, given.sort),
         NEW provided,
         provided = Upgraded(given, asked) \/ (provided = given /\ Serves(given, asked))
  PROVE  /\ Enforced(sub, r).format = provided.format
         /\ SortPrefix(Enforced(sub, r).sort, provided.sort)
  <1>1. /\ asked.sort = r.sort /\ asked.format = r.format
        /\ sub.sort \in Seq(SortKeys) /\ given.sort \in Seq(SortKeys) /\ r.sort \in Seq(SortKeys)
    BY DEF SameRequirement, Properties
  <1>2. /\ Enforced(sub, r).format = IF NeedsConvert(sub, r) THEN r.format ELSE sub.format
        /\ Enforced(sub, r).sort = IF NeedsSort(sub, r) THEN r.sort ELSE sub.sort
        /\ NeedsSort(sub, r) <=> ~SortPrefix(sub.sort, r.sort)
        /\ NeedsConvert(sub, r) <=> r.format # "Any" /\ r.format # sub.format
    <2>1. AfterExchange(sub, r) = sub
      BY DEF AfterExchange
    <2>2. NeedsSort(sub, r) <=> ~SortPrefix(sub.sort, r.sort)
      BY <2>1 DEF NeedsSort
    <2>3. NeedsConvert(sub, r) <=> r.format # "Any" /\ r.format # sub.format
      BY DEF NeedsConvert, FormatSatisfies
    <2> QED
      BY <2>1, <2>2, <2>3, EnforcedType
  <1>3. CASE provided = Upgraded(given, asked)
    <2>1. /\ provided.format = IF r.format # "Any" THEN r.format ELSE given.format
          /\ provided.sort = IF r.sort # <<>> THEN r.sort ELSE given.sort
      BY <1>1, <1>3 DEF Upgraded, Properties
    <2>2. SortPrefix(r.sort, r.sort)
      BY <1>1, SortPrefixReflexive
    <2>3. r.sort = <<>> => SortPrefix(sub.sort, r.sort)
      BY <1>1 DEF SortPrefix
    <2> QED
      BY <1>2, <2>1, <2>2, <2>3
  <1>4. CASE provided = given /\ Serves(given, asked)
    <2>1. (r.format = "Any" \/ r.format = given.format) /\ SortPrefix(given.sort, r.sort)
      BY <1>1, <1>4 DEF Serves, FormatSatisfies
    <2>2. SortPrefix(sub.sort, r.sort)
      BY <1>1, <2>1, SortPrefixTransitive
    <2> QED
      BY <1>2, <1>4, <2>1, <2>2
  <1> QED
    BY <1>3, <1>4

-----------------------------------------------------------------------------
(* A finished plan against the answer it was built from.                   *)

(* Enforcers are not free, and operators make no rows of none.             *)
PricesHold == EnforcersCost /\ \A m \in Memos : EmptyStaysEmpty(m)

(* Plan p answers question r of group h: it is as fresh as its winner is   *)
(* recorded to be and shows no stale row that r forbids.  Where candidates *)
(* are estimated alike it has the rows of its group and, unless rows move  *)
(* in it, costs no more than its winner and is as sorted as recorded.      *)
BuiltOK(m, ws, h, r, p) ==
  LET c == WinnerIn(ws, h, r)
  IN  /\ p \in Plans
      /\ p.props.freshness = c.provided.freshness
      /\ FreshEnough(p.props, r)
      /\ p.stale => p.props.freshness = "Stale"
      /\ ~p.staleWrite
      /\ Shaped(p.tree)
      /\ EstimatesAgree(m) => p.rows = m[h].rows
      /\ PricesHold /\ EstimatesAgree(m) =>
           \/ Moved(p.tree)
           \/ /\ p.cost <= c.cost
              /\ m[h].rows # 0 => /\ p.props.format = c.provided.format
                                  /\ SortPrefix(p.props.sort, c.provided.sort)

LEMMA TimesMonotone == \A a, b, n \in Nat : a <= b => a * n <= b * n
  OBVIOUS

(* Inputs that cost no more than their answers cost no more together. *)
LEMMA InputsCovered ==
  ASSUME NEW ws, NEW e \in GroupExprs, NEW reqs, NEW kids \in Seq(Plans), Len(kids) <= 2,
         \A k \in 1..Len(kids) :
           /\ WinnerIn(ws, e.inputs[k], reqs[k]) \in Entries
           /\ kids[k].cost <= WinnerIn(ws, e.inputs[k], reqs[k]).cost
  PROVE  /\ SpentIn(ws, e, reqs, Len(kids)) \in Nat
         /\ KidsCost(e, kids) <= SpentIn(ws, e, reqs, Len(kids))
  <1> DEFINE cost(k)  == kids[k].cost * InputEvaluations(e.op, k)
             spent(k) == WinnerIn(ws, e.inputs[k], reqs[k]).cost * InputEvaluations(e.op, k)
             n        == Len(kids)
  <1>1. \A k \in 1..n : cost(k) \in Nat /\ spent(k) \in Nat /\ cost(k) <= spent(k)
    <2> TAKE k \in 1..n
    <2>1. kids[k].cost \in Nat
      <3>1. kids[k] \in Plans
        OBVIOUS
      <3> QED
        BY <3>1 DEF Plans
    <2>2. WinnerIn(ws, e.inputs[k], reqs[k]).cost \in Nat
      BY DEF Entries
    <2>3. InputEvaluations(e.op, k) \in Nat
      BY IterationsAssumption DEF InputEvaluations
    <2> DEFINE a == kids[k].cost
               b == WinnerIn(ws, e.inputs[k], reqs[k]).cost
               t == InputEvaluations(e.op, k)
    <2>4. a \in Nat /\ b \in Nat /\ t \in Nat /\ a <= b
      BY <2>1, <2>2, <2>3
    <2> HIDE DEF a, b, t
    <2>5. a * t \in Nat /\ b * t \in Nat /\ a * t <= b * t
      BY <2>4, NatTimes, TimesMonotone
    <2> QED
      BY <2>5 DEF a, b, t
  <1>2. n \in Nat /\ n <= 2
    BY LenProperties
  <1>3. /\ KidsCost(e, kids) = CASE n = 0 -> 0 [] n = 1 -> cost(1) [] OTHER -> cost(1) + cost(2)
        /\ SpentIn(ws, e, reqs, n)
             = CASE n = 0 -> 0 [] n = 1 -> spent(1) [] OTHER -> spent(1) + spent(2)
    BY DEF KidsCost, SpentIn
  <1> HIDE DEF cost, spent, n
  <1>4. n = 0 \/ (n = 1 /\ 1 \in 1..n) \/ (n = 2 /\ 1 \in 1..n /\ 2 \in 1..n)
    BY <1>2
  <1>5. /\ SpentIn(ws, e, reqs, n) \in Nat
        /\ KidsCost(e, kids) <= SpentIn(ws, e, reqs, n)
    BY <1>1, <1>3, <1>4
  <1> QED
    BY <1>5 DEF n

(* The operator of an answer over plans that answer its inputs' questions, *)
(* and the enforcers above it, are a plan that answers the question.       *)
LEMMA Building ==
  ASSUME EstimatesAreRows, memo \in Memos, winners \in [1..Len(memo) -> Seq(Entries)],
         PricesHold => TableServes(memo, winners),
         NEW h \in 1..Len(memo), NEW r \in Properties, NEW c \in Entries,
         c = WinnerIn(winners, h, r), SameRequirement(c.required, r),
         PlanOK(memo, winners, h, c), Priced(memo, winners, h, c.required, c),
         NEW kids \in Seq(Plans), Len(kids) = Arity(memo[h].exprs[c.expr].op),
         \A k \in 1..Len(kids) :
           BuiltOK(memo, winners, memo[h].exprs[c.expr].inputs[k], c.inputRequired[k], kids[k])
  PROVE  LET sub == Assembled(h, memo[h].exprs[c.expr], kids)
         IN  /\ sub \in Plans
             /\ Enforceable(sub.props, r)
             /\ BuiltOK(memo, winners, h, r, Enforce(sub, r))
  <1> DEFINE e     == memo[h].exprs[c.expr]
             sub   == Assembled(h, e, kids)
             final == Enforce(sub, r)
             ins   == InsIn(winners, e, c.inputRequired)
             props == [k \in DOMAIN kids |-> kids[k].props]
             given == GivenIn(memo, winners, h, c)
             asked == c.required
             rows  == memo[h].rows
             ans(k) == WinnerIn(winners, e.inputs[k], c.inputRequired[k])
             top   == EnforcementCost(given, asked, rows)
  <1>1. PICK stage \in {"enforce", "pushdown"} : Found(memo, winners, h, asked, c, stage)
    BY DEF Priced
  <1>2. /\ memo[h] \in Groups /\ rows \in Nat /\ e \in GroupExprs
        /\ Len(e.inputs) = Arity(e.op) /\ Len(c.inputRequired) = Arity(e.op)
        /\ Len(kids) = Arity(e.op)
        /\ ins \in Seq(Properties) /\ Len(ins) = Arity(e.op)
        /\ given = DeriveOp(e, memo[h], ins) /\ given \in Properties
        /\ asked \in Properties
    <2>1. asked \in Properties
      BY DEF Entries
    <2>2. Typed(memo, winners, h, c)
      BY GivenType
    <2> QED
      BY <2>1, <2>2 DEF Typed
  <1>3. \A k \in 1..Len(kids) : /\ e.inputs[k] \in 1..Len(memo)
                                /\ ans(k) \in Entries /\ ins[k] = ans(k).provided
                                /\ BuiltOK(memo, winners, e.inputs[k], c.inputRequired[k], kids[k])
    <2>1. \A k \in 1..Len(kids) :
            BuiltOK(memo, winners, e.inputs[k], c.inputRequired[k], kids[k])
      OBVIOUS
    <2>2. \A k \in 1..Len(e.inputs) :
            e.inputs[k] \in 1..Len(memo) /\ ans(k) \in Entries /\ ins[k] = ans(k).provided
      <3>1. Typed(memo, winners, h, c)
        BY GivenType
      <3> QED
        BY <3>1 DEF Typed
    <2> QED
      BY <1>2, <2>1, <2>2
  <1>4. OwnIn(memo, e, memo[h]) \in Nat
    <2>1. c.expr \in 1..Len(memo[h].exprs)
      BY DEF PlanOK
    <2> QED
      BY <2>1, OwnCostType
  <1>5. /\ top # Infinity
        /\ c.inputRequired = DemandsOf(e, memo[h], asked, stage)
        /\ stage = "pushdown" => CanPushDown(e.op)
        /\ c.cost = SpentIn(winners, e, c.inputRequired, Len(e.inputs))
                      + OwnIn(memo, e, memo[h]) + top
        /\ c.provided = IF stage = "enforce" /\ top # 0 THEN Upgraded(given, asked) ELSE given
    BY <1>1 DEF Found, TopIn
  <1>6. /\ props \in Seq(Properties) /\ Len(props) = Arity(e.op)
        /\ \A k \in 1..Len(kids) : props[k] = kids[k].props
    BY <1>2, KidsType
  <1>7. /\ sub \in Plans /\ sub.props = DeriveOp(e, memo[h], props)
        /\ sub.props \in Properties
        /\ (\E k \in 1..Len(kids) : Moved(kids[k].tree)) => Moved(sub.tree)
        /\ (\A k \in 1..Len(kids) : Shaped(kids[k].tree)) => Shaped(sub.tree)
        /\ sub.cost \in Nat /\ sub.rows \in Nat
        /\ EstimatesAgree(memo) => /\ sub.rows = rows
                                   /\ sub.cost = KidsCost(e, kids) + OwnIn(memo, e, memo[h])
    <2>1. /\ sub \in Plans
          /\ (\E k \in 1..Len(kids) : Moved(kids[k].tree)) => Moved(sub.tree)
          /\ (\A k \in 1..Len(kids) : Shaped(kids[k].tree)) => Shaped(sub.tree)
      <3> HIDE DEF e
      <3> QED
        BY <1>2, AssembledType
    <2>2. sub.props = DeriveOp(e, memo[h], props)
      BY DEF Assembled
    <2>3. EstimatesAgree(memo) =>
            sub.rows = rows /\ sub.cost = KidsCost(e, kids) + OwnIn(memo, e, memo[h])
      <3> SUFFICES ASSUME EstimatesAgree(memo)
                   PROVE  sub.rows = rows /\ sub.cost = KidsCost(e, kids) + OwnIn(memo, e, memo[h])
        OBVIOUS
      <3>1. c.expr \in 1..Len(memo[h].exprs) /\ e = memo[h].exprs[c.expr]
        BY DEF PlanOK
      <3>2. \A k \in 1..Len(kids) : kids[k].rows = memo[e.inputs[k]].rows
        BY <1>3 DEF BuiltOK
      <3>3. memo[h] \in Groups /\ e \in GroupExprs /\ Len(kids) = Len(e.inputs)
        BY <1>2
      <3> HIDE DEF e
      <3>4. /\ Assembled(h, e, kids).rows = memo[h].rows
            /\ Assembled(h, e, kids).cost = KidsCost(e, kids) + OwnIn(memo, e, memo[h])
        BY <3>1, <3>2, <3>3, EstimatedAlike
      <3> QED
        BY <3>4
    <2> HIDE DEF sub
    <2> QED
      BY <2>1, <2>2, <2>3 DEF Plans
  <1> HIDE DEF e, sub, props, given, ins, top
  <1>8. FreshEnough(given, asked) /\ c.provided.freshness = given.freshness
    <2>1. FreshEnough(given, asked)
      BY <1>5 DEF EnforcementCost, top
    <2>2. Upgraded(given, asked).freshness = given.freshness
      BY <1>2 DEF Upgraded, Properties
    <2> QED
      BY <1>5, <2>1, <2>2
  <1>9. sub.props.freshness = given.freshness
    <2>1. \A k \in 1..Arity(e.op) : props[k].freshness = ins[k].freshness
      BY <1>2, <1>3, <1>6 DEF BuiltOK
    <2>2. OutputFreshness(e, props) = OutputFreshness(e, ins)
      BY <1>2, <1>6, <2>1, FreshnessOfInputs
    <2> QED
      BY <1>2, <1>7, <2>2 DEF DeriveOp
  <1>10. FreshEnough(sub.props, r)
    BY <1>8, <1>9 DEF FreshEnough, SameRequirement
  <1>11. Enforceable(sub.props, r)
    BY <1>7, <1>10, EnforceEstablishes
  <1>12. (sub.stale => sub.props.freshness = "Stale") /\ ~sub.staleWrite
    <2>1. e.op \in {"Update", "Delete"} => c.inputRequired[1].freshness = "Fresh"
      <3> SUFFICES ASSUME e.op \in {"Update", "Delete"} PROVE c.inputRequired[1].freshness = "Fresh"
        OBVIOUS
      <3>1. c.inputRequired = RequiredInputProperties(e, memo[h])
        BY <1>5 DEF CanPushDown, DemandsOf
      <3>2. 1 \in 1..Arity(e.op)
        BY DEF Arity, Leaves, Binary, Joins, SemiJoins, SetOperators
      <3> QED
        BY <3>1, <3>2 DEF RequiredInputProperties, InputRequirement
    <2>2. \A k \in 1..Len(kids) : /\ kids[k].stale => kids[k].props.freshness = "Stale"
                                  /\ ~kids[k].staleWrite
                                  /\ FreshEnough(kids[k].props, c.inputRequired[k])
      BY <1>3 DEF BuiltOK
    <2> QED
      BY <1>2, <2>1, <2>2, StalenessKnown DEF sub
  <1> DEFINE charge == EnforcementCost(sub.props, r, sub.rows)
             tree   == EnforcedTree(sub.tree, sub.props, r)
  <1>13. charge \in Nat
    BY <1>2, <1>7, <1>10, EnforcementCostType
  <1>14. /\ tree \in Seq(TreeNodes)
         /\ Moved(sub.tree) \/ NeedsExchange(sub.props, r) => Moved(tree)
         /\ Shaped(sub.tree) => Shaped(tree)
    <2>1. sub.tree \in Seq(TreeNodes)
      BY <1>7 DEF Plans
    <2> QED
      BY <1>7, <2>1, EnforcedTreeOK
  <1> HIDE DEF charge, tree
  <1>15. /\ final \in Plans /\ final.props = Enforced(sub.props, r)
         /\ final.cost = sub.cost + charge /\ final.rows = sub.rows /\ final.tree = tree
         /\ final.stale = sub.stale /\ final.staleWrite = sub.staleWrite
    <2> DEFINE order == IF NeedsSort(sub.props, r) THEN r.sort
                        ELSE IF NeedsExchange(sub.props, r) THEN <<>> ELSE sub.order
    <2>1. order \in Seq(SortKeys)
      <3>1. sub.order \in Seq(SortKeys)
        BY <1>7 DEF Plans
      <3>2. r.sort \in Seq(SortKeys) /\ <<>> \in Seq(SortKeys)
        BY DEF Properties
      <3> QED
        BY <3>1, <3>2
    <2>2. final = [sub EXCEPT !.props = Enforced(sub.props, r), !.cost = sub.cost + charge,
                              !.order = order, !.tree = tree]
      BY <1>7 DEF Enforce, Plans, charge, tree
    <2>3. Enforced(sub.props, r) \in Properties /\ sub.cost + charge \in Nat
      BY <1>7, <1>13, EnforcedType
    <2> HIDE DEF order, final
    <2> QED
      BY <1>7, <1>14, <2>1, <2>2, <2>3 DEF Plans
  <1> HIDE DEF final
  <1>16. /\ final.props.freshness = c.provided.freshness
         /\ FreshEnough(final.props, r)
         /\ final.stale => final.props.freshness = "Stale"
         /\ ~final.staleWrite
    <2>1. final.props.freshness = sub.props.freshness
      BY <1>7, <1>15, EnforcedType
    <2> QED
      BY <1>8, <1>9, <1>10, <1>12, <1>15, <2>1 DEF FreshEnough
  <1>17. Shaped(final.tree)
    BY <1>3, <1>7, <1>14, <1>15 DEF BuiltOK
  <1>18. ASSUME PricesHold, EstimatesAgree(memo), ~Moved(final.tree)
         PROVE  /\ final.cost <= c.cost
                /\ rows # 0 => /\ final.props.format = c.provided.format
                               /\ SortPrefix(final.props.sort, c.provided.sort)
    <2>1. ~NeedsExchange(sub.props, r) /\ \A k \in 1..Len(kids) : ~Moved(kids[k].tree)
      BY <1>7, <1>14, <1>15, <1>18
    <2>2. \A k \in 1..Len(kids) :
            /\ kids[k].cost <= ans(k).cost
            /\ memo[e.inputs[k]].rows # 0 => /\ props[k].format = ins[k].format
                                             /\ SortPrefix(props[k].sort, ins[k].sort)
      BY <1>3, <1>6, <1>18, <2>1 DEF BuiltOK
    <2>3. rows # 0 => sub.props.format = given.format /\ SortPrefix(sub.props.sort, given.sort)
      <3> SUFFICES ASSUME rows # 0
                   PROVE  sub.props.format = given.format /\ SortPrefix(sub.props.sort, given.sort)
        OBVIOUS
      <3>1. e.op \in {"Filter", "Project", "Sort", "Limit", "Window", "StreamingDistinct",
                      "CreateTableAs"}
              => props[1].format = ins[1].format /\ SortPrefix(props[1].sort, ins[1].sort)
        <4> SUFFICES ASSUME e.op \in {"Filter", "Project", "Sort", "Limit", "Window",
                                      "StreamingDistinct", "CreateTableAs"}
                     PROVE  props[1].format = ins[1].format /\ SortPrefix(props[1].sort, ins[1].sort)
          OBVIOUS
        <4>1. 1 \in 1..Len(kids)
          <5>1. Arity(e.op) = 1
            BY DEF Arity, Leaves, Binary, Joins, SemiJoins, SetOperators
          <5> QED
            BY <1>2, <5>1
        <4>2. memo[e.inputs[1]].rows # 0
          BY <1>18 DEF PricesHold, EmptyStaysEmpty, PlanOK, e
        <4> QED
          BY <2>2, <4>1, <4>2
      <3> QED
        BY <1>2, <1>6, <1>7, <3>1, ProvidedOverInputs
    <2>4. final.cost <= c.cost
      <3>1. /\ SpentIn(winners, e, c.inputRequired, Len(kids)) \in Nat
            /\ KidsCost(e, kids) <= SpentIn(winners, e, c.inputRequired, Len(kids))
        <4>1. Len(kids) <= 2
          BY <1>2 DEF Arity
        <4> QED
          BY <1>2, <1>3, <2>2, <4>1, InputsCovered
      <3>2. charge \in Nat /\ top \in Nat /\ charge <= top
        <4>1. charge = EnforcementCost(sub.props, r, rows)
          BY <1>7, <1>18 DEF charge
        <4> QED
          BY <1>2, <1>7, <1>8, <1>10, <2>1, <2>3, <4>1, ChargeCovers DEF top
      <3>3. KidsCost(e, kids) \in Nat
        <4>1. Len(kids) <= 2
          BY <1>2 DEF Arity
        <4> QED
          BY <1>2, <4>1, KidsCostType
      <3> DEFINE kidsCost == KidsCost(e, kids)
                 own      == OwnIn(memo, e, memo[h])
                 spent    == SpentIn(winners, e, c.inputRequired, Len(kids))
      <3>4. final.cost = kidsCost + own + charge /\ c.cost = spent + own + top
        BY <1>2, <1>5, <1>7, <1>15, <1>18
      <3>5. /\ kidsCost \in Nat /\ own \in Nat /\ spent \in Nat /\ kidsCost <= spent
        BY <1>4, <3>1, <3>3
      <3> HIDE DEF kidsCost, own, spent
      <3> QED
        BY <3>2, <3>4, <3>5
    <2>5. ASSUME rows # 0
          PROVE  /\ final.props.format = c.provided.format
                 /\ SortPrefix(final.props.sort, c.provided.sort)
      <3>1. c.provided = Upgraded(given, asked) \/ (c.provided = given /\ Serves(given, asked))
        <4>1. CASE c.provided = given
          <5>1. Serves(c.provided, asked)
            BY <1>2, <1>18, <2>5, PricedServes DEF PricesHold
          <5> QED
            BY <4>1, <5>1
        <4> QED
          BY <1>5, <4>1
      <3> QED
        BY <1>2, <1>7, <1>15, <2>1, <2>3, <2>5, <3>1, EnforcedAsRecorded
    <2> QED
      BY <2>4, <2>5
  <1>19. BuiltOK(memo, winners, h, r, final)
    BY <1>7, <1>15, <1>16, <1>17, <1>18 DEF BuiltOK
  <1> QED
    BY <1>7, <1>11, <1>19 DEF sub, final, e

-----------------------------------------------------------------------------
(* The invariant of extraction.                                            *)

ExprOfNode(m, n) == m[n.group].exprs[n.winner.expr]

(* A node under construction: its winner is one of its group's, and its    *)
(* finished inputs answer, in order, the questions the winner recorded.    *)
NodeOK(m, ws, n) ==
  /\ n.group \in 1..Len(m)
  /\ \E i \in 1..Len(ws[n.group]) : n.winner = ws[n.group][i]
  /\ Len(n.kids) <= Len(ExprOfNode(m, n).inputs)
  /\ \A k \in 1..Len(n.kids) :
       BuiltOK(m, ws, ExprOfNode(m, n).inputs[k], n.winner.inputRequired[k], n.kids[k])

(* Node n is being built to answer question r of group h.                  *)
AnswersTo(ws, n, h, r) ==
  /\ n.group = h
  /\ n.winner = WinnerIn(ws, h, r)
  /\ SameRequirement(n.winner.required, r)

(* Node n waits for node kid, its next input.                              *)
WaitsFor(m, ws, n, kid) ==
  /\ Len(n.kids) < Len(ExprOfNode(m, n).inputs)
  /\ AnswersTo(ws, kid, ExprOfNode(m, n).inputs[Len(n.kids) + 1],
               n.winner.inputRequired[Len(n.kids) + 1])

NodesOK ==
  /\ nodes \in Seq(PlanNodes)
  /\ \A j \in 1..Len(nodes) : NodeOK(memo, winners, nodes[j])
  /\ nodes # <<>> => AnswersTo(winners, nodes[1], Root, request.required)
  /\ \A j \in 1..Len(nodes) : j > 1 => WaitsFor(memo, winners, nodes[j - 1], nodes[j])

ExtractionInv ==
  /\ SuccessBuildsAPlan
  /\ outcome # "searching" => Done
  /\ outcome # "extracting" => nodes = <<>>
  /\ NodesOK
  /\ outcome = "ok" => BuiltOK(memo, winners, Root, request.required, plan)

TableInv ==
  /\ EstimatesAreRows /\ IInv /\ CostsInv
  /\ PricesHold => TableServes(memo, winners)

(* A node's winner, as the search left it. *)
LEMMA NodeFacts ==
  ASSUME TableInv, NodesOK, NEW j \in 1..Len(nodes)
  PROVE  LET n == nodes[j] e == ExprOfNode(memo, n)
         IN  /\ memo \in Memos /\ winners \in [1..Len(memo) -> Seq(Entries)]
             /\ n \in PlanNodes /\ n.group \in 1..Len(memo) /\ n.winner \in Entries
             /\ n.kids \in Seq(Plans)
             /\ PlanOK(memo, winners, n.group, n.winner)
             /\ Priced(memo, winners, n.group, n.winner.required, n.winner)
             /\ Len(e.inputs) \in Nat /\ Len(n.winner.inputRequired) = Len(e.inputs)
             /\ Len(e.inputs) = Arity(e.op)
             /\ \A k \in 1..Len(e.inputs) :
                  /\ e.inputs[k] \in 1..Len(memo)
                  /\ n.winner.inputRequired[k] \in Properties
                  /\ Answered(winners[e.inputs[k]], n.winner.inputRequired[k])
  <1> DEFINE n == nodes[j]
             e == ExprOfNode(memo, n)
  <1>1. memo \in Memos /\ winners \in [1..Len(memo) -> Seq(Entries)]
    BY DEF TableInv, IInv, TypeOK
  <1>2. /\ n \in PlanNodes /\ NodeOK(memo, winners, n) /\ n.group \in 1..Len(memo)
        /\ n.kids \in Seq(Plans) /\ n.winner \in Entries
    <2>1. n \in PlanNodes /\ NodeOK(memo, winners, n)
      BY DEF NodesOK
    <2>2. n.group \in 1..Len(memo)
      BY <2>1 DEF NodeOK
    <2> HIDE DEF n
    <2> QED
      BY <2>1, <2>2 DEF PlanNodes
  <1>3. PICK i \in 1..Len(winners[n.group]) : n.winner = winners[n.group][i]
    BY <1>2 DEF NodeOK
  <1> HIDE DEF n
  <1>4. /\ PlanOK(memo, winners, n.group, n.winner)
        /\ Priced(memo, winners, n.group, n.winner.required, n.winner)
    BY <1>2, <1>3 DEF TableInv, IInv, WinnersOK, CostsInv, WinnersPriced
  <1> DEFINE h == n.group
             w == n.winner
  <1>5. /\ Len(e.inputs) = Arity(e.op) /\ Len(w.inputRequired) = Arity(e.op)
        /\ \A k \in 1..Len(e.inputs) : /\ e.inputs[k] \in 1..Len(memo)
                                       /\ Answered(winners[e.inputs[k]], w.inputRequired[k])
    <2> HIDE DEF h, w
    <2> DEFINE f == memo[h].exprs[w.expr]
    <2>1. h \in 1..Len(memo) /\ PlanOK(memo, winners, h, w) /\ e = f
      BY <1>2, <1>4 DEF h, w, ExprOfNode
    <2>2. /\ Len(f.inputs) = Arity(f.op) /\ Len(w.inputRequired) = Arity(f.op)
          /\ \A k \in 1..Len(f.inputs) : /\ f.inputs[k] \in 1..Len(memo)
                                         /\ Answered(winners[f.inputs[k]], w.inputRequired[k])
      <3>1. Typed(memo, winners, h, w)
        BY <1>1, <2>1, GivenType
      <3> QED
        BY <3>1 DEF Typed
    <2> HIDE DEF e, f
    <2> QED
      BY <2>1, <2>2
  <1>6. w.inputRequired \in Seq(Properties)
    BY <1>2 DEF Entries
  <1>7. Arity(e.op) \in Nat
    BY DEF Arity
  <1>8. \A k \in 1..Len(e.inputs) : w.inputRequired[k] \in Properties
    BY <1>5, <1>6
  <1> QED
    BY <1>1, <1>2, <1>4, <1>5, <1>7, <1>8 DEF n

(* A complete node makes a plan that answers its question. *)
LEMMA NodeBuilds ==
  ASSUME TableInv, NodesOK, NEW j \in 1..Len(nodes), NEW h, NEW r \in Properties,
         AnswersTo(winners, nodes[j], h, r),
         Len(nodes[j].kids) = Len(ExprOfNode(memo, nodes[j]).inputs)
  PROVE  LET sub == Assembled(h, ExprOfNode(memo, nodes[j]), nodes[j].kids)
         IN  /\ sub \in Plans
             /\ Enforceable(sub.props, r)
             /\ BuiltOK(memo, winners, h, r, Enforce(sub, r))
  <1> DEFINE n == nodes[j]
             c == n.winner
             kids == n.kids
             e == memo[h].exprs[c.expr]
  <1>1. /\ memo \in Memos /\ winners \in [1..Len(memo) -> Seq(Entries)]
        /\ n.group \in 1..Len(memo) /\ c \in Entries /\ kids \in Seq(Plans)
        /\ PlanOK(memo, winners, n.group, c)
        /\ Priced(memo, winners, n.group, c.required, c)
        /\ Len(ExprOfNode(memo, n).inputs) = Arity(ExprOfNode(memo, n).op)
    BY NodeFacts
  <1>2. /\ h = n.group /\ c = WinnerIn(winners, h, r) /\ SameRequirement(c.required, r)
        /\ e = ExprOfNode(memo, n)
    BY DEF AnswersTo, ExprOfNode
  <1>3. \A k \in 1..Len(kids) : BuiltOK(memo, winners, e.inputs[k], c.inputRequired[k], kids[k])
    BY <1>2 DEF NodesOK, NodeOK
  <1>4. EstimatesAreRows /\ (PricesHold => TableServes(memo, winners))
    BY DEF TableInv
  <1>5. Len(kids) = Arity(e.op)
    BY <1>1, <1>2
  <1> HIDE DEF n, c, kids
  <1>6. LET sub == Assembled(h, e, kids)
        IN  /\ sub \in Plans
            /\ Enforceable(sub.props, r)
            /\ BuiltOK(memo, winners, h, r, Enforce(sub, r))
    BY <1>1, <1>2, <1>3, <1>4, <1>5, Building
  <1> QED
    BY <1>2, <1>6 DEF n, c, kids

-----------------------------------------------------------------------------
(* The steps.                                                              *)

(* No nodes are under construction. *)
LEMMA NoNodes ==
  ASSUME nodes = <<>>
  PROVE  NodesOK
  <1>1. 1..Len(nodes) = {} /\ nodes \in Seq(PlanNodes)
    OBVIOUS
  <1> QED
    BY <1>1 DEF NodesOK

LEMMA NoNodesNext ==
  ASSUME nodes' = <<>>
  PROVE  NodesOK'
  <1>1. 1..Len(nodes') = {} /\ nodes' \in Seq(PlanNodes)
    OBVIOUS
  <1> QED
    BY <1>1 DEF NodesOK

(* The search runs before extraction. *)
LEMMA SearchExtracts == ExtractionInv /\ Search => ExtractionInv'
  <1> SUFFICES ASSUME ExtractionInv, Search PROVE ExtractionInv'
    OBVIOUS
  <1>1. stack # <<>>
    BY DEF Search, Next, PruneCandidate, StartCandidate, OpenGoal, AcceptInput, RejectInput,
           FinishRoute, SettleGoal, FailGoal, Candidate, Choosing, Exhausted, AwaitsInput,
           Searching
  <1>2. outcome = "searching" /\ nodes = <<>> /\ UNCHANGED <<nodes, outcome, plan>>
    BY <1>1 DEF ExtractionInv, Done, Search
  <1>3. nodes' = <<>> /\ outcome' = "searching"
    BY <1>2
  <1> QED
    BY <1>3, NoNodesNext DEF ExtractionInv, SuccessBuildsAPlan

LEMMA RefuseExtracts == ExtractionInv /\ Refuse => ExtractionInv'
  <1> SUFFICES ASSUME ExtractionInv, Refuse PROVE ExtractionInv'
    OBVIOUS
  <1>1. /\ nodes' = <<>> /\ outcome' = "no plan satisfies the required output properties"
        /\ stack' = <<>>
    BY DEF Refuse, ExtractionInv, Done, vars
  <1> QED
    BY <1>1, NoNodesNext DEF ExtractionInv, SuccessBuildsAPlan, Done

(* A node for an answered question. *)
LEMMA NewNodeOK ==
  ASSUME IInv, NEW h \in 1..Len(memo), NEW r \in Properties, Settled(h, r)
  PROVE  /\ NewNode(h, r) \in PlanNodes
         /\ AnswersTo(winners, NewNode(h, r), h, r)
         /\ NodeOK(memo, winners, NewNode(h, r))
  <1> DEFINE n == NewNode(h, r)
  <1>1. winners[h] \in Seq(Entries) /\ Answered(winners[h], r)
    BY DEF IInv, TypeOK, Settled
  <1>2. PICK i \in 1..Len(winners[h]) : /\ WinnerIn(winners, h, r) = winners[h][i]
                                        /\ SameRequirement(winners[h][i].required, r)
                                        /\ winners[h][i] \in Entries
    BY <1>1, WinnerFound
  <1>3. n.group = h /\ n.winner = WinnerIn(winners, h, r) /\ n.kids = <<>>
    BY DEF NewNode, WinnerFor, WinnerIn
  <1>4. n = [group |-> n.group, winner |-> n.winner, kids |-> n.kids]
    BY DEF NewNode
  <1> HIDE DEF n
  <1>5. h \in Nat /\ <<>> \in Seq(Plans)
    OBVIOUS
  <1>6. n \in PlanNodes
    BY <1>2, <1>3, <1>4, <1>5 DEF PlanNodes
  <1>7. AnswersTo(winners, n, h, r)
    BY <1>2, <1>3 DEF AnswersTo
  <1>8. NodeOK(memo, winners, n)
    <2> DEFINE inputs == ExprOfNode(memo, n).inputs
    <2>1. Len(n.kids) = 0 /\ 1..Len(n.kids) = {}
      BY <1>3
    <2>2. Len(inputs) \in Nat
      <3>1. /\ memo \in Memos /\ winners \in [1..Len(memo) -> Seq(Entries)]
            /\ PlanOK(memo, winners, h, winners[h][i])
        BY <1>2 DEF IInv, TypeOK, WinnersOK
      <3> DEFINE w == winners[h][i]
      <3> HIDE DEF w
      <3>2. Typed(memo, winners, h, w)
        BY <3>1, GivenType DEF w
      <3>3. ExprOfNode(memo, n) = memo[h].exprs[w.expr]
        BY <1>2, <1>3 DEF ExprOfNode, w
      <3>4. Arity(memo[h].exprs[w.expr].op) \in Nat
        BY DEF Arity
      <3> QED
        BY <3>2, <3>3, <3>4 DEF Typed
    <2> QED
      BY <1>2, <1>3, <2>1, <2>2 DEF NodeOK
  <1> QED
    BY <1>6, <1>7, <1>8 DEF n

(* What the extraction's steps leave alone. *)
LEMMA TableStays ==
  ASSUME UNCHANGED vars
  PROVE  /\ memo' = memo /\ winners' = winners /\ request' = request /\ stack' = stack
         /\ Root' = Root
  BY DEF vars, Root

LEMMA RootFacts ==
  ASSUME IInv
  PROVE  Root \in 1..Len(memo) /\ request.required \in Properties
  <1>1. memo \in Memos /\ request \in [required : Requirements, mode : Modes]
    BY DEF IInv, TypeOK
  <1>2. Len(memo) \in Nat \ {0}
    BY <1>1, MemoType
  <1> QED
    BY <1>1, <1>2, RequirementsAssumption DEF Root

LEMMA ExtractExtracts == TableInv /\ ExtractionInv /\ Extract => ExtractionInv'
  <1> SUFFICES ASSUME TableInv, ExtractionInv, Extract PROVE ExtractionInv'
    OBVIOUS
  <1> DEFINE n == NewNode(Root, request.required)
  <1>1. /\ outcome' = "extracting" /\ nodes' = <<n>> /\ UNCHANGED vars /\ Done
        /\ Settled(Root, request.required)
    BY DEF Extract, Succeeded
  <1>2. /\ n \in PlanNodes
        /\ AnswersTo(winners, n, Root, request.required)
        /\ NodeOK(memo, winners, n)
    BY <1>1, RootFacts, NewNodeOK DEF TableInv
  <1> HIDE DEF n
  <1>3. /\ nodes' \in Seq(PlanNodes) /\ Len(nodes') = 1 /\ nodes'[1] = n
        /\ \A j \in 1..Len(nodes') : nodes'[j] = n /\ ~(j > 1)
    BY <1>1, <1>2
  <1>4. NodesOK'
    BY <1>1, <1>2, <1>3, TableStays DEF NodesOK
  <1> QED
    BY <1>1, <1>4, TableStays DEF ExtractionInv, SuccessBuildsAPlan, Done

(* The innermost node. *)
LEMMA NodeIsLast ==
  ASSUME ExtractionInv, Extracting
  PROVE  /\ nodes \in Seq(PlanNodes) /\ Len(nodes) \in Nat \ {0}
         /\ Len(nodes) \in 1..Len(nodes) /\ 1 \in 1..Len(nodes)
         /\ Node = nodes[Len(nodes)] /\ NodeExpr = ExprOfNode(memo, Node)
         /\ NodesOK /\ Done /\ outcome = "extracting"
  <1>1. nodes \in Seq(PlanNodes) /\ nodes # <<>> /\ NodesOK /\ Done /\ outcome = "extracting"
    BY DEF ExtractionInv, Extracting, NodesOK
  <1> QED
    BY <1>1 DEF Node, NodeExpr, ExprOfNode

LEMMA InputExtracts == TableInv /\ ExtractionInv /\ ExtractInput => ExtractionInv'
  <1> SUFFICES ASSUME TableInv, ExtractionInv, ExtractInput PROVE ExtractionInv'
    OBVIOUS
  <1> DEFINE len == Len(nodes)
             k   == Len(Node.kids) + 1
             h   == KidGroup
             r   == NextDemand(Node)
             n   == NewNode(h, r)
  <1>1. /\ nodes \in Seq(PlanNodes) /\ len \in Nat \ {0} /\ len \in 1..len
        /\ Node = nodes[len] /\ NodeExpr = ExprOfNode(memo, Node)
        /\ NodesOK /\ Done /\ outcome = "extracting"
    BY NodeIsLast DEF ExtractInput
  <1>2. /\ ~(k > Len(NodeExpr.inputs)) /\ h = NodeExpr.inputs[k]
        /\ r = Node.winner.inputRequired[k] /\ UNCHANGED vars
        /\ Settled(h, r) => nodes' = Append(nodes, n) /\ outcome' = outcome
    BY DEF ExtractInput, Complete, NextKid, KidGroup, NextDemand
  <1>3. /\ Node.kids \in Seq(Plans) /\ Len(NodeExpr.inputs) \in Nat
        /\ \A j \in 1..Len(NodeExpr.inputs) :
             /\ NodeExpr.inputs[j] \in 1..Len(memo)
             /\ Node.winner.inputRequired[j] \in Properties
             /\ Answered(winners[NodeExpr.inputs[j]], Node.winner.inputRequired[j])
    BY <1>1, NodeFacts
  <1>4. Len(Node.kids) \in Nat /\ k \in 1..Len(NodeExpr.inputs) /\ k - 1 < Len(NodeExpr.inputs)
        /\ k - 1 = Len(Node.kids)
    <2>1. Len(Node.kids) \in Nat
      BY <1>3
    <2> QED
      BY <1>2, <1>3, <2>1
  <1>5. h \in 1..Len(memo) /\ r \in Properties /\ Settled(h, r)
    BY <1>2, <1>3, <1>4 DEF Settled
  <1>6. n \in PlanNodes /\ AnswersTo(winners, n, h, r) /\ NodeOK(memo, winners, n)
    BY <1>5, NewNodeOK DEF TableInv
  <1>7. WaitsFor(memo, winners, nodes[len], n)
    BY <1>1, <1>2, <1>4, <1>6 DEF WaitsFor
  <1> HIDE DEF n, h, r, k
  <1>8. /\ nodes' \in Seq(PlanNodes) /\ Len(nodes') = len + 1 /\ nodes'[len + 1] = n
        /\ \A j \in 1..len : nodes'[j] = nodes[j]
    <2>1. nodes' = Append(nodes, n)
      BY <1>2, <1>5
    <2>2. nodes \in Seq(PlanNodes) /\ n \in PlanNodes
      BY <1>1, <1>6
    <2> QED
      BY <2>1, <2>2, AppendProperties
  <1> HIDE DEF len
  <1>9. NodesOK'
    <2>1. \A j \in 1..(len + 1) : NodeOK(memo, winners, nodes'[j])
      <3>1. \A j \in 1..len : NodeOK(memo, winners, nodes[j])
        BY <1>1 DEF NodesOK, len
      <3>2. \A j \in 1..(len + 1) : j \in 1..len \/ j = len + 1
        BY <1>1
      <3> QED
        BY <1>6, <1>8, <3>1, <3>2
    <2>2. AnswersTo(winners, nodes'[1], Root, request.required)
      <3>1. 1 \in 1..len /\ nodes # <<>>
        BY <1>1 DEF len
      <3> QED
        BY <1>1, <1>8, <3>1 DEF NodesOK
    <2>3. \A j \in 1..(len + 1) : j > 1 => WaitsFor(memo, winners, nodes'[j - 1], nodes'[j])
      <3> SUFFICES ASSUME NEW j \in 1..(len + 1), j > 1
                   PROVE  WaitsFor(memo, winners, nodes'[j - 1], nodes'[j])
        OBVIOUS
      <3>1. CASE j = len + 1
        <4>1. j - 1 = len
          BY <1>1, <3>1
        <4> QED
          BY <1>1, <1>7, <1>8, <3>1, <4>1
      <3>2. CASE j # len + 1
        <4>1. j \in 1..len /\ j - 1 \in 1..len
          BY <1>1, <3>2
        <4>2. WaitsFor(memo, winners, nodes[j - 1], nodes[j])
          BY <1>1, <4>1 DEF NodesOK, len
        <4> QED
          BY <1>8, <4>1, <4>2
      <3> QED
        BY <3>1, <3>2
    <2> QED
      BY <1>2, <1>8, <2>1, <2>2, <2>3, TableStays DEF NodesOK
  <1>10. outcome' = "extracting" /\ Done'
    BY <1>1, <1>2, <1>5, TableStays DEF Done
  <1> QED
    BY <1>9, <1>10 DEF ExtractionInv, SuccessBuildsAPlan

(* A complete node has every input of its operator. *)
LEMMA CompleteNode ==
  ASSUME TableInv, ExtractionInv, Extracting, Complete
  PROVE  Len(Node.kids) = Len(ExprOfNode(memo, Node).inputs)
  <1>1. /\ Len(nodes) \in 1..Len(nodes) /\ Node = nodes[Len(nodes)] /\ NodesOK
        /\ NodeExpr = ExprOfNode(memo, Node)
    BY NodeIsLast
  <1>2. /\ Node.kids \in Seq(Plans) /\ Len(ExprOfNode(memo, Node).inputs) \in Nat
        /\ Len(Node.kids) <= Len(ExprOfNode(memo, Node).inputs)
    BY <1>1, NodeFacts DEF NodesOK, NodeOK
  <1>3. Len(Node.kids) + 1 > Len(ExprOfNode(memo, Node).inputs) /\ Len(Node.kids) \in Nat
    BY <1>1, <1>2 DEF Complete, NextKid
  <1> QED
    BY <1>2, <1>3

(* When an input is attached, the innermost node is gone and its parent    *)
(* has one finished input more; no other node has changed.                 *)
LEMMA Attached ==
  ASSUME TableInv, ExtractionInv, AttachInput
  PROVE
         LET len    == Len(nodes)
             parent == nodes[len - 1]
             k      == Len(parent.kids) + 1
             e      == ExprOfNode(memo, parent)
             h      == e.inputs[k]
             r      == parent.winner.inputRequired[k]
             sub    == Assembled(h, ExprOfNode(memo, Node), Node.kids)
             kid    == Enforce(sub, r)
             n      == [parent EXCEPT !.kids = Append(@, kid)]
         IN  /\ len \in Nat /\ len > 1 /\ UNCHANGED vars /\ outcome' = outcome
             /\ parent \in PlanNodes /\ NodeOK(memo, winners, parent)
             /\ Len(Node.kids) = Len(ExprOfNode(memo, Node).inputs)
             /\ k \in 1..Len(e.inputs) /\ r \in Properties /\ h \in 1..Len(memo)
             /\ AnswersTo(winners, Node, h, r)
             /\ sub \in Plans /\ Enforceable(sub.props, r)
             /\ BuiltOK(memo, winners, h, r, kid)
             /\ n \in PlanNodes /\ n.group = parent.group /\ n.winner = parent.winner
             /\ Len(n.kids) = k /\ n.kids[k] = kid
             /\ \A j \in 1..k : j = k \/ (j \in 1..Len(parent.kids) /\ n.kids[j] = parent.kids[j])
             /\ nodes' \in Seq(PlanNodes) /\ Len(nodes') = len - 1 /\ nodes'[len - 1] = n
             /\ \A j \in 1..(len - 2) : nodes'[j] = nodes[j]
  <1> DEFINE len    == Len(nodes)
             parent == nodes[len - 1]
             k      == Len(parent.kids) + 1
             e      == ExprOfNode(memo, parent)
             h      == e.inputs[k]
             r      == parent.winner.inputRequired[k]
             sub    == Assembled(h, ExprOfNode(memo, Node), Node.kids)
             kid    == Enforce(sub, r)
             n      == [parent EXCEPT !.kids = Append(@, kid)]
  <1>1. /\ nodes \in Seq(PlanNodes) /\ len \in Nat \ {0} /\ len \in 1..len
        /\ Node = nodes[len] /\ NodeExpr = ExprOfNode(memo, Node)
        /\ NodesOK /\ Done /\ outcome = "extracting"
    BY NodeIsLast DEF AttachInput
  <1>2. len > 1 /\ UNCHANGED vars /\ Complete /\ Extracting
    BY DEF AttachInput
  <1>3. len - 1 \in 1..len /\ len - 1 \in Nat \ {0} /\ len - 2 \in Nat
    BY <1>1, <1>2
  <1>4. WaitsFor(memo, winners, parent, Node)
    BY <1>1, <1>2 DEF NodesOK
  <1>5. AnswersTo(winners, Node, h, r) /\ Len(parent.kids) < Len(e.inputs) /\ Node.group = h
    BY <1>4 DEF WaitsFor, AnswersTo
  <1>6. /\ parent \in PlanNodes /\ parent.kids \in Seq(Plans) /\ Len(e.inputs) \in Nat
        /\ parent.group \in 1..Len(memo) /\ NodeOK(memo, winners, parent)
        /\ \A j \in 1..Len(e.inputs) : /\ e.inputs[j] \in 1..Len(memo)
                                       /\ parent.winner.inputRequired[j] \in Properties
    BY <1>1, <1>3, NodeFacts DEF NodesOK
  <1>7. k \in 1..Len(e.inputs) /\ Len(parent.kids) \in Nat
    <2>1. Len(parent.kids) \in Nat
      BY <1>6
    <2> QED
      BY <1>5, <1>6, <2>1
  <1>8. r \in Properties /\ h \in 1..Len(memo)
    BY <1>6, <1>7
  <1>9. Len(Node.kids) = Len(ExprOfNode(memo, Node).inputs)
    BY <1>2, CompleteNode
  <1> HIDE DEF h, r
  <1>10. sub \in Plans /\ Enforceable(sub.props, r) /\ BuiltOK(memo, winners, h, r, kid)
    BY <1>1, <1>5, <1>8, <1>9, NodeBuilds
  <1>11. /\ nodes' = Append(SubSeq(nodes, 1, len - 2), n)
         /\ outcome' = outcome
    <2>1. Subplan = sub /\ NextDemand(parent) = r /\ Node.group = h
      BY <1>1, <1>5 DEF Subplan, NextDemand, r
    <2>2. /\ Enforceable(Subplan.props, NextDemand(parent)) =>
               /\ nodes' = Append(SubSeq(nodes, 1, len - 2),
                                  [parent EXCEPT !.kids =
                                     Append(@, Enforce(Subplan, NextDemand(parent)))])
               /\ outcome' = outcome
      BY DEF AttachInput
    <2> HIDE DEF sub, parent
    <2> QED
      BY <1>10, <2>1, <2>2
  <1>12. kid \in Plans
    BY <1>10 DEF BuiltOK
  <1> HIDE DEF kid, sub
  <1>13. /\ n \in PlanNodes /\ n.group = parent.group /\ n.winner = parent.winner
         /\ n.kids = Append(parent.kids, kid)
    <2>1. parent \in PlanNodes /\ Append(parent.kids, kid) \in Seq(Plans)
      BY <1>6, <1>12
    <2> HIDE DEF parent
    <2> QED
      BY <2>1 DEF PlanNodes
  <1> DEFINE kids == parent.kids
  <1>14. /\ Len(n.kids) = k /\ n.kids[k] = kid
         /\ \A j \in 1..k : j = k \/ (j \in 1..Len(kids) /\ n.kids[j] = kids[j])
    <2>1. kids \in Seq(Plans) /\ k = Len(kids) + 1 /\ n.kids = Append(kids, kid)
      BY <1>6, <1>13
    <2> HIDE DEF kids, k, n
    <2> QED
      BY <1>12, <2>1
  <1> HIDE DEF n
  <1>15. /\ nodes' \in Seq(PlanNodes) /\ Len(nodes') = len - 1 /\ nodes'[len - 1] = n
         /\ \A j \in 1..(len - 2) : nodes'[j] = nodes[j]
    <2> DEFINE outer == SubSeq(nodes, 1, len - 2)
    <2>1. /\ outer \in Seq(PlanNodes) /\ Len(outer) = len - 2
          /\ \A j \in 1..(len - 2) : outer[j] = nodes[j]
      <3> DEFINE short == len - 2
      <3>1. short \in Nat /\ \A j \in 1..short : nodes[j] \in PlanNodes
        <4>1. \A j \in 1..short : j \in 1..len
          BY <1>1
        <4> QED
          BY <1>1, <1>3, <4>1
      <3> HIDE DEF short
      <3>2. /\ 1 \in Int /\ short \in Int /\ short - 1 + 1 = short
            /\ (IF 1 <= short THEN short - 1 + 1 ELSE 0) = short
            /\ \A j \in 1..short : 1 + j - 1 = j
        BY <3>1
      <3>3. /\ SubSeq(nodes, 1, short) \in Seq(PlanNodes)
            /\ Len(SubSeq(nodes, 1, short)) = IF 1 <= short THEN short - 1 + 1 ELSE 0
            /\ \A j \in 1..(short - 1 + 1) : SubSeq(nodes, 1, short)[j] = nodes[1 + j - 1]
        BY <3>1, <3>2, SubSeqProperties
      <3>4. /\ SubSeq(nodes, 1, short) \in Seq(PlanNodes)
            /\ Len(SubSeq(nodes, 1, short)) = short
            /\ \A j \in 1..short : SubSeq(nodes, 1, short)[j] = nodes[j]
        BY <3>2, <3>3
      <3> QED
        BY <3>4 DEF short
    <2> HIDE DEF outer
    <2>2. nodes' = Append(outer, n)
      BY <1>11 DEF outer
    <2>3. len - 2 \in Nat /\ (len - 2) + 1 = len - 1 /\ n \in PlanNodes
      BY <1>1, <1>3, <1>13
    <2> HIDE DEF len
    <2> DEFINE short == len - 2
    <2>4. /\ short \in Nat /\ short + 1 = len - 1 /\ Len(outer) = short
          /\ \A j \in 1..short : outer[j] = nodes[j]
      BY <2>1, <2>3
    <2> HIDE DEF short
    <2>5. /\ Append(outer, n) \in Seq(PlanNodes) /\ Len(Append(outer, n)) = short + 1
          /\ Append(outer, n)[short + 1] = n
          /\ \A j \in 1..short : Append(outer, n)[j] = nodes[j]
      BY <2>1, <2>3, <2>4
    <2> QED
      BY <2>2, <2>4, <2>5 DEF short
  <1> QED
    BY <1>1, <1>2, <1>5, <1>6, <1>7, <1>8, <1>9, <1>10, <1>11, <1>13, <1>14, <1>15
    DEF n, h, r, kid, sub

LEMMA AttachExtracts == TableInv /\ ExtractionInv /\ AttachInput => ExtractionInv'
  <1> SUFFICES ASSUME TableInv, ExtractionInv, AttachInput PROVE ExtractionInv'
    OBVIOUS
  <1> DEFINE len    == Len(nodes)
             parent == nodes[len - 1]
             k      == Len(parent.kids) + 1
             e      == ExprOfNode(memo, parent)
             h      == e.inputs[k]
             r      == parent.winner.inputRequired[k]
             sub    == Assembled(h, ExprOfNode(memo, Node), Node.kids)
             kid    == Enforce(sub, r)
             n      == [parent EXCEPT !.kids = Append(@, kid)]
  <1>1. /\ NodesOK /\ Done /\ outcome = "extracting" /\ len \in 1..len
    BY NodeIsLast DEF AttachInput
  <1>2. /\ len \in Nat /\ len > 1 /\ UNCHANGED vars /\ outcome' = outcome
        /\ parent \in PlanNodes /\ NodeOK(memo, winners, parent)
        /\ k \in 1..Len(e.inputs)
        /\ BuiltOK(memo, winners, h, r, kid)
        /\ n \in PlanNodes /\ n.group = parent.group /\ n.winner = parent.winner
        /\ Len(n.kids) = k /\ n.kids[k] = kid
        /\ \A j \in 1..k : j = k \/ (j \in 1..Len(parent.kids) /\ n.kids[j] = parent.kids[j])
        /\ nodes' \in Seq(PlanNodes) /\ Len(nodes') = len - 1 /\ nodes'[len - 1] = n
        /\ \A j \in 1..(len - 2) : nodes'[j] = nodes[j]
    BY Attached
  <1> HIDE DEF h, r, kid, sub
  <1>3. NodeOK(memo, winners, n)
    <2>1. ExprOfNode(memo, n) = e
      BY <1>2 DEF ExprOfNode
    <2>2. \A j \in 1..Len(parent.kids) :
            BuiltOK(memo, winners, e.inputs[j], parent.winner.inputRequired[j], parent.kids[j])
      BY <1>2 DEF NodeOK
    <2>3. \A j \in 1..k :
            BuiltOK(memo, winners, e.inputs[j], parent.winner.inputRequired[j], n.kids[j])
      BY <1>2, <2>2 DEF h, r
    <2>4. \E i \in 1..Len(winners[parent.group]) : parent.winner = winners[parent.group][i]
      BY <1>2 DEF NodeOK
    <2>5. k <= Len(e.inputs)
      BY <1>2
    <2> HIDE DEF n, e, k, parent
    <2> QED
      BY <1>2, <2>1, <2>3, <2>4, <2>5 DEF NodeOK
  <1>4. \A m, ws, q, s : AnswersTo(ws, parent, q, s) => AnswersTo(ws, n, q, s)
    BY <1>2 DEF AnswersTo
  <1> HIDE DEF n
  <1>5. NodesOK'
    <2>1. \A j \in 1..(len - 1) : NodeOK(memo, winners, nodes'[j])
      <3>1. \A j \in 1..len : NodeOK(memo, winners, nodes[j])
        BY <1>1 DEF NodesOK
      <3> HIDE DEF len
      <3>2. \A j \in 1..(len - 1) : j \in 1..len /\ (j \in 1..(len - 2) \/ j = len - 1)
        BY <1>1
      <3> QED
        BY <1>3, <1>2, <3>1, <3>2
    <2>2. AnswersTo(winners, nodes'[1], Root, request.required)
      <3>1. AnswersTo(winners, nodes[1], Root, request.required)
        BY <1>1 DEF NodesOK
      <3>2. CASE len - 1 = 1
        BY <1>4, <1>2, <3>1, <3>2
      <3>3. CASE len - 1 # 1
        <4>1. 1 \in 1..(len - 2)
          <5> HIDE DEF len
          <5> QED
            BY <1>1, <1>2, <3>3
        <4> QED
          BY <1>2, <3>1, <4>1
      <3> QED
        BY <3>2, <3>3
    <2>3. \A j \in 1..(len - 1) : j > 1 => WaitsFor(memo, winners, nodes'[j - 1], nodes'[j])
      <3> SUFFICES ASSUME NEW j \in 1..(len - 1), j > 1
                   PROVE  WaitsFor(memo, winners, nodes'[j - 1], nodes'[j])
        OBVIOUS
      <3>1. j \in 1..len /\ j - 1 \in 1..(len - 2) /\ (j = len - 1 \/ j \in 1..(len - 2))
        BY <1>1, <1>2
      <3>2. WaitsFor(memo, winners, nodes[j - 1], nodes[j])
        BY <1>1, <3>1 DEF NodesOK
      <3>3. CASE j = len - 1
        <4>1. WaitsFor(memo, winners, nodes[j - 1], parent)
          BY <3>2, <3>3
        <4>2. WaitsFor(memo, winners, nodes[j - 1], n)
          BY <1>4, <4>1 DEF WaitsFor
        <4> QED
          BY <1>2, <3>1, <3>3, <4>2
      <3>4. CASE j \in 1..(len - 2)
        BY <1>2, <3>1, <3>2, <3>4
      <3> QED
        BY <3>1, <3>3, <3>4
    <2> HIDE DEF len
    <2> QED
      BY <1>2, <1>2, <2>1, <2>2, <2>3, TableStays DEF NodesOK
  <1>6. outcome' = "extracting" /\ Done'
    BY <1>1, <1>2, TableStays DEF Done
  <1> QED
    BY <1>5, <1>6 DEF ExtractionInv, SuccessBuildsAPlan

LEMMA DeliverExtracts == TableInv /\ ExtractionInv /\ Deliver => ExtractionInv'
  <1> SUFFICES ASSUME TableInv, ExtractionInv, Deliver PROVE ExtractionInv'
    OBVIOUS
  <1> DEFINE r     == request.required
             sub   == Assembled(Root, ExprOfNode(memo, Node), Node.kids)
             final == Enforce(sub, r)
  <1>1. /\ Node = nodes[1] /\ NodeExpr = ExprOfNode(memo, Node) /\ 1 \in 1..Len(nodes)
        /\ NodesOK /\ Done /\ nodes # <<>>
    <2>1. ExtractionInv /\ Extracting /\ Len(nodes) = 1
      BY DEF Deliver
    <2> QED
      BY <2>1, NodeIsLast DEF Extracting
  <1>2. Extracting /\ Complete /\ UNCHANGED vars /\ nodes' = <<>>
    BY DEF Deliver
  <1>3. AnswersTo(winners, Node, Root, r)
    BY <1>1 DEF NodesOK
  <1>4. Len(Node.kids) = Len(ExprOfNode(memo, Node).inputs)
    BY <1>2, CompleteNode
  <1>5. r \in Properties
    BY RootFacts DEF TableInv
  <1>6. Enforceable(sub.props, r) /\ BuiltOK(memo, winners, Root, r, final)
    BY <1>1, <1>3, <1>4, <1>5, NodeBuilds
  <1>7. Subplan = sub
    BY <1>1, <1>3 DEF Subplan, AnswersTo
  <1>8. /\ plan' = final
        /\ outcome' = IF ~Enforceable(sub.props, r)
                      THEN "the required output properties cannot be enforced"
                      ELSE IF Satisfies(final.props, r) THEN "ok" ELSE "internal"
    BY <1>7 DEF Deliver
  <1>9. sub \in Plans
    BY <1>1, <1>3, <1>4, <1>5, NodeBuilds
  <1>10. Satisfies(final.props, r)
    BY <1>6, <1>9 DEF Enforce, Enforceable, Plans
  <1>11. outcome' = "ok"
    BY <1>6, <1>8, <1>10
  <1> QED
    BY <1>1, <1>2, <1>6, <1>8, <1>11, NoNodesNext, TableStays
    DEF ExtractionInv, SuccessBuildsAPlan, Done

-----------------------------------------------------------------------------
(* The theorems.                                                           *)

LEMMA PlannerIsSearch == [PlannerNext]_plannerVars => [Next]_vars
  BY DEF PlannerNext, plannerVars, Search, Refuse, Extract, ExtractInput, AttachInput, Deliver

LEMMA TableStep == TableInv /\ [Next]_vars => TableInv'
  <1> SUFFICES ASSUME TableInv, [Next]_vars PROVE TableInv'
    OBVIOUS
  <1>1. IInv' /\ CostsInv'
    BY SearchStep, CostsStep DEF TableInv
  <1>2. PricesHold => TableServes(memo, winners)'
    BY ServesStep DEF TableInv, PricesHold
  <1>3. (PricesHold' <=> PricesHold) /\ (EstimatesAreRows' <=> EstimatesAreRows)
    BY DEF PricesHold, EstimatesAreRows
  <1> QED
    BY <1>1, <1>2, <1>3 DEF TableInv

LEMMA ExtractionStep ==
  TableInv /\ ExtractionInv /\ [PlannerNext]_plannerVars => ExtractionInv'
  <1> SUFFICES ASSUME TableInv, ExtractionInv, [PlannerNext]_plannerVars PROVE ExtractionInv'
    OBVIOUS
  <1>1. CASE Search
    BY <1>1, SearchExtracts
  <1>2. CASE Refuse
    BY <1>2, RefuseExtracts
  <1>3. CASE Extract
    BY <1>3, ExtractExtracts
  <1>4. CASE ExtractInput
    BY <1>4, InputExtracts
  <1>5. CASE AttachInput
    BY <1>5, AttachExtracts
  <1>6. CASE Deliver
    BY <1>6, DeliverExtracts
  <1>7. CASE UNCHANGED plannerVars
    <2>1. UNCHANGED vars /\ nodes' = nodes /\ outcome' = outcome /\ plan' = plan
      BY <1>7 DEF plannerVars
    <2> QED
      BY <2>1, TableStays DEF ExtractionInv, NodesOK, SuccessBuildsAPlan, Done
  <1> QED
    BY <1>1, <1>2, <1>3, <1>4, <1>5, <1>6, <1>7 DEF PlannerNext

(* Extraction builds, bottom-up, plans that answer the questions the       *)
(* winners recorded.                                                       *)
THEOREM PlannerInvariance ==
  ASSUME EstimatesAreRows
  PROVE  PlannerSpec => [](TableInv /\ ExtractionInv)
  <1>1. PlannerInit => TableInv /\ ExtractionInv
    <2> SUFFICES ASSUME PlannerInit PROVE TableInv /\ ExtractionInv
      OBVIOUS
    <2>1. TableInv
      BY InitIInv, InitCosts, EmptyServes DEF PlannerInit, TableInv
    <2>2. ExtractionInv
      BY NoNodes DEF PlannerInit, ExtractionInv, SuccessBuildsAPlan
    <2> QED
      BY <2>1, <2>2
  <1> QED
    BY <1>1, PlannerIsSearch, TableStep, ExtractionStep, PTL DEF PlannerSpec

(* A search that finds a winner is always followed by a plan: every child  *)
(* goal is there, enforcement never fails, and the finished plan meets what*)
(* was required, so that none of the failures lower() can report after a   *)
(* successful search is ever reported.                                     *)
THEOREM SuccessIsAPlan ==
  ASSUME EstimatesAreRows
  PROVE  PlannerSpec => []SuccessBuildsAPlan
  <1>1. ExtractionInv => SuccessBuildsAPlan
    BY DEF ExtractionInv
  <1>2. PlannerSpec => [](TableInv /\ ExtractionInv)
    BY PlannerInvariance
  <1> QED
    BY <1>1, <1>2, PTL

(* A plan that must see the latest writes shows no row of a lagging copy,  *)
(* and no UPDATE or DELETE picks its rows from one: what derive() says of  *)
(* an operator's freshness is so for every row that reaches its output.    *)
THEOREM FreshnessIsHonoured ==
  ASSUME EstimatesAreRows
  PROVE  PlannerSpec => []FreshnessHonoured
  <1>1. ExtractionInv => FreshnessHonoured
    <2> SUFFICES ASSUME ExtractionInv, outcome = "ok"
                 PROVE  /\ request.required.freshness = "Fresh" => ~plan.stale
                        /\ ~plan.staleWrite
      BY DEF FreshnessHonoured
    <2>1. BuiltOK(memo, winners, Root, request.required, plan)
      BY DEF ExtractionInv
    <2> QED
      BY <2>1 DEF BuiltOK, FreshEnough
  <1>2. PlannerSpec => [](TableInv /\ ExtractionInv)
    BY PlannerInvariance
  <1> QED
    BY <1>1, <1>2, PTL

(* A plan in which no rows move costs, by cost_of(), no more than the      *)
(* search was told, where the candidates of every group are estimated alike*)
(* and no enforcer is free: the tree has the rows its groups were given,   *)
(* whichever candidates won; an input that was recorded to be sorted, or of*)
(* a format, is so in the plan, and no operator above it has to pay for    *)
(* that again.                                                             *)
THEOREM UnmovedCosts ==
  ASSUME EstimatesAreRows, EnforcersCost, \A m \in Memos : EmptyStaysEmpty(m)
  PROVE  PlannerSpec => []UnmovedCostsAtMost
  <1>1. ExtractionInv => UnmovedCostsAtMost
    <2> SUFFICES ASSUME ExtractionInv, outcome = "ok", EstimatesAgree(memo),
                        \A n \in DOMAIN plan.tree : plan.tree[n].op # "Exchange"
                 PROVE  plan.cost <= WinnerFor(Root, request.required).cost
      BY DEF UnmovedCostsAtMost, BuiltCostsAtMost
    <2>1. BuiltOK(memo, winners, Root, request.required, plan) /\ PricesHold
      BY DEF ExtractionInv, PricesHold
    <2>2. ~Moved(plan.tree)
      <3>1. plan.tree \in Seq(TreeNodes)
        BY <2>1 DEF BuiltOK, Plans
      <3> QED
        BY <3>1 DEF Moved
    <2>3. WinnerFor(Root, request.required) = WinnerIn(winners, Root, request.required)
      BY DEF WinnerFor, WinnerIn
    <2> QED
      BY <2>1, <2>2, <2>3 DEF BuiltOK
  <1>2. PlannerSpec => [](TableInv /\ ExtractionInv)
    BY PlannerInvariance
  <1> QED
    BY <1>1, <1>2, PTL

(* A hash join's price, and its price with a row more on side k.           *)
LEMMA HashJoinPrice ==
  ASSUME NEW node, node.op \in HashJoins, node.buildRight \in BOOLEAN, NEW g, NEW in
  PROVE  OperatorCost(node, g, in)
           = IF node.op = "HashJoin" /\ ~node.buildRight
             THEN in[1] * Calibration["hashBuild"] + in[2] * Calibration["hashProbe"]
             ELSE in[2] * Calibration["hashBuild"] + in[1] * Calibration["hashProbe"]
  <1>1. CASE node.op = "HashJoin"
    BY <1>1 DEF OperatorCost, NestedLoops, Writes
  <1>2. CASE node.op \in {"HashSemiJoin", "HashAntiJoin"}
    BY <1>2 DEF OperatorCost, NestedLoops, Writes
  <1> QED
    BY <1>1, <1>2 DEF HashJoins

LEMMA MarginalPrice ==
  ASSUME NEW node, node.op \in HashJoins, node.buildRight \in BOOLEAN, NEW g, NEW k \in {1, 2}
  PROVE  OperatorCost(node, g, [j \in 1..2 |-> IF j = k THEN 2 ELSE 1])
           - OperatorCost(node, g, <<1, 1>>)
           = IF (k = 2) <=> (node.op = "HashJoin" => node.buildRight)
             THEN Calibration["hashBuild"] ELSE Calibration["hashProbe"]
  <1> DEFINE b     == Calibration["hashBuild"]
             p     == Calibration["hashProbe"]
             more  == [j \in 1..2 |-> IF j = k THEN 2 ELSE 1]
             ones  == <<1, 1>>
             right == node.op = "HashJoin" => node.buildRight
  <1>1. b \in Nat /\ p \in Nat
    BY CoefficientType DEF CoefficientNames
  <1>2. /\ ones[1] = 1 /\ ones[2] = 1
        /\ k = 1 => more[1] = 2 /\ more[2] = 1
        /\ k = 2 => more[1] = 1 /\ more[2] = 2
    OBVIOUS
  <1> DEFINE priceMore == OperatorCost(node, g, more)
             priceOnes == OperatorCost(node, g, ones)
  <1> HIDE DEF more, ones
  <1>3. /\ priceMore = IF ~right THEN more[1] * b + more[2] * p ELSE more[2] * b + more[1] * p
        /\ priceOnes = IF ~right THEN ones[1] * b + ones[2] * p ELSE ones[2] * b + ones[1] * p
    BY HashJoinPrice
  <1> HIDE DEF b, p, priceMore, priceOnes, right
  <1>4. right \in BOOLEAN
    BY DEF right
  <1>5. CASE right
    <2>1. priceOnes = b + p
      BY <1>1, <1>2, <1>3, <1>5
    <2>2. k = 1 => priceMore = b + 2 * p
      BY <1>1, <1>2, <1>3, <1>5
    <2>3. k = 2 => priceMore = 2 * b + p
      BY <1>1, <1>2, <1>3, <1>5
    <2>4. priceMore - priceOnes = IF k = 2 THEN b ELSE p
      BY <1>1, <2>1, <2>2, <2>3
    <2> QED
      BY <1>5, <2>4 DEF priceMore, priceOnes, more, ones, b, p, right
  <1>6. CASE ~right
    <2>1. priceOnes = b + p
      BY <1>1, <1>2, <1>3, <1>6
    <2>2. k = 1 => priceMore = 2 * b + p
      BY <1>1, <1>2, <1>3, <1>6
    <2>3. k = 2 => priceMore = b + 2 * p
      BY <1>1, <1>2, <1>3, <1>6
    <2>4. priceMore - priceOnes = IF k = 2 THEN p ELSE b
      BY <1>1, <2>1, <2>2, <2>3
    <2> QED
      BY <1>6, <2>4 DEF priceMore, priceOnes, more, ones, b, p, right
  <1> QED
    BY <1>5, <1>6

(* The side of a hash join that the pipelines hold in memory is the side   *)
(* the cost model charges the build for, in every plan extraction builds.  *)
THEOREM BuildSidesArePriced ==
  ASSUME EstimatesAreRows
  PROVE  PlannerSpec => []BuildSidesPriced
  <1>1. ExtractionInv => BuildSidesPriced
    <2> SUFFICES ASSUME ExtractionInv, outcome = "ok", NEW i \in DOMAIN plan.tree,
                        plan.tree[i].op \in HashJoins, NEW k \in 1..2
                 PROVE  OperatorCost(plan.tree[i], memo[Root],
                                     [j \in 1..2 |-> IF j = k THEN 2 ELSE 1])
                          - OperatorCost(plan.tree[i], memo[Root], <<1, 1>>)
                          = Calibration[IF k \in StoppedInputs(plan.tree[i])
                                        THEN "hashBuild" ELSE "hashProbe"]
      BY DEF BuildSidesPriced, HashJoins
    <2> DEFINE node == plan.tree[i]
    <2>1. node \in TreeNodes /\ Len(node.kids) = 2
      <3>1. plan.tree \in Seq(TreeNodes) /\ Shaped(plan.tree)
        BY DEF ExtractionInv, BuiltOK, Plans
      <3> QED
        BY <3>1 DEF Shaped, Paired
    <2>2. DOMAIN node.kids = 1..2 /\ node.buildRight \in BOOLEAN /\ node.op \in HashJoins
      BY <2>1 DEF TreeNodes
    <2> HIDE DEF node
    <2>3. k \in StoppedInputs(node) <=> EdgeKind(node.op, k, node.buildRight) # "Streaming"
      BY <2>2 DEF StoppedInputs, StreamedInputs, InputKinds
    <2>4. k \in StoppedInputs(node)
            <=> ((k = 2) <=> (node.op = "HashJoin" => node.buildRight))
      <3>1. CASE node.op = "HashJoin"
        BY <2>2, <2>3, <3>1 DEF EdgeKind, NestedLoops
      <3>2. CASE node.op \in {"HashSemiJoin", "HashAntiJoin"}
        BY <2>2, <2>3, <3>2 DEF EdgeKind, NestedLoops
      <3> QED
        BY <2>2, <3>1, <3>2 DEF HashJoins
    <2>5. k \in {1, 2}
      OBVIOUS
    <2>6. OperatorCost(node, memo[Root], [j \in 1..2 |-> IF j = k THEN 2 ELSE 1])
            - OperatorCost(node, memo[Root], <<1, 1>>)
            = IF k \in StoppedInputs(node)
              THEN Calibration["hashBuild"] ELSE Calibration["hashProbe"]
      BY <2>2, <2>4, <2>5, MarginalPrice
    <2> QED
      BY <2>6 DEF node
  <1>2. PlannerSpec => [](TableInv /\ ExtractionInv)
    BY PlannerInvariance
  <1> QED
    BY <1>1, <1>2, PTL
-----------------------------------------------------------------------------
(* Plans whose rows are in the order the plan says.                        *)

(* The rows of p arrive in the order p says it provides, which is at least *)
(* the one asked for, every operator in p got its rows in order, and p     *)
(* says nothing of a column that no operator of the memo orders rows by.   *)
OrderedAs(m, p, asked) ==
  /\ ~p.misordered
  /\ SortPrefix(p.order, p.props.sort)
  /\ SortPrefix(p.props.sort, asked)
  /\ ColumnsOf(p.props.sort) \subseteq OrderColumns(m)

(* Keys on columns that a projection leaves where they are, and shows      *)
(* nowhere else, are the same keys once projected.                         *)
LEMMA RenumberedInPlace ==
  ASSUME NEW order \in Seq(SortKeys), NEW claimed \in Seq(SortKeys), SortPrefix(order, claimed),
         NEW projects \in Seq(Nat),
         \A c \in ColumnsOf(claimed) :
           {j \in DOMAIN projects : projects[j] = c} = {c + 1}
  PROVE  SortPrefix(Renumbered(order, projects), claimed)
  <1> DEFINE kept        == {k \in DOMAIN order : \A j \in 1..k : order[j].column \in Range(projects)}
             became(key) == CHOOSE i \in DOMAIN projects : projects[i] = key.column
             new         == Renumbered(order, projects)
  <1>1. new = [k \in kept |-> [order[k] EXCEPT !.column = became(order[k]) - 1]]
    BY DEF Renumbered
  <1>2. /\ Len(claimed) \in Nat /\ Len(order) \in Nat /\ Len(claimed) <= Len(order)
        /\ DOMAIN claimed = 1..Len(claimed) /\ DOMAIN order = 1..Len(order)
        /\ \A k \in 1..Len(claimed) : SatisfiesKey(order[k], claimed[k])
    BY DEF SortPrefix
  <1>3. ASSUME NEW k \in 1..Len(claimed)
        PROVE  /\ order[k] \in SortKeys /\ order[k].column = claimed[k].column
               /\ order[k].column \in Range(projects)
               /\ became(order[k]) - 1 = order[k].column
    <2> DEFINE c == order[k].column
    <2>1. k \in 1..Len(order) /\ order[k] \in SortKeys
      BY <1>2
    <2>2. c = claimed[k].column /\ c \in Nat
      BY <1>2, <2>1 DEF SatisfiesKey, SortKeys
    <2>3. c \in ColumnsOf(claimed)
      BY <1>2, <2>2 DEF ColumnsOf
    <2>4. {j \in DOMAIN projects : projects[j] = c} = {c + 1}
      BY <2>3
    <2>5. c + 1 \in DOMAIN projects /\ projects[c + 1] = c
      BY <2>4
    <2>6. became(order[k]) = c + 1
      <3>1. \E i \in DOMAIN projects : projects[i] = order[k].column
        BY <2>5
      <3>2. became(order[k]) \in DOMAIN projects /\ projects[became(order[k])] = c
        BY <3>1
      <3> HIDE DEF became
      <3> QED
        BY <2>4, <3>2
    <2>7. c \in Range(projects)
      BY <2>5 DEF Range
    <2> HIDE DEF became
    <2> QED
      BY <2>1, <2>2, <2>6, <2>7
  <1>4. \A k \in 1..Len(claimed) : k \in kept
    <2> SUFFICES ASSUME NEW k \in 1..Len(claimed) PROVE k \in kept
      OBVIOUS
    <2>1. \A j \in 1..k : j \in 1..Len(claimed)
      BY <1>2
    <2> QED
      BY <1>2, <1>3, <2>1
  <1>5. new \in Seq(SortKeys)
    BY RenumberedType
  <1> HIDE DEF new, kept, became
  <1>6. DOMAIN new = kept /\ DOMAIN new = 1..Len(new) /\ Len(new) \in Nat
    BY <1>1, <1>5
  <1>7. Len(claimed) <= Len(new)
    <2>1. CASE Len(claimed) = 0
      BY <1>6, <2>1
    <2>2. CASE Len(claimed) > 0
      <3>1. Len(claimed) \in 1..Len(claimed)
        BY <1>2, <2>2
      <3> QED
        BY <1>2, <1>4, <1>6, <3>1
    <2> QED
      BY <1>2, <2>1, <2>2
  <1>8. \A k \in 1..Len(claimed) : SatisfiesKey(new[k], claimed[k])
    <2> SUFFICES ASSUME NEW k \in 1..Len(claimed) PROVE SatisfiesKey(new[k], claimed[k])
      OBVIOUS
    <2>1. new[k] = [order[k] EXCEPT !.column = became(order[k]) - 1]
      BY <1>1, <1>4
    <2>2. new[k] = order[k]
      <3>1. order[k] \in SortKeys /\ became(order[k]) - 1 = order[k].column
        BY <1>3
      <3> QED
        BY <2>1, <3>1 DEF SortKeys
    <2> QED
      BY <1>2, <2>2
  <1> QED
    BY <1>7, <1>8 DEF SortPrefix, new

(* Orders that are asked for are on the memo's order columns.              *)
LEMMA AskedColumns ==
  ASSUME NEW m, NEW g \in 1..Len(m), NEW i \in 1..Len(m[g].exprs)
  PROVE  /\ \A k \in 1..2 : ColumnsOf(InputOrder(m[g].exprs[i], m[g], k)) \subseteq OrderColumns(m)
         /\ m[g].exprs[i].op = "Sort" => ColumnsOf(m[g].sortKeys) \subseteq OrderColumns(m)
  <1>1. OrderedIn(m[g]) \subseteq OrderColumns(m)
    BY DEF OrderColumns
  <1>2. OrderedBy(m[g].exprs[i], m[g]) \subseteq OrderedIn(m[g])
    BY DEF OrderedIn
  <1>3. ASSUME NEW e, NEW h
        PROVE  /\ \A k \in 1..2 : ColumnsOf(InputOrder(e, h, k)) \subseteq OrderedBy(e, h)
               /\ e.op = "Sort" => ColumnsOf(h.sortKeys) \subseteq OrderedBy(e, h)
    <2>1. /\ ColumnsOf(InputOrder(e, h, 1)) \subseteq OrderedBy(e, h)
          /\ ColumnsOf(InputOrder(e, h, 2)) \subseteq OrderedBy(e, h)
          /\ e.op = "Sort" => ColumnsOf(h.sortKeys) \subseteq OrderedBy(e, h)
      BY DEF OrderedBy
    <2>2. \A k \in 1..2 : k = 1 \/ k = 2
      OBVIOUS
    <2> QED
      BY <2>1, <2>2
  <1> QED
    BY <1>1, <1>2, <1>3

LEMMA ConsumerColumns ==
  ASSUME NEW m, NEW required \in Requirements
  PROVE  ColumnsOf(required.sort) \subseteq OrderColumns(m)
  <1>1. ColumnsOf(required.sort) \subseteq RequiredColumns
    <2> DEFINE orders == {ColumnsOf(r.sort) : r \in Requirements}
    <2>1. RequiredColumns = UNION orders
      BY DEF RequiredColumns
    <2>2. ColumnsOf(required.sort) \in orders
      OBVIOUS
    <2> HIDE DEF orders
    <2> QED
      BY <2>1, <2>2
  <1>2. RequiredColumns \subseteq OrderColumns(m)
    BY DEF OrderColumns
  <1> QED
    BY <1>1, <1>2

LEMMA NothingAsked ==
  ASSUME NEW s \in Seq(SortKeys), NEW m
  PROVE  SortPrefix(s, <<>>) /\ ColumnsOf(<<>>) \subseteq OrderColumns(m)
  BY DEF SortPrefix, ColumnsOf

(* An operator over inputs that are ordered at least as it needs, in a     *)
(* memo whose projections move no order column.                            *)
LEMMA AssembledInOrder ==
  ASSUME memo \in Memos, OrdersStayInPlace(memo),
         NEW g \in 1..Len(memo), NEW i \in 1..Len(memo[g].exprs),
         NEW kids \in Seq(Plans), Len(kids) = Arity(memo[g].exprs[i].op),
         NEW asked,
         \A k \in 1..Len(kids) :
           /\ asked[k] \in Seq(SortKeys)
           /\ SortPrefix(asked[k], InputOrder(memo[g].exprs[i], memo[g], k))
           /\ OrderedAs(memo, kids[k], asked[k])
  PROVE  OrderedAs(memo, Assembled(g, memo[g].exprs[i], kids), <<>>)
  <1> DEFINE e     == memo[g].exprs[i]
             ins   == [k \in DOMAIN kids |-> kids[k].props]
             in    == IF kids = <<>> THEN <<>> ELSE kids[1].order
             p     == Assembled(g, e, kids)
             through == {"Filter", "Project", "Window", "Limit", "StreamingDistinct",
                         "CreateTableAs"}
  <1>1. memo[g] \in Groups /\ e \in GroupExprs
    BY MemoType
  <1>2. /\ DOMAIN kids = 1..Len(kids) /\ Len(kids) \in Nat
        /\ \A k \in 1..Len(kids) : /\ kids[k] \in Plans
                                   /\ kids[k].order \in Seq(SortKeys)
                                   /\ kids[k].props.sort \in Seq(SortKeys)
    <2>1. \A q \in Plans : q.order \in Seq(SortKeys) /\ q.props.sort \in Seq(SortKeys)
      BY DEF Plans, Properties
    <2>2. DOMAIN kids = 1..Len(kids) /\ Len(kids) \in Nat /\ \A k \in 1..Len(kids) : kids[k] \in Plans
      OBVIOUS
    <2> QED
      BY <2>1, <2>2
  <1>3. ins \in Seq(Properties) /\ Len(ins) = Arity(e.op)
        /\ \A k \in 1..Len(kids) : ins[k] = kids[k].props
    BY KidsType
  <1>4. /\ p.props.sort = OutputOrder(e, memo[g], ins)
        /\ p.order = RowOrder(e, memo[g], in)
        /\ p.misordered = (\/ ~InOrder(e, memo[g], kids)
                           \/ \E k \in DOMAIN kids : kids[k].misordered)
    BY DEF Assembled, DeriveOp
  <1>5. p.props.sort \in Seq(SortKeys)
    <2>1. DeriveOp(e, memo[g], ins) \in Properties
      BY <1>1, <1>3, DeriveOpType
    <2> QED
      BY <1>4, <2>1 DEF DeriveOp, Properties
  <1>6. \A k \in 1..2 : InputOrder(e, memo[g], k) \in Seq(SortKeys)
    <2>1. \A k \in 1..2 : InputRequirement(e, memo[g], k) \in Properties
      BY <1>1, InputRequirementType
    <2> QED
      BY <2>1 DEF InputRequirement, Properties
  <1>7. Len(kids) <= 2 /\ (e.op \in through => Len(kids) = 1)
    BY DEF Arity, Leaves, Binary, Joins, SemiJoins, SetOperators
  <1> HIDE DEF ins, p, e
  <1>8. ~p.misordered
    <2>1. \A k \in 1..Len(kids) : ~kids[k].misordered
      BY DEF OrderedAs
    <2>2. ASSUME NEW k \in 1..Len(kids)
          PROVE  SortPrefix(kids[k].order, InputOrder(e, memo[g], k))
      <3>1. /\ SortPrefix(kids[k].order, kids[k].props.sort)
            /\ SortPrefix(kids[k].props.sort, asked[k])
            /\ SortPrefix(asked[k], InputOrder(e, memo[g], k))
        BY DEF OrderedAs, e
      <3>2. k \in 1..2
        BY <1>2, <1>7
      <3>3. /\ kids[k].order \in Seq(SortKeys) /\ kids[k].props.sort \in Seq(SortKeys)
            /\ asked[k] \in Seq(SortKeys) /\ InputOrder(e, memo[g], k) \in Seq(SortKeys)
        BY <1>2, <1>6, <3>2
      <3>4. SortPrefix(kids[k].order, asked[k])
        BY <3>1, <3>3, SortPrefixTransitive
      <3> QED
        BY <3>1, <3>3, <3>4, SortPrefixTransitive
    <2> QED
      BY <1>2, <1>4, <2>1, <2>2 DEF InOrder
  <1>9. e.op \in through => /\ p.props.sort = kids[1].props.sort /\ in = kids[1].order
                            /\ in \in Seq(SortKeys) /\ SortPrefix(in, p.props.sort)
                            /\ ColumnsOf(p.props.sort) \subseteq OrderColumns(memo)
    <2> SUFFICES ASSUME e.op \in through
                 PROVE  /\ p.props.sort = kids[1].props.sort /\ in = kids[1].order
                        /\ in \in Seq(SortKeys) /\ SortPrefix(in, p.props.sort)
                        /\ ColumnsOf(p.props.sort) \subseteq OrderColumns(memo)
      OBVIOUS
    <2>1. Len(kids) = 1 /\ 1 \in 1..Len(kids)
      BY <1>7
    <2>2. kids # <<>>
      <3>1. kids = <<>> => Len(kids) = 0
        OBVIOUS
      <3> QED
        BY <2>1, <3>1
    <2>3. p.props.sort = kids[1].props.sort
      BY <1>3, <1>4, <2>1 DEF OutputOrder
    <2> QED
      BY <1>2, <2>1, <2>2, <2>3 DEF OrderedAs
  <1>10. ColumnsOf(p.props.sort) \subseteq OrderColumns(memo)
    <2>1. CASE e.op = "MergeJoin"
      <3>1. p.props.sort = InputOrder(e, memo[g], 1)
        BY <1>4, <2>1 DEF OutputOrder, InputOrder
      <3> QED
        BY <3>1, AskedColumns DEF e
    <2>2. CASE e.op = "StreamingAggregate"
      <3>1. p.props.sort = InputOrder(e, memo[g], 1)
        BY <1>4, <2>2 DEF OutputOrder, InputOrder
      <3> QED
        BY <3>1, AskedColumns DEF e
    <2>3. CASE e.op = "Sort"
      <3>1. p.props.sort = memo[g].sortKeys
        BY <1>4, <2>3 DEF OutputOrder
      <3> QED
        BY <2>3, <3>1, AskedColumns DEF e
    <2>4. CASE e.op \notin through \cup {"MergeJoin", "StreamingAggregate", "Sort"}
      <3>1. p.props.sort = <<>>
        BY <1>4, <2>4 DEF OutputOrder
      <3> QED
        BY <3>1, NothingAsked, EmptySeq
    <2> QED
      BY <1>9, <2>1, <2>2, <2>3, <2>4
  <1>11. SortPrefix(p.order, p.props.sort)
    <2>1. CASE e.op = "Project"
      <3>1. p.order = Renumbered(in, memo[g].projects)
        BY <1>4, <2>1 DEF RowOrder
      <3>2. \A c \in OrderColumns(memo) :
              {j \in DOMAIN memo[g].projects : memo[g].projects[j] = c} = {c + 1}
        BY <2>1 DEF OrdersStayInPlace, e
      <3>3. memo[g].projects \in Seq(Nat)
        BY <1>1 DEF Groups
      <3>4. in \in Seq(SortKeys) /\ SortPrefix(in, p.props.sort)
        BY <1>9, <2>1
      <3> HIDE DEF in
      <3>5. \A c \in ColumnsOf(p.props.sort) :
              {j \in DOMAIN memo[g].projects : memo[g].projects[j] = c} = {c + 1}
        BY <1>10, <3>2
      <3>6. SortPrefix(Renumbered(in, memo[g].projects), p.props.sort)
        BY <1>5, <3>3, <3>4, <3>5, RenumberedInPlace
      <3> QED
        BY <3>1, <3>6
    <2>2. CASE e.op = "StreamingAggregate"
      <3>1. p.props.sort = memo[g].sortKeys
        BY <1>4, <2>2 DEF OutputOrder
      <3>2. memo[g].sortKeys \in Seq(SortKeys)
        BY <1>1 DEF Groups
      <3>3. \A k \in DOMAIN memo[g].sortKeys : memo[g].sortKeys[k].column = k - 1
        BY <2>2 DEF OrdersStayInPlace, e
      <3>4. p.order = [k \in DOMAIN memo[g].sortKeys |->
                         [memo[g].sortKeys[k] EXCEPT !.column = k - 1]]
        BY <1>4, <2>2 DEF RowOrder
      <3> DEFINE keys == memo[g].sortKeys
      <3> HIDE DEF keys
      <3>5. \A k \in DOMAIN keys : [keys[k] EXCEPT !.column = k - 1] = keys[k]
        <4>1. \A k \in DOMAIN keys : keys[k] \in SortKeys /\ keys[k].column = k - 1
          BY <3>2, <3>3 DEF keys
        <4> QED
          BY <4>1 DEF SortKeys
      <3>6. p.order = keys
        <4>1. keys = [k \in DOMAIN keys |-> keys[k]]
          BY <3>2 DEF keys
        <4>2. p.order = [k \in DOMAIN keys |-> [keys[k] EXCEPT !.column = k - 1]]
          BY <3>4 DEF keys
        <4> QED
          BY <3>5, <4>1, <4>2
      <3> QED
        BY <3>1, <3>2, <3>6, SortPrefixReflexive DEF keys
    <2>3. CASE e.op \in through \ {"Project"}
      <3>1. p.order = in
        BY <1>4, <2>3 DEF RowOrder, OutputOrder
      <3> QED
        BY <1>9, <2>3, <3>1
    <2>4. CASE e.op \notin through \cup {"StreamingAggregate"}
      <3>1. p.order = p.props.sort
        BY <1>4, <2>4 DEF RowOrder, OutputOrder
      <3> QED
        BY <1>5, <3>1, SortPrefixReflexive
    <2> QED
      BY <2>1, <2>2, <2>3, <2>4
  <1>12. SortPrefix(p.props.sort, <<>>)
    BY <1>5, NothingAsked
  <1> QED
    BY <1>8, <1>10, <1>11, <1>12 DEF OrderedAs, p, e

(* enforce() puts rows in the order it is asked for. *)
LEMMA EnforcedInOrder ==
  ASSUME NEW m, NEW p \in Plans, OrderedAs(m, p, <<>>), NEW r \in Properties,
         ColumnsOf(r.sort) \subseteq OrderColumns(m)
  PROVE  OrderedAs(m, Enforce(p, r), r.sort)
  <1> DEFINE q == Enforce(p, r)
  <1>1. /\ p.props \in Properties /\ p.order \in Seq(SortKeys) /\ p.props.sort \in Seq(SortKeys)
        /\ r.sort \in Seq(SortKeys)
    BY DEF Plans, Properties
  <1>2. /\ q.props = Enforced(p.props, r) /\ q.misordered = p.misordered
        /\ q.order = IF NeedsSort(p.props, r) THEN r.sort
                     ELSE IF NeedsExchange(p.props, r) THEN <<>> ELSE p.order
    BY DEF Enforce, Plans
  <1>3. q.props.sort = IF NeedsSort(p.props, r) THEN r.sort ELSE AfterExchange(p.props, r).sort
    BY <1>1, <1>2, EnforcedType
  <1>4. AfterExchange(p.props, r).sort = IF NeedsExchange(p.props, r) THEN <<>> ELSE p.props.sort
    BY <1>1 DEF AfterExchange, Properties
  <1>5. SortPrefix(p.order, p.props.sort) /\ ColumnsOf(p.props.sort) \subseteq OrderColumns(m)
        /\ ~p.misordered
    BY DEF OrderedAs
  <1>6. ~q.misordered
    BY <1>5 DEF Enforce, Plans
  <1> HIDE DEF q
  <1>7. CASE NeedsSort(p.props, r)
    <2>2. q.order = r.sort /\ q.props.sort = r.sort
      BY <1>2, <1>3, <1>7
    <2>3. SortPrefix(r.sort, r.sort)
      BY <1>1, SortPrefixReflexive
    <2>4. q.props.sort = r.sort => OrderedAs(m, q, r.sort)
      BY <1>6, <2>2, <2>3 DEF OrderedAs
    <2> QED
      BY <2>2, <2>4 DEF q
  <1>8. CASE ~NeedsSort(p.props, r)
    <2>1. SortPrefix(q.props.sort, r.sort)
      BY <1>3, <1>8 DEF NeedsSort
    <2>2. CASE NeedsExchange(p.props, r)
      <3>1. q.order = <<>>
        BY <1>2, <1>8, <2>2
      <3>2. q.props.sort = <<>>
        BY <1>3, <1>4, <1>8, <2>2
      <3>3. SortPrefix(<<>>, <<>>) /\ ColumnsOf(<<>>) \subseteq OrderColumns(m)
        <4>1. <<>> \in Seq(SortKeys)
          OBVIOUS
        <4> QED
          BY <4>1, NothingAsked
      <3> QED
        BY <1>6, <2>1, <3>1, <3>2, <3>3 DEF OrderedAs, q
    <2>3. CASE ~NeedsExchange(p.props, r)
      <3>1. q.order = p.order
        BY <1>2, <1>8, <2>3
      <3>2. q.props.sort = p.props.sort
        BY <1>3, <1>4, <1>8, <2>3
      <3> QED
        BY <1>5, <1>6, <2>1, <3>1, <3>2 DEF OrderedAs, q
    <2> QED
      BY <2>2, <2>3
  <1> QED
    BY <1>7, <1>8

(* What a winner asks of its inputs is at least what its operator needs,   *)
(* and on the memo's order columns if what was asked of it is.             *)
LEMMA DemandedOrders ==
  ASSUME NEW m \in Memos, NEW ws, NEW g \in 1..Len(m), NEW w \in Entries,
         w.expr \in 1..Len(m[g].exprs), Priced(m, ws, g, w.required, w),
         ColumnsOf(w.required.sort) \subseteq OrderColumns(m),
         NEW k \in 1..Arity(m[g].exprs[w.expr].op)
  PROVE  /\ SortPrefix(w.inputRequired[k].sort, InputOrder(m[g].exprs[w.expr], m[g], k))
         /\ ColumnsOf(w.inputRequired[k].sort) \subseteq OrderColumns(m)
  <1> DEFINE e     == m[g].exprs[w.expr]
             needs == RequiredInputProperties(e, m[g])
             order == InputOrder(e, m[g], k)
             got   == w.inputRequired[k].sort
  <1>1. e \in GroupExprs /\ m[g] \in Groups /\ k \in 1..2 /\ (CanPushDown(e.op) => k = 1)
    <2>1. e \in GroupExprs /\ m[g] \in Groups
      BY MemoType
    <2>2. k \in 1..2 /\ (CanPushDown(e.op) => k = 1)
      BY DEF CanPushDown, Arity, Leaves, Binary, Joins, SemiJoins, SetOperators
    <2> QED
      BY <2>1, <2>2
  <1>2. order \in Seq(SortKeys) /\ ColumnsOf(order) \subseteq OrderColumns(m)
    <2>1. InputRequirement(e, m[g], k) \in Properties
      BY <1>1, InputRequirementType
    <2> QED
      BY <1>1, <2>1, AskedColumns DEF InputRequirement, Properties
  <1>3. needs \in Seq(Properties) /\ needs[k].sort = order
    BY <1>1, RequiredInputsType DEF RequiredInputProperties, InputRequirement
  <1>4. w.required.sort \in Seq(SortKeys)
    BY DEF Entries, Properties
  <1>5. PICK stage \in {"enforce", "pushdown"} : Found(m, ws, g, w.required, w, stage)
    BY DEF Priced
  <1>6. w.inputRequired = DemandsOf(e, m[g], w.required, stage)
        /\ (stage = "pushdown" => CanPushDown(e.op))
    BY <1>5 DEF Found
  <1>7. CASE stage = "enforce"
    <2>1. got = order
      BY <1>3, <1>6, <1>7 DEF DemandsOf
    <2> QED
      BY <1>2, <2>1, SortPrefixReflexive
  <1>8. CASE stage = "pushdown"
    <2>1. k = 1 /\ order = <<>>
      BY <1>1, <1>6, <1>8 DEF CanPushDown, InputOrder
    <2>2. w.inputRequired = PushedRequirements(needs, w.required)
      BY <1>6, <1>8 DEF DemandsOf
    <2>3. 1 \in DOMAIN needs
      <3>1. Len(needs) = Arity(e.op)
        BY <1>1, RequiredInputsType
      <3> HIDE DEF needs, e
      <3> QED
        BY <1>3, <2>1, <3>1 DEF e
    <2>4. w.required \in Properties
      BY DEF Entries
    <2>5. got = IF w.required.sort = <<>> THEN order ELSE w.required.sort
      <3> HIDE DEF needs, e
      <3> QED
        BY <1>3, <2>1, <2>2, <2>3, <2>4 DEF PushedRequirements, Properties
    <2>6. SortPrefix(w.required.sort, <<>>) /\ SortPrefix(<<>>, <<>>)
      BY <1>2, <1>4, <2>1, NothingAsked
    <2> QED
      BY <1>2, <2>1, <2>5, <2>6
  <1> QED
    BY <1>5, <1>7, <1>8

(* A node under construction was asked for an order on the memo's order    *)
(* columns, and its finished inputs are ordered as its winner asked.       *)
NodeOrdered(m, n) ==
  /\ ColumnsOf(n.winner.required.sort) \subseteq OrderColumns(m)
  /\ \A k \in 1..Len(n.kids) : OrderedAs(m, n.kids[k], n.winner.inputRequired[k].sort)

OrderInv ==
  /\ \A j \in 1..Len(nodes) : NodeOrdered(memo, nodes[j])
  /\ outcome = "ok" => OrderedAs(memo, plan, request.required.sort)

(* A complete node makes a plan in the order its answer was asked in. *)
LEMMA NodeInOrder ==
  ASSUME TableInv, NodesOK, OrdersStayInPlace(memo),
         NEW j \in 1..Len(nodes), NodeOrdered(memo, nodes[j]),
         NEW h, NEW r \in Properties, AnswersTo(winners, nodes[j], h, r),
         Len(nodes[j].kids) = Len(ExprOfNode(memo, nodes[j]).inputs)
  PROVE  OrderedAs(memo, Enforce(Assembled(h, ExprOfNode(memo, nodes[j]), nodes[j].kids), r),
                   r.sort)
  <1> DEFINE n     == nodes[j]
             w     == n.winner
             e     == ExprOfNode(memo, n)
             asked == [k \in 1..Len(n.kids) |-> w.inputRequired[k].sort]
             sub   == Assembled(h, e, n.kids)
  <1>1. /\ memo \in Memos /\ n.group \in 1..Len(memo) /\ w \in Entries /\ n.kids \in Seq(Plans)
        /\ PlanOK(memo, winners, n.group, w) /\ Priced(memo, winners, n.group, w.required, w)
        /\ Len(e.inputs) = Arity(e.op)
        /\ \A k \in 1..Len(e.inputs) : w.inputRequired[k] \in Properties
    BY NodeFacts
  <1>2. h = n.group /\ w.required.sort = r.sort
    BY DEF AnswersTo, SameRequirement
  <1>3. e = memo[h].exprs[w.expr] /\ w.expr \in 1..Len(memo[h].exprs) /\ h \in 1..Len(memo)
    BY <1>1, <1>2 DEF ExprOfNode, PlanOK
  <1>4. sub \in Plans
    BY NodeBuilds
  <1>5. /\ ColumnsOf(w.required.sort) \subseteq OrderColumns(memo)
        /\ \A k \in 1..Len(n.kids) : OrderedAs(memo, n.kids[k], w.inputRequired[k].sort)
    BY DEF NodeOrdered
  <1>6. Len(n.kids) = Arity(e.op)
    BY <1>1
  <1>7. Priced(memo, winners, h, w.required, w)
    BY <1>1, <1>2
  <1> HIDE DEF n, w, e
  <1>8. ASSUME NEW k \in 1..Len(n.kids)
        PROVE  /\ asked[k] \in Seq(SortKeys)
               /\ SortPrefix(asked[k], InputOrder(e, memo[h], k))
               /\ OrderedAs(memo, n.kids[k], asked[k])
    <2>1. k \in 1..Arity(memo[h].exprs[w.expr].op)
      BY <1>3, <1>6
    <2>2. SortPrefix(w.inputRequired[k].sort, InputOrder(memo[h].exprs[w.expr], memo[h], k))
      BY <1>1, <1>3, <1>5, <1>7, <2>1, DemandedOrders
    <2>3. w.inputRequired[k] \in Properties
      BY <1>1, <1>6
    <2>4. w.inputRequired[k].sort \in Seq(SortKeys)
      BY <2>3 DEF Properties
    <2> QED
      BY <1>3, <1>5, <2>2, <2>4
  <1> HIDE DEF asked
  <1>9. OrderedAs(memo, sub, <<>>)
    BY <1>1, <1>3, <1>6, <1>8, AssembledInOrder
  <1> HIDE DEF sub
  <1>10. OrderedAs(memo, Enforce(sub, r), r.sort)
    BY <1>2, <1>4, <1>5, <1>9, EnforcedInOrder
  <1> QED
    BY <1>10 DEF sub, e, n

LEMMA OrderStep ==
  ASSUME \A m \in Memos : OrdersStayInPlace(m),
         TableInv, ExtractionInv, OrderInv, [PlannerNext]_plannerVars
  PROVE  OrderInv'
  <1>1. /\ memo \in Memos /\ OrdersStayInPlace(memo)
        /\ Root \in 1..Len(memo) /\ request.required \in Properties
        /\ ColumnsOf(request.required.sort) \subseteq OrderColumns(memo)
    <2>1. memo \in Memos /\ request \in [required : Requirements, mode : Modes]
      BY DEF TableInv, IInv, TypeOK
    <2>2. request.required \in Requirements
      BY <2>1
    <2> QED
      BY <2>1, <2>2, RootFacts, ConsumerColumns DEF TableInv
  <1>2. ASSUME nodes' = <<>>, outcome' # "ok" PROVE OrderInv'
    BY <1>2 DEF OrderInv
  <1>3. CASE Search
    <2>1. outcome' = outcome /\ nodes' = nodes /\ nodes = <<>> /\ outcome = "searching"
      <3>1. stack # <<>>
        BY <1>3 DEF Search, Next, PruneCandidate, StartCandidate, OpenGoal, AcceptInput,
               RejectInput, FinishRoute, SettleGoal, FailGoal, Candidate, Choosing, Exhausted,
               AwaitsInput, Searching
      <3> QED
        BY <1>3, <3>1 DEF ExtractionInv, Done, Search
    <2> QED
      BY <1>2, <2>1
  <1>4. CASE Refuse
    <2>1. nodes' = nodes /\ nodes = <<>>
          /\ outcome' = "no plan satisfies the required output properties"
      BY <1>4 DEF Refuse, ExtractionInv
    <2> QED
      BY <1>2, <2>1
  <1>5. CASE Extract
    <2> DEFINE n == NewNode(Root, request.required)
    <2>1. /\ outcome' = "extracting" /\ nodes' = <<n>> /\ UNCHANGED vars
          /\ Settled(Root, request.required)
      BY <1>5 DEF Extract, Succeeded
    <2>2. AnswersTo(winners, n, Root, request.required) /\ n.kids = <<>>
      BY <1>1, <2>1, NewNodeOK DEF TableInv, NewNode
    <2>3. NodeOrdered(memo, n)
      <3>1. n.winner.required.sort = request.required.sort
        BY <2>2 DEF AnswersTo, SameRequirement
      <3> HIDE DEF n
      <3> QED
        BY <1>1, <2>2, <3>1 DEF NodeOrdered
    <2> HIDE DEF n
    <2>4. \A j \in 1..Len(nodes') : nodes'[j] = n
      BY <2>1
    <2> QED
      BY <2>1, <2>3, <2>4, TableStays DEF OrderInv
  <1>6. CASE ExtractInput
    <2> DEFINE n == NewNode(KidGroup, NextDemand(Node))
               k == Len(Node.kids) + 1
               e == ExprOfNode(memo, Node)
               w == Node.winner
    <2>1. /\ nodes \in Seq(PlanNodes) /\ Len(nodes) \in Nat \ {0}
          /\ Len(nodes) \in 1..Len(nodes) /\ Node = nodes[Len(nodes)]
          /\ NodeExpr = e /\ NodesOK /\ outcome = "extracting"
      BY <1>6, NodeIsLast DEF ExtractInput
    <2>2. /\ ~(k > Len(NodeExpr.inputs)) /\ KidGroup = NodeExpr.inputs[k]
          /\ NextDemand(Node) = w.inputRequired[k] /\ UNCHANGED vars
          /\ Settled(KidGroup, NextDemand(Node)) =>
               nodes' = Append(nodes, n) /\ outcome' = outcome
      BY <1>6 DEF ExtractInput, Complete, NextKid, KidGroup, NextDemand
    <2>3. /\ Node.kids \in Seq(Plans) /\ Len(e.inputs) \in Nat /\ w \in Entries
          /\ Node.group \in 1..Len(memo)
          /\ PlanOK(memo, winners, Node.group, w)
          /\ Priced(memo, winners, Node.group, w.required, w)
          /\ Len(e.inputs) = Arity(e.op)
          /\ \A i \in 1..Len(e.inputs) :
               /\ e.inputs[i] \in 1..Len(memo)
               /\ w.inputRequired[i] \in Properties
               /\ Answered(winners[e.inputs[i]], w.inputRequired[i])
      BY <2>1, NodeFacts
    <2>4. k \in 1..Len(e.inputs)
      <3>1. Len(Node.kids) \in Nat
        BY <2>3
      <3> QED
        BY <2>1, <2>2, <2>3, <3>1
    <2>5. /\ KidGroup \in 1..Len(memo) /\ NextDemand(Node) \in Properties
          /\ Settled(KidGroup, NextDemand(Node))
      BY <2>1, <2>2, <2>3, <2>4 DEF Settled
    <2>6. AnswersTo(winners, n, KidGroup, NextDemand(Node)) /\ n.kids = <<>> /\ n \in PlanNodes
      BY <2>5, NewNodeOK DEF TableInv, NewNode
    <2>7. NodeOrdered(memo, n)
      <3>1. ColumnsOf(w.required.sort) \subseteq OrderColumns(memo)
        BY <2>1 DEF OrderInv, NodeOrdered
      <3>2. /\ e = memo[Node.group].exprs[w.expr]
            /\ w.expr \in 1..Len(memo[Node.group].exprs)
        BY <2>3 DEF ExprOfNode, PlanOK
      <3>3. k \in 1..Arity(memo[Node.group].exprs[w.expr].op)
        BY <2>3, <2>4, <3>2
      <3> HIDE DEF k, w
      <3>4. ColumnsOf(w.inputRequired[k].sort) \subseteq OrderColumns(memo)
        BY <1>1, <2>3, <3>1, <3>2, <3>3, DemandedOrders
      <3>5. n.winner.required.sort = w.inputRequired[k].sort
        BY <2>2, <2>6 DEF AnswersTo, SameRequirement
      <3> HIDE DEF n
      <3> QED
        BY <2>6, <3>4, <3>5 DEF NodeOrdered
    <2> HIDE DEF n
    <2>8. Len(nodes') = Len(nodes) + 1 /\ nodes'[Len(nodes) + 1] = n
          /\ \A j \in 1..Len(nodes) : nodes'[j] = nodes[j]
      BY <2>1, <2>2, <2>5, <2>6, AppendProperties
    <2>9. \A j \in 1..Len(nodes') : NodeOrdered(memo, nodes'[j])
      <3>1. \A j \in 1..Len(nodes) : NodeOrdered(memo, nodes[j])
        BY DEF OrderInv
      <3>2. \A j \in 1..(Len(nodes) + 1) : j \in 1..Len(nodes) \/ j = Len(nodes) + 1
        BY <2>1
      <3> QED
        BY <2>7, <2>8, <3>1, <3>2
    <2>10. outcome' # "ok"
      BY <2>1, <2>2, <2>5
    <2> QED
      BY <2>2, <2>9, <2>10, TableStays DEF OrderInv
  <1>7. CASE AttachInput
    <2> DEFINE len    == Len(nodes)
               parent == nodes[len - 1]
               k      == Len(parent.kids) + 1
               e      == ExprOfNode(memo, parent)
               h      == e.inputs[k]
               r      == parent.winner.inputRequired[k]
               sub    == Assembled(h, ExprOfNode(memo, Node), Node.kids)
               kid    == Enforce(sub, r)
               n      == [parent EXCEPT !.kids = Append(@, kid)]
    <2>1. /\ NodesOK /\ outcome = "extracting" /\ len \in 1..len /\ Node = nodes[len]
      BY <1>7, NodeIsLast DEF AttachInput
    <2>2. /\ len \in Nat /\ len > 1 /\ UNCHANGED vars /\ outcome' = outcome
          /\ Len(Node.kids) = Len(ExprOfNode(memo, Node).inputs)
          /\ r \in Properties /\ AnswersTo(winners, Node, h, r)
          /\ n.winner = parent.winner
          /\ Len(n.kids) = k /\ n.kids[k] = kid
          /\ \A j \in 1..k : j = k \/ (j \in 1..Len(parent.kids) /\ n.kids[j] = parent.kids[j])
          /\ Len(nodes') = len - 1 /\ nodes'[len - 1] = n
          /\ \A j \in 1..(len - 2) : nodes'[j] = nodes[j]
      BY <1>7, Attached
    <2>3. \A j \in 1..len : NodeOrdered(memo, nodes[j])
      BY DEF OrderInv
    <2>4. OrderedAs(memo, kid, r.sort)
      BY <1>1, <2>1, <2>2, <2>3, NodeInOrder
    <2>5. len \in Nat /\ len > 1
      BY <2>2
    <2>6. NodeOrdered(memo, parent)
      <3>1. len - 1 \in 1..len
        <4> HIDE DEF len
        <4> QED
          BY <2>5
      <3> HIDE DEF len
      <3> QED
        BY <2>3, <3>1
    <2> HIDE DEF kid
    <2>7. NodeOrdered(memo, n)
      <3>1. \A j \in 1..k : OrderedAs(memo, n.kids[j], parent.winner.inputRequired[j].sort)
        <4>1. \A j \in 1..Len(parent.kids) :
                OrderedAs(memo, parent.kids[j], parent.winner.inputRequired[j].sort)
          BY <2>6 DEF NodeOrdered
        <4> HIDE DEF n, parent
        <4> QED
          BY <2>2, <2>4, <4>1
      <3>2. ColumnsOf(parent.winner.required.sort) \subseteq OrderColumns(memo)
        BY <2>6 DEF NodeOrdered
      <3> HIDE DEF n, parent, k
      <3> QED
        BY <2>2, <3>1, <3>2 DEF NodeOrdered
    <2> HIDE DEF n
    <2>8. \A j \in 1..Len(nodes') : NodeOrdered(memo, nodes'[j])
      <3> HIDE DEF len
      <3>1. \A j \in 1..(len - 1) : j \in 1..len /\ (j \in 1..(len - 2) \/ j = len - 1)
        BY <2>2
      <3> QED
        BY <2>2, <2>3, <2>7, <3>1
    <2> QED
      BY <2>1, <2>2, <2>8, TableStays DEF OrderInv
  <1>8. CASE Deliver
    <2> DEFINE r     == request.required
               sub   == Assembled(Root, ExprOfNode(memo, Node), Node.kids)
               final == Enforce(sub, r)
    <2>1. /\ Node = nodes[1] /\ 1 \in 1..Len(nodes) /\ NodesOK /\ nodes # <<>>
      <3>1. Extracting /\ Len(nodes) = 1
        BY <1>8 DEF Deliver
      <3> QED
        BY <3>1, NodeIsLast DEF Extracting
    <2>2. Extracting /\ Complete /\ UNCHANGED vars /\ nodes' = <<>>
          /\ plan' = Enforce(Subplan, r)
      BY <1>8 DEF Deliver
    <2>3. AnswersTo(winners, Node, Root, r) /\ NodeExpr = ExprOfNode(memo, Node)
      BY <2>1, <2>2, NodeIsLast DEF NodesOK
    <2>4. Len(Node.kids) = Len(ExprOfNode(memo, Node).inputs)
      BY <2>2, CompleteNode
    <2>5. Subplan = sub
      BY <2>1, <2>3 DEF Subplan, AnswersTo
    <2>6. NodeOrdered(memo, nodes[1])
      BY <2>1 DEF OrderInv
    <2>7. OrderedAs(memo, final, r.sort)
      BY <1>1, <2>1, <2>3, <2>4, <2>6, NodeInOrder
    <2> QED
      BY <2>2, <2>5, <2>7, TableStays DEF OrderInv
  <1>9. CASE UNCHANGED plannerVars
    <2>1. UNCHANGED vars /\ nodes' = nodes /\ outcome' = outcome /\ plan' = plan
      BY <1>9 DEF plannerVars
    <2> QED
      BY <2>1, TableStays DEF OrderInv
  <1> QED
    BY <1>3, <1>4, <1>5, <1>6, <1>7, <1>8, <1>9 DEF PlannerNext

(* What a plan says of the order of its rows is so, whatever the search    *)
(* chose and wherever enforcers sort or move rows, in memos whose          *)
(* projections leave the columns by which rows are ordered where they are. *)
THEOREM RowsArriveInOrder ==
  ASSUME EstimatesAreRows, \A m \in Memos : OrdersStayInPlace(m)
  PROVE  PlannerSpec => []RowsInOrder
  <1>1. PlannerInit => OrderInv
    BY DEF PlannerInit, OrderInv
  <1>2. TableInv /\ ExtractionInv /\ OrderInv /\ [PlannerNext]_plannerVars => OrderInv'
    BY OrderStep
  <1>3. TableInv /\ ExtractionInv /\ OrderInv => RowsInOrder
    <2> SUFFICES ASSUME TableInv, ExtractionInv, OrderInv, outcome = "ok"
                 PROVE  ~plan.misordered /\ SortPrefix(plan.order, request.required.sort)
      BY DEF RowsInOrder
    <2>1. OrderedAs(memo, plan, request.required.sort) /\ plan \in Plans
      BY DEF OrderInv, ExtractionInv, BuiltOK
    <2>2. plan.order \in Seq(SortKeys) /\ plan.props.sort \in Seq(SortKeys)
      BY <2>1 DEF Plans, Properties
    <2>3. request.required.sort \in Seq(SortKeys)
      BY RootFacts DEF TableInv, Properties
    <2> QED
      BY <2>1, <2>2, <2>3, SortPrefixTransitive DEF OrderedAs
  <1>4. PlannerSpec => [](TableInv /\ ExtractionInv)
    BY PlannerInvariance
  <1> QED
    BY <1>1, <1>2, <1>3, <1>4, PTL DEF PlannerSpec

(* The pipelines of every finished plan share out its nodes, each in one   *)
(* place of one pipeline, and whatever a loop reads from an input it does  *)
(* not run itself comes out of a pipeline that ran before: extraction      *)
(* builds every tree in post-order, each node read once, so a row's way    *)
(* never joins another's, and the places where rows stop come out in the   *)
(* order of the nodes (src/src/pipeline.cpp).                              *)
THEOREM PlansAreScheduled ==
  ASSUME EstimatesAreRows
  PROVE  PlannerSpec => []PipelinesScheduled
  <1>1. ExtractionInv => PipelinesScheduled
    <2> SUFFICES ASSUME ExtractionInv, outcome = "ok" PROVE PipelinesScheduled
      BY DEF PipelinesScheduled
    <2> DEFINE tree == plan.tree
    <2>1. tree \in Seq(TreeNodes) /\ PostOrder(tree)
      BY DEF ExtractionInv, BuiltOK, Plans, Shaped
    <2> HIDE DEF tree
    <2>2. /\ \A n \in DOMAIN tree :
               Cardinality({at \in (DOMAIN PipelinesOf(tree)) \X (DOMAIN tree) :
                              /\ at[2] \in DOMAIN PipelinesOf(tree)[at[1]].members
                              /\ PipelinesOf(tree)[at[1]].members[at[2]] = n}) = 1
          /\ \A p \in DOMAIN PipelinesOf(tree) :
               \A i \in DOMAIN PipelinesOf(tree)[p].members :
                 \A k \in StoppedInputs(tree[PipelinesOf(tree)[p].members[i]]) :
                   \E q \in 1..(p - 1) :
                     PipelinesOf(tree)[q].sink = tree[PipelinesOf(tree)[p].members[i]].kids[k]
      BY <2>1, TreeScheduled
    <2> QED
      BY <2>2 DEF PipelinesScheduled, tree
  <1>2. PlannerSpec => [](TableInv /\ ExtractionInv)
    BY PlannerInvariance
  <1> QED
    BY <1>1, <1>2, PTL
=============================================================================
