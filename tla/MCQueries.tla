----------------------------- MODULE MCQueries ------------------------------
(***************************************************************************)
(* Logical plans for the model checker.  A plan is written as a tree:      *)
(* Table("a") .. Inner(l, r, tests); a column is its table and a number,   *)
(* and a test's columns are turned into the numbers its join would use.    *)
(***************************************************************************)
EXTENDS Candidates

LogicalOps ==
  {"Scan", "Filter", "Project", "Join", "SemiJoin", "Aggregate", "SetOp", "Sort", "Update",
   "Insert"}

BuiltinRules  == [op \in LogicalOps |-> BuiltinPhysical(op)]
HashOnlyRules == [BuiltinRules EXCEPT !["Join"] = <<"HashJoin">>]
NoJoinRules   == [BuiltinRules EXCEPT !["Join"] = <<>>]

RowCopy    == [format |-> "Row", freshness |-> "Fresh"]
LaggingCopy == [format |-> "Column", freshness |-> "Stale"]
-----------------------------------------------------------------------------
Tree(op, text, payload, rows, output, kids, tests) ==
  [op |-> op, text |-> text, payload |-> payload, rows |-> rows, output |-> output,
   kids |-> kids, predicate |-> tests, stores |-> <<>>, comparable |-> TRUE,
   supported |-> TRUE]

(* A table under an alias, of two columns.                                 *)
Aliased(table, alias, rows) ==
  [Tree("Scan", table, EmptyGroup, rows, <<<<alias, 0>>, <<alias, 1>>>>, <<>>, <<>>)
     EXCEPT !.stores = <<RowCopy>>]

Table(name, rows) == Aliased(name, name, rows)

Number(columns, c) == (CHOOSE i \in DOMAIN columns : columns[i] = c) - 1

(* A conjunct over named columns.                                          *)
Test(test, on) == [test |-> test, on |-> on, translatable |-> TRUE, comparable |-> TRUE]
Eq(a, b)       == Test("=", <<a, b>>)
Less3(a, b, c) == Test("<", <<a, b, c>>)
Below(a, b)    == Test("<", <<a, b>>)
Given(a)       == Test("p", <<a>>)
Parameter      == [Test("?", <<>>) EXCEPT !.comparable = FALSE]
Subquery(a)    == [Test("in", <<a>>) EXCEPT !.translatable = FALSE, !.comparable = FALSE]

Numbered(tests, columns) ==
  [i \in DOMAIN tests |->
     [test |-> tests[i].test, translatable |-> tests[i].translatable,
      comparable |-> tests[i].comparable,
      cols |-> [k \in DOMAIN tests[i].on |-> Number(columns, tests[i].on[k])]]]

JoinTree(kind, l, r, tests) ==
  Tree("Join", "", [EmptyGroup EXCEPT !.joinKind = kind], 0, l.output \o r.output,
       <<l, r>>, Numbered(tests, l.output \o r.output))

Inner(l, r, tests) == JoinTree("Inner", l, r, tests)
Cross(l, r)        == JoinTree("Cross", l, r, <<>>)
Outer(l, r, tests) == JoinTree("Left", l, r, tests)

Exists(l, r, tests) ==
  Tree("SemiJoin", "", EmptyGroup, l.rows, l.output, <<l, r>>,
       Numbered(tests, l.output \o r.output))

Where(text, t)   == Tree("Filter", text, EmptyGroup, 2, t.output, <<t>>, <<>>)
Called(text, t)  == [Where(text, t) EXCEPT !.comparable = FALSE]
Opaque(t)        == [Where("", t) EXCEPT !.supported = FALSE]
Updating(who, t) == Tree("Update", who, EmptyGroup, 2, t.output, <<t>>, <<>>)
Inserting(who, t) == [Updating(who, t) EXCEPT !.op = "Insert"]
UnionOf(l, r) ==
  Tree("SetOp", "", [EmptyGroup EXCEPT !.setOp = "UnionAll"], 4, l.output, <<l, r>>, <<>>)

(* A join that hides its last column, so that numbers above it shift.      *)
Hiding(t) == [t EXCEPT !.output = Front(@)]

(* The nodes of a tree, inputs first.                                      *)
RECURSIVE Nodes(_)
Nodes(t) ==
  LET below == [k \in DOMAIN t.kids |-> Nodes(t.kids[k])]
      shift(ns, by) == [i \in DOMAIN ns |->
                          [ns[i] EXCEPT !.kids = [k \in DOMAIN @ |-> @[k] + by]]]
      root(kids) == <<[t EXCEPT !.kids = kids]>>
  IN  CASE below = <<>>    -> root(<<>>)
        [] Len(below) = 1  -> below[1] \o root(<<Len(below[1])>>)
        [] OTHER           ->
             below[1] \o shift(below[2], Len(below[1]))
               \o root(<<Len(below[1]), Len(below[1]) + Len(below[2])>>)
-----------------------------------------------------------------------------
(* Every way to write a join of these tables in this order, each test at   *)
(* the lowest join that sees its columns, or all of them at the top.       *)
Sees(t, test) == \A k \in DOMAIN test.on : \E i \in DOMAIN t.output : t.output[i] = test.on[k]

Fits(l, r, tests) ==
  SelectSeq(tests, LAMBDA test : LET both == [output |-> l.output \o r.output] IN
    Sees(both, test) /\ ~(Len(l.kids) = 2 /\ Sees(l, test)) /\ ~(Len(r.kids) = 2 /\ Sees(r, test)))

RECURSIVE Written(_, _)
Written(tables, tests) ==
  IF Len(tables) = 1 THEN {tables[1]}
  ELSE UNION { { Inner(l, r, Fits(l, r, tests)) :
                   l \in Written(SubSeq(tables, 1, s), tests),
                   r \in Written(SubSeq(tables, s + 1, Len(tables)), tests) }
               : s \in 1..(Len(tables) - 1) }

RECURSIVE WrittenOnTop(_)
WrittenOnTop(tables) ==
  IF Len(tables) = 1 THEN {tables[1]}
  ELSE UNION { { Cross(l, r) : l \in WrittenOnTop(SubSeq(tables, 1, s)),
                               r \in WrittenOnTop(SubSeq(tables, s + 1, Len(tables))) }
               : s \in 1..(Len(tables) - 1) }

OnTop(tables, tests) ==
  {[t EXCEPT !.predicate = Numbered(tests, t.output)] : t \in WrittenOnTop(tables)}

a == Table("a", 16)
b == Table("b", 8)
c == Table("c", 8)
d == Table("d", 4)
e == Table("e", 2)

AB == Eq(<<"a", 0>>, <<"b", 0>>)
BA == Eq(<<"b", 1>>, <<"a", 1>>)
BC == Eq(<<"b", 1>>, <<"c", 0>>)
CB == Eq(<<"c", 1>>, <<"b", 0>>)
AC == Eq(<<"c", 1>>, <<"a", 1>>)
CD == Eq(<<"c", 1>>, <<"d", 0>>)
AD == Eq(<<"d", 1>>, <<"a", 0>>)
DE == Eq(<<"d", 1>>, <<"e", 0>>)

ThreeTests ==
  { <<AB, BC>>, <<AB, BA, BC>>, <<AB, BC, CB>>, <<AC, AB>>, <<BC, AC>>, <<AB, BC, AC>>,
    <<AB, Below(<<"b", 0>>, <<"c", 0>>)>>, <<AB, BC, Given(<<"b", 0>>)>>,
    <<AB, BC, Given(<<"a", 1>>), Given(<<"c", 1>>)>>,
    <<AB, BC, Less3(<<"a", 0>>, <<"b", 0>>, <<"c", 1>>)>>, <<AB>>, <<AC>>,
    <<Less3(<<"a", 0>>, <<"b", 0>>, <<"c", 1>>), BC>>,
    <<AB, Eq(<<"b", 0>>, <<"b", 1>>), BC>>, <<AB, BC, Subquery(<<"a", 0>>)>> }

FourTests ==
  { <<AB, BC, CD>>, <<AB, AC, AD>>, <<AB, CD, AD>>, <<AB, BC, CD, AD, AC>>,
    <<AB, CD, Less3(<<"a", 0>>, <<"c", 0>>, <<"d", 1>>)>>, <<AB, CD>>,
    <<AC, AD, BC>>, <<AB, BC, CD, Parameter>>, <<AB, BC, CD, Given(<<"c", 0>>), Given(<<"d", 0>>)>> }

Regions(tables, testLists) ==
  UNION {Written(tables, tests) \cup OnTop(tables, tests) : tests \in testLists}

(* Regions below, beside and above what is no part of one.                 *)
Chain(tests) == CHOOSE t \in Written(<<a, b, c>>, tests) : t.kids[1] = a
Mixed ==
  { Outer(Chain(<<AB, BC>>), d, <<CD>>),
    Inner(Inner(a, b, <<AB>>), Outer(c, d, <<CD>>), <<BC>>),
    Inner(Inner(Chain(<<AB, BC>>), d, <<>>), e, <<DE>>),
    Inner(Where("w", Chain(<<AB, BC>>)), Inner(d, e, <<DE>>), <<AD>>),
    Exists(Chain(<<AB, BC>>), d, <<CD>>),
    Inner(Inner(a, Hiding(Inner(b, c, <<BC>>)), <<AB>>), d, <<AD>>),
    Hiding(Chain(<<AB, BC>>)) }

RegionPlans ==
  {Nodes(t) : t \in Regions(<<a, b, c>>, ThreeTests) \cup Regions(<<a, b, c, d>>, FourTests)
                      \cup Written(<<a, b, c, d, e>>, <<AB, BC, CD, DE>>) \cup Mixed}

(* Plans that say something twice, or nearly.                              *)
a1 == Aliased("a", "a1", 16)
Twice(t) == UnionOf(t, t)
RepeatingPlans ==
  {Nodes(t) : t \in
    { Twice(a), Twice(Where("p", a)), UnionOf(Where("p", a), Where("q", a)),
      Twice(Called("f", a)), UnionOf(a, a1), UnionOf(Where("p", a), Where("p", a1)),
      Twice(Inner(a, b, <<AB>>)), UnionOf(Inner(a, b, <<AB>>), Inner(a, b, <<AB, BA>>)),
      UnionOf(Inner(a, b, <<AB>>), Inner(a, b, <<Eq(<<"b", 0>>, <<"a", 0>>)>>)),
      UnionOf(Inner(a, b, <<AB>>), Outer(a, b, <<AB>>)),
      Twice(Inner(a, b, <<AB, Parameter>>)), Twice(Inner(a, b, <<AB, Below(<<"a", 0>>, <<"b", 1>>)>>)),
      Twice(Chain(<<AB, BC>>)), Twice(Where("p", Chain(<<AB, BC>>))),
      Inner(Where("p", a), Where("p", a1), <<Eq(<<"a", 0>>, <<"a1", 0>>)>>),
      UnionOf(Updating("first", a), Updating("second", a)),
      UnionOf(Twice(Where("p", a)), Twice(Where("p", a))) }}

(* Plans that are refused under some rules or requirements, and a region   *)
(* that has no connected tree.                                             *)
RefusedPlans ==
  {Nodes(t) : t \in
    { Opaque(a), Cross(a, b), Inner(a, Opaque(b), <<AB>>),
      Inner([a EXCEPT !.stores = <<LaggingCopy>>], b, <<AB>>),
      Where("p", [a EXCEPT !.stores = <<LaggingCopy, RowCopy>>]),
      Inner(Chain(<<AB, BC>>), Opaque(d), <<CD>>),
      Chain(<<AB, Below(<<"b", 0>>, <<"c", 0>>)>>), Chain(<<AB>>) }}
=============================================================================
