----------------------------- MODULE Selectivity -----------------------------
(***************************************************************************)
(* The estimators of src/src/selectivity.cpp: what fraction of its rows a  *)
(* predicate keeps, how many groups a key list makes and how many distinct *)
(* values a join's keys have, from a catalog of column statistics.         *)
(*                                                                         *)
(* A fraction is a natural, in units of one `Whole'.th.  A predicate is a  *)
(* sequence of nodes, operands before the operators over them; a column is *)
(* a pair of catalog ids, of its table and its own, and `Computed' marks   *)
(* one that is no base column.                                             *)
(***************************************************************************)
EXTENDS Integers, Sequences, FiniteSets, Functions

CONSTANTS
  Whole,            \* the fraction one
  MinSel,           \* the least fraction the source claims (kMinSel)
  Defaults          \* what is assumed when statistics cannot say

ASSUME FractionsAssumption ==
  /\ Whole \in Nat \ {0} /\ MinSel \in 1..Whole
  /\ Defaults \in [{"equality", "inequality", "unknown"} -> MinSel..Whole]

Computed == <<0, 0>>

Clip(x, low, high) == IF x < low THEN low ELSE IF x > high THEN high ELSE x
Clamped(x)         == Clip(x, MinSel, Whole)
Times(a, b)        == (a * b) \div Whole
Least(a, b)        == IF a < b THEN a ELSE b
Most(a, b)         == IF a < b THEN b ELSE a

(* A column's statistics: how many distinct values (0: not known), what    *)
(* fraction is NULL, its least and greatest value (<<>>: not known), and   *)
(* whether it is declared unique.                                          *)
Equalities   == {"Equal", "NotEqual"}
Inequalities == {"LessThan", "LessEqual", "GreaterThan", "GreaterEqual"}

Known(x, catalog) ==
  x.kind = "column" /\ x.column # Computed /\ x.column \in DOMAIN catalog.columns

StatsFor(x, catalog) == catalog.columns[x.column]

NonNull(cs) == Whole - Clip(cs.nulls, 0, Whole)

ByClass(op) == IF op \in Equalities THEN Defaults.equality ELSE Defaults.inequality

(* Seeded defect: a comparison is not turned round with its sides.         *)
MirrorNot(op) == op
Mirror(op) ==
  CASE op = "LessThan"     -> "GreaterThan"
    [] op = "LessEqual"    -> "GreaterEqual"
    [] op = "GreaterThan"  -> "LessThan"
    [] op = "GreaterEqual" -> "LessEqual"
    [] OTHER               -> op
-----------------------------------------------------------------------------
Holds(x, op, v) ==
  CASE op = "LessThan"     -> x < v
    [] op = "LessEqual"    -> x <= v
    [] op = "GreaterThan"  -> x > v
    [] op = "GreaterEqual" -> x >= v

(* Seeded defect: a domain of one value is taken for an empty one.         *)
RangeFractionEmpty(op, range, v) ==
  LET low == range[1] high == range[2] span == high - low IN
  IF span <= 0 THEN 0
  ELSE (Clip(IF op \in {"LessThan", "LessEqual"} THEN v - low ELSE high - v, 0, span)
          * Whole) \div span

(* The fraction of a column's domain on one side of v, by interpolation; a *)
(* domain of one value is on that side or is not.                          *)
RangeFraction(op, range, v) ==
  LET low == range[1] high == range[2] span == high - low IN
  IF span <= 0 THEN IF Holds(low, op, v) THEN Whole ELSE 0
  ELSE (Clip(IF op \in {"LessThan", "LessEqual"} THEN v - low ELSE high - v, 0, span)
          * Whole) \div span

(* Seeded defect: the rows that are NULL count as different.               *)
EqualityFractionOfAll(op, cs, other) ==
  LET eq == NonNull(cs) \div cs.ndv IN
  IF other.kind = "null" THEN MinSel
  ELSE IF cs.ndv = 0 THEN Clamped(Times(Defaults.equality, NonNull(cs)))
  ELSE Clamped(IF op = "Equal" THEN eq ELSE Whole - eq)

(* column = literal, column <> literal.                                    *)
EqualityFraction(op, cs, other) ==
  LET eq == NonNull(cs) \div cs.ndv IN
  IF other.kind = "null" THEN MinSel
  ELSE IF cs.ndv = 0 THEN Clamped(Times(Defaults.equality, NonNull(cs)))
  ELSE Clamped(IF op = "Equal" THEN eq ELSE NonNull(cs) - eq)

(* column < literal, and the like.                                         *)
InequalityFraction(op, cs, other) ==
  Clamped(Times(NonNull(cs),
                IF other.kind # "number" \/ cs.range = <<>> THEN Defaults.inequality
                ELSE RangeFraction(op, cs.range, other.value)))

Literals == {"number", "text", "null"}

CompareFraction(n, catalog) ==
  LET leftKnown == Known(n.left, catalog)
      column == IF leftKnown THEN n.left ELSE n.right
      other  == IF leftKnown THEN n.right ELSE n.left
      op     == IF leftKnown THEN n.op ELSE Mirror(n.op)
      cs     == StatsFor(column, catalog)
  IN  IF ~Known(column, catalog) \/ other.kind \notin Literals THEN ByClass(n.op)
      ELSE IF n.op \in Equalities THEN EqualityFraction(n.op, cs, other)
      ELSE InequalityFraction(op, cs, other)

NullFraction(n, catalog) ==
  IF ~Known(n.left, catalog) THEN Defaults.unknown
  ELSE LET nulls == Clip(StatsFor(n.left, catalog).nulls, 0, Whole)
       IN  Clamped(IF n.negated THEN Whole - nulls ELSE nulls)

(* The part of the domain from `low' up and from `high' down, less the     *)
(* whole of it: one band, not two independent halves.                      *)
Band(range, low, high) ==
  Clip(RangeFraction("GreaterEqual", range, low)
         + RangeFraction("LessEqual", range, high) - Whole, 0, Whole)

BetweenFraction(n, catalog) ==
  LET cs   == StatsFor(n.left, catalog)
      band == Band(cs.range, n.low.value, n.high.value)
  IN  IF ~Known(n.left, catalog) \/ {n.low.kind, n.high.kind} # {"number"}
      THEN Defaults.inequality
      ELSE Clamped(Times(NonNull(cs),
                         IF cs.range = <<>> THEN Defaults.inequality
                         ELSE IF n.negated THEN Whole - band ELSE band))

(* column IN (..), of n.count values.                                      *)
InListFraction(n, catalog) ==
  IF ~Known(n.left, catalog) \/ StatsFor(n.left, catalog).ndv = 0
  THEN LET s == Clip(Defaults.equality * n.count, 0, Whole)
       IN  Clamped(IF n.negated THEN Whole - s ELSE s)
  ELSE LET cs == StatsFor(n.left, catalog)
           s  == Times(Clip((n.count * Whole) \div cs.ndv, 0, Whole), NonNull(cs))
       IN  Clamped(IF n.negated THEN NonNull(cs) - s ELSE s)
-----------------------------------------------------------------------------
(* AND and OR take their operands to be independent.                       *)
AllOf(fractions) == FoldFunction(Times, Whole, fractions)

(* Seeded defect: an OR keeps what not all of its operands keep.           *)
NoneOfAll(fractions) == AllOf(fractions)
NoneOf(fractions) == AllOf([k \in DOMAIN fractions |-> Whole - fractions[k]])

NodeFraction(n, kids, catalog) ==
  CASE n.kind = "and"     -> Clamped(AllOf(kids))
    [] n.kind = "or"      -> Clamped(Whole - NoneOf(kids))
    [] n.kind = "not"     -> Clamped(Whole - kids[1])
    [] n.kind = "compare" -> CompareFraction(n, catalog)
    [] n.kind = "isNull"  -> NullFraction(n, catalog)
    [] n.kind = "between" -> BetweenFraction(n, catalog)
    [] n.kind = "inList"  -> InListFraction(n, catalog)
    [] OTHER              -> Defaults.unknown

SelectivityOf(pred, catalog) ==
  LET fraction[i \in DOMAIN pred] ==
        NodeFraction(pred[i], [k \in DOMAIN pred[i].kids |-> fraction[pred[i].kids[k]]],
                     catalog)
  IN  IF pred = <<>> THEN Whole ELSE fraction[Len(pred)]
-----------------------------------------------------------------------------
(* How many groups these keys make; 0 when a key's count is not known.     *)
DistinctGroups(keys, rows, catalog) ==
  LET ndvOf(x) == IF Known(x, catalog) THEN StatsFor(x, catalog).ndv ELSE 0
      groups   == FoldFunction(LAMBDA a, b : a * b, 1, [k \in DOMAIN keys |-> ndvOf(keys[k])])
  IN  IF keys = <<>> THEN 0 ELSE IF rows > 0 THEN Least(groups, rows) ELSE groups

(* The distinct values of a join key's column; 0 when not known.           *)
KeyNdv(x, catalog) ==
  IF ~Known(x, catalog) THEN 0
  ELSE LET cs == StatsFor(x, catalog) table == x.column[1] IN
       IF cs.ndv > 0 THEN cs.ndv
       ELSE IF cs.unique /\ table \in DOMAIN catalog.rows THEN catalog.rows[table] ELSE 0

(* Of several keys only the first is looked up.                            *)
JoinKeyNdv(keys, catalog) ==
  IF keys = <<>> THEN [left |-> 0, right |-> 0]
  ELSE [left |-> KeyNdv(keys[1].left, catalog), right |-> KeyNdv(keys[1].right, catalog)]
=============================================================================
