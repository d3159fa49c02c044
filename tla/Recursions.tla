----------------------------- MODULE Recursions -----------------------------
(***************************************************************************)
(* Induction without an operator to instantiate: of the numbers that have  *)
(* a property there is a least one.  With it, the recursive functions of   *)
(* the models exist, on naturals and along lists, and what flattening and  *)
(* selecting yield can be said.                                            *)
(***************************************************************************)
EXTENDS Integers, Selections, SequenceTheorems, NaturalsInduction, WellFoundedInduction, TLAPS

(* A set of naturals that is not empty has a least element. *)
LEMMA LeastNatural ==
  ASSUME NEW T \in SUBSET Nat, T # {}
  PROVE  \E n \in T : \A m \in T : n <= m
  <1> DEFINE R == {pair \in Nat \X Nat : pair[1] < pair[2]}
  <1>1. IsWellFoundedOn(R, Nat)
    BY NatLessThanWellFounded DEF OpToRel
  <1>2. PICK n \in T : \A m \in T : <<m, n>> \notin R
    <2> HIDE DEF R
    <2> QED
      BY <1>1, WFMin
  <1>3. \A m \in T : m < n => <<m, n>> \in R
    OBVIOUS
  <1>4. \A m \in T : ~(m < n)
    BY <1>2, <1>3
  <1> HIDE DEF R
  <1> QED
    BY <1>4

(* What holds of a number whenever it holds of all before it, holds of all. *)
LEMMA StrongInduction ==
  ASSUME NEW lo \in Nat, NEW n \in Nat, NEW T,
         \A k \in lo..n : (\A j \in lo..(k - 1) : j \in T) => k \in T
  PROVE  \A k \in lo..n : k \in T
  <1> DEFINE Rest == {k \in lo..n : k \notin T}
  <1>1. ASSUME Rest # {} PROVE FALSE
    <2>1. Rest \in SUBSET Nat
      OBVIOUS
    <2>2. PICK k \in Rest : \A j \in Rest : k <= j
      <3> HIDE DEF Rest
      <3> QED
        BY <1>1, <2>1, LeastNatural
    <2>3. k \in lo..n /\ k \notin T
      OBVIOUS
    <2>4. ASSUME NEW j \in lo..(k - 1) PROVE j \in T
      <3>1. j \in lo..n /\ ~(k <= j)
        BY <2>3
      <3>2. j \notin Rest
        BY <2>2, <3>1
      <3> QED
        BY <3>1, <3>2
    <2> QED
      BY <2>3, <2>4
  <1> QED
    BY <1>1

(* A recursive function exists where each value is given by the earlier.   *)
GivenByEarlier(Step, D, V) ==
  /\ \A k \in D : \A h \in [D -> V] : Step[k][h] \in V
  /\ \A k \in D : \A g, h \in [D -> V] :
       (\A j \in D : j < k => g[j] = h[j]) => Step[k][g] = Step[k][h]

Solves(f, Step, D, V) == f \in [D -> V] /\ \A k \in D : f[k] = Step[k][f]

LEMMA Recursion ==
  ASSUME NEW lo \in Nat, NEW n \in Nat, NEW V, NEW v0 \in V, NEW Step,
         GivenByEarlier(Step, lo..n, V)
  PROVE  \E f : Solves(f, Step, lo..n, V)
  <1> DEFINE Right(f, m) == \A k \in lo..m : f[k] = Step[k][f]
             T == {m \in lo..n : \E f \in [lo..n -> V] : Right(f, m)}
             none == [k \in lo..n |-> v0]
  <1>1. none \in [lo..n -> V]
    OBVIOUS
  <1>2. ASSUME NEW m \in lo..n, \A j \in lo..(m - 1) : j \in T
        PROVE  m \in T
    <2>1. PICK f \in [lo..n -> V] : Right(f, m - 1)
      <3>1. CASE m = lo
        <4>1. Right(none, m - 1)
          BY <3>1
        <4> HIDE DEF none, Right
        <4> QED
          BY <1>1, <4>1
      <3>2. CASE m # lo
        <4>1. m - 1 \in lo..(m - 1)
          BY <3>2
        <4>2. m - 1 \in T
          BY <1>2, <4>1
        <4> QED
          BY <4>2
      <3> QED
        BY <3>1, <3>2
    <2> DEFINE h == [f EXCEPT ![m] = Step[m][f]]
    <2>2. Step[m][f] \in V
      BY DEF GivenByEarlier
    <2>3. /\ h \in [lo..n -> V] /\ h[m] = Step[m][f]
          /\ \A k \in lo..(m - 1) : h[k] = f[k]
      BY <2>2
    <2>4. ASSUME NEW k \in lo..m PROVE h[k] = Step[k][h]
      <3> HIDE DEF h
      <3>1. k \in lo..n /\ \A j \in lo..(k - 1) : j \in lo..(m - 1)
        OBVIOUS
      <3>2. \A j \in lo..n : j < k => f[j] = h[j]
        BY <2>3, <3>1
      <3>3. Step[k][f] = Step[k][h]
        BY <2>3, <3>1, <3>2 DEF GivenByEarlier
      <3>4. CASE k = m
        BY <2>3, <3>3, <3>4
      <3>5. CASE k # m
        <4>1. k \in lo..(m - 1)
          BY <3>5
        <4> QED
          BY <2>1, <2>3, <3>3, <4>1
      <3> QED
        BY <3>4, <3>5
    <2>5. Right(h, m)
      BY <2>4
    <2> HIDE DEF h, Right
    <2> QED
      BY <2>3, <2>5
  <1>3. \A k \in lo..n : k \in T
    <2> HIDE DEF T
    <2> QED
      BY <1>2, StrongInduction
  <1>4. CASE lo <= n
    <2>1. n \in T
      <3> HIDE DEF T
      <3> QED
        BY <1>3, <1>4
    <2>2. PICK f \in [lo..n -> V] : Right(f, n)
      BY <2>1
    <2> QED
      BY <2>2 DEF Solves
  <1>5. CASE ~(lo <= n)
    <2>1. \A k : k \notin lo..n
      BY <1>5
    <2> HIDE DEF none
    <2> QED
      BY <1>1, <2>1 DEF Solves
  <1> QED
    BY <1>4, <1>5

(* So does one where each value is given by the one before.                *)
Within(Step, D, V) == \A k \in D : \A v \in V : Step[k][v] \in V

Iterates(f, Step, lo, n, first, V) ==
  /\ f \in [lo..n -> V]
  /\ \A k \in lo..n : f[k] = IF k = lo THEN first ELSE Step[k][f[k - 1]]

LEMMA Iteration ==
  ASSUME NEW lo \in Nat, NEW n \in Nat, NEW V, NEW first \in V, NEW Step,
         Within(Step, lo..n, V)
  PROVE  \E f : Iterates(f, Step, lo, n, first, V)
  <1> DEFINE D == lo..n
             Value(k, h) == IF k = lo THEN first ELSE Step[k][h[k - 1]]
             Steps == [k \in D |-> [h \in [D -> V] |-> Value(k, h)]]
  <1>1. ASSUME NEW k \in D PROVE k # lo => k - 1 \in D /\ k - 1 < k
    OBVIOUS
  <1>2. ASSUME NEW k \in D, NEW h \in [D -> V]
        PROVE  Value(k, h) \in V /\ Steps[k][h] = Value(k, h)
    <2>1. Steps[k][h] = Value(k, h)
      OBVIOUS
    <2>2. k # lo => h[k - 1] \in V
      <3> HIDE DEF D
      <3> QED
        BY <1>1
    <2>3. k # lo => Step[k][h[k - 1]] \in V
      BY <2>2 DEF Within
    <2> QED
      BY <2>1, <2>3
  <1>3. ASSUME NEW k \in D, NEW g \in [D -> V], NEW h \in [D -> V],
               \A j \in D : j < k => g[j] = h[j]
        PROVE  Steps[k][g] = Steps[k][h]
    <2>1. Value(k, g) = Value(k, h)
      <3> HIDE DEF D
      <3> QED
        BY <1>1, <1>3
    <2> HIDE DEF Value, Steps, D
    <2> QED
      BY <1>2, <2>1
  <1>4. GivenByEarlier(Steps, D, V)
    <2> HIDE DEF Value, Steps, D
    <2> QED
      BY <1>2, <1>3 DEF GivenByEarlier
  <1>5. PICK f : Solves(f, Steps, D, V)
    <2> HIDE DEF Steps
    <2> QED
      BY <1>4, Recursion
  <1>6. f \in [D -> V] /\ \A k \in D : f[k] = Value(k, f)
    <2> HIDE DEF Value, Steps, D
    <2> QED
      BY <1>2, <1>5 DEF Solves
  <1> QED
    BY <1>6 DEF Iterates
-----------------------------------------------------------------------------
(* Lists.                                                                  *)

(* Flattening a list of lists, one after the other.                        *)
FlattensTo(f, ss) ==
  /\ f[0] = <<>>
  /\ \A k \in 1..Len(ss) : f[k] = f[k - 1] \o ss[k]
  /\ f[Len(ss)] = FlattenSeq(ss)

LEMMA FlattenRun ==
  ASSUME NEW S, NEW ss \in Seq(Seq(S))
  PROVE  \E f \in [0..Len(ss) -> Seq(S)] : FlattensTo(f, ss)
  <1> DEFINE n == Len(ss)
  <1>1. n \in Nat /\ \A k \in 1..n : ss[k] \in Seq(S)
    BY LenProperties
  <1>2. CASE n = 0
    <2> DEFINE f == [k \in 0..n |-> <<>>]
    <2>1. ss = <<>> /\ FlattenSeq(ss) = <<>>
      BY <1>2, EmptySeq DEF FlattenSeq
    <2>2. f \in [0..n -> Seq(S)]
      BY EmptySeq
    <2>3. f[0] = <<>> /\ f[n] = <<>>
      BY <1>2
    <2>4. FlattensTo(f, ss)
      BY <1>2, <2>1, <2>3 DEF FlattensTo
    <2> QED
      BY <2>2, <2>4
  <1>3. CASE n # 0
    <2> DEFINE Step == [k \in 1..n |-> [x \in Seq(S) |-> x \o ss[k]]]
               Is(g) == g = [i \in 1..n |-> IF i = 1 THEN ss[i] ELSE g[i - 1] \o ss[i]]
               F == CHOOSE g : Is(g)
    <2>1. ASSUME NEW k \in 1..n, NEW x \in Seq(S)
          PROVE  Step[k][x] = x \o ss[k] /\ Step[k][x] \in Seq(S)
      BY <1>1, ConcatProperties
    <2>2. ss[1] \in Seq(S)
      BY <1>1, <1>3
    <2>3. PICK p : Iterates(p, Step, 1, n, ss[1], Seq(S))
      <3> HIDE DEF Step, n
      <3>1. Within(Step, 1..n, Seq(S))
        BY <2>1 DEF Within
      <3> QED
        BY <1>1, <2>2, <3>1, Iteration
    <2>4. /\ p \in [1..n -> Seq(S)]
          /\ \A k \in 1..n : p[k] = IF k = 1 THEN ss[1] ELSE Step[k][p[k - 1]]
      BY <2>3 DEF Iterates
    <2>5. ASSUME NEW k \in 1..n, k # 1 PROVE Step[k][p[k - 1]] = p[k - 1] \o ss[k]
      <3> HIDE DEF Step, n, F
      <3>1. k - 1 \in 1..n
        BY <1>1, <2>5
      <3>2. p[k - 1] \in Seq(S)
        BY <2>4, <3>1
      <3> QED
        BY <2>1, <3>2
    <2>6. Is(p)
      <3> HIDE DEF n, Step
      <3> QED
        BY <2>5, <2>4
    <2>7. Is(F)
      <3> HIDE DEF Is
      <3> QED
        BY <2>6
    <2>8. FlattenSeq(ss) = F[n]
      BY <1>3 DEF FlattenSeq
    <2>9. \A k \in 1..n : F[k] = IF k = 1 THEN ss[k] ELSE F[k - 1] \o ss[k]
      <3> HIDE DEF F
      <3> QED
        BY <2>7
    <2> HIDE DEF F
    <2> DEFINE T == {k \in 1..n : F[k] \in Seq(S)}
    <2>10. ASSUME NEW k \in 1..n, \A j \in 1..(k - 1) : j \in T PROVE k \in T
      <3>1. k # 1 => F[k - 1] \in Seq(S)
        BY <1>1, <2>10
      <3>2. F[k] \in Seq(S)
        BY <1>1, <2>9, <3>1, ConcatProperties
      <3> QED
        BY <3>2
    <2>11. \A k \in 1..n : k \in T
      <3> HIDE DEF T
      <3> QED
        BY <1>1, <2>10, StrongInduction
    <2> DEFINE f == [k \in 0..n |-> IF k = 0 THEN <<>> ELSE F[k]]
    <2>12. \A k \in 1..n : F[k] \in Seq(S)
      BY <2>11
    <2>13. f \in [0..n -> Seq(S)]
      BY <1>1, <2>12, EmptySeq
    <2>14. ASSUME NEW k \in 1..n PROVE f[k] = f[k - 1] \o ss[k]
      <3>1. f[k] = F[k] /\ f[k - 1] = IF k = 1 THEN <<>> ELSE F[k - 1]
        BY <1>1
      <3>2. <<>> \o ss[k] = ss[k]
        BY <1>1, ConcatEmptySeq
      <3> HIDE DEF f
      <3> QED
        BY <2>9, <3>1, <3>2
    <2>15. f[0] = <<>> /\ f[n] = FlattenSeq(ss)
      BY <1>1, <1>3, <2>8
    <2>16. FlattensTo(f, ss)
      <3> HIDE DEF f
      <3> QED
        BY <2>14, <2>15 DEF FlattensTo
    <2> HIDE DEF f
    <2> QED
      BY <2>13, <2>16
  <1> QED
    BY <1>2, <1>3

LEMMA FlattenType ==
  ASSUME NEW S, NEW ss \in Seq(Seq(S))
  PROVE  FlattenSeq(ss) \in Seq(S)
  <1>1. PICK f \in [0..Len(ss) -> Seq(S)] : FlattensTo(f, ss)
    BY FlattenRun
  <1> QED
    BY <1>1, LenProperties DEF FlattensTo

LEMMA FlattenFun ==
  ASSUME NEW S, NEW n \in Nat, NEW f \in [1..n -> Seq(S)]
  PROVE  FlattenSeq(f) \in Seq(S)
  <1>1. f \in Seq(Seq(S))
    OBVIOUS
  <1> QED
    BY <1>1, FlattenType

(* The elements of two lists, one after the other.                         *)
LEMMA ConcatElements ==
  ASSUME NEW S, NEW s \in Seq(S), NEW t \in Seq(S)
  PROVE  /\ Range(s \o t) = Range(s) \cup Range(t)
         /\ IsInjective(s) /\ IsInjective(t) /\ Range(s) \cap Range(t) = {}
              => IsInjective(s \o t)
  <1>1. PICK a \in Nat, b \in Nat : a = Len(s) /\ b = Len(t)
    BY LenProperties
  <1>2. DOMAIN s = 1..a /\ DOMAIN t = 1..b
    BY <1>1, LenProperties
  <1> DEFINE c == s \o t
  <1>3. /\ c \in Seq(S) /\ DOMAIN c = 1..(a + b)
        /\ \A i \in 1..(a + b) : c[i] = IF i <= a THEN s[i] ELSE t[i - a]
    BY <1>1, ConcatProperties, LenProperties
  <1> HIDE DEF c
  <1>4. ASSUME NEW i \in 1..(a + b)
        PROVE  \/ i \in 1..a /\ c[i] = s[i]
               \/ i - a \in 1..b /\ c[i] = t[i - a] /\ i \notin 1..a
    BY <1>1, <1>3
  <1>5. ASSUME NEW i \in 1..a PROVE i \in 1..(a + b) /\ c[i] = s[i]
    BY <1>1, <1>3
  <1>6. ASSUME NEW j \in 1..b PROVE a + j \in 1..(a + b) /\ c[a + j] = t[j]
    <2>1. a + j \in 1..(a + b) /\ ~(a + j <= a) /\ (a + j) - a = j
      BY <1>1
    <2> QED
      BY <1>3, <2>1
  <1>7. Range(c) = Range(s) \cup Range(t)
    <2>1. ASSUME NEW i \in DOMAIN c PROVE c[i] \in Range(s) \cup Range(t)
      <3>1. i \in 1..(a + b)
        BY <1>3
      <3> QED
        BY <1>2, <1>4, <3>1 DEF Range
    <2>2. ASSUME NEW i \in DOMAIN s PROVE s[i] \in Range(c)
      <3>1. i \in DOMAIN c /\ c[i] = s[i]
        BY <1>2, <1>3, <1>5
      <3> QED
        BY <3>1 DEF Range
    <2>3. ASSUME NEW j \in DOMAIN t PROVE t[j] \in Range(c)
      <3>1. a + j \in DOMAIN c /\ c[a + j] = t[j]
        BY <1>2, <1>3, <1>6
      <3> DEFINE k == a + j
      <3> HIDE DEF k
      <3> QED
        BY <3>1 DEF Range, k
    <2> QED
      BY <2>1, <2>2, <2>3 DEF Range
  <1>8. ASSUME IsInjective(s), IsInjective(t), Range(s) \cap Range(t) = {}
        PROVE  IsInjective(c)
    <2> SUFFICES ASSUME NEW i \in 1..(a + b), NEW j \in 1..(a + b), c[i] = c[j]
                 PROVE  i = j
      BY <1>3 DEF IsInjective
    <2>1. CASE i \in 1..a /\ j \in 1..a
      BY <1>2, <1>5, <1>8, <2>1 DEF IsInjective
    <2>2. CASE i \notin 1..a /\ j \notin 1..a
      <3>1. i - a \in 1..b /\ j - a \in 1..b /\ t[i - a] = t[j - a]
        BY <1>4, <2>2
      <3>2. i - a = j - a
        BY <1>2, <1>8, <3>1 DEF IsInjective
      <3> QED
        BY <1>1, <3>2
    <2>3. CASE (i \in 1..a) # (j \in 1..a)
      <3>1. ASSUME NEW m \in 1..(a + b)
            PROVE  IF m \in 1..a THEN c[m] \in Range(s) ELSE c[m] \in Range(t)
        BY <1>2, <1>4 DEF Range
      <3>2. c[i] \in Range(s) /\ c[i] \in Range(t)
        BY <2>3, <3>1
      <3> QED
        BY <1>8, <3>2
    <2> QED
      BY <2>1, <2>2, <2>3
  <1> QED
    BY <1>7, <1>8 DEF c

LEMMA AppendElements ==
  ASSUME NEW S, NEW s \in Seq(S), NEW e \in S
  PROVE  /\ Range(Append(s, e)) = Range(s) \cup {e}
         /\ IsInjective(s) /\ e \notin Range(s) => IsInjective(Append(s, e))
  <1> DEFINE t == <<e>>
  <1>1. t \in Seq(S) /\ Append(s, e) = s \o t
    BY AppendIsConcat
  <1>2. Range(t) = {e} /\ IsInjective(t)
    BY DEF Range, IsInjective
  <1> HIDE DEF t
  <1> QED
    BY <1>1, <1>2, ConcatElements

(* A flat list has the elements of its lists, and each only once if each   *)
(* list has and no two share any.                                          *)
LEMMA FlattenElements ==
  ASSUME NEW S, NEW ss \in Seq(Seq(S))
  PROVE  LET flat == FlattenSeq(ss) IN
         /\ flat \in Seq(S)
         /\ Range(flat) = UNION {Range(ss[k]) : k \in 1..Len(ss)}
         /\ /\ \A k \in 1..Len(ss) : IsInjective(ss[k])
            /\ \A j, k \in 1..Len(ss) : j < k => Range(ss[j]) \cap Range(ss[k]) = {}
            => IsInjective(flat)
  <1> DEFINE n == Len(ss)
             Apart == /\ \A k \in 1..n : IsInjective(ss[k])
                      /\ \A j, k \in 1..n : j < k => Range(ss[j]) \cap Range(ss[k]) = {}
             Upto(k) == UNION {Range(ss[j]) : j \in 1..k}
  <1>1. n \in Nat /\ \A k \in 1..n : ss[k] \in Seq(S)
    BY LenProperties
  <1>2. PICK f \in [0..n -> Seq(S)] : FlattensTo(f, ss)
    BY FlattenRun
  <1>3. /\ f[0] = <<>> /\ f[n] = FlattenSeq(ss)
        /\ \A k \in 1..n : f[k] = f[k - 1] \o ss[k]
    BY <1>2 DEF FlattensTo
  <1> DEFINE T == {k \in 0..n : Range(f[k]) = Upto(k) /\ (Apart => IsInjective(f[k]))}
  <1> HIDE DEF n
  <1>4. ASSUME NEW k \in 0..n, \A j \in 0..(k - 1) : j \in T PROVE k \in T
    <2>1. CASE k = 0
      <3>1. Range(<<>>) = {} /\ IsInjective(<<>>)
        BY DEF Range, IsInjective
      <3>2. Upto(k) = {}
        BY <2>1
      <3> HIDE DEF Upto, Apart
      <3> QED
        BY <1>3, <2>1, <3>1, <3>2
    <2>2. CASE k # 0
      <3>1. k \in 1..n /\ k - 1 \in 0..(k - 1) /\ k - 1 \in 0..n
        BY <1>1, <2>2
      <3>2. /\ Range(f[k - 1]) = Upto(k - 1) /\ (Apart => IsInjective(f[k - 1]))
            /\ f[k - 1] \in Seq(S)
        BY <1>2, <1>4, <3>1
      <3>3. Upto(k) = Upto(k - 1) \cup Range(ss[k])
        <4>1. \A j \in 1..k : j \in 1..(k - 1) \/ j = k
          BY <1>1, <3>1
        <4>2. k \in 1..k /\ \A j \in 1..(k - 1) : j \in 1..k
          BY <1>1, <3>1
        <4> QED
          BY <4>1, <4>2
      <3>4. Apart => IsInjective(ss[k]) /\ Upto(k - 1) \cap Range(ss[k]) = {}
        <4>1. \A j \in 1..(k - 1) : j \in 1..n /\ j < k
          BY <1>1, <3>1
        <4> QED
          BY <3>1, <4>1
      <3> HIDE DEF Upto, Apart
      <3>5. /\ Range(f[k - 1] \o ss[k]) = Range(f[k - 1]) \cup Range(ss[k])
            /\ /\ IsInjective(f[k - 1]) /\ IsInjective(ss[k])
               /\ Range(f[k - 1]) \cap Range(ss[k]) = {}
               => IsInjective(f[k - 1] \o ss[k])
        <4> DEFINE s == f[k - 1]
                   t == ss[k]
        <4>1. s \in Seq(S) /\ t \in Seq(S)
          BY <1>1, <3>1, <3>2
        <4> HIDE DEF s, t
        <4>2. /\ Range(s \o t) = Range(s) \cup Range(t)
              /\ IsInjective(s) /\ IsInjective(t) /\ Range(s) \cap Range(t) = {}
                   => IsInjective(s \o t)
          BY <4>1, ConcatElements
        <4> QED
          BY <4>2 DEF s, t
      <3> QED
        BY <1>3, <3>1, <3>2, <3>3, <3>4, <3>5
    <2> QED
      BY <2>1, <2>2
  <1>5. \A k \in 0..n : k \in T
    <2> HIDE DEF T
    <2> QED
      BY <1>1, <1>4, StrongInduction
  <1>6. n \in 0..n
    BY <1>1
  <1> HIDE DEF Apart, Upto
  <1>7. /\ FlattenSeq(ss) \in Seq(S) /\ Range(FlattenSeq(ss)) = Upto(n)
        /\ Apart => IsInjective(FlattenSeq(ss))
    BY <1>2, <1>3, <1>5, <1>6
  <1> QED
    BY <1>7 DEF n, Apart, Upto

(* Keeping the elements of a list that pass, one after the other.          *)
KeepsTo(f, s, passes) ==
  /\ f[0] = <<>>
  /\ \A k \in 1..Len(s) : f[k] = IF passes[k] THEN Append(f[k - 1], s[k]) ELSE f[k - 1]
  /\ f[Len(s)] = Kept(s, passes)

LEMMA KeptRun ==
  ASSUME NEW T, NEW s, NEW passes, Len(s) \in Nat,
         \A i \in 1..Len(s) : passes[i] => s[i] \in T
  PROVE  \E f \in [0..Len(s) -> Seq(T)] : KeepsTo(f, s, passes)
  <1> DEFINE n == Len(s)
             Step == [k \in 0..n |-> [x \in Seq(T) |->
                        IF k # 0 /\ passes[k] THEN Append(x, s[k]) ELSE x]]
             Is(g) == g = [i \in 0..n |->
                        IF i = 0 THEN <<>>
                        ELSE IF passes[i] THEN Append(g[i - 1], s[i]) ELSE g[i - 1]]
             F == CHOOSE g : Is(g)
  <1>1. ASSUME NEW k \in 0..n, NEW x \in Seq(T)
        PROVE  /\ Step[k][x] = IF k # 0 /\ passes[k] THEN Append(x, s[k]) ELSE x
               /\ Step[k][x] \in Seq(T)
    <2>1. k # 0 => k \in 1..n
      OBVIOUS
    <2> QED
      BY <2>1, AppendProperties
  <1>2. PICK p : Iterates(p, Step, 0, n, <<>>, Seq(T))
    <2> HIDE DEF Step, n
    <2>1. Within(Step, 0..n, Seq(T))
      BY <1>1 DEF Within
    <2>2. <<>> \in Seq(T) /\ n \in Nat
      BY EmptySeq DEF n
    <2> QED
      BY <2>1, <2>2, Iteration
  <1>3. /\ p \in [0..n -> Seq(T)]
        /\ \A k \in 0..n : p[k] = IF k = 0 THEN <<>> ELSE Step[k][p[k - 1]]
    BY <1>2 DEF Iterates
  <1>4. ASSUME NEW k \in 0..n, k # 0
        PROVE  Step[k][p[k - 1]] = IF passes[k] THEN Append(p[k - 1], s[k]) ELSE p[k - 1]
    <2> HIDE DEF Step, n, F
    <2>1. k - 1 \in 0..n
      BY <1>4 DEF n
    <2>2. p[k - 1] \in Seq(T)
      BY <1>3, <2>1
    <2> QED
      BY <1>1, <1>4, <2>2
  <1>5. Is(p)
    <2> HIDE DEF n, Step
    <2> QED
      BY <1>3, <1>4
  <1>6. Is(F)
    <2> HIDE DEF Is
    <2> QED
      BY <1>5
  <1>7. Kept(s, passes) = F[n]
    BY DEF Kept
  <1>8. \A k \in 0..n : F[k] = IF k = 0 THEN <<>>
                               ELSE IF passes[k] THEN Append(F[k - 1], s[k]) ELSE F[k - 1]
    <2> HIDE DEF F
    <2> QED
      BY <1>6
  <1> HIDE DEF F
  <1> DEFINE Right == {k \in 0..n : F[k] \in Seq(T)}
  <1>9. ASSUME NEW k \in 0..n, \A j \in 0..(k - 1) : j \in Right PROVE k \in Right
    <2>1. k # 0 => k \in 1..n /\ F[k - 1] \in Seq(T)
      BY <1>9
    <2> DEFINE x == F[k - 1]
    <2>2. CASE k = 0
      <3>1. F[k] = <<>>
        BY <1>8, <2>2
      <3> QED
        BY <3>1, EmptySeq
    <2>3. CASE k # 0 /\ passes[k]
      <3>1. F[k] = Append(x, s[k])
        BY <1>8, <2>3
      <3>2. x \in Seq(T) /\ s[k] \in T
        BY <2>1, <2>3
      <3> HIDE DEF x
      <3>3. Append(x, s[k]) \in Seq(T)
        BY <3>2, AppendProperties
      <3> QED
        BY <3>1, <3>3
    <2>4. CASE k # 0 /\ ~passes[k]
      <3>1. F[k] = x
        BY <1>8, <2>4
      <3> QED
        BY <2>1, <2>4, <3>1
    <2> QED
      BY <2>2, <2>3, <2>4
  <1>10. \A k \in 0..n : k \in Right
    <2> HIDE DEF Right
    <2> QED
      BY <1>9, StrongInduction
  <1> DEFINE f == [k \in 0..n |-> F[k]]
  <1>11. \A k \in 0..n : F[k] \in Seq(T)
    BY <1>10
  <1>12. f \in [0..n -> Seq(T)] /\ \A k \in 0..n : f[k] = F[k]
    <2> HIDE DEF n
    <2> QED
      BY <1>11
  <1>13. ASSUME NEW k \in 1..n
         PROVE  f[k] = IF passes[k] THEN Append(f[k - 1], s[k]) ELSE f[k - 1]
    <2>1. k \in 0..n /\ k - 1 \in 0..n /\ k # 0
      BY DEF n
    <2> HIDE DEF f, n
    <2> QED
      BY <1>8, <1>12, <2>1
  <1>14. f[0] = <<>> /\ f[n] = Kept(s, passes)
    <2>1. 0 \in 0..n /\ n \in 0..n
      BY DEF n
    <2> HIDE DEF f, n
    <2> QED
      BY <1>7, <1>8, <1>12, <2>1
  <1>15. KeepsTo(f, s, passes)
    <2> HIDE DEF f
    <2> QED
      BY <1>13, <1>14 DEF KeepsTo
  <1> HIDE DEF f
  <1> QED
    BY <1>12, <1>15

(* What is kept of a list is of the kind that passes.                      *)
LEMMA KeptType ==
  ASSUME NEW T, NEW s, NEW passes, Len(s) \in Nat,
         \A i \in 1..Len(s) : passes[i] => s[i] \in T
  PROVE  Kept(s, passes) \in Seq(T)
  <1>1. PICK f \in [0..Len(s) -> Seq(T)] : KeepsTo(f, s, passes)
    BY KeptRun
  <1>2. Len(s) \in 0..Len(s)
    OBVIOUS
  <1> QED
    BY <1>1, <1>2 DEF KeepsTo

(* Of the positions of a list, those that pass are kept in their order.    *)
LEMMA KeptPositions ==
  ASSUME NEW n \in Nat, NEW passes
  PROVE  LET kept == Kept([i \in 1..n |-> i], passes)
         IN  /\ kept \in Seq(1..n)
             /\ \A i \in 1..Len(kept) : passes[kept[i]]
             /\ \A m \in 1..n : passes[m] => \E i \in 1..Len(kept) : kept[i] = m
             /\ \A i, j \in 1..Len(kept) : i < j => kept[i] < kept[j]
  <1> DEFINE s == [i \in 1..n |-> i]
             kept == Kept(s, passes)
             Upto(k, r) ==
               /\ \A i \in 1..Len(r) : passes[r[i]] /\ r[i] <= k
               /\ \A m \in 1..k : passes[m] => \E i \in 1..Len(r) : r[i] = m
               /\ \A i, j \in 1..Len(r) : i < j => r[i] < r[j]
  <1>1. s \in Seq(1..n) /\ Len(s) = n /\ \A i \in 1..n : s[i] = i
    OBVIOUS
  <1> HIDE DEF s
  <1>2. PICK f \in [0..n -> Seq(1..n)] : KeepsTo(f, s, passes)
    BY <1>1, KeptRun
  <1>3. /\ f[0] = <<>> /\ f[n] = kept
        /\ \A k \in 1..n : f[k] = IF passes[k] THEN Append(f[k - 1], k) ELSE f[k - 1]
    BY <1>1, <1>2 DEF KeepsTo
  <1> HIDE DEF kept
  <1> DEFINE T == {k \in 0..n : Upto(k, f[k])}
  <1>4. ASSUME NEW k \in 0..n, \A j \in 0..(k - 1) : j \in T PROVE k \in T
    <2>1. CASE k = 0
      <3>1. Upto(k, <<>>)
        BY <2>1
      <3> QED
        BY <1>3, <2>1, <3>1
    <2>2. CASE k # 0
      <3> DEFINE r == f[k - 1]
      <3>1. k \in 1..n /\ k - 1 \in 0..(k - 1) /\ k - 1 \in 0..n
        BY <2>2
      <3>2. Upto(k - 1, r) /\ r \in Seq(1..n)
        BY <1>2, <1>4, <3>1
      <3>3. f[k] = IF passes[k] THEN Append(r, k) ELSE r
        BY <1>3, <3>1
      <3> HIDE DEF r
      <3>4. CASE ~passes[k]
        <4>1. \A m \in 1..k : passes[m] => m \in 1..(k - 1)
          BY <3>1, <3>4
        <4>2. Upto(k, r)
          BY <3>1, <3>2, <4>1
        <4> QED
          BY <3>3, <3>4, <4>2
      <3>5. CASE passes[k]
        <4> DEFINE x == Append(r, k)
        <4>0. PICK l \in Nat : /\ l = Len(r) /\ l + 1 = Len(x) /\ x[l + 1] = k
                               /\ \A i \in 1..l : x[i] = r[i] /\ r[i] \in 1..n
          <5>1. /\ Len(x) = Len(r) + 1 /\ Len(r) \in Nat /\ x[Len(r) + 1] = k
                /\ \A i \in 1..Len(r) : x[i] = r[i] /\ r[i] \in 1..n
            BY <3>1, <3>2, AppendProperties
          <5> WITNESS Len(r) \in Nat
          <5> QED
            BY <5>1
        <4> HIDE DEF x
        <4>1. /\ DOMAIN r = 1..l /\ 1..Len(r) = 1..l /\ 1..Len(x) = 1..(l + 1)
              /\ l + 1 \in 1..(l + 1)
              /\ \A i \in 1..(l + 1) : i \in 1..l \/ i = l + 1
              /\ \A i \in 1..l : i \in 1..(l + 1)
          BY <3>2, <4>0
        <4>3. \A i \in 1..Len(x) : passes[x[i]] /\ x[i] <= k
          <5> SUFFICES ASSUME NEW i \in 1..(l + 1) PROVE passes[x[i]] /\ x[i] <= k
            BY <4>1
          <5>1. CASE i \in 1..l
            <6>1. passes[r[i]] /\ r[i] <= k - 1
              BY <3>2, <4>1, <5>1
            <6>2. x[i] = r[i] /\ r[i] \in Int
              BY <4>0, <5>1
            <6> QED
              BY <3>1, <6>1, <6>2
          <5>2. CASE i = l + 1
            BY <3>5, <4>0, <5>2
          <5> QED
            BY <4>1, <5>1, <5>2
        <4>4. \A m \in 1..k : passes[m] => \E i \in 1..Len(x) : x[i] = m
          <5> SUFFICES ASSUME NEW m \in 1..k, passes[m]
                       PROVE  \E i \in 1..Len(x) : x[i] = m
            OBVIOUS
          <5>1. CASE m = k
            BY <4>0, <4>1, <5>1
          <5>2. CASE m # k
            <6>1. m \in 1..(k - 1)
              BY <3>1, <5>2
            <6>2. PICK i \in 1..l : r[i] = m
              BY <3>2, <4>1, <6>1
            <6> QED
              BY <4>0, <4>1, <6>2
          <5> QED
            BY <5>1, <5>2
        <4>5. \A i, j \in 1..Len(x) : i < j => x[i] < x[j]
          <5> SUFFICES ASSUME NEW i \in 1..(l + 1), NEW j \in 1..(l + 1), i < j
                       PROVE  x[i] < x[j]
            BY <4>1
          <5>1. i \in 1..l
            BY <4>0
          <5>2. CASE j \in 1..l
            <6>1. r[i] < r[j]
              BY <3>2, <4>1, <5>1, <5>2
            <6> QED
              BY <4>0, <5>1, <5>2, <6>1
          <5>3. CASE j = l + 1
            <6>1. r[i] <= k - 1 /\ r[i] \in Int
              BY <3>2, <4>0, <4>1, <5>1
            <6>2. x[i] = r[i] /\ x[j] = k
              BY <4>0, <5>1, <5>3
            <6> QED
              BY <3>1, <6>1, <6>2
          <5> QED
            BY <4>1, <5>2, <5>3
        <4>6. Upto(k, x)
          BY <4>3, <4>4, <4>5
        <4> HIDE DEF Upto
        <4> QED
          BY <3>3, <3>5, <4>6 DEF x
      <3> QED
        BY <3>4, <3>5
    <2> QED
      BY <2>1, <2>2
  <1>5. \A k \in 0..n : k \in T
    <2> HIDE DEF T
    <2> QED
      BY <1>4, StrongInduction
  <1>6. kept \in Seq(1..n) /\ Upto(n, kept)
    <2>1. n \in 0..n
      OBVIOUS
    <2> HIDE DEF Upto
    <2> QED
      BY <1>2, <1>3, <1>5, <2>1
  <1> QED
    BY <1>6 DEF kept, s
=============================================================================
