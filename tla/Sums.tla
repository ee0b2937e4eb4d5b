-------------------------------- MODULE Sums --------------------------------
(***************************************************************************)
(* Lemmas about the sums of Functions.tla, SumFunction, over any finite    *)
(* set, about counting in orders, and the least of a set of numbers: what  *)
(* rounding, sharing and ranking in Round, Engine and Basket, and the      *)
(* choices of JsonStore and Totals, rest on.                               *)
(***************************************************************************)
EXTENDS Naturals, FiniteSets, Functions, FiniteSetTheorems, WellFoundedInduction, TLAPS

\* SumFunction folds along a chain of subsets, each with one element less than the
\* one before.

One(s) == CHOOSE x \in s : TRUE

Less(s) == s \ {One(s)}

Link(f, it, s) == IF s = {} THEN 0 ELSE f[One(s)] + it[Less(s)]

Chain(f, S) == CHOOSE it : it = [s \in SUBSET S |-> Link(f, it, s)]

LEMMA SumIs == ASSUME NEW f PROVE SumFunction(f) = Chain(f, DOMAIN f)[DOMAIN f]
BY DEF SumFunction, SumFunctionOnSet, FoldFunctionOnSet, MapThenFoldSet, Chain, Link, Less, One

\* A set of numbers that is not empty has a least member: what the CHOOSE of
\* unfinishedRound, of nextRoundId and of the turns of autoBalance stand on.
LEMMA LeastNumber ==
  ASSUME NEW S \in SUBSET Nat, S # {}
  PROVE  \E m \in S : \A n \in S : m <= n
<1> DEFINE R == OpToRel(<, Nat)
<1>1. IsWellFoundedOn(R, Nat)
  BY NatLessThanWellFounded
<1> HIDE DEF R
<1>2. PICK m \in S : \A n \in S : <<n, m>> \notin R
  BY <1>1, WFMin
<1>3. \A n \in S : ~(n < m)
  BY <1>2 DEF OpToRel, R
<1> QED
  BY <1>2, <1>3

\* Induction over the subsets of a finite set: what holds of the empty one and, with
\* one element less, of each other, holds of all.
LEMMA SubsetInduction ==
  ASSUME NEW S, IsFiniteSet(S), NEW Good, {} \in Good,
         \A s \in SUBSET S : s # {} /\ Less(s) \in Good => s \in Good
  PROVE  \A s \in SUBSET S : s \in Good
<1> DEFINE R == OpToRel(<, Nat)
           Bad == {n \in Nat : \E s \in SUBSET S : Cardinality(s) = n /\ s \notin Good}
<1> SUFFICES ASSUME NEW s0 \in SUBSET S, s0 \notin Good PROVE FALSE
  OBVIOUS
<1>1. \A s \in SUBSET S : IsFiniteSet(s) /\ Cardinality(s) \in Nat
  BY FS_Subset, FS_CardinalityType
<1>2. Bad # {} /\ Bad \subseteq Nat
  BY <1>1
<1>3. IsWellFoundedOn(R, Nat)
  BY NatLessThanWellFounded
<1> HIDE DEF Bad, R
<1>4. PICK n \in Bad : \A k \in Bad : ~ (<<k, n>> \in R)
  BY <1>2, <1>3, WFMin
<1>5. PICK s \in SUBSET S : Cardinality(s) = n /\ s \notin Good
  BY <1>4 DEF Bad
<1>6. s # {} /\ Less(s) \notin Good
  BY <1>5
<1>7. One(s) \in s
  BY <1>6 DEF One
<1>8. Less(s) \in SUBSET S /\ Cardinality(Less(s)) = Cardinality(s) - 1
  BY <1>1, <1>7, FS_RemoveElement DEF Less
<1>9. Cardinality(Less(s)) \in Bad /\ Cardinality(Less(s)) < n /\ n \in Nat
  BY <1>1, <1>5, <1>6, <1>8 DEF Bad
<1> QED
  BY <1>4, <1>9 DEF R, OpToRel, Bad

\* The recursion that defines a sum is well founded.
LEMMA ChainWorks ==
  ASSUME NEW S, IsFiniteSet(S), NEW f
  PROVE  \A s \in SUBSET S : Chain(f, S)[s] = Link(f, Chain(f, S), s)
<1> DEFINE Upto(t) == {s \in SUBSET S : Cardinality(s) <= Cardinality(t)}
           Good == {t \in SUBSET S : \E it : it = [s \in Upto(t) |-> Link(f, it, s)]}
<1>0. \A s \in SUBSET S : IsFiniteSet(s) /\ Cardinality(s) \in Nat
  BY FS_Subset, FS_CardinalityType
<1>1. \A s \in SUBSET S : s # {} =>
         Less(s) \in SUBSET S /\ Cardinality(Less(s)) = Cardinality(s) - 1 /\ Cardinality(s) > 0
  <2> TAKE s \in SUBSET S
  <2> HAVE s # {}
  <2>1. One(s) \in s
    BY DEF One
  <2>2. Less(s) \in SUBSET S /\ Cardinality(Less(s)) = Cardinality(s) - 1
    BY <1>0, <2>1, FS_RemoveElement DEF Less
  <2> QED
    BY <1>0, <2>2
<1>2. {} \in Good
  <2> DEFINE it == [s \in Upto({}) |-> 0]
  <2>1. \A s \in Upto({}) : s = {}
    BY <1>0, <1>1, FS_EmptySet
  <2>2. it = [s \in Upto({}) |-> Link(f, it, s)]
    BY <2>1 DEF Link
  <2> QED
    BY <2>2
<1>3. ASSUME NEW t \in SUBSET S, t # {}, Less(t) \in Good PROVE t \in Good
  <2>1. PICK old : old = [s \in Upto(Less(t)) |-> Link(f, old, s)]
    BY <1>3
  <2> DEFINE it == [s \in Upto(t) |-> Link(f, old, s)]
  <2>2. \A s \in Upto(t) : s # {} => Less(s) \in Upto(t) /\ Less(s) \in Upto(Less(t))
    BY <1>0, <1>1, <1>3
  <2>3. \A s \in Upto(Less(t)) : s \in Upto(t) /\ it[s] = old[s]
    <3>1. \A s \in Upto(Less(t)) : s \in Upto(t)
      BY <1>0, <1>1, <1>3
    <3>2. \A s \in Upto(Less(t)) : old[s] = Link(f, old, s)
      BY <2>1
    <3> HIDE DEF Upto
    <3> QED
      BY <3>1, <3>2
  <2>4. \A s \in Upto(t) : Link(f, it, s) = Link(f, old, s)
    <3> HIDE DEF Upto, it
    <3> QED
      BY <2>2, <2>3 DEF Link
  <2>5. it = [s \in Upto(t) |-> Link(f, it, s)]
    <3> DEFINE again == [s \in Upto(t) |-> Link(f, it, s)]
    <3> HIDE DEF Upto
    <3>1. it = again
      BY <2>4
    <3> QED
      BY <3>1
  <2> QED
    BY <2>5
<1>4. S \in Good
  <2> HIDE DEF Good
  <2> QED
    BY <1>2, <1>3, SubsetInduction
<1>5. Upto(S) = SUBSET S
  BY <1>0, FS_Subset
<1>6. \E it : it = [s \in SUBSET S |-> Link(f, it, s)]
  BY <1>4, <1>5
<1>7. Chain(f, S) = [s \in SUBSET S |-> Link(f, Chain(f, S), s)]
  BY <1>6 DEF Chain
<1> DEFINE it == Chain(f, S)
<1>8. it = [s \in SUBSET S |-> Link(f, it, s)]
  BY <1>7
<1> HIDE DEF it
<1>9. \A s \in SUBSET S : it[s] = Link(f, it, s)
  BY <1>8
<1> QED
  BY <1>9 DEF it

LEMMA ChainFacts ==
  ASSUME NEW S, IsFiniteSet(S), NEW f, DOMAIN f = S
  PROVE  /\ SumFunction(f) = Chain(f, S)[S]
         /\ Chain(f, S)[{}] = 0
         /\ \A s \in SUBSET S : s # {} =>
              /\ One(s) \in s /\ Less(s) \in SUBSET S
              /\ Chain(f, S)[s] = f[One(s)] + Chain(f, S)[Less(s)]
<1> DEFINE it == Chain(f, S)
<1>1. \A s \in SUBSET S : it[s] = Link(f, it, s)
  BY ChainWorks
<1> HIDE DEF it
<1>2. it[{}] = 0
  BY <1>1 DEF Link
<1>3. ASSUME NEW s \in SUBSET S, s # {}
      PROVE  One(s) \in s /\ Less(s) \in SUBSET S /\ it[s] = f[One(s)] + it[Less(s)]
  BY <1>1, <1>3 DEF Link, One, Less
<1> QED
  BY <1>2, <1>3, SumIs DEF it

\* A sum of naturals is one.
LEMMA SumType ==
  ASSUME NEW S, IsFiniteSet(S), NEW f \in [S -> Nat]
  PROVE  SumFunction(f) \in Nat
<1> DEFINE it   == Chain(f, S)
           Good == {s \in SUBSET S : it[s] \in Nat}
<1>1. /\ SumFunction(f) = it[S] /\ it[{}] = 0
      /\ \A s \in SUBSET S : s # {} => One(s) \in s /\ Less(s) \in SUBSET S /\ it[s] = f[One(s)] + it[Less(s)]
  BY ChainFacts
<1> HIDE DEF it
<1>2. {} \in Good
  BY <1>1
<1>3. \A s \in SUBSET S : s # {} /\ Less(s) \in Good => s \in Good
  BY <1>1
<1> HIDE DEF Good
<1>4. S \in Good
  BY <1>2, <1>3, SubsetInduction
<1> QED
  BY <1>1, <1>4 DEF Good

\* Sums are added member by member.
LEMMA SumPlus ==
  ASSUME NEW S, IsFiniteSet(S), NEW f \in [S -> Nat], NEW g \in [S -> Nat], NEW h \in [S -> Nat],
         \A x \in S : f[x] + g[x] = h[x]
  PROVE  SumFunction(f) + SumFunction(g) = SumFunction(h)
<1> DEFINE F    == Chain(f, S)
           G    == Chain(g, S)
           H    == Chain(h, S)
           Good == {s \in SUBSET S : F[s] \in Nat /\ G[s] \in Nat /\ F[s] + G[s] = H[s]}
<1>1. SumFunction(f) = F[S] /\ SumFunction(g) = G[S] /\ SumFunction(h) = H[S]
  BY ChainFacts
<1>2. F[{}] = 0 /\ G[{}] = 0 /\ H[{}] = 0
  BY ChainFacts
<1>3. ASSUME NEW s \in SUBSET S, s # {}
      PROVE  /\ One(s) \in S /\ Less(s) \in SUBSET S
             /\ F[s] = f[One(s)] + F[Less(s)] /\ G[s] = g[One(s)] + G[Less(s)] /\ H[s] = h[One(s)] + H[Less(s)]
  BY <1>3, ChainFacts
<1> HIDE DEF F, G, H
<1>4. {} \in Good
  BY <1>2
<1>5. ASSUME NEW s \in SUBSET S, s # {}, Less(s) \in Good PROVE s \in Good
  <2> DEFINE x == One(s)
  <2>1. x \in S /\ f[x] \in Nat /\ g[x] \in Nat /\ h[x] = f[x] + g[x]
    BY <1>3, <1>5
  <2> HIDE DEF x
  <2> QED
    BY <2>1, <1>3, <1>5 DEF x
<1> HIDE DEF Good
<1>6. S \in Good
  BY <1>4, <1>5, SubsetInduction
<1> QED
  BY <1>1, <1>6 DEF Good

\* What bounds the members bounds the sums.
LEMMA SumScaled ==
  ASSUME NEW S, IsFiniteSet(S), NEW f \in [S -> Nat], NEW g \in [S -> Nat], NEW a \in Nat, NEW b \in Nat
  PROVE  (\A x \in S : a * f[x] <= b * g[x]) => a * SumFunction(f) <= b * SumFunction(g)
<1> DEFINE F    == Chain(f, S)
           G    == Chain(g, S)
           Good == {s \in SUBSET S : F[s] \in Nat /\ G[s] \in Nat /\ a * F[s] <= b * G[s]}
<1>1. SumFunction(f) = F[S] /\ SumFunction(g) = G[S]
  BY ChainFacts
<1>2. F[{}] = 0 /\ G[{}] = 0
  BY ChainFacts
<1>3. ASSUME NEW s \in SUBSET S, s # {}
      PROVE  /\ One(s) \in S /\ Less(s) \in SUBSET S
             /\ F[s] = f[One(s)] + F[Less(s)] /\ G[s] = g[One(s)] + G[Less(s)]
  <2>1. One(s) \in s /\ Less(s) \in SUBSET S /\ F[s] = f[One(s)] + F[Less(s)]
    BY <1>3, ChainFacts
  <2>2. G[s] = g[One(s)] + G[Less(s)]
    BY <1>3, ChainFacts
  <2> QED
    BY <2>1, <2>2
<1> HIDE DEF F, G
<1>4. {} \in Good
  BY <1>2
<1>5. ASSUME \A x \in S : a * f[x] <= b * g[x],
             NEW s \in SUBSET S, s # {}, Less(s) \in Good
      PROVE  s \in Good
  <2>1. /\ f[One(s)] \in Nat /\ g[One(s)] \in Nat /\ F[Less(s)] \in Nat /\ G[Less(s)] \in Nat
        /\ a * f[One(s)] <= b * g[One(s)] /\ a * F[Less(s)] <= b * G[Less(s)]
    BY <1>3, <1>5
  <2>2. \A p, q, u, v \in Nat : a * p <= b * q /\ a * u <= b * v => a * (p + u) <= b * (q + v)
    OBVIOUS
  <2>3. a * (f[One(s)] + F[Less(s)]) <= b * (g[One(s)] + G[Less(s)])
    BY <2>1, <2>2
  <2>4. f[One(s)] + F[Less(s)] \in Nat /\ g[One(s)] + G[Less(s)] \in Nat
    BY <2>1
  <2> QED
    BY <2>3, <2>4, <1>3, <1>5
<1> HIDE DEF Good
<1>6. (\A x \in S : a * f[x] <= b * g[x]) => S \in Good
  BY <1>4, <1>5, SubsetInduction
<1> QED
  BY <1>1, <1>6 DEF Good

\* A sum of naturals is at least each of them.
LEMMA SumMember ==
  ASSUME NEW S, IsFiniteSet(S), NEW f \in [S -> Nat], NEW x \in S
  PROVE  f[x] <= SumFunction(f)
<1> DEFINE it   == Chain(f, S)
           Good == {s \in SUBSET S : it[s] \in Nat /\ (x \in s => f[x] <= it[s])}
<1>1. /\ SumFunction(f) = it[S] /\ it[{}] = 0
      /\ \A s \in SUBSET S : s # {} => One(s) \in s /\ Less(s) \in SUBSET S /\ it[s] = f[One(s)] + it[Less(s)]
  BY ChainFacts
<1> HIDE DEF it
<1>2. {} \in Good
  BY <1>1
<1>3. ASSUME NEW s \in SUBSET S, s # {}, Less(s) \in Good PROVE s \in Good
  <2>1. f[One(s)] \in Nat /\ f[x] \in Nat /\ it[Less(s)] \in Nat
    BY <1>1, <1>3
  <2>2. it[s] = f[One(s)] + it[Less(s)]
    BY <1>1, <1>3
  <2>3. CASE x = One(s)
    BY <2>1, <2>2, <2>3
  <2>4. CASE x # One(s)
    <3>1. x \in s => f[x] <= it[Less(s)]
      BY <2>4, <1>3 DEF Less
    <3> QED
      BY <3>1, <2>1, <2>2
  <2> QED
    BY <2>3, <2>4
<1> HIDE DEF Good
<1>4. S \in Good
  BY <1>2, <1>3, SubsetInduction
<1> QED
  BY <1>1, <1>4 DEF Good

\* A sum changes by what one member does.
LEMMA SumUpdate ==
  ASSUME NEW S, IsFiniteSet(S), NEW f \in [S -> Nat], NEW g \in [S -> Nat], NEW x \in S,
         \A y \in S \ {x} : f[y] = g[y]
  PROVE  SumFunction(g) + f[x] = SumFunction(f) + g[x]
<1> DEFINE F    == Chain(f, S)
           G    == Chain(g, S)
           Good == {s \in SUBSET S : /\ F[s] \in Nat /\ G[s] \in Nat
                                     /\ x \in s => G[s] + f[x] = F[s] + g[x]
                                     /\ x \notin s => G[s] = F[s]}
<1>1. SumFunction(f) = F[S] /\ SumFunction(g) = G[S]
  BY ChainFacts
<1>2. F[{}] = 0 /\ G[{}] = 0
  BY ChainFacts
<1>3. ASSUME NEW s \in SUBSET S, s # {}
      PROVE  /\ One(s) \in s /\ One(s) \in S /\ Less(s) \in SUBSET S
             /\ F[s] = f[One(s)] + F[Less(s)] /\ G[s] = g[One(s)] + G[Less(s)]
  BY <1>3, ChainFacts
<1> HIDE DEF F, G
<1>4. {} \in Good
  BY <1>2
<1>5. ASSUME NEW s \in SUBSET S, s # {}, Less(s) \in Good PROVE s \in Good
  <2>1. /\ f[One(s)] \in Nat /\ g[One(s)] \in Nat /\ F[Less(s)] \in Nat /\ G[Less(s)] \in Nat
        /\ f[x] \in Nat /\ g[x] \in Nat
    BY <1>3, <1>5
  <2>2. F[s] = f[One(s)] + F[Less(s)] /\ G[s] = g[One(s)] + G[Less(s)]
    BY <1>3, <1>5
  <2>3. CASE x = One(s)
    <3>1. x \in s /\ G[Less(s)] = F[Less(s)]
      BY <2>3, <1>3, <1>5 DEF Less
    <3> QED
      BY <3>1, <2>1, <2>2, <2>3
  <2>4. CASE x # One(s)
    <3>1. f[One(s)] = g[One(s)]
      BY <2>4, <1>3, <1>5
    <3>2. /\ x \in s => G[Less(s)] + f[x] = F[Less(s)] + g[x]
          /\ x \notin s => G[Less(s)] = F[Less(s)]
      BY <2>4, <1>5 DEF Less
    <3> QED
      BY <3>1, <3>2, <2>1, <2>2
  <2> QED
    BY <2>3, <2>4
<1> HIDE DEF Good
<1>6. S \in Good
  BY <1>4, <1>5, SubsetInduction
<1> QED
  BY <1>1, <1>6 DEF Good

\* Larger members, larger sums.
LEMMA SumBelow ==
  ASSUME NEW S, IsFiniteSet(S), NEW f \in [S -> Nat], NEW g \in [S -> Nat], \A x \in S : f[x] <= g[x]
  PROVE  SumFunction(f) <= SumFunction(g)
<1>1. \A x \in S : 1 * f[x] <= 1 * g[x]
  <2>1. \A x \in S : f[x] \in Nat /\ g[x] \in Nat
    OBVIOUS
  <2> QED
    BY <2>1
<1>2. 1 * SumFunction(f) <= 1 * SumFunction(g)
  BY <1>1, SumScaled
<1>3. SumFunction(f) \in Nat /\ SumFunction(g) \in Nat
  BY SumType
<1> QED
  BY <1>2, <1>3

\* A common factor is taken out of a sum.
LEMMA SumTimes ==
  ASSUME NEW S, IsFiniteSet(S), NEW f \in [S -> Nat], NEW c \in Nat, NEW g \in [S -> Nat],
         \A x \in S : g[x] = c * f[x]
  PROVE  SumFunction(g) = c * SumFunction(f)
<1>1. SumFunction(f) \in Nat /\ SumFunction(g) \in Nat /\ c * SumFunction(f) \in Nat
  BY SumType
<1>2. \A x \in S : 1 * g[x] <= c * f[x] /\ c * f[x] <= 1 * g[x]
  <2>1. \A x \in S : g[x] \in Nat
    OBVIOUS
  <2> QED
    BY <2>1
<1>3. 1 * SumFunction(g) <= c * SumFunction(f)
  BY <1>2, SumScaled
<1>4. c * SumFunction(f) <= 1 * SumFunction(g)
  BY <1>2, SumScaled
<1> QED
  BY <1>1, <1>3, <1>4

\* Nothing adds up to nothing.
LEMMA SumOfNothing ==
  ASSUME NEW S, IsFiniteSet(S), NEW f \in [S -> Nat], \A x \in S : f[x] = 0
  PROVE  SumFunction(f) = 0
<1>1. \A x \in S : f[x] = 0 * f[x]
  BY SumType
<1>2. SumFunction(f) = 0 * SumFunction(f)
  BY <1>1, SumTimes
<1> QED
  BY <1>2, SumType

\* Ones and zeros count.
LEMMA SumIndicator ==
  ASSUME NEW S, IsFiniteSet(S), NEW T \in SUBSET S, NEW f \in [S -> Nat],
         \A x \in S : f[x] = IF x \in T THEN 1 ELSE 0
  PROVE  SumFunction(f) = Cardinality(T)
<1> DEFINE it   == Chain(f, S)
           Good == {s \in SUBSET S : it[s] = Cardinality(T \cap s)}
<1>1. /\ SumFunction(f) = it[S] /\ it[{}] = 0
      /\ \A s \in SUBSET S : s # {} => One(s) \in s /\ Less(s) \in SUBSET S /\ it[s] = f[One(s)] + it[Less(s)]
  BY ChainFacts
<1> HIDE DEF it
<1>2. {} \in Good
  BY <1>1, FS_EmptySet
<1>3. ASSUME NEW s \in SUBSET S, s # {}, Less(s) \in Good PROVE s \in Good
  <2>1. One(s) \in s /\ One(s) \in S /\ it[s] = f[One(s)] + it[Less(s)]
    BY <1>1, <1>3
  <2>2. IsFiniteSet(T \cap s) /\ Cardinality(T \cap s) \in Nat
    BY <1>3, FS_Subset, FS_CardinalityType
  <2>3. T \cap Less(s) = (T \cap s) \ {One(s)}
    BY DEF Less
  <2>4. Cardinality(T \cap Less(s)) = IF One(s) \in T THEN Cardinality(T \cap s) - 1 ELSE Cardinality(T \cap s)
    <3> DEFINE both == T \cap s
    <3>1. One(s) \in both <=> One(s) \in T
      BY <2>1
    <3>2. Cardinality(both \ {One(s)}) = IF One(s) \in both THEN Cardinality(both) - 1 ELSE Cardinality(both)
      <4> HIDE DEF both
      <4> QED
        BY <2>2, FS_RemoveElement DEF both
    <3> QED
      BY <2>3, <3>1, <3>2
  <2> QED
    BY <1>3, <2>1, <2>2, <2>4
<1> HIDE DEF Good
<1>4. S \in Good
  BY <1>2, <1>3, SubsetInduction
<1>5. T \cap S = T
  OBVIOUS
<1> QED
  BY <1>1, <1>4, <1>5 DEF Good

\* Rows or columns first, the sum is the same.
LEMMA SumSwap ==
  ASSUME NEW A, NEW B, IsFiniteSet(A), IsFiniteSet(B), NEW f \in [A -> [B -> Nat]]
  PROVE  SumFunction([b \in B |-> SumFunction([a \in A |-> f[a][b]])])
         = SumFunction([a \in A |-> SumFunction([b \in B |-> f[a][b]])])
<1> DEFINE Column(s, b) == [a \in A |-> IF a \in s THEN f[a][b] ELSE 0]
           Rows(a)      == [b \in B |-> f[a][b]]
           Columns(s)   == [b \in B |-> SumFunction(Column(s, b))]
           RowSums(s)   == [a \in A |-> IF a \in s THEN SumFunction(Rows(a)) ELSE 0]
           Good         == {s \in SUBSET A : SumFunction(Columns(s)) = SumFunction(RowSums(s))}
<1>1. \A s \in SUBSET A, b \in B : Column(s, b) \in [A -> Nat] /\ SumFunction(Column(s, b)) \in Nat
  <2>1. \A s \in SUBSET A, b \in B : Column(s, b) \in [A -> Nat]
    OBVIOUS
  <2> HIDE DEF Column
  <2> QED
    BY <2>1, SumType
<1>2. \A a \in A : Rows(a) \in [B -> Nat] /\ SumFunction(Rows(a)) \in Nat
  <2>1. \A a \in A : Rows(a) \in [B -> Nat]
    OBVIOUS
  <2> HIDE DEF Rows
  <2> QED
    BY <2>1, SumType
<1>3. \A s \in SUBSET A : Columns(s) \in [B -> Nat] /\ RowSums(s) \in [A -> Nat]
  <2> HIDE DEF Column, Rows
  <2> QED
    BY <1>1, <1>2
<1>4. {} \in Good
  <2>1. \A b \in B : SumFunction(Column({}, b)) = 0
    <3>1. \A b \in B : \A a \in A : Column({}, b)[a] = 0
      OBVIOUS
    <3> HIDE DEF Column
    <3> QED
      BY <1>1, <3>1, SumOfNothing
  <2>2. SumFunction(Columns({})) = 0
    <3> HIDE DEF Column
    <3>1. \A b \in B : Columns({})[b] = 0
      BY <2>1
    <3>2. Columns({}) \in [B -> Nat]
      BY <1>3
    <3> HIDE DEF Columns
    <3> QED
      BY <3>1, <3>2, SumOfNothing
  <2>3. SumFunction(RowSums({})) = 0
    <3>1. \A a \in A : RowSums({})[a] = 0
      OBVIOUS
    <3>2. RowSums({}) \in [A -> Nat]
      BY <1>3
    <3> HIDE DEF RowSums
    <3> QED
      BY <3>1, <3>2, SumOfNothing
  <2> HIDE DEF Columns, RowSums
  <2> QED
    BY <2>2, <2>3
<1>5. ASSUME NEW s \in SUBSET A, s # {}, Less(s) \in Good PROVE s \in Good
  <2> DEFINE x == One(s)
             t == Less(s)
  <2>1. x \in s /\ x \in A /\ t \in SUBSET A /\ x \notin t /\ \A a \in A \ {x} : a \in s <=> a \in t
    BY <1>5 DEF One, Less
  <2> HIDE DEF x, t
  <2>2. ASSUME NEW b \in B PROVE Columns(t)[b] + Rows(x)[b] = Columns(s)[b]
    <3>1. /\ \A a \in A \ {x} : Column(t, b)[a] = Column(s, b)[a]
          /\ Column(t, b)[x] = 0 /\ Column(s, b)[x] = f[x][b] /\ f[x][b] \in Nat
      BY <2>1
    <3>2. Column(t, b) \in [A -> Nat] /\ Column(s, b) \in [A -> Nat]
      BY <1>1, <1>5, <2>1
    <3>3. SumFunction(Column(t, b)) \in Nat /\ SumFunction(Column(s, b)) \in Nat
      BY <1>1, <1>5, <2>1
    <3> HIDE DEF Column
    <3>4. SumFunction(Column(s, b)) + Column(t, b)[x] = SumFunction(Column(t, b)) + Column(s, b)[x]
      BY <2>1, <3>1, <3>2, SumUpdate
    <3>5. Rows(x)[b] = f[x][b] /\ Columns(t)[b] = SumFunction(Column(t, b)) /\ Columns(s)[b] = SumFunction(Column(s, b))
      BY <2>1
    <3> QED
      BY <3>1, <3>3, <3>4, <3>5
  <2>3. SumFunction(Columns(t)) + SumFunction(Rows(x)) = SumFunction(Columns(s))
    <3>1. Columns(t) \in [B -> Nat] /\ Columns(s) \in [B -> Nat] /\ Rows(x) \in [B -> Nat]
      BY <1>2, <1>3, <1>5, <2>1
    <3> HIDE DEF Columns, Rows
    <3> QED
      BY <2>2, <3>1, SumPlus
  <2>4. SumFunction(RowSums(s)) = SumFunction(RowSums(t)) + SumFunction(Rows(x))
    <3>1. /\ \A a \in A \ {x} : RowSums(t)[a] = RowSums(s)[a]
          /\ RowSums(t)[x] = 0 /\ RowSums(s)[x] = SumFunction(Rows(x))
      <4> HIDE DEF Rows
      <4> QED
        BY <2>1
    <3>2. RowSums(t) \in [A -> Nat] /\ RowSums(s) \in [A -> Nat]
      BY <1>3, <1>5, <2>1
    <3>3. SumFunction(Rows(x)) \in Nat
      BY <1>2, <2>1
    <3> HIDE DEF RowSums, Rows
    <3>4. SumFunction(RowSums(s)) + RowSums(t)[x] = SumFunction(RowSums(t)) + RowSums(s)[x]
      BY <2>1, <3>1, <3>2, SumUpdate
    <3>5. SumFunction(RowSums(s)) \in Nat /\ SumFunction(RowSums(t)) \in Nat
      BY <3>2, SumType
    <3> QED
      BY <3>1, <3>3, <3>4, <3>5
  <2>5. SumFunction(Columns(t)) = SumFunction(RowSums(t))
    BY <1>5 DEF t
  <2> HIDE DEF Columns, RowSums, Rows
  <2> QED
    BY <1>5, <2>3, <2>4, <2>5
<1>6. A \in Good
  <2> HIDE DEF Good
  <2> QED
    BY <1>4, <1>5, SubsetInduction
<1>7. Columns(A) = [b \in B |-> SumFunction([a \in A |-> f[a][b]])]
  <2>1. \A b \in B : Column(A, b) = [a \in A |-> f[a][b]]
    OBVIOUS
  <2> HIDE DEF Column
  <2> QED
    BY <2>1
<1>8. RowSums(A) = [a \in A |-> SumFunction([b \in B |-> f[a][b]])]
  OBVIOUS
<1> QED
  BY <1>6, <1>7, <1>8

\* A sum with one term that is not zero is that term.
LEMMA SumOfOne ==
  ASSUME NEW S, IsFiniteSet(S), NEW f \in [S -> Nat], NEW x \in S, \A y \in S \ {x} : f[y] = 0
  PROVE  SumFunction(f) = f[x]
<1> DEFINE zero == [y \in S |-> 0]
<1>1. zero \in [S -> Nat] /\ \A y \in S : zero[y] = 0
  OBVIOUS
<1> HIDE DEF zero
<1>2. SumFunction(zero) = 0
  BY <1>1, SumOfNothing
<1>3. \A y \in S \ {x} : zero[y] = f[y]
  BY <1>1
<1>4. SumFunction(f) + zero[x] = SumFunction(zero) + f[x]
  BY <1>1, <1>3, SumUpdate
<1>5. SumFunction(f) \in Nat /\ f[x] \in Nat
  BY SumType
<1> QED
  BY <1>1, <1>2, <1>4, <1>5

\* The names and the order of the terms do not matter.
LEMMA SumPermuted ==
  ASSUME NEW S, IsFiniteSet(S), NEW T, IsFiniteSet(T),
         NEW f \in [T -> Nat], NEW g \in [S -> Nat], NEW p \in [S -> T],
         \A x \in S : g[x] = f[p[x]],
         \A y \in T : \E x \in S : p[x] = y,
         \A x \in S : \A y \in S : p[x] = p[y] => x = y
  PROVE  SumFunction(g) = SumFunction(f)
<1> DEFINE m      == [a \in T |-> [b \in S |-> IF p[b] = a THEN f[a] ELSE 0]]
           Row(a) == [b \in S |-> m[a][b]]
           Col(b) == [a \in T |-> m[a][b]]
<1>1. m \in [T -> [S -> Nat]]
  OBVIOUS
<1>2. ASSUME NEW b \in S
      PROVE  SumFunction(Col(b)) = g[b]
  <2>1. Col(b) \in [T -> Nat] /\ p[b] \in T
    BY <1>1
  <2>2. \A a \in T \ {p[b]} : Col(b)[a] = 0
    OBVIOUS
  <2>3. Col(b)[p[b]] = g[b]
    BY <2>1
  <2> HIDE DEF Col
  <2>4. SumFunction(Col(b)) = Col(b)[p[b]]
    BY <2>1, <2>2, SumOfOne
  <2> QED
    BY <2>3, <2>4
<1>3. ASSUME NEW a \in T
      PROVE  SumFunction(Row(a)) = f[a]
  <2>1. PICK b \in S : p[b] = a
    OBVIOUS
  <2>2. Row(a) \in [S -> Nat]
    BY <1>1
  <2>3. \A x \in S \ {b} : Row(a)[x] = 0
    BY <2>1
  <2>4. Row(a)[b] = f[a]
    BY <2>1
  <2> HIDE DEF Row
  <2>5. SumFunction(Row(a)) = Row(a)[b]
    BY <2>2, <2>3, SumOfOne
  <2> QED
    BY <2>4, <2>5
<1>4. SumFunction([b \in S |-> SumFunction(Col(b))]) = SumFunction([a \in T |-> SumFunction(Row(a))])
  <2> HIDE DEF m
  <2>1. QED
    BY <1>1, SumSwap
<1> HIDE DEF Row, Col
<1>5. [b \in S |-> SumFunction(Col(b))] = g
  <2>1. [b \in S |-> SumFunction(Col(b))] = [b \in S |-> g[b]]
    BY <1>2
  <2> QED
    BY <2>1
<1>6. [a \in T |-> SumFunction(Row(a))] = f
  <2>1. [a \in T |-> SumFunction(Row(a))] = [a \in T |-> f[a]]
    BY <1>3
  <2> QED
    BY <2>1
<1> QED
  BY <1>4, <1>5, <1>6

-----------------------------------------------------------------------------
(* Counting.                                                               *)

\* A linear order of S, by what comes before each.
Linear(S, Before) ==
  /\ Before \in [S -> SUBSET S]
  /\ \A x \in S : x \notin Before[x]
  /\ \A x \in S : \A y \in Before[x] : Before[y] \subseteq Before[x]
  /\ \A x \in S : \A y \in S : x # y => x \in Before[y] \/ y \in Before[x]

\* Who comes earlier has fewer before it.
LEMMA FewerBefore ==
  ASSUME NEW S, IsFiniteSet(S), NEW Before, Linear(S, Before)
  PROVE  /\ \A x \in S : Cardinality(Before[x]) \in 0 .. Cardinality(S) - 1
         /\ \A x \in S : \A y \in Before[x] : Cardinality(Before[y]) < Cardinality(Before[x])
<1>1. \A x \in S : /\ Before[x] \in SUBSET S /\ Before[x] # S /\ IsFiniteSet(Before[x])
                   /\ Cardinality(Before[x]) \in Nat
                   /\ Cardinality(Before[x]) < Cardinality(S)
  <2> TAKE x \in S
  <2>1. Before[x] \in SUBSET S /\ Before[x] # S
    BY DEF Linear
  <2> QED
    BY <2>1, FS_Subset, FS_CardinalityType
<1>2. ASSUME NEW x \in S, NEW y \in Before[x] PROVE Cardinality(Before[y]) < Cardinality(Before[x])
  <2>1. y \in S /\ Before[y] \in SUBSET Before[x] /\ y \notin Before[y]
    BY DEF Linear
  <2>2. Before[y] # Before[x]
    BY <2>1, <1>2
  <2>3. IsFiniteSet(Before[x]) /\ Cardinality(Before[x]) \in Nat /\ Cardinality(Before[y]) \in Nat
    BY <1>1, <2>1
  <2> QED
    BY <2>1, <2>2, <2>3, FS_Subset
<1>3. Cardinality(S) \in Nat
  BY FS_CardinalityType
<1> QED
  BY <1>1, <1>2, <1>3

\* The first n of an order are n, when there are that many.
LEMMA FirstAreMany ==
  ASSUME NEW S, IsFiniteSet(S), NEW Before, Linear(S, Before), NEW n \in 0 .. Cardinality(S)
  PROVE  Cardinality({x \in S : Cardinality(Before[x]) < n}) = n
<1> DEFINE size  == Cardinality(S)
           place == [x \in S |-> Cardinality(Before[x])]
           first == {x \in S : Cardinality(Before[x]) < n}
           part  == [x \in first |-> Cardinality(Before[x])]
<1>1. size \in Nat /\ Cardinality(0 .. size - 1) = size /\ IsFiniteSet(0 .. size - 1)
  <2>1. size \in Nat
    BY FS_CardinalityType
  <2> HIDE DEF size
  <2> QED
    BY <2>1, FS_Interval
<1>2. Cardinality(0 .. n - 1) = n /\ IsFiniteSet(0 .. n - 1)
  <2>1. n \in Nat
    BY <1>1
  <2> QED
    BY <2>1, FS_Interval
<1>3. \A x \in S : \A y \in S : x # y => Cardinality(Before[x]) # Cardinality(Before[y])
  <2> SUFFICES ASSUME NEW x \in S, NEW y \in S, x # y PROVE Cardinality(Before[x]) # Cardinality(Before[y])
    OBVIOUS
  <2>1. x \in Before[y] \/ y \in Before[x]
    BY DEF Linear
  <2>2. Cardinality(Before[x]) \in Nat /\ Cardinality(Before[y]) \in Nat
    BY <1>1, FewerBefore
  <2> QED
    BY <2>1, <2>2, FewerBefore
<1>4. place \in Injection(S, 0 .. size - 1)
  BY <1>3, FewerBefore DEF Injection, IsInjective
<1>5. place \in Surjection(S, 0 .. size - 1)
  <2> HIDE DEF place
  <2> QED
    BY <1>1, <1>4, FS_Injection
<1>6. \A i \in 0 .. size - 1 : \E x \in S : Cardinality(Before[x]) = i
  BY <1>5 DEF Surjection
<1>7. part \in Injection(first, 0 .. n - 1)
  BY <1>1, <1>3, FewerBefore DEF Injection, IsInjective
<1>8. part \in Surjection(first, 0 .. n - 1)
  <2>1. part \in [first -> 0 .. n - 1]
    BY <1>7 DEF Injection
  <2>2. \A i \in 0 .. n - 1 : \E x \in first : part[x] = i
    BY <1>1, <1>6
  <2> HIDE DEF part
  <2> QED
    BY <2>1, <2>2 DEF Surjection
<1> QED
  <2> HIDE DEF part
  <2> QED
    BY <1>2, <1>7, <1>8, FS_Injection

\* A relation is no larger than the sum of the sizes of its columns.
LEMMA CountByColumn ==
  ASSUME NEW A, NEW B, IsFiniteSet(A), IsFiniteSet(B), NEW R \in SUBSET (A \X B), NEW count \in [B -> Nat],
         \A b \in B : Cardinality({r \in R : r[2] = b}) <= count[b]
  PROVE  Cardinality(R) <= SumFunction(count)
<1> DEFINE it   == Chain(count, B)
           In(s) == {r \in R : r[2] \in s}
           Good == {s \in SUBSET B : it[s] \in Nat /\ Cardinality(In(s)) <= it[s]}
<1>1. /\ SumFunction(count) = it[B] /\ it[{}] = 0
      /\ \A s \in SUBSET B : s # {} => One(s) \in s /\ Less(s) \in SUBSET B /\ it[s] = count[One(s)] + it[Less(s)]
  BY ChainFacts
<1> HIDE DEF it
<1>2. IsFiniteSet(R)
  BY FS_Product, FS_Subset
<1>3. {} \in Good
  <2>1. In({}) = {}
    OBVIOUS
  <2>2. Cardinality(In({})) = 0
    BY <2>1, FS_EmptySet
  <2> HIDE DEF In
  <2> QED
    BY <1>1, <2>2
<1>4. ASSUME NEW s \in SUBSET B, s # {}, Less(s) \in Good PROVE s \in Good
  <2> DEFINE col == {r \in R : r[2] = One(s)}
  <2>1. One(s) \in s /\ One(s) \in B /\ it[s] = count[One(s)] + it[Less(s)]
    BY <1>1, <1>4
  <2>2. In(s) = In(Less(s)) \cup col
    BY <2>1 DEF Less
  <2>3. IsFiniteSet(In(Less(s))) /\ IsFiniteSet(col)
    BY <1>2, FS_Subset
  <2>4. Cardinality(In(Less(s))) \in Nat /\ Cardinality(col) \in Nat /\ Cardinality(In(Less(s)) \cap col) \in Nat
    <3> HIDE DEF In, col
    <3> QED
      BY <2>3, FS_CardinalityType, FS_Intersection
  <2>5. Cardinality(In(s)) <= Cardinality(In(Less(s))) + Cardinality(col)
    <3> HIDE DEF In, col
    <3>1. Cardinality(In(Less(s)) \cup col)
          = Cardinality(In(Less(s))) + Cardinality(col) - Cardinality(In(Less(s)) \cap col)
      BY <2>3, FS_Union
    <3> QED
      BY <2>2, <2>4, <3>1
  <2>6. Cardinality(col) <= count[One(s)] /\ count[One(s)] \in Nat
    BY <2>1
  <2>7. it[Less(s)] \in Nat /\ Cardinality(In(Less(s))) <= it[Less(s)]
    BY <1>4
  <2>8. IsFiniteSet(In(s))
    BY <1>2, FS_Subset
  <2>9. Cardinality(In(s)) \in Nat
    BY <2>8, FS_CardinalityType
  <2> HIDE DEF In, col
  <2> QED
    BY <1>4, <2>1, <2>4, <2>5, <2>6, <2>7, <2>9
<1> HIDE DEF Good
<1>5. B \in Good
  BY <1>3, <1>4, SubsetInduction
<1>6. In(B) = R
  OBVIOUS
<1> QED
  BY <1>1, <1>5, <1>6 DEF Good
=============================================================================
