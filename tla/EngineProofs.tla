---------------------------- MODULE EngineProofs ----------------------------
(***************************************************************************)
(* What Engine promises for every universe of stocks, every set of wallets *)
(* and every configuration: the plan of a round is fair, it can be rebuilt *)
(* from its document, and what it pays stays above the reserve.            *)
(***************************************************************************)
EXTENDS Engine, Sums

-----------------------------------------------------------------------------
(* Dividing and rounding.                                                  *)

LEMMA Division ==
  ASSUME NEW n \in Nat, NEW d \in Nat \ {0}
  PROVE  /\ n \div d \in Nat /\ n % d \in Nat /\ n % d < d
         /\ n = d * (n \div d) + (n % d)
OBVIOUS

\* What is before m when the larger remainders come first, the rank deciding
\* between equal ones, is an order.
LEMMA AheadIsLinear ==
  ASSUME NEW P, NEW key, NEW first, NEW before \in [P -> SUBSET P],
         \A m \in P : key[m] \in Nat /\ first[m] \in Nat,
         \A k \in P : \A m \in P : first[k] = first[m] => k = m,
         \A k \in P : \A m \in P :
           k \in before[m] <=> k # m /\ (key[k] > key[m] \/ (key[k] = key[m] /\ first[k] < first[m]))
  PROVE  Linear(P, before)
<1>1. ASSUME NEW m \in P, NEW k \in before[m], NEW j \in before[k] PROVE j \in before[m]
  BY <1>1
<1>2. \A k \in P : \A m \in P : k # m => k \in before[m] \/ m \in before[k]
  OBVIOUS
<1>3. \A m \in P : m \notin before[m]
  OBVIOUS
<1> QED
  BY <1>1, <1>2, <1>3 DEF Linear

\* out shares the whole as b does: within one of the exact share, and never more
\* where b is smaller.
Proportional(out, whole, b) ==
  LET total == SumFunction(b)
  IN  /\ out \in [Mint -> Nat] /\ SumFunction(out) = whole /\ Picked(out) \subseteq Picked(b)
      /\ total \in Nat \ {0}
      /\ \A m \in Mint : /\ out[m] * total < b[m] * whole + total
                         /\ out[m] * total > b[m] * whole - total
      /\ \A k \in Mint : \A m \in Mint : b[k] > b[m] => out[k] >= out[m]

LEMMA LargestRemainderIsFair ==
  ASSUME NEW whole \in Nat, NEW b \in [Mint -> Nat], NEW first \in [Mint -> Nat], Picked(b) # {},
         \A k \in Mint : \A m \in Mint : first[k] = first[m] => k = m
  PROVE  Proportional(LargestRemainder(whole, b, first), whole, b)
<1> DEFINE total     == SumFunction(b)
           rounded   == [m \in Mint |-> (b[m] * whole) \div total]
           remainder == [m \in Mint |-> (b[m] * whole) % total]
           leftover  == whole - SumFunction(rounded)
           Ahead(m)  == {k \in Picked(b) \ {m} : \/ remainder[k] > remainder[m]
                                                 \/ remainder[k] = remainder[m] /\ first[k] < first[m]}
           before    == [m \in Picked(b) |-> Ahead(m)]
           pos       == {m \in Mint : remainder[m] > 0}
           bonus     == {m \in Picked(b) : Cardinality(Ahead(m)) < leftover}
           extra     == [m \in Mint |-> IF m \in bonus THEN 1 ELSE 0]
           out       == LargestRemainder(whole, b, first)
<1>1. /\ out = [m \in Mint |-> IF m \in Picked(b) /\ Cardinality(Ahead(m)) < leftover
                               THEN rounded[m] + 1 ELSE rounded[m]]
  BY DEF LargestRemainder
<1>2. total \in Nat \ {0}
  <2>1. PICK m \in Mint : b[m] > 0
    BY DEF Picked
  <2>2. total \in Nat /\ b[m] <= total /\ b[m] \in Nat
    BY FiniteAssumption, SumType, SumMember
  <2> QED
    BY <2>1, <2>2
<1>3. \A m \in Mint : /\ rounded[m] \in Nat /\ remainder[m] \in Nat /\ remainder[m] < total
                      /\ b[m] * whole = total * rounded[m] + remainder[m]
  <2> TAKE m \in Mint
  <2>1. b[m] * whole \in Nat
    OBVIOUS
  <2> HIDE DEF total
  <2> QED
    BY <1>2, <2>1, Division
<1>4. \A m \in Mint : b[m] = 0 => rounded[m] = 0 /\ remainder[m] = 0
  <2> TAKE m \in Mint
  <2> HAVE b[m] = 0
  <2> DEFINE floor == total * rounded[m]
  <2>1. floor + remainder[m] = 0 /\ remainder[m] \in Nat /\ rounded[m] \in Nat
    BY <1>3
  <2> HIDE DEF total, rounded, remainder
  <2>2. floor \in Nat
    BY <1>2, <2>1
  <2>3. floor = 0 /\ remainder[m] = 0
    <3> HIDE DEF floor
    <3> QED
      BY <2>1, <2>2
  <2> QED
    BY <1>2, <2>1, <2>3
<1>5. rounded \in [Mint -> Nat] /\ remainder \in [Mint -> Nat]
  BY <1>3
<1> HIDE DEF rounded, remainder, out
<1>6. /\ SumFunction(rounded) \in Nat /\ SumFunction(remainder) \in Nat
      /\ total * SumFunction(rounded) + SumFunction(remainder) = whole * total
  <2> DEFINE scaled == [m \in Mint |-> b[m] * whole]
             floors == [m \in Mint |-> total * rounded[m]]
  <2>0. total \in Nat
    BY <1>2
  <2> HIDE DEF total
  <2>1. scaled \in [Mint -> Nat] /\ \A m \in Mint : scaled[m] = whole * b[m]
    OBVIOUS
  <2>2. floors \in [Mint -> Nat] /\ \A m \in Mint : floors[m] = total * rounded[m]
    BY <2>0, <1>5
  <2>3. \A m \in Mint : floors[m] + remainder[m] = scaled[m]
    BY <1>3
  <2> HIDE DEF scaled, floors
  <2>4. SumFunction(scaled) = whole * SumFunction(b)
    BY <2>1, FiniteAssumption, SumTimes
  <2>5. SumFunction(floors) = total * SumFunction(rounded)
    BY <1>5, <2>0, <2>2, FiniteAssumption, SumTimes
  <2>6. SumFunction(floors) + SumFunction(remainder) = SumFunction(scaled)
    BY <1>5, <2>1, <2>2, <2>3, FiniteAssumption, SumPlus
  <2> QED
    BY <1>5, <2>4, <2>5, <2>6, FiniteAssumption, SumType DEF total
<1>7. /\ pos \subseteq Picked(b) /\ IsFiniteSet(pos) /\ Cardinality(pos) \in Nat
      /\ SumFunction(remainder) <= total * Cardinality(pos)
  <2>1. pos \subseteq Picked(b)
    BY <1>4, <1>5 DEF Picked
  <2>2. IsFiniteSet(pos) /\ Cardinality(pos) \in Nat
    BY FiniteAssumption, FS_Subset, FS_CardinalityType
  <2> DEFINE one    == [m \in Mint |-> IF m \in pos THEN 1 ELSE 0]
             capped == [m \in Mint |-> IF m \in pos THEN total ELSE 0]
  <2>3. total \in Nat /\ one \in [Mint -> Nat]
    BY <1>2
  <2>4. capped \in [Mint -> Nat] /\ \A m \in Mint : capped[m] = total * one[m]
    <3> HIDE DEF total, pos
    <3> QED
      BY <2>3
  <2>5. \A m \in Mint : remainder[m] <= capped[m]
    <3> HIDE DEF total
    <3> QED
      BY <1>3, <2>3
  <2>6. SumFunction(one) = Cardinality(pos)
    BY <2>3, FiniteAssumption, SumIndicator
  <2> HIDE DEF one, capped, pos
  <2>7. SumFunction(capped) = total * SumFunction(one)
    <3> HIDE DEF total
    <3> QED
      BY <2>3, <2>4, FiniteAssumption, SumTimes
  <2>8. SumFunction(remainder) <= SumFunction(capped)
    BY <1>5, <2>4, <2>5, FiniteAssumption, SumBelow
  <2> QED
    BY <2>1, <2>2, <2>6, <2>7, <2>8
<1>8. leftover \in Nat /\ leftover <= Cardinality(pos)
  <2> DEFINE sr == SumFunction(rounded)
             n  == Cardinality(pos)
             s  == SumFunction(remainder)
  <2>1. sr \in Nat /\ n \in Nat /\ s \in Nat /\ total \in Nat \ {0} /\ total * sr + s = whole * total /\ s <= total * n
    BY <1>2, <1>6, <1>7
  <2> HIDE DEF sr, n, s, total
  <2>2. sr <= whole
    <3>1. total * sr <= total * whole
      BY <2>1
    <3>2. sr > whole => total * sr > total * whole
      BY <2>1
    <3> QED
      BY <2>1, <3>1, <3>2
  <2>3. whole - sr <= n
    <3>1. total * (whole - sr) = s
      BY <2>1, <2>2
    <3>2. whole - sr > n => total * (whole - sr) > total * n
      BY <2>1, <2>2
    <3> QED
      BY <2>1, <2>2, <3>1, <3>2
  <2>4. sr \in Nat /\ n \in Nat /\ whole - sr \in Nat
    BY <2>1, <2>2
  <2> QED
    BY <2>3, <2>4 DEF sr, n
<1> HIDE DEF leftover
<1>9. Linear(Picked(b), before)
  <2>1. Picked(b) \subseteq Mint
    BY DEF Picked
  <2>2. before \in [Picked(b) -> SUBSET Picked(b)]
    OBVIOUS
  <2>3. \A k \in Picked(b) : \A m \in Picked(b) :
          k \in before[m] <=> k # m /\ (remainder[k] > remainder[m] \/ (remainder[k] = remainder[m] /\ first[k] < first[m]))
    OBVIOUS
  <2>4. \A m \in Picked(b) : remainder[m] \in Nat /\ first[m] \in Nat
    BY <1>5, <2>1
  <2>5. \A k \in Picked(b) : \A m \in Picked(b) : first[k] = first[m] => k = m
    BY <2>1
  <2> HIDE DEF before
  <2> QED
    BY <2>2, <2>3, <2>4, <2>5, AheadIsLinear
<1>10. IsFiniteSet(Picked(b)) /\ pos \in SUBSET Picked(b) /\ leftover \in 0 .. Cardinality(Picked(b))
  <2>1. Picked(b) \in SUBSET Mint
    BY DEF Picked
  <2>2. IsFiniteSet(Picked(b)) /\ Cardinality(Picked(b)) \in Nat
    BY <2>1, FiniteAssumption, FS_Subset, FS_CardinalityType
  <2>3. Cardinality(pos) <= Cardinality(Picked(b))
    BY <1>7, <2>2, FS_Subset
  <2> HIDE DEF pos
  <2> QED
    BY <1>7, <1>8, <2>2, <2>3
<1>11. \A m \in Picked(b) : /\ before[m] = Ahead(m) /\ IsFiniteSet(Ahead(m)) /\ Cardinality(Ahead(m)) \in Nat
                            /\ Ahead(m) \subseteq Picked(b)
  <2> TAKE m \in Picked(b)
  <2>1. Ahead(m) \in SUBSET Picked(b) /\ before[m] = Ahead(m)
    OBVIOUS
  <2> QED
    BY <1>10, <2>1, FS_Subset, FS_CardinalityType
<1>12. bonus \in SUBSET Mint /\ Cardinality(bonus) = leftover
  <2>1. bonus \in SUBSET Mint
    BY DEF Picked
  <2>2. bonus = {m \in Picked(b) : Cardinality(before[m]) < leftover}
    BY <1>11
  <2> HIDE DEF before, bonus
  <2> QED
    BY <2>1, <2>2, <1>9, <1>10, FirstAreMany
<1>13. bonus \subseteq pos
  <2> SUFFICES ASSUME NEW m \in bonus, m \notin pos PROVE FALSE
    OBVIOUS
  <2>1. m \in Mint /\ m \in Picked(b) /\ remainder[m] = 0 /\ Cardinality(Ahead(m)) < leftover
    BY <1>5, <1>12
  <2>2. pos \in SUBSET Ahead(m)
    BY <1>10, <2>1
  <2>3. IsFiniteSet(Ahead(m)) /\ Cardinality(Ahead(m)) \in Nat
    BY <1>11, <2>1
  <2>4. Cardinality(pos) <= Cardinality(Ahead(m))
    BY <2>2, <2>3, FS_Subset
  <2> HIDE DEF Ahead, pos
  <2> QED
    BY <1>7, <1>8, <2>1, <2>3, <2>4
<1>14. \A m \in Mint : out[m] = rounded[m] + extra[m] /\ extra[m] \in {0, 1} /\ (extra[m] = 1 <=> m \in bonus)
  <2>1. \A m \in Mint : (m \in Picked(b) /\ Cardinality(Ahead(m)) < leftover) <=> m \in bonus
    OBVIOUS
  <2> HIDE DEF bonus, Ahead
  <2> QED
    BY <1>1, <1>5, <2>1
<1>15. out \in [Mint -> Nat] /\ extra \in [Mint -> Nat]
  <2>1. extra \in [Mint -> Nat]
    OBVIOUS
  <2> HIDE DEF extra, bonus
  <2>2. \A m \in Mint : out[m] \in Nat
    BY <1>5, <1>14, <2>1
  <2> HIDE DEF Ahead
  <2> QED
    BY <1>1, <2>1, <2>2
<1>16. SumFunction(out) = whole
  <2>1. SumFunction(extra) = leftover
    BY <1>12, <1>15, FiniteAssumption, SumIndicator
  <2> HIDE DEF extra
  <2>2. \A m \in Mint : rounded[m] + extra[m] = out[m]
    BY <1>14
  <2>3. SumFunction(rounded) + SumFunction(extra) = SumFunction(out)
    BY <1>5, <1>15, <2>2, FiniteAssumption, SumPlus
  <2> QED
    BY <1>6, <1>8, <2>1, <2>3 DEF leftover
<1>17. Picked(out) \subseteq Picked(b)
  <2> HIDE DEF pos, bonus, extra
  <2> QED
    BY <1>4, <1>7, <1>13, <1>14, <1>15 DEF Picked
<1>18. ASSUME NEW m \in Mint PROVE out[m] * total < b[m] * whole + total /\ out[m] * total > b[m] * whole - total
  <2> DEFINE q == rounded[m]
             r == remainder[m]
             x == b[m] * whole
  <2>1. /\ q \in Nat /\ r \in Nat /\ r < total /\ x = total * q + r /\ total \in Nat \ {0}
        /\ out[m] = q + extra[m] /\ (extra[m] = 1 => r > 0) /\ extra[m] \in {0, 1}
    BY <1>2, <1>3, <1>13, <1>14
  <2> HIDE DEF total, q, r, x, extra
  <2>2. CASE extra[m] = 0
    <3>1. out[m] * total = total * q
      BY <2>1, <2>2
    <3> QED
      BY <2>1, <3>1 DEF x
  <2>3. CASE extra[m] = 1
    <3>1. out[m] * total = total * q + total
      BY <2>1, <2>3
    <3> QED
      BY <2>1, <2>3, <3>1 DEF x
  <2> QED
    BY <2>1, <2>2, <2>3
<1>19. ASSUME NEW k \in Mint, NEW m \in Mint, b[k] > b[m] PROVE out[k] >= out[m]
  <2>1. /\ rounded[k] \in Nat /\ rounded[m] \in Nat /\ remainder[k] \in Nat /\ remainder[m] \in Nat
        /\ remainder[k] < total /\ remainder[m] < total
        /\ b[k] * whole = total * rounded[k] + remainder[k] /\ b[m] * whole = total * rounded[m] + remainder[m]
    BY <1>3
  <2>2. b[k] * whole >= b[m] * whole /\ (whole > 0 => b[k] * whole > b[m] * whole)
    BY <1>19
  <2>3. rounded[k] >= rounded[m]
    <3> DEFINE qk == rounded[k]
               qm == rounded[m]
    <3>1. qk \in Nat /\ qm \in Nat /\ total \in Nat \ {0} /\ total * qk + remainder[k] >= total * qm + remainder[m]
      BY <1>2, <2>1, <2>2
    <3> HIDE DEF qk, qm, total
    <3>2. qk < qm => total * qk + total <= total * qm
      <4>1. qk < qm => total * (qk + 1) <= total * qm
        BY <3>1
      <4> QED
        BY <3>1, <4>1
    <3> QED
      BY <2>1, <3>1, <3>2 DEF qk, qm
  <2>4. CASE rounded[k] > rounded[m]
    <3> HIDE DEF bonus, extra
    <3> QED
      BY <1>14, <2>1, <2>4
  <2>5. CASE rounded[k] = rounded[m] /\ remainder[k] > remainder[m]
    <3>1. k # m /\ k \in Picked(b) /\ b[m] \in Nat
      BY <1>19 DEF Picked
    <3>2. m \in bonus => k \in bonus
      <4> HAVE m \in bonus
      <4>1. m \in Picked(b) /\ Cardinality(before[m]) < leftover
        BY <1>11
      <4>2. k \in before[m]
        BY <2>5, <3>1, <4>1
      <4> HIDE DEF before
      <4>3. Cardinality(before[k]) < Cardinality(before[m])
        BY <1>9, <1>10, <4>1, <4>2, FewerBefore
      <4>4. Cardinality(Ahead(k)) < leftover
        <5> HIDE DEF Ahead
        <5> QED
          BY <1>8, <1>11, <3>1, <4>1, <4>3
      <4> QED
        BY <3>1, <4>4
    <3> HIDE DEF bonus, extra
    <3> QED
      BY <1>14, <2>1, <2>5, <3>2
  <2>6. CASE rounded[k] = rounded[m] /\ ~(remainder[k] > remainder[m])
    <3> DEFINE xk == b[k] * whole
               xm == b[m] * whole
               floor == total * rounded[k]
    <3>0. /\ xk = floor + remainder[k] /\ xm = floor + remainder[m] /\ floor \in Nat
          /\ xk >= xm /\ (whole > 0 => xk > xm)
      <4>1. floor = total * rounded[m]
        BY <2>6
      <4>2. floor \in Nat
        BY <1>2, <2>1
      <4> QED
        BY <2>1, <2>2, <4>1, <4>2
    <3> HIDE DEF xk, xm, floor
    <3>1. ~(whole > 0)
      BY <2>1, <2>6, <3>0
    <3>2. whole = 0
      BY <3>1
    <3>3. out[k] = 0 /\ out[m] = 0
      BY <1>15, <1>16, <3>2, FiniteAssumption, SumMember
    <3> QED
      BY <3>3
  <2> QED
    BY <2>1, <2>3, <2>4, <2>5, <2>6
<1> HIDE DEF total
<1> QED
  BY <1>2, <1>15, <1>16, <1>17, <1>18, <1>19 DEF Proportional, out, total

-----------------------------------------------------------------------------
(* Baskets.                                                                *)

LEMMA ListedStocks == \A u \in Universes : u \in SUBSET Mint
BY MenuAssumption DEF Universes, Top

LEMMA NothingIsEmpty ==
  /\ Nothing \in Basket /\ Picked(Nothing) = {} /\ SumFunction(Nothing) = 0
  /\ \A b \in [Mint -> Nat] : b # Nothing => Picked(b) # {}
<1>1. Nothing \in [Mint -> Nat] /\ \A m \in Mint : Nothing[m] = 0
  BY DEF Nothing
<1>2. Nothing \in Basket /\ Picked(Nothing) = {}
  BY RulesAssumption DEF Nothing, Basket, Picked
<1>3. SumFunction(Nothing) = 0
  BY <1>1, FiniteAssumption, SumOfNothing
<1>4. ASSUME NEW b \in [Mint -> Nat], Picked(b) = {} PROVE b = Nothing
  <2>1. \A m \in Mint : b[m] \in Nat /\ ~(b[m] > 0)
    BY <1>4 DEF Picked
  <2>2. \A m \in Mint : b[m] = 0
    BY <2>1
  <2> QED
    BY <2>2 DEF Nothing
<1> QED
  BY <1>2, <1>3, <1>4

LEMMA BasketTypes ==
  /\ Basket \subseteq [Mint -> Nat]
  /\ \A b \in [Mint -> Nat] : SumFunction(b) <= Whole => b \in Basket
<1>1. Basket \subseteq [Mint -> Nat]
  BY RulesAssumption DEF Basket
<1>2. ASSUME NEW b \in [Mint -> Nat], SumFunction(b) <= Whole PROVE b \in Basket
  <2>1. \A m \in Mint : b[m] \in Nat /\ b[m] <= SumFunction(b)
    BY FiniteAssumption, SumMember
  <2>2. \A m \in Mint : b[m] \in 0 .. Whole
    BY <1>2, <2>1, RulesAssumption, FiniteAssumption, SumType
  <2> QED
    BY <2>2 DEF Basket
<1> QED
  BY <1>1, <1>2

LEMMA KeptPart ==
  ASSUME NEW b \in [Mint -> Nat], NEW u
  PROVE  /\ Kept(b, u) \in [Mint -> Nat] /\ Picked(Kept(b, u)) \subseteq u
         /\ Picked(b) \subseteq u => Kept(b, u) = b
<1>1. Kept(b, u) \in [Mint -> Nat] /\ Picked(Kept(b, u)) \subseteq u
  BY DEF Kept, Picked
<1>2. ASSUME Picked(b) \subseteq u PROVE Kept(b, u) = b
  <2>1. \A m \in Mint : m \notin u => b[m] = 0
    BY <1>2 DEF Picked
  <2> QED
    BY <2>1 DEF Kept
<1> QED
  BY <1>1, <1>2

\* A basket that adds up already is its own best share.
LEMMA WholeIsFair ==
  ASSUME NEW b \in [Mint -> Nat], SumFunction(b) = Whole
  PROVE  Proportional(b, Whole, b)
<1>1. Whole \in Nat \ {0} /\ \A m \in Mint : b[m] \in Nat
  BY RulesAssumption
<1>2. ASSUME NEW m \in Mint PROVE b[m] * Whole < b[m] * Whole + Whole /\ b[m] * Whole > b[m] * Whole - Whole
  <2> DEFINE x == b[m] * Whole
  <2>1. x \in Nat
    BY <1>1
  <2> HIDE DEF x
  <2>2. x < x + Whole /\ x > x - Whole
    BY <1>1, <2>1
  <2> QED
    BY <2>2 DEF x
<1>3. \A k \in Mint : \A m \in Mint : b[k] > b[m] => b[k] >= b[m]
  BY <1>1
<1> QED
  BY <1>1, <1>2, <1>3 DEF Proportional

LEMMA RespreadIsFair ==
  ASSUME NEW b \in [Mint -> Nat], Picked(b) # {}
  PROVE  Proportional(Respread(b), Whole, b)
<1> DEFINE Before(m) == {k \in Mint : b[k] > b[m] \/ (b[k] = b[m] /\ Symbol[k] < Symbol[m])}
           before    == [m \in Mint |-> Before(m)]
           first     == [m \in Mint |-> Cardinality(Before(m))]
<1>1. CASE SumFunction(b) = Whole
  BY <1>1, WholeIsFair DEF Respread
<1>2. CASE SumFunction(b) # Whole
  <2>1. Respread(b) = LargestRemainder(Whole, b, first)
    BY <1>2 DEF Respread
  <2>2. Linear(Mint, before)
    <3>1. before \in [Mint -> SUBSET Mint]
      OBVIOUS
    <3>2. Symbol \in [Mint -> Nat] /\ \A k \in Mint : \A m \in Mint : Symbol[k] = Symbol[m] => k = m
      BY OrderAssumption DEF IsInjective
    <3>3. \A m \in Mint : b[m] \in Nat /\ Symbol[m] \in Nat
      BY <3>2
    <3>4. \A k \in Mint : \A m \in Mint :
            k \in before[m] <=> k # m /\ (b[k] > b[m] \/ (b[k] = b[m] /\ Symbol[k] < Symbol[m]))
      BY <3>3
    <3> HIDE DEF before
    <3> QED
      BY <3>1, <3>2, <3>3, <3>4, AheadIsLinear
  <2>3. \A m \in Mint : before[m] = Before(m) /\ first[m] = Cardinality(before[m])
    OBVIOUS
  <2> HIDE DEF before, Before
  <2>4. \A m \in Mint : first[m] \in Nat
    <3>1. Cardinality(Mint) \in Nat
      BY FiniteAssumption, FS_CardinalityType
    <3> QED
      BY <2>2, <2>3, <3>1, FiniteAssumption, FewerBefore
  <2>5. first \in [Mint -> Nat]
    BY <2>4
  <2>6. \A k \in Mint : \A m \in Mint : first[k] = first[m] => k = m
    <3> SUFFICES ASSUME NEW k \in Mint, NEW m \in Mint, k # m PROVE first[k] # first[m]
      OBVIOUS
    <3>1. k \in before[m] \/ m \in before[k]
      BY <2>2 DEF Linear
    <3>2. first[k] < first[m] \/ first[m] < first[k]
      BY <2>2, <2>3, <3>1, FiniteAssumption, FewerBefore
    <3> QED
      BY <2>4, <3>2
  <2> HIDE DEF first
  <2> QED
    BY <2>1, <2>5, <2>6, RulesAssumption, LargestRemainderIsFair
<1> QED
  BY <1>1, <1>2

LEMMA RebalanceIsFair ==
  ASSUME NEW s \in Settings, NEW b \in [Mint -> Nat], Picked(b) # {}
  PROVE  Proportional(Rebalance(s, b), Whole, b)
<1>1. CASE SumFunction(b) = Whole
  BY <1>1, WholeIsFair DEF Rebalance
<1>2. CASE SumFunction(b) # Whole
  <2>1. s.noise \in [Mint -> Nat] /\ \A k \in Mint : \A m \in Mint : s.noise[k] = s.noise[m] => k = m
    BY MenuAssumption DEF IsInjective
  <2> QED
    BY <1>2, <2>1, RulesAssumption, LargestRemainderIsFair DEF Rebalance
<1> QED
  BY <1>1, <1>2

-----------------------------------------------------------------------------
(* The default basket.                                                     *)

\* The stocks of a universe, best first.
LEMMA RanksAreLinear ==
  ASSUME NEW u \in SUBSET Mint
  PROVE  /\ Linear(u, [m \in u |-> Better(u, m)])
         /\ IsFiniteSet(u) /\ Cardinality(u) \in Nat
         /\ \A m \in u : Better(u, m) \in SUBSET u /\ Cardinality(Better(u, m)) \in 0 .. Cardinality(u) - 1
<1> DEFINE before == [m \in u |-> Better(u, m)]
<1>1. IsFiniteSet(u) /\ Cardinality(u) \in Nat
  BY FiniteAssumption, FS_Subset, FS_CardinalityType
<1>2. before \in [u -> SUBSET u] /\ \A m \in u : before[m] = Better(u, m)
  BY DEF Better
<1>3. \A m \in u : Rank[m] \in Nat
  BY OrderAssumption
<1>4. \A k \in u : \A m \in u : Rank[k] = Rank[m] => k = m
  BY OrderAssumption DEF IsInjective
<1> DEFINE same == [m \in u |-> 0]
<1>5. \A m \in u : same[m] \in Nat /\ same[m] = 0
  OBVIOUS
<1>6. \A k \in u : \A m \in u :
        k \in before[m] <=> k # m /\ (same[k] > same[m] \/ (same[k] = same[m] /\ Rank[k] < Rank[m]))
  BY <1>2, <1>3, <1>5 DEF Better
<1> HIDE DEF before, same
<1>7. \A m \in u : same[m] \in Nat /\ Rank[m] \in Nat
  BY <1>3, <1>5
<1>8. Linear(u, before)
  BY <1>2, <1>4, <1>6, <1>7, AheadIsLinear
<1>9. \A m \in u : Cardinality(before[m]) \in 0 .. Cardinality(u) - 1
  BY <1>1, <1>8, FewerBefore
<1> QED
  BY <1>1, <1>2, <1>8, <1>9 DEF before

LEMMA FirstOfRanks ==
  ASSUME NEW u \in SUBSET Mint, NEW n \in Nat
  PROVE  /\ Top(u, n) \in SUBSET u /\ IsFiniteSet(Top(u, n)) /\ Cardinality(Top(u, n)) \in Nat
         /\ n <= Cardinality(u) => Cardinality(Top(u, n)) = n
         /\ n > Cardinality(u) => Top(u, n) = u
<1> DEFINE before == [m \in u |-> Better(u, m)]
<1>1. Top(u, n) \in SUBSET u
  BY DEF Top
<1>2. IsFiniteSet(u) /\ Cardinality(u) \in Nat
  BY RanksAreLinear
<1>3. IsFiniteSet(Top(u, n)) /\ Cardinality(Top(u, n)) \in Nat
  BY <1>1, <1>2, FS_Subset, FS_CardinalityType
<1>4. Linear(u, before) /\ \A m \in u : before[m] = Better(u, m)
  BY RanksAreLinear
<1>5. ASSUME n <= Cardinality(u) PROVE Cardinality(Top(u, n)) = n
  <2>1. Top(u, n) = {m \in u : Cardinality(before[m]) < n}
    BY <1>4 DEF Top
  <2>2. n \in 0 .. Cardinality(u)
    BY <1>2, <1>5
  <2> HIDE DEF before
  <2> QED
    BY <1>2, <1>4, <2>1, <2>2, FirstAreMany
<1>6. ASSUME n > Cardinality(u) PROVE Top(u, n) = u
  <2>1. \A m \in u : Cardinality(Better(u, m)) < n
    <3> TAKE m \in u
    <3>1. Cardinality(Better(u, m)) \in 0 .. Cardinality(u) - 1
      BY RanksAreLinear
    <3> QED
      BY <1>2, <1>6, <3>1
  <2> QED
    BY <2>1 DEF Top
<1> QED
  BY <1>1, <1>3, <1>5, <1>6

LEMMA TopEvenIsWhole ==
  ASSUME NEW u \in SUBSET Mint, NEW n \in Nat \ {0}
  PROVE  /\ TopEven(u, n) \in [Mint -> Nat] /\ Picked(TopEven(u, n)) \subseteq u
         /\ u # {} => SumFunction(TopEven(u, n)) = Whole
         /\ u = {} => TopEven(u, n) = Nothing
<1> DEFINE top   == Top(u, n)
           count == Cardinality(top)
           each  == Whole \div count
           left  == Whole % count
           bonus == {m \in top : Cardinality(Better(u, m)) < left}
           in    == [m \in Mint |-> IF m \in top THEN 1 ELSE 0]
           more  == [m \in Mint |-> IF m \in bonus THEN 1 ELSE 0]
           even  == [m \in Mint |-> each * in[m]]
           out   == TopEven(u, n)
<1>1. top \in SUBSET u /\ top \in SUBSET Mint /\ IsFiniteSet(top) /\ count \in Nat
  BY FirstOfRanks
<1>2. out = [m \in Mint |-> IF m \in top
                            THEN each + (IF Cardinality(Better(u, m)) < left THEN 1 ELSE 0) ELSE 0]
  BY DEF TopEven
<1>3. CASE u = {}
  <2>1. top = {}
    BY <1>1, <1>3
  <2> HIDE DEF top, count, each, left
  <2>2. out = Nothing
    BY <1>2, <2>1 DEF Nothing
  <2> QED
    BY <1>3, <2>2, NothingIsEmpty, BasketTypes
<1>4. CASE u # {}
  <2>1. IsFiniteSet(u) /\ Cardinality(u) \in Nat /\ Cardinality(u) # 0
    BY <1>4, RanksAreLinear, FS_EmptySet
  <2>2. count \in Nat \ {0} /\ count <= n /\ count <= Cardinality(u)
    <3>1. n <= Cardinality(u) => count = n
      BY FirstOfRanks
    <3>2. n > Cardinality(u) => count = Cardinality(u)
      BY FirstOfRanks
    <3> HIDE DEF top
    <3> QED
      BY <1>1, <2>1, <3>1, <3>2
  <2>3. each \in Nat /\ left \in Nat /\ left < count /\ Whole = count * each + left
    <3>1. Whole \in Nat
      BY RulesAssumption
    <3> HIDE DEF count
    <3> QED
      BY <2>2, <3>1, Division
  <2> HIDE DEF each, left
  <2>4. bonus = Top(u, left)
    <3>1. \A m \in u : Cardinality(Better(u, m)) \in Nat
      BY RanksAreLinear
    <3> QED
      BY <2>2, <2>3, <3>1 DEF Top
  <2>5. bonus \in SUBSET Mint /\ Cardinality(bonus) = left
    <3> HIDE DEF bonus, count
    <3> QED
      BY <2>1, <2>2, <2>3, <2>4, FirstOfRanks
  <2>6. in \in [Mint -> Nat] /\ SumFunction(in) = count
    <3> HIDE DEF top
    <3>1. in \in [Mint -> Nat] /\ \A m \in Mint : in[m] = IF m \in top THEN 1 ELSE 0
      OBVIOUS
    <3> HIDE DEF in
    <3> QED
      BY <1>1, <3>1, FiniteAssumption, SumIndicator
  <2>7. more \in [Mint -> Nat] /\ SumFunction(more) = left
    <3> HIDE DEF bonus
    <3>1. more \in [Mint -> Nat] /\ \A m \in Mint : more[m] = IF m \in bonus THEN 1 ELSE 0
      OBVIOUS
    <3> HIDE DEF more
    <3> QED
      BY <2>5, <3>1, FiniteAssumption, SumIndicator
  <2>8. even \in [Mint -> Nat] /\ SumFunction(even) = each * SumFunction(in)
    <3> HIDE DEF in
    <3>1. even \in [Mint -> Nat] /\ \A m \in Mint : even[m] = each * in[m]
      BY <2>3, <2>6
    <3> HIDE DEF even
    <3> QED
      BY <2>3, <2>6, <3>1, FiniteAssumption, SumTimes
  <2>9. \A m \in Mint : even[m] + more[m] = out[m] /\ out[m] \in Nat /\ (m \notin top => out[m] = 0)
    <3> TAKE m \in Mint
    <3>1. (m \in top => even[m] = each) /\ (m \notin top => even[m] = 0)
      <4> HIDE DEF top
      <4> QED
        BY <2>3
    <3>2. m \in bonus <=> m \in top /\ Cardinality(Better(u, m)) < left
      OBVIOUS
    <3>3. more[m] = IF m \in bonus THEN 1 ELSE 0
      OBVIOUS
    <3> HIDE DEF top, bonus, even, more, out
    <3> QED
      BY <1>2, <2>3, <3>1, <3>2, <3>3
  <2>10. out \in [Mint -> Nat]
    <3> HIDE DEF top, bonus, even, more
    <3> QED
      BY <1>2, <2>9
  <2> HIDE DEF out
  <2>11. SumFunction(out) = Whole
    <3>1. SumFunction(even) + SumFunction(more) = SumFunction(out)
      <4>1. \A m \in Mint : even[m] + more[m] = out[m]
        BY <2>9
      <4> HIDE DEF even, more
      <4> QED
        BY <2>7, <2>8, <2>10, <4>1, FiniteAssumption, SumPlus
    <3>2. each * count = count * each
      <4> HIDE DEF count
      <4> QED
        BY <2>2, <2>3
    <3> HIDE DEF even, more, in, count
    <3> QED
      BY <2>2, <2>3, <2>6, <2>7, <2>8, <3>1, <3>2
  <2>12. Picked(out) \subseteq u
    BY <1>1, <2>9 DEF Picked
  <2> QED
    BY <1>4, <2>10, <2>11, <2>12 DEF out
<1> QED
  BY <1>3, <1>4

LEMMA DefaultIsBasket ==
  ASSUME NEW s \in Settings, NEW u \in SUBSET Mint
  PROVE  /\ Default(s, u) \in [Mint -> Nat] /\ Picked(Default(s, u)) \subseteq u
         /\ u # {} => SumFunction(Default(s, u)) = Whole
         /\ u = {} => Default(s, u) = Nothing
<1> DEFINE resolved == Kept(s.pct, u)
<1>1. s.pct \in [Mint -> Nat] /\ s.size \in Nat \ {0}
  BY MenuAssumption, BasketTypes
<1>2. resolved \in [Mint -> Nat] /\ Picked(resolved) \subseteq u
  BY <1>1, KeptPart
<1>3. CASE resolved # Nothing
  <2>1. Picked(resolved) # {} /\ u # {}
    <3> HIDE DEF resolved
    <3> QED
      BY <1>2, <1>3, NothingIsEmpty
  <2>2. Default(s, u) = Rebalance(s, resolved)
    BY <1>3 DEF Default
  <2> HIDE DEF resolved
  <2>3. Proportional(Rebalance(s, resolved), Whole, resolved)
    BY <1>2, <2>1, RebalanceIsFair
  <2> QED
    BY <1>2, <2>1, <2>2, <2>3 DEF Proportional
<1>4. CASE resolved = Nothing
  <2>1. Default(s, u) = TopEven(u, s.size)
    BY <1>4 DEF Default
  <2> QED
    BY <1>1, <2>1, TopEvenIsWhole
<1> QED
  BY <1>3, <1>4

\* Whatever a holder chose and whatever is listed: a basket of listed stocks, which is
\* the whole unless nothing is listed, and in proportion to what is left of the choice.
LEMMA EffectiveIsBasket ==
  ASSUME NEW b \in Basket, NEW u \in SUBSET Mint, NEW s \in Settings
  PROVE  LET e == EffectiveBasket(b, u, s)
         IN  /\ e \in Basket /\ Picked(e) \subseteq u
             /\ u # {} => SumFunction(e) = Whole
             /\ u = {} => e = Nothing
             /\ Kept(b, u) # Nothing => Proportional(e, Whole, Kept(b, u))
<1> DEFINE e    == EffectiveBasket(b, u, s)
           kept == Kept(b, u)
<1>1. kept \in [Mint -> Nat] /\ Picked(kept) \subseteq u
  BY BasketTypes, KeptPart
<1>2. ASSUME e \in [Mint -> Nat], u # {} => SumFunction(e) = Whole, u = {} => e = Nothing PROVE e \in Basket
  BY <1>2, BasketTypes, NothingIsEmpty, RulesAssumption
<1>3. CASE kept = Nothing
  <2>1. e = Default(s, u)
    BY <1>3 DEF EffectiveBasket
  <2> HIDE DEF e
  <2> QED
    BY <1>2, <1>3, <2>1, DefaultIsBasket DEF e
<1>4. CASE kept # Nothing
  <2>1. e = Respread(kept)
    BY <1>4 DEF EffectiveBasket
  <2>2. Picked(kept) # {} /\ u # {}
    <3> HIDE DEF kept
    <3> QED
      BY <1>1, <1>4, NothingIsEmpty
  <2> HIDE DEF e
  <2>3. Proportional(e, Whole, kept)
    <3> HIDE DEF kept
    <3> QED
      BY <1>1, <2>1, <2>2, RespreadIsFair
  <2>4. e \in [Mint -> Nat] /\ SumFunction(e) = Whole /\ Picked(e) \subseteq u
    <3> HIDE DEF kept
    <3> QED
      BY <1>1, <2>3 DEF Proportional
  <2>5. e \in Basket
    BY <1>2, <2>2, <2>4
  <2> QED
    BY <2>2, <2>3, <2>4, <2>5 DEF e
<1> QED
  BY <1>3, <1>4

\* A basket that was frozen stays itself when it is read as a choice, whatever the
\* setting is by then.
LEMMA EffectiveAgain ==
  ASSUME NEW b \in Basket, NEW u \in SUBSET Mint, NEW s \in Settings, NEW now \in Settings
  PROVE  EffectiveBasket(EffectiveBasket(b, u, s), u, now) = EffectiveBasket(b, u, s)
<1> DEFINE e == EffectiveBasket(b, u, s)
<1>1. /\ e \in Basket /\ Picked(e) \subseteq u /\ (u # {} => SumFunction(e) = Whole) /\ (u = {} => e = Nothing)
  BY EffectiveIsBasket
<1> HIDE DEF e
<1>2. e \in [Mint -> Nat] /\ Kept(e, u) = e
  BY <1>1, BasketTypes, KeptPart
<1>3. ASSUME u = {} PROVE EffectiveBasket(e, u, now) = e
  BY <1>1, <1>2, <1>3, DefaultIsBasket DEF EffectiveBasket
<1>4. ASSUME u # {} PROVE EffectiveBasket(e, u, now) = e
  <2>1. e # Nothing
    BY <1>1, <1>4, NothingIsEmpty, RulesAssumption
  <2>2. Respread(e) = e
    BY <1>1, <1>4 DEF Respread
  <2> QED
    BY <1>2, <2>1, <2>2 DEF EffectiveBasket
<1> QED
  BY <1>3, <1>4 DEF e

-----------------------------------------------------------------------------
(* The plan.                                                               *)

\* What a plan is made from.
PlanArgs(holders, baskets, u, s) ==
  /\ holders \in [Wallet -> Nat] /\ baskets \in [Wallet -> Basket]
  /\ u \in SUBSET Mint /\ s \in Settings

PicksOf(holders, baskets, u, s) ==
  [w \in Wallet |-> IF holders[w] > 0 THEN EffectiveBasket(baskets[w], u, s) ELSE Nothing]

DemandOf(holders, picks) == [m \in Mint |-> SumFunction([w \in Wallet |-> holders[w] * picks[w][m]])]

LamportsOf(pool, demand) ==
  LET total == SumFunction(demand)
  IN  [m \in Mint |-> IF total = 0 THEN 0 ELSE (pool * demand[m]) \div total]

LEMMA PlanIs ==
  ASSUME NEW pool, NEW holders, NEW baskets, NEW u, NEW s
  PROVE  LET p == Plan(pool, holders, baskets, u, s)
         IN  p = [picks    |-> PicksOf(holders, baskets, u, s),
                  demand   |-> DemandOf(holders, PicksOf(holders, baskets, u, s)),
                  lamports |-> LamportsOf(pool, DemandOf(holders, PicksOf(holders, baskets, u, s)))]
BY DEF Plan, PicksOf, DemandOf, LamportsOf

LEMMA PicksType ==
  ASSUME NEW holders, NEW baskets, NEW u, NEW s, PlanArgs(holders, baskets, u, s)
  PROVE  /\ PicksOf(holders, baskets, u, s) \in [Wallet -> Basket]
         /\ \A w \in Wallet : PicksOf(holders, baskets, u, s)[w]
                              = IF holders[w] > 0 THEN EffectiveBasket(baskets[w], u, s) ELSE Nothing
<1>1. \A w \in Wallet : EffectiveBasket(baskets[w], u, s) \in Basket
  BY EffectiveIsBasket DEF PlanArgs
<1> QED
  BY <1>1, NothingIsEmpty DEF PicksOf

\* The table a demand adds up: what each holder asks of each stock.
LEMMA AsksType ==
  ASSUME NEW holders \in [Wallet -> Nat], NEW picks \in [Wallet -> Basket]
  PROVE  /\ \A w \in Wallet : \A m \in Mint : holders[w] * picks[w][m] \in Nat /\ picks[w][m] \in Nat
         /\ \A m \in Mint : [w \in Wallet |-> holders[w] * picks[w][m]] \in [Wallet -> Nat]
         /\ DemandOf(holders, picks) \in [Mint -> Nat]
         /\ \A m \in Mint : DemandOf(holders, picks)[m] = SumFunction([w \in Wallet |-> holders[w] * picks[w][m]])
<1>1. \A w \in Wallet : picks[w] \in [Mint -> Nat]
  BY BasketTypes
<1>2. \A w \in Wallet : \A m \in Mint : holders[w] * picks[w][m] \in Nat /\ picks[w][m] \in Nat
  BY <1>1
<1>3. ASSUME NEW m \in Mint PROVE [w \in Wallet |-> holders[w] * picks[w][m]] \in [Wallet -> Nat]
  BY <1>2
<1>4. \A m \in Mint : SumFunction([w \in Wallet |-> holders[w] * picks[w][m]]) \in Nat
  <2> TAKE m \in Mint
  <2> DEFINE asks == [w \in Wallet |-> holders[w] * picks[w][m]]
  <2>1. asks \in [Wallet -> Nat]
    BY <1>3
  <2> HIDE DEF asks
  <2>2. SumFunction(asks) \in Nat
    BY <2>1, FiniteAssumption, SumType
  <2> QED
    BY <2>2 DEF asks
<1> QED
  BY <1>2, <1>3, <1>4 DEF DemandOf

\* The pool is split without being exceeded, and a larger pool leaves no stock out.
LEMMA SplitType ==
  ASSUME NEW pool \in Nat, NEW demand \in [Mint -> Nat]
  PROVE  /\ LamportsOf(pool, demand) \in [Mint -> Nat]
         /\ SumFunction(LamportsOf(pool, demand)) <= pool
         /\ \A more \in Nat : pool <= more => Picked(LamportsOf(pool, demand)) \subseteq Picked(LamportsOf(more, demand))
         /\ pool = 0 => LamportsOf(pool, demand) = Nothing
<1> DEFINE total == SumFunction(demand)
           split == LamportsOf(pool, demand)
<1>1. total \in Nat
  BY FiniteAssumption, SumType
<1>2. CASE total = 0
  <2>1. \A p \in Nat : LamportsOf(p, demand) = Nothing
    BY <1>2 DEF LamportsOf, Nothing
  <2> QED
    BY <2>1, NothingIsEmpty, BasketTypes
<1>3. CASE total # 0
  <2> HIDE DEF total
  <2>1. ASSUME NEW p \in Nat, NEW m \in Mint
        PROVE  LamportsOf(p, demand)[m] \in Nat /\ total * LamportsOf(p, demand)[m] <= p * demand[m]
               /\ p * demand[m] < total * LamportsOf(p, demand)[m] + total
    <3> DEFINE n == p * demand[m]
               q == LamportsOf(p, demand)[m]
    <3>1. n \in Nat /\ q = n \div total
      BY <1>3 DEF LamportsOf, total
    <3> HIDE DEF n, q
    <3>2. q \in Nat /\ n % total \in Nat /\ n % total < total /\ n = total * q + (n % total)
      BY <1>1, <1>3, <3>1, Division
    <3> DEFINE floor == total * q
               rest  == n % total
    <3>3. rest \in Nat /\ rest < total /\ n = floor + rest /\ floor \in Nat
      BY <1>1, <3>2
    <3> HIDE DEF floor, rest
    <3>4. floor <= n /\ n < floor + total
      BY <1>1, <3>3
    <3> QED
      BY <3>2, <3>4 DEF floor, n, q
  <2>2. split \in [Mint -> Nat]
    BY <2>1 DEF LamportsOf
  <2>3. SumFunction(split) <= pool
    <3>1. \A m \in Mint : total * split[m] <= pool * demand[m]
      BY <2>1
    <3> HIDE DEF split
    <3>2. total * SumFunction(split) <= pool * SumFunction(demand)
      BY <1>1, <2>2, <3>1, FiniteAssumption, SumScaled
    <3> DEFINE s == SumFunction(split)
    <3>3. s \in Nat /\ total * s <= pool * total
      BY <2>2, <3>2, FiniteAssumption, SumType DEF total
    <3> HIDE DEF s
    <3>4. s > pool => total * s > total * pool
      BY <1>1, <1>3, <3>3
    <3> QED
      BY <1>1, <3>3, <3>4 DEF s
  <2>4. ASSUME NEW more \in Nat, pool <= more, NEW m \in Picked(split)
        PROVE  m \in Picked(LamportsOf(more, demand))
    <3> DEFINE q == split[m]
               r == LamportsOf(more, demand)[m]
               x == pool * demand[m]
               y == more * demand[m]
    <3>1. m \in Mint /\ q > 0
      BY <2>4 DEF Picked
    <3>2. demand[m] \in Nat /\ x <= y /\ x \in Nat /\ y \in Nat
      BY <2>4, <3>1
    <3>3. q \in Nat /\ r \in Nat /\ total * q <= x /\ y < total * r + total
      BY <2>1, <3>1
    <3> HIDE DEF q, r, x, y
    <3>4. total <= total * q
      BY <1>1, <1>3, <3>1, <3>3
    <3>5. r = 0 => total * r = 0
      BY <1>1, <3>3
    <3>6. r > 0
      BY <1>1, <3>2, <3>3, <3>4, <3>5
    <3> QED
      BY <2>2, <3>1, <3>6 DEF Picked, LamportsOf, r
  <2>5. ASSUME pool = 0 PROVE split = Nothing
    <3>1. \A m \in Mint : split[m] \in Nat /\ total * split[m] <= 0
      BY <2>1, <2>5
    <3>2. \A m \in Mint : split[m] = 0
      BY <1>1, <1>3, <3>1
    <3> HIDE DEF split
    <3> QED
      BY <2>2, <3>2 DEF Nothing
  <2> QED
    BY <2>2, <2>3, <2>4, <2>5
<1> QED
  BY <1>2, <1>3

LEMMA PlanHasType ==
  ASSUME NEW pool \in Nat, NEW holders, NEW baskets, NEW u, NEW s, PlanArgs(holders, baskets, u, s)
  PROVE  Plan(pool, holders, baskets, u, s) \in PlanType
<1> DEFINE picks  == PicksOf(holders, baskets, u, s)
           demand == DemandOf(holders, picks)
<1>1. holders \in [Wallet -> Nat] /\ picks \in [Wallet -> Basket]
  BY PicksType DEF PlanArgs
<1> HIDE DEF picks
<1>2. demand \in [Mint -> Nat]
  BY <1>1, AsksType
<1> HIDE DEF demand
<1>3. LamportsOf(pool, demand) \in [Mint -> Nat]
  BY <1>2, SplitType
<1>4. Plan(pool, holders, baskets, u, s) = [picks |-> picks, demand |-> demand, lamports |-> LamportsOf(pool, demand)]
  BY PlanIs DEF picks, demand
<1> QED
  BY <1>1, <1>2, <1>3, <1>4 DEF PlanType

\* The plan made again from its own picks, under any setting, is the same.
LEMMA PlanAgain ==
  ASSUME NEW pool \in Nat, NEW holders, NEW baskets, NEW u, NEW s, NEW now \in Settings,
         PlanArgs(holders, baskets, u, s)
  PROVE  Plan(pool, holders, Plan(pool, holders, baskets, u, s).picks, u, now) = Plan(pool, holders, baskets, u, s)
<1> DEFINE picks == PicksOf(holders, baskets, u, s)
           again == PicksOf(holders, picks, u, now)
<1>1. /\ picks \in [Wallet -> Basket]
      /\ \A w \in Wallet : picks[w] = IF holders[w] > 0 THEN EffectiveBasket(baskets[w], u, s) ELSE Nothing
  BY PicksType
<1>2. \A w \in Wallet : EffectiveBasket(EffectiveBasket(baskets[w], u, s), u, now) = EffectiveBasket(baskets[w], u, s)
  BY EffectiveAgain DEF PlanArgs
<1>3. Plan(pool, holders, baskets, u, s).picks = picks
  BY PlanIs
<1> HIDE DEF picks
<1>4. PlanArgs(holders, picks, u, now)
  BY <1>1 DEF PlanArgs
<1>5. /\ again \in [Wallet -> Basket]
      /\ \A w \in Wallet : again[w] = IF holders[w] > 0 THEN EffectiveBasket(picks[w], u, now) ELSE Nothing
  BY <1>4, PicksType
<1> HIDE DEF again
<1>6. \A w \in Wallet : again[w] = picks[w]
  BY <1>1, <1>2, <1>5
<1>7. again = picks
  BY <1>1, <1>5, <1>6
<1> QED
  BY <1>3, <1>7, PlanIs DEF again, picks

\* Every token of a holder asks for the whole.
LEMMA VotesAddUp ==
  ASSUME NEW holders, NEW baskets, NEW u, NEW s, PlanArgs(holders, baskets, u, s), u # {}
  PROVE  SumFunction(DemandOf(holders, PicksOf(holders, baskets, u, s))) = Whole * SumFunction(holders)
<1> DEFINE picks == PicksOf(holders, baskets, u, s)
           asks  == [w \in Wallet |-> [m \in Mint |-> holders[w] * picks[w][m]]]
           votes == [w \in Wallet |-> SumFunction([m \in Mint |-> asks[w][m]])]
<1>1. /\ picks \in [Wallet -> Basket] /\ holders \in [Wallet -> Nat]
      /\ \A w \in Wallet : picks[w] = IF holders[w] > 0 THEN EffectiveBasket(baskets[w], u, s) ELSE Nothing
  BY PicksType DEF PlanArgs
<1>2. \A w \in Wallet : holders[w] > 0 => SumFunction(picks[w]) = Whole
  BY <1>1, EffectiveIsBasket DEF PlanArgs
<1> HIDE DEF picks
<1>3. asks \in [Wallet -> [Mint -> Nat]] /\ \A w \in Wallet : \A m \in Mint : asks[w][m] = holders[w] * picks[w][m]
  <2>1. \A w \in Wallet : \A m \in Mint : holders[w] * picks[w][m] \in Nat
    BY <1>1, AsksType
  <2> QED
    BY <2>1
<1>4. DemandOf(holders, picks) = [m \in Mint |-> SumFunction([w \in Wallet |-> asks[w][m]])]
  BY <1>3 DEF DemandOf
<1> HIDE DEF asks
<1>5. SumFunction(DemandOf(holders, picks)) = SumFunction(votes)
  BY <1>3, <1>4, FiniteAssumption, SumSwap
<1>6. \A w \in Wallet : votes[w] = Whole * holders[w]
  <2> TAKE w \in Wallet
  <2> DEFINE row == [m \in Mint |-> asks[w][m]]
  <2>1. row \in [Mint -> Nat] /\ \A m \in Mint : row[m] = holders[w] * picks[w][m]
    BY <1>3
  <2>2. picks[w] \in [Mint -> Nat] /\ holders[w] \in Nat /\ Whole \in Nat
    BY <1>1, BasketTypes, RulesAssumption
  <2> HIDE DEF row
  <2>3. SumFunction(row) = holders[w] * SumFunction(picks[w])
    BY <2>1, <2>2, FiniteAssumption, SumTimes
  <2>4. CASE holders[w] > 0
    BY <1>2, <2>2, <2>3, <2>4 DEF row
  <2>5. CASE holders[w] = 0
    <3>1. SumFunction(picks[w]) \in Nat
      BY <2>2, FiniteAssumption, SumType
    <3>2. SumFunction(row) = 0
      BY <2>3, <2>5, <3>1
    <3>3. Whole * holders[w] = 0
      BY <2>2, <2>5
    <3> QED
      BY <3>2, <3>3 DEF row
  <2> QED
    BY <2>2, <2>4, <2>5
<1>7. votes \in [Wallet -> Nat]
  <2>1. \A w \in Wallet : Whole * holders[w] \in Nat
    BY <1>1, RulesAssumption
  <2>2. \A w \in Wallet : votes[w] \in Nat
    BY <1>6, <2>1
  <2> QED
    BY <2>2
<1> HIDE DEF votes
<1>8. SumFunction(votes) = Whole * SumFunction(holders)
  BY <1>1, <1>6, <1>7, RulesAssumption, FiniteAssumption, SumTimes
<1> QED
  BY <1>5, <1>8 DEF picks

\* What counts of two snapshots is no more than what was held at the first.
LEMMA HoldersFit ==
  ASSUME NEW open \in Spreads, NEW close \in Spreads
  PROVE  HoldersOf(open, close) \in [Wallet -> Nat] /\ SumFunction(HoldersOf(open, close)) <= Supply
<1>1. open \in [Wallet -> Nat] /\ close \in [Wallet -> Nat] /\ SumFunction(open) <= Supply
  BY SpreadsAssumption
<1>2. \A w \in Wallet : Held(open, close)[w] \in Nat /\ Held(open, close)[w] <= open[w]
  BY <1>1 DEF Held
<1>3. \A w \in Wallet : HoldersOf(open, close)[w] \in Nat /\ HoldersOf(open, close)[w] <= open[w]
  <2> TAKE w \in Wallet
  <2>1. HoldersOf(open, close)[w] = Held(open, close)[w] \/ HoldersOf(open, close)[w] = 0
    BY DEF HoldersOf, Eligible
  <2> QED
    BY <1>1, <1>2, <2>1
<1>4. HoldersOf(open, close) \in [Wallet -> Nat]
  BY <1>3 DEF HoldersOf, Eligible
<1>5. SumFunction(HoldersOf(open, close)) <= SumFunction(open)
  BY <1>1, <1>3, <1>4, FiniteAssumption, SumBelow
<1>6. SumFunction(HoldersOf(open, close)) \in Nat /\ SumFunction(open) \in Nat /\ Supply \in Nat
  BY <1>1, <1>4, FiniteAssumption, MoneyAssumption, SumType
<1> QED
  BY <1>1, <1>4, <1>5, <1>6

LEMMA FactsAreFair ==
  ASSUME NEW d, d.pool \in Nat, d.holders \in [Wallet -> Nat], d.chosen \in [Wallet -> Basket],
         d.universe \in Universes, setting \in Settings, PlanFacts(d)
  PROVE  /\ \A w \in Wallet : d.holders[w] > 0 /\ d.universe # {} => FairTo(d.plan.picks[w], d.chosen[w], d.universe)
         /\ d.universe # {} => SumFunction(d.plan.demand) = Whole * SumFunction(d.holders)
         /\ Rebuilt(d) = d.plan
<1>1. PICK s \in Settings : d.plan = Plan(d.pool, d.holders, d.chosen, d.universe, s)
  BY DEF PlanFacts
<1> DEFINE picks == PicksOf(d.holders, d.chosen, d.universe, s)
<1>2. PlanArgs(d.holders, d.chosen, d.universe, s)
  BY ListedStocks DEF PlanArgs
<1>3. d.plan.picks = picks /\ d.plan.demand = DemandOf(d.holders, picks)
  BY <1>1, PlanIs
<1>4. ASSUME NEW w \in Wallet, d.holders[w] > 0, d.universe # {} PROVE FairTo(picks[w], d.chosen[w], d.universe)
  <2> DEFINE e    == picks[w]
             kept == Kept(d.chosen[w], d.universe)
  <2>1. e = EffectiveBasket(d.chosen[w], d.universe, s) /\ d.chosen[w] \in Basket
    BY <1>2, <1>4, PicksType DEF PlanArgs
  <2> HIDE DEF e
  <2>2. Picked(e) \subseteq d.universe /\ SumFunction(e) = Whole /\ (kept # Nothing => Proportional(e, Whole, kept))
    BY <1>2, <1>4, <2>1, EffectiveIsBasket DEF PlanArgs
  <2> HIDE DEF kept
  <2>3. kept # Nothing =>
          /\ \A m \in Mint : /\ e[m] * SumFunction(kept) < kept[m] * Whole + SumFunction(kept)
                             /\ e[m] * SumFunction(kept) > kept[m] * Whole - SumFunction(kept)
          /\ \A k, m \in Mint : kept[k] > kept[m] => e[k] >= e[m]
    BY <2>2 DEF Proportional
  <2> QED
    BY <2>2, <2>3 DEF FairTo, e, kept
<1>5. d.universe # {} => SumFunction(d.plan.demand) = Whole * SumFunction(d.holders)
  BY <1>2, <1>3, VotesAddUp
<1>6. Rebuilt(d) = d.plan
  BY <1>1, <1>2, PlanAgain DEF Rebuilt, Frozen
<1> QED
  BY <1>3, <1>4, <1>5, <1>6

-----------------------------------------------------------------------------
(* Costs.                                                                  *)

CountOf(holders, p) == [m \in Mint |-> Cardinality(Contributors(holders, p, m))]

BatchesOf(count) == [m \in Mint |-> Batches(count[m])]

LEMMA BatchesGrow ==
  /\ \A n \in Nat : Batches(n) \in Nat
  /\ \A n, k \in Nat : n <= k => Batches(n) <= Batches(k)
  /\ Batches(0) = 0
<1>1. BatchSize \in Nat \ {0}
  BY MoneyAssumption
<1>2. ASSUME NEW n \in Nat
      PROVE  Batches(n) \in Nat /\ BatchSize * Batches(n) <= n + BatchSize - 1 /\ n + BatchSize - 1 < BatchSize * Batches(n) + BatchSize
  <2> DEFINE x == n + BatchSize - 1
             q == x \div BatchSize
             rest == x % BatchSize
             floor == BatchSize * q
  <2>1. x \in Nat
    BY <1>1
  <2> HIDE DEF x
  <2>2. q \in Nat /\ rest \in Nat /\ rest < BatchSize /\ x = floor + rest
    BY <1>1, <2>1, Division
  <2>3. floor \in Nat
    BY <1>1, <2>2
  <2> HIDE DEF rest, floor
  <2>4. floor <= x /\ x < floor + BatchSize
    BY <1>1, <2>2, <2>3
  <2> QED
    BY <2>2, <2>4 DEF Batches, floor, x
<1>3. ASSUME NEW n \in Nat, NEW k \in Nat, n <= k PROVE Batches(n) <= Batches(k)
  <2> DEFINE a == Batches(n)
             b == Batches(k)
  <2>1. a \in Nat /\ b \in Nat /\ BatchSize * a <= n + BatchSize - 1 /\ k + BatchSize - 1 < BatchSize * b + BatchSize
    BY <1>2
  <2> HIDE DEF a, b
  <2>2. BatchSize * a < BatchSize * b + BatchSize
    <3> DEFINE ba == BatchSize * a
               bb == BatchSize * b
    <3>1. ba \in Nat /\ bb \in Nat /\ ba <= n + BatchSize - 1 /\ k + BatchSize - 1 < bb + BatchSize
      BY <1>1, <2>1
    <3> HIDE DEF ba, bb
    <3>2. ba < bb + BatchSize
      BY <1>1, <1>3, <3>1
    <3> QED
      BY <3>2 DEF ba, bb
  <2>3. a > b => BatchSize * a >= BatchSize * b + BatchSize
    <3>1. a > b => BatchSize * a >= BatchSize * (b + 1)
      BY <1>1, <2>1
    <3> QED
      BY <1>1, <2>1, <3>1
  <2>4. ~(a > b)
    BY <1>1, <2>1, <2>2, <2>3
  <2> QED
    BY <2>1, <2>4 DEF a, b
<1>4. Batches(0) = 0
  <2> DEFINE z == Batches(0)
  <2>1. z \in Nat /\ BatchSize * z <= BatchSize - 1
    BY <1>1, <1>2
  <2> HIDE DEF z
  <2>2. z > 0 => BatchSize * z >= BatchSize
    BY <1>1, <2>1
  <2> QED
    BY <1>1, <2>1, <2>2 DEF z
<1> QED
  BY <1>2, <1>3, <1>4

LEMMA CountType ==
  ASSUME NEW holders, NEW p
  PROVE  /\ \A m \in Mint : IsFiniteSet(Contributors(holders, p, m))
         /\ CountOf(holders, p) \in [Mint -> Nat]
         /\ BatchesOf(CountOf(holders, p)) \in [Mint -> Nat]
         /\ SumFunction(CountOf(holders, p)) \in Nat /\ SumFunction(BatchesOf(CountOf(holders, p))) \in Nat
<1>1. \A m \in Mint : IsFiniteSet(Contributors(holders, p, m)) /\ Cardinality(Contributors(holders, p, m)) \in Nat
  <2> TAKE m \in Mint
  <2>1. Contributors(holders, p, m) \in SUBSET Wallet
    BY DEF Contributors
  <2> QED
    BY <2>1, FiniteAssumption, FS_Subset, FS_CardinalityType
<1>2. CountOf(holders, p) \in [Mint -> Nat]
  BY <1>1 DEF CountOf
<1>3. BatchesOf(CountOf(holders, p)) \in [Mint -> Nat]
  BY <1>2, BatchesGrow DEF BatchesOf
<1> QED
  BY <1>1, <1>2, <1>3, FiniteAssumption, SumType

LEMMA DeliveryIs ==
  ASSUME NEW holders, NEW p
  PROVE  DeliveryCosts(holders, p) = Rent * SumFunction(CountOf(holders, p)) + Fee * SumFunction(BatchesOf(CountOf(holders, p)))
<1> DEFINE count == CountOf(holders, p)
<1>1. DeliveryCosts(holders, p) = Rent * SumFunction(count) + Fee * SumFunction([m \in Mint |-> Batches(count[m])])
  BY DEF DeliveryCosts, CountOf
<1> QED
  BY <1>1 DEF BatchesOf

\* The costs of a round are those of its swaps and those of its transfers.
LEMMA CostsSplit ==
  ASSUME NEW holders, NEW p, p.lamports \in [Mint -> Nat]
  PROVE  /\ DeliveryCosts(holders, p) \in Nat /\ Cardinality(Picked(p.lamports)) \in Nat
         /\ Costs(holders, p) = DeliveryCosts(holders, p) + Fee * Cardinality(Picked(p.lamports))
         /\ Costs(holders, p) \in Nat
<1> DEFINE c == SumFunction(CountOf(holders, p))
           b == SumFunction(BatchesOf(CountOf(holders, p)))
           s == Cardinality(Picked(p.lamports))
<1>1. c \in Nat /\ b \in Nat
  BY CountType
<1>2. s \in Nat
  <2>1. Picked(p.lamports) \in SUBSET Mint
    BY DEF Picked
  <2> QED
    BY <2>1, FiniteAssumption, FS_Subset, FS_CardinalityType
<1>3. Costs(holders, p) = Rent * c + Fee * (s + b)
  BY DEF Costs, CountOf, BatchesOf
<1>4. DeliveryCosts(holders, p) = Rent * c + Fee * b
  BY DeliveryIs
<1> HIDE DEF c, b, s
<1>5. Rent \in Nat /\ Fee \in Nat
  BY MoneyAssumption
<1>6. Rent * c + Fee * (s + b) = (Rent * c + Fee * b) + Fee * s /\ Rent * c + Fee * b \in Nat /\ Fee * s \in Nat
  BY <1>1, <1>2, <1>5
<1> QED
  BY <1>2, <1>3, <1>4, <1>6 DEF s

\* Fewer stocks and the same holders cost no more.
LEMMA CostsGrow ==
  ASSUME NEW holders, NEW p, NEW q, p.lamports \in [Mint -> Nat], q.lamports \in [Mint -> Nat],
         p.picks = q.picks, Picked(p.lamports) \subseteq Picked(q.lamports)
  PROVE  Costs(holders, p) <= Costs(holders, q)
<1>1. CountOf(holders, p) = CountOf(holders, q)
  BY DEF CountOf, Contributors
<1>2. DeliveryCosts(holders, p) = DeliveryCosts(holders, q)
  BY <1>1, DeliveryIs
<1>3. Cardinality(Picked(p.lamports)) <= Cardinality(Picked(q.lamports))
  <2>1. Picked(q.lamports) \in SUBSET Mint /\ Picked(p.lamports) \in SUBSET Picked(q.lamports)
    BY DEF Picked
  <2> QED
    BY <2>1, FiniteAssumption, FS_Subset
<1> DEFINE i == Cardinality(Picked(p.lamports))
           j == Cardinality(Picked(q.lamports))
           d == DeliveryCosts(holders, p)
<1>4. i \in Nat /\ j \in Nat /\ i <= j /\ d \in Nat /\ Costs(holders, p) = d + Fee * i /\ Costs(holders, q) = d + Fee * j
  BY <1>2, <1>3, CostsSplit
<1> HIDE DEF i, j, d
<1>5. Fee * i <= Fee * j /\ Fee * i \in Nat /\ Fee * j \in Nat
  BY <1>4, MoneyAssumption
<1> QED
  BY <1>4, <1>5

-----------------------------------------------------------------------------
(* The shares.                                                             *)

LEMMA ShareFits ==
  ASSUME NEW d \in RoundDoc, PlanFacts(d), NEW m \in Mint
  PROVE  /\ [w \in Wallet |-> Share(d, d.plan, w, m)] \in [Wallet -> Nat]
         /\ \A w \in Wallet : Share(d, d.plan, w, m) > 0 => w \in Contributors(d.holders, d.plan, m) /\ d.swap[m] = "DONE"
         /\ HandedOut(d, d.plan, m) \in Nat
         /\ HandedOut(d, d.plan, m) <= d.received[m] + d.carryIn[m]
<1> DEFINE had   == d.received[m] + d.carryIn[m]
           owed  == d.plan.demand[m]
           asks  == [w \in Wallet |-> d.holders[w] * d.plan.picks[w][m]]
           share == [w \in Wallet |-> Share(d, d.plan, w, m)]
<1>1. /\ d.holders \in [Wallet -> Nat] /\ d.plan.picks \in [Wallet -> Basket] /\ had \in Nat /\ owed \in Nat
      /\ d.plan.demand = DemandOf(d.holders, d.plan.picks)
  <2>1. PICK s \in Settings : d.plan = Plan(d.pool, d.holders, d.chosen, d.universe, s)
    BY DEF PlanFacts
  <2>2. d.plan.demand = DemandOf(d.holders, d.plan.picks)
    BY <2>1, PlanIs
  <2>3. d.plan \in PlanType /\ d.holders \in [Wallet -> Nat] /\ d.received \in [Mint -> Nat] /\ d.carryIn \in [Mint -> Nat]
    BY DEF RoundDoc
  <2> QED
    BY <2>2, <2>3 DEF PlanType
<1>2. asks \in [Wallet -> Nat] /\ owed = SumFunction(asks) /\ \A w \in Wallet : d.plan.picks[w][m] \in Nat
  BY <1>1, AsksType
<1>3. ASSUME NEW w \in Wallet
      PROVE  /\ share[w] \in Nat /\ owed * share[w] <= had * asks[w]
             /\ share[w] > 0 => asks[w] > 0 /\ d.swap[m] = "DONE" /\ owed > 0
  <2>1. CASE d.swap[m] = "DONE" /\ owed > 0
    <3> DEFINE h == d.holders[w]
               k == d.plan.picks[w][m]
               n == had * h * k
               q == n \div owed
    <3>1. h \in Nat /\ k \in Nat /\ asks[w] = h * k /\ share[w] = q
      BY <1>1, <1>2, <2>1 DEF Share
    <3> HIDE DEF had, owed, asks, share, h, k
    <3>2. n = had * (h * k) /\ n \in Nat
      BY <1>1, <3>1
    <3> HIDE DEF n
    <3>3. q \in Nat /\ n % owed \in Nat /\ n % owed < owed /\ n = owed * q + (n % owed)
      <4>1. n \in Nat /\ owed \in Nat \ {0}
        BY <1>1, <2>1, <3>2
      <4> QED
        BY <4>1, Division
    <3> DEFINE floor == owed * q
               rest  == n % owed
    <3>4. q \in Nat /\ rest \in Nat /\ n = floor + rest /\ floor \in Nat
      BY <1>1, <3>3
    <3> HIDE DEF rest, q
    <3>5. q > 0 => floor > 0
      BY <1>1, <2>1, <3>4
    <3> HIDE DEF floor
    <3>6. floor <= n /\ (q > 0 => n > 0)
      BY <3>2, <3>4, <3>5
    <3>7. asks[w] = 0 => n = 0
      BY <1>1, <3>1, <3>2
    <3>8. asks[w] \in Nat
      BY <1>2
    <3> QED
      BY <2>1, <3>1, <3>2, <3>4, <3>6, <3>7, <3>8 DEF floor
  <2>2. CASE ~(d.swap[m] = "DONE" /\ owed > 0)
    <3>1. share[w] = 0
      BY <2>2 DEF Share
    <3>2. asks[w] \in Nat
      BY <1>2
    <3> HIDE DEF share, had, owed, asks
    <3>3. owed * share[w] = 0 /\ had * asks[w] \in Nat
      BY <1>1, <3>1, <3>2
    <3> QED
      BY <3>1, <3>3
  <2> QED
    BY <2>1, <2>2
<1>4. share \in [Wallet -> Nat]
  <2>1. \A w \in Wallet : share[w] \in Nat
    BY <1>3
  <2> QED
    BY <2>1
<1>5. \A w \in Wallet : share[w] > 0 => w \in Contributors(d.holders, d.plan, m) /\ d.swap[m] = "DONE"
  <2> HIDE DEF share
  <2> QED
    BY <1>3 DEF Contributors
<1> HIDE DEF share, asks
<1>6. SumFunction(share) \in Nat /\ SumFunction(share) <= had
  <2>1. SumFunction(share) \in Nat
    BY <1>4, FiniteAssumption, SumType
  <2>2. CASE owed = 0
    <3>1. \A w \in Wallet : share[w] = 0
      BY <1>3, <1>4, <2>2
    <3> QED
      BY <1>1, <1>4, <3>1, FiniteAssumption, SumOfNothing
  <2>3. CASE owed # 0
    <3> HIDE DEF had, owed
    <3>1. \A w \in Wallet : owed * share[w] <= had * asks[w]
      BY <1>3
    <3>2. owed * SumFunction(share) <= had * SumFunction(asks)
      BY <1>1, <1>2, <1>4, <3>1, FiniteAssumption, SumScaled
    <3> DEFINE t == SumFunction(share)
    <3>3. t \in Nat /\ owed * t <= had * owed
      BY <1>2, <2>1, <3>2
    <3> HIDE DEF t
    <3>4. t > had => owed * t > owed * had
      BY <1>1, <2>3, <3>3
    <3> QED
      BY <1>1, <3>3, <3>4 DEF t
  <2> QED
    BY <2>2, <2>3, <2>1
<1> QED
  BY <1>4, <1>5, <1>6 DEF HandedOut, share

\* The rows of a round, and what they cost.
RowsOf(d, p) == {r \in Wallet \X Mint : Share(d, p, r[1], r[2]) > 0}

FiberOf(rows, m) == Cardinality({r \in rows : r[2] = m})

RowCosts(rows, opened) ==
  Rent * Cardinality(opened) + Fee * SumFunction([m \in Mint |-> Batches(FiberOf(rows, m))])

LEMMA RowsAreCounted ==
  ASSUME NEW d \in RoundDoc, PlanFacts(d)
  PROVE  LET rows  == RowsOf(d, d.plan)
             count == CountOf(d.holders, d.plan)
         IN  /\ IsFiniteSet(rows) /\ Cardinality(rows) <= SumFunction(count)
             /\ \A m \in Mint : FiberOf(rows, m) \in Nat /\ FiberOf(rows, m) <= count[m]
             /\ (\A m \in Mint : d.swap[m] # "DONE") => rows = {}
<1> DEFINE rows  == RowsOf(d, d.plan)
           count == CountOf(d.holders, d.plan)
<1>1. /\ rows \in SUBSET (Wallet \X Mint)
      /\ \A r \in rows : r[2] \in Mint /\ r[1] \in Contributors(d.holders, d.plan, r[2]) /\ d.swap[r[2]] = "DONE"
  BY ShareFits DEF RowsOf
<1>2. IsFiniteSet(rows)
  BY <1>1, FiniteAssumption, FS_Product, FS_Subset
<1>3. (\A m \in Mint : d.swap[m] # "DONE") => rows = {}
  BY <1>1
<1> HIDE DEF rows
<1>4. ASSUME NEW m \in Mint PROVE FiberOf(rows, m) \in Nat /\ FiberOf(rows, m) <= count[m]
  <2> DEFINE fiber == {r \in rows : r[2] = m}
             who   == Contributors(d.holders, d.plan, m)
             of    == [r \in fiber |-> r[1]]
  <2>1. of \in Injection(fiber, who)
    <3>1. \A r \in fiber : r[1] \in who
      BY <1>1
    <3>2. \A r \in fiber : \A q \in fiber : r[1] = q[1] => r = q
      <4>1. \A r \in fiber : r \in Wallet \X Mint /\ r[2] = m
        BY <1>1
      <4> QED
        BY <4>1
    <3> HIDE DEF fiber, who
    <3> QED
      BY <3>1, <3>2 DEF Injection, IsInjective
  <2>2. IsFiniteSet(who) /\ count[m] = Cardinality(who)
    BY CountType DEF CountOf
  <2> HIDE DEF of, who
  <2>3. IsFiniteSet(fiber) /\ Cardinality(fiber) <= Cardinality(who)
    BY <2>1, <2>2, FS_Injection
  <2>4. Cardinality(fiber) \in Nat
    BY <2>3, FS_CardinalityType
  <2> QED
    BY <2>2, <2>3, <2>4 DEF FiberOf
<1>5. Cardinality(rows) <= SumFunction(count)
  <2>1. count \in [Mint -> Nat]
    BY CountType
  <2>2. \A m \in Mint : Cardinality({r \in rows : r[2] = m}) <= count[m]
    BY <1>4 DEF FiberOf
  <2> HIDE DEF count
  <2> QED
    BY <1>1, <2>1, <2>2, FiniteAssumption, CountByColumn
<1> QED
  BY <1>2, <1>3, <1>4, <1>5 DEF rows

\* The transfers of a round, and the accounts they open, cost what was estimated, at most.
LEMMA RowsAreCovered ==
  ASSUME NEW d \in RoundDoc, PlanFacts(d), NEW old
  PROVE  LET rows == RowsOf(d, d.plan)
             cost == RowCosts(rows, rows \ old)
         IN  /\ cost \in Nat /\ cost <= DeliveryCosts(d.holders, d.plan)
             /\ (\A m \in Mint : d.swap[m] # "DONE") => cost = 0
<1> DEFINE rows    == RowsOf(d, d.plan)
           count   == CountOf(d.holders, d.plan)
           fibers  == [m \in Mint |-> Batches(FiberOf(rows, m))]
           opened  == rows \ old
<1>1. /\ IsFiniteSet(rows) /\ Cardinality(rows) <= SumFunction(count)
      /\ \A m \in Mint : FiberOf(rows, m) \in Nat /\ FiberOf(rows, m) <= count[m]
      /\ (\A m \in Mint : d.swap[m] # "DONE") => rows = {}
  BY RowsAreCounted
<1>2. count \in [Mint -> Nat] /\ SumFunction(count) \in Nat /\ BatchesOf(count) \in [Mint -> Nat] /\ SumFunction(BatchesOf(count)) \in Nat
  BY CountType
<1>3. DeliveryCosts(d.holders, d.plan) = Rent * SumFunction(count) + Fee * SumFunction(BatchesOf(count))
  BY DeliveryIs
<1> HIDE DEF rows, count
<1>4. Cardinality(opened) \in Nat /\ Cardinality(rows) \in Nat /\ Cardinality(opened) <= Cardinality(rows)
  <2>1. opened \in SUBSET rows
    OBVIOUS
  <2> QED
    BY <1>1, <2>1, FS_Subset, FS_CardinalityType
<1>5. fibers \in [Mint -> Nat] /\ \A m \in Mint : fibers[m] <= BatchesOf(count)[m]
  <2>1. \A m \in Mint : Batches(FiberOf(rows, m)) \in Nat /\ Batches(FiberOf(rows, m)) <= Batches(count[m])
    BY <1>1, <1>2, BatchesGrow
  <2> QED
    BY <2>1 DEF BatchesOf
<1> DEFINE i == Cardinality(opened)
           j == SumFunction(count)
           x == SumFunction(fibers)
           y == SumFunction(BatchesOf(count))
<1>6. i \in Nat /\ j \in Nat /\ i <= j
  BY <1>1, <1>2, <1>4
<1>7. x \in Nat /\ y \in Nat /\ x <= y
  BY <1>2, <1>5, FiniteAssumption, SumType, SumBelow
<1>8. RowCosts(rows, opened) = Rent * i + Fee * x
  BY DEF RowCosts
<1>9. ASSUME \A m \in Mint : d.swap[m] # "DONE" PROVE i = 0 /\ x = 0
  <2>1. rows = {} /\ opened = {}
    BY <1>1, <1>9
  <2>2. \A m \in Mint : {r \in rows : r[2] = m} = {}
    BY <2>1
  <2>3. \A m \in Mint : FiberOf(rows, m) = 0
    BY <2>2, FS_EmptySet DEF FiberOf
  <2>4. \A m \in Mint : fibers[m] = 0
    BY <2>3, BatchesGrow
  <2> HIDE DEF fibers
  <2>5. SumFunction(fibers) = 0
    BY <1>5, <2>4, FiniteAssumption, SumOfNothing
  <2> QED
    BY <2>1, <2>5, FS_EmptySet
<1> HIDE DEF i, j, x, y
<1>10. Rent * i \in Nat /\ Rent * j \in Nat /\ Rent * i <= Rent * j /\ Fee * x \in Nat /\ Fee * y \in Nat /\ Fee * x <= Fee * y
  BY <1>6, <1>7, MoneyAssumption
<1>11. (\A m \in Mint : d.swap[m] # "DONE") => Rent * i + Fee * x = 0
  <2>1. Rent \in Nat /\ Fee \in Nat
    BY MoneyAssumption
  <2>2. Rent * 0 + Fee * 0 = 0
    BY <2>1
  <2> QED
    BY <1>9, <2>2
<1> QED
  BY <1>3, <1>8, <1>10, <1>11 DEF rows, j, y

-----------------------------------------------------------------------------
(* The steps.                                                              *)

LEMMA DocCases ==
  ASSUME TypeOK
  PROVE  /\ doc.status \in Snapshotted => doc \in RoundDoc
         /\ doc.status = "SNAPSHOT" => doc.gross \in Nat
         /\ sol \in Nat /\ Reserve \in Nat
<1>1. \/ doc = NoRound \/ doc \in [status : {"SKIPPED"}, pool : Nat]
      \/ doc \in [status : {"SNAPSHOT"}, gross : Nat] \/ doc \in RoundDoc
  BY DEF TypeOK
<1>2. NoRound.status = "none"
  BY DEF NoRound
<1>3. \A d \in RoundDoc : d.status \in Snapshotted
  BY DEF RoundDoc
<1>4. doc.status = "SNAPSHOT" => doc.gross \in Nat
  BY <1>1, <1>2, <1>3 DEF Snapshotted
<1>5. doc.status \in Snapshotted => doc \in RoundDoc
  BY <1>1, <1>2 DEF Snapshotted
<1> QED
  BY <1>4, <1>5, MoneyAssumption DEF TypeOK

\* Saving baskets, listing stocks and changing the setting touch no round.
LEMMA WorldIsApart ==
  ASSUME IInv, UNCHANGED <<doc, sol, stock, carry>>
  PROVE  PlanInv' /\ BooksInv' /\ MoneyInv'
<1>1. PlanInv' <=> PlanInv
  BY DEF PlanInv
<1>2. BooksInv' <=> BooksInv
  BY DEF BooksInv
<1>3. MoneyInv' <=> MoneyInv
  BY DEF MoneyInv
<1> QED
  BY <1>1, <1>2, <1>3 DEF IInv

LEMMA WorldStep ==
  ASSUME IInv,
         \/ \E w \in Wallet : \E b \in Menu : SavePrefs(w, b)
         \/ \E l \in Liquid : Relist(l)
         \/ \E s \in Settings \ {setting} : Reconfigure(s)
         \/ UNCHANGED vars
  PROVE  IInv' /\ sol' = sol
<1>1. UNCHANGED <<doc, sol, stock, carry, accounts, rounds>>
  BY DEF SavePrefs, Relist, Reconfigure, vars
<1>2. PlanInv' /\ BooksInv' /\ MoneyInv'
  BY <1>1, WorldIsApart
<1>3. changes' \in 0 .. MaxChanges
  <2>1. changes' = changes \/ (changes < MaxChanges /\ changes' = changes + 1)
    BY DEF SavePrefs, Relist, Reconfigure, vars, Changed
  <2> QED
    BY <2>1, BoundsAssumption DEF IInv, TypeOK
<1>4. universe' \in Universes
  BY DEF SavePrefs, Relist, Reconfigure, vars, IInv, TypeOK, Universes
<1>5. setting' \in Settings
  BY DEF SavePrefs, Relist, Reconfigure, vars, IInv, TypeOK
<1>6. prefs' \in [Wallet -> Basket] /\ \A w \in Wallet : prefs'[w] = Nothing \/ prefs'[w] \in Menu
  <2>1. Menu \subseteq Basket
    BY MenuAssumption
  <2>2. prefs' = prefs \/ \E w \in Wallet : \E b \in Menu : prefs' = [prefs EXCEPT ![w] = b]
    BY DEF SavePrefs, Relist, Reconfigure, vars
  <2> QED
    BY <2>1, <2>2 DEF IInv, TypeOK
<1>7. TypeOK'
  BY <1>1, <1>3, <1>4, <1>5, <1>6 DEF IInv, TypeOK
<1> QED
  BY <1>1, <1>2, <1>7 DEF IInv

LEMMA ReadPoolStep ==
  ASSUME IInv, NEW income \in Incomes, ReadPool(income)
  PROVE  IInv' /\ sol' >= sol
<1> DEFINE pool == IF sol' > Reserve THEN sol' - Reserve ELSE 0
<1>1. income \in Nat /\ sol \in Nat /\ Reserve \in Nat /\ sol' = sol + income /\ pool \in Nat
  BY MoneyAssumption DEF IInv, TypeOK, ReadPool
<1>2. doc' = Skipped(pool) \/ doc' = Funded(pool)
  BY DEF ReadPool
<1>3. UNCHANGED <<world, stock, carry, accounts>> /\ rounds < MaxRounds /\ rounds' = rounds + 1
  BY DEF ReadPool
<1>4. doc.status \notin Snapshotted
  BY DEF ReadPool, Over, Snapshotted
<1> HIDE DEF pool
<1>5. TypeOK'
  <2>1. rounds' \in 0 .. MaxRounds
    BY <1>3, BoundsAssumption DEF IInv, TypeOK
  <2>2. doc' \in {NoRound} \cup [status : {"SKIPPED"}, pool : Nat] \cup [status : {"SNAPSHOT"}, gross : Nat]
    BY <1>1, <1>2 DEF Skipped, Funded
  <2>3. sol' \in Nat
    BY <1>1
  <2> QED
    BY <1>3, <2>1, <2>2, <2>3 DEF IInv, TypeOK, world
<1>6. doc'.status \in {"SKIPPED", "SNAPSHOT"}
  BY <1>2 DEF Skipped, Funded
<1>7. PlanInv'
  BY <1>6 DEF PlanInv, Snapshotted
<1>8. BooksInv'
  <2>1. stock = carry
    BY <1>4 DEF IInv, BooksInv, Snapshotted
  <2> QED
    BY <1>3, <1>6, <2>1 DEF BooksInv, Snapshotted
<1>9. MoneyInv'
  <2>1. doc'.status = "SNAPSHOT" => doc'.gross = pool
    BY <1>2 DEF Skipped, Funded
  <2>2. pool > 0 => sol' = Reserve + pool
    BY <1>1 DEF pool
  <2> QED
    BY <1>6, <2>1, <2>2 DEF MoneyInv
<1> QED
  BY <1>1, <1>5, <1>7, <1>8, <1>9 DEF IInv

\* The document a round gets at SNAPSHOT.
SwapsOf(plan) == [m \in Mint |-> IF plan.lamports[m] > 0 THEN "PENDING" ELSE "SKIPPED"]

LEMMA SnapshotStep ==
  ASSUME IInv, NEW open \in Spreads, NEW close \in Spreads, Snapshot(open, close)
  PROVE  IInv' /\ sol' = sol
<1> DEFINE holders == HoldersOf(open, close)
           shape   == Plan(doc.gross, holders, prefs, universe, setting)
           net     == NetPool(doc.gross, Costs(holders, shape))
           plan    == Plan(net, holders, prefs, universe, setting)
           e       == [status |-> "SWAPPING", pool |-> net, holders |-> holders, universe |-> universe,
                       chosen |-> prefs, plan |-> plan, swap |-> SwapsOf(plan), received |-> Nothing,
                       carryIn |-> carry]
<1>1. /\ doc.status = "SNAPSHOT"
      /\ doc' = Skipped(doc.gross) \/ doc' = Skipped(net) \/ doc' = e
      /\ UNCHANGED <<world, sol, stock, carry, accounts, rounds>>
  BY DEF Snapshot, SwapsOf
<1>2. doc.gross \in Nat /\ sol \in Nat /\ Reserve \in Nat
  BY <1>1, DocCases DEF IInv
<1>3. PlanArgs(holders, prefs, universe, setting) /\ SumFunction(holders) <= Supply
  BY HoldersFit, ListedStocks DEF IInv, TypeOK, PlanArgs
<1>4. universe \in Universes /\ setting \in Settings /\ carry \in [Mint -> Nat] /\ prefs \in [Wallet -> Basket]
  BY DEF IInv, TypeOK
<1> HIDE DEF holders
<1>5. shape \in PlanType
  BY <1>2, <1>3, PlanHasType
<1>6. Costs(holders, shape) \in Nat /\ net \in Nat
  <2>1. shape.lamports \in [Mint -> Nat]
    BY <1>5 DEF PlanType
  <2> HIDE DEF shape
  <2>2. Costs(holders, shape) \in Nat
    BY <2>1, CostsSplit
  <2> QED
    BY <1>2, <2>2 DEF NetPool
<1>7. net > 0 => net + Costs(holders, shape) = doc.gross /\ net <= doc.gross
  <2> HIDE DEF shape
  <2> QED
    BY <1>2, <1>6 DEF NetPool
<1> DEFINE cost == Costs(holders, shape)
<1> HIDE DEF net, cost
<1>8. plan \in PlanType
  BY <1>3, <1>6, PlanHasType
<1>9. plan.lamports \in [Mint -> Nat] /\ shape.lamports \in [Mint -> Nat]
  BY <1>5, <1>8 DEF PlanType
<1>10. /\ SumFunction(plan.lamports) <= net
       /\ net > 0 => Costs(holders, plan) <= cost
       /\ Picked(plan.lamports) # {} => net > 0
  <2> DEFINE picks  == PicksOf(holders, prefs, universe, setting)
             demand == DemandOf(holders, picks)
  <2>1. /\ plan.picks = picks /\ shape.picks = picks
        /\ plan.lamports = LamportsOf(net, demand) /\ shape.lamports = LamportsOf(doc.gross, demand)
    BY PlanIs
  <2>2. demand \in [Mint -> Nat]
    BY <1>3, PicksType, AsksType DEF PlanArgs
  <2> HIDE DEF picks, demand, plan, shape
  <2>3. SumFunction(plan.lamports) <= net /\ (net = 0 => plan.lamports = Nothing)
    BY <1>6, <2>1, <2>2, SplitType
  <2>4. net > 0 => Picked(plan.lamports) \subseteq Picked(shape.lamports)
    BY <1>2, <1>6, <1>7, <2>1, <2>2, SplitType
  <2>5. net > 0 => Costs(holders, plan) <= Costs(holders, shape)
    BY <1>9, <2>1, <2>4, CostsGrow
  <2>6. Picked(plan.lamports) # {} => net > 0
    BY <1>6, <2>3, NothingIsEmpty
  <2> QED
    BY <2>3, <2>5, <2>6 DEF cost
<1>11. Costs(holders, plan) \in Nat /\ SumFunction(plan.lamports) \in Nat
  <2> HIDE DEF plan
  <2> QED
    BY <1>9, CostsSplit, FiniteAssumption, SumType
<1>12. plan = Plan(net, holders, prefs, universe, setting)
  OBVIOUS
<1> HIDE DEF plan, shape
<1>13. /\ e \in RoundDoc /\ e.status = "SWAPPING" /\ e.carryIn = carry /\ e.swap = SwapsOf(plan)
       /\ e.plan = plan /\ e.holders = holders /\ PlanFacts(e)
  <2>1. Nothing \in [Mint -> Nat]
    BY DEF Nothing
  <2>2. SwapsOf(plan) \in [Mint -> SwapStatus]
    BY DEF SwapsOf, SwapStatus
  <2>3. holders \in [Wallet -> Nat]
    BY <1>3 DEF PlanArgs
  <2>4. e \in RoundDoc
    BY <1>4, <1>6, <1>8, <2>1, <2>2, <2>3 DEF RoundDoc, Snapshotted
  <2>5. PlanFacts(e)
    BY <1>3, <1>4, <1>12 DEF PlanFacts
  <2> QED
    BY <2>4, <2>5
<1> HIDE DEF e
<1>14. doc'.status \in {"SKIPPED", "SWAPPING"} /\ (doc'.status = "SWAPPING" => doc' = e)
  BY <1>1, <1>13 DEF Skipped
<1>15. TypeOK'
  <2>1. doc' \in [status : {"SKIPPED"}, pool : Nat] \/ doc' \in RoundDoc
    BY <1>1, <1>2, <1>6, <1>13 DEF Skipped
  <2> QED
    BY <1>1, <2>1 DEF IInv, TypeOK, world
<1>16. PlanInv'
  BY <1>13, <1>14 DEF PlanInv, Snapshotted
<1>17. BooksInv'
  <2>1. stock = carry
    BY <1>1 DEF IInv, BooksInv
  <2>2. doc'.status # "DISTRIBUTING"
    BY <1>14
  <2>3. stock' = carry' /\ carry' = carry
    BY <1>1, <2>1
  <2> QED
    BY <1>13, <1>14, <2>2, <2>3 DEF BooksInv, Snapshotted, SwapsOf
<1>18. MoneyInv'
  <2>1. Picked(plan.lamports) # {} => sol >= Reserve + SumFunction(plan.lamports) + Costs(holders, plan)
    <3> HAVE Picked(plan.lamports) # {}
    <3>1. net > 0 /\ doc.gross > 0 /\ cost \in Nat /\ net + cost = doc.gross
      BY <1>2, <1>6, <1>7, <1>10 DEF cost
    <3>2. sol = Reserve + doc.gross
      BY <1>1, <3>1 DEF IInv, MoneyInv
    <3> QED
      BY <1>2, <1>6, <1>10, <1>11, <3>1, <3>2
  <2>2. sol' = sol
    BY <1>1
  <2> QED
    BY <1>13, <1>14, <2>1, <2>2 DEF MoneyInv
<1> QED
  BY <1>1, <1>15, <1>16, <1>17, <1>18 DEF IInv

LEMMA BuyStep ==
  ASSUME IInv, NEW failed \in Failures, NEW fill \in Fills, Buy(failed, fill)
  PROVE  IInv' /\ (sol' < sol => sol' >= Reserve)
<1> DEFINE lamports == doc.plan.lamports
           pending  == {m \in Mint : doc.swap[m] = "PENDING"}
           won      == pending \ failed
           paid     == [m \in Mint |-> IF m \in won THEN lamports[m] ELSE 0]
           brought  == [m \in Mint |-> IF m \in won THEN fill ELSE 0]
           swap     == [m \in Mint |-> IF m \in won THEN "DONE" ELSE IF m \in pending THEN "FAILED" ELSE doc.swap[m]]
           e        == [doc EXCEPT !.status = "DISTRIBUTING", !.received = brought, !.swap = swap]
           cost     == SumFunction(paid) + Fee * Cardinality(pending)
<1>1. /\ doc.status = "SWAPPING" /\ doc \in RoundDoc /\ sol \in Nat /\ Reserve \in Nat
      /\ doc' = e /\ sol' = sol - cost /\ stock' = [m \in Mint |-> stock[m] + brought[m]]
      /\ UNCHANGED <<world, carry, accounts, rounds>>
  BY DocCases DEF IInv, Buy, Snapshotted
<1>2. /\ doc.plan \in PlanType /\ lamports \in [Mint -> Nat] /\ PlanFacts(doc) /\ doc.carryIn = carry /\ stock = carry
      /\ doc.swap = [m \in Mint |-> IF lamports[m] > 0 THEN "PENDING" ELSE "SKIPPED"]
  BY <1>1 DEF IInv, PlanInv, BooksInv, RoundDoc, PlanType, Snapshotted
<1>3. fill \in Nat
  BY MoneyAssumption
<1>4. pending = Picked(lamports)
  BY <1>2 DEF Picked
<1>5. brought \in [Mint -> Nat] /\ swap \in [Mint -> SwapStatus]
  <2>1. doc.swap \in [Mint -> SwapStatus]
    BY <1>1 DEF RoundDoc
  <2> QED
    BY <1>3, <2>1 DEF SwapStatus
<1>6. paid \in [Mint -> Nat] /\ SumFunction(paid) \in Nat /\ SumFunction(lamports) \in Nat
      /\ SumFunction(paid) <= SumFunction(lamports)
  <2> HIDE DEF won, lamports
  <2>1. paid \in [Mint -> Nat] /\ \A m \in Mint : paid[m] <= lamports[m]
    BY <1>2
  <2> HIDE DEF paid
  <2> QED
    BY <1>2, <2>1, FiniteAssumption, SumType, SumBelow
<1>7. /\ Cardinality(pending) \in Nat /\ DeliveryCosts(doc.holders, doc.plan) \in Nat
      /\ Costs(doc.holders, doc.plan) = DeliveryCosts(doc.holders, doc.plan) + Fee * Cardinality(pending)
  <2> HIDE DEF pending
  <2> QED
    BY <1>2, <1>4, CostsSplit
<1>8. cost \in Nat
  <2> HIDE DEF paid, pending
  <2> QED
    BY <1>6, <1>7, MoneyAssumption
<1>9. pending # {} => sol - cost >= Reserve + DeliveryCosts(doc.holders, doc.plan)
  <2> HAVE pending # {}
  <2>1. sol >= Reserve + SumFunction(lamports) + Costs(doc.holders, doc.plan)
    BY <1>1, <1>4 DEF IInv, MoneyInv
  <2> DEFINE fees == Fee * Cardinality(pending)
             d    == DeliveryCosts(doc.holders, doc.plan)
             all  == SumFunction(lamports)
             some == SumFunction(paid)
  <2>2. /\ fees \in Nat /\ d \in Nat /\ all \in Nat /\ some \in Nat /\ some <= all /\ cost = some + fees
        /\ sol >= Reserve + all + (d + fees)
    <3>1. fees \in Nat
      BY <1>7, MoneyAssumption
    <3> HIDE DEF paid, pending, lamports
    <3> QED
      BY <1>6, <1>7, <2>1, <3>1
  <2> HIDE DEF fees, d, all, some, cost
  <2> QED
    BY <1>1, <2>2 DEF d
<1>10. pending = {} => cost = 0
  <2> HAVE pending = {}
  <2>1. \A m \in Mint : paid[m] = 0
    OBVIOUS
  <2>2. Fee * Cardinality(pending) = 0
    <3>1. Cardinality(pending) = 0
      BY FS_EmptySet
    <3> QED
      BY <3>1, MoneyAssumption
  <2> HIDE DEF paid
  <2>3. SumFunction(paid) = 0
    BY <1>6, <2>1, FiniteAssumption, SumOfNothing
  <2> QED
    BY <2>2, <2>3
<1>11. (\E m \in Mint : swap[m] = "DONE") => pending # {}
  <2>1. \A m \in Mint : swap[m] = "DONE" => m \in pending \/ doc.swap[m] = "DONE"
    OBVIOUS
  <2>2. \A m \in Mint : doc.swap[m] # "DONE"
    BY <1>2
  <2> QED
    BY <2>1, <2>2
<1> HIDE DEF cost, brought, swap
<1>12. /\ e \in RoundDoc /\ e.status = "DISTRIBUTING" /\ e.plan = doc.plan /\ e.holders = doc.holders
       /\ e.pool = doc.pool /\ e.chosen = doc.chosen /\ e.universe = doc.universe
       /\ e.received = brought /\ e.carryIn = doc.carryIn /\ e.swap = swap
  BY <1>1, <1>5 DEF RoundDoc, Snapshotted
<1> HIDE DEF e
<1>13. sol' \in Nat /\ (sol' < sol => sol' >= Reserve)
  BY <1>1, <1>7, <1>8, <1>9, <1>10
<1>14. TypeOK'
  <2>1. \A m \in Mint : stock[m] \in Nat /\ brought[m] \in Nat
    BY <1>5 DEF IInv, TypeOK
  <2>2. stock' \in [Mint -> Nat]
    BY <1>1, <2>1
  <2> QED
    BY <1>1, <1>12, <1>13, <2>2 DEF IInv, TypeOK, world
<1>15. PlanInv'
  <2>1. PlanFacts(e)
    BY <1>2, <1>12 DEF PlanFacts
  <2> QED
    BY <1>1, <2>1 DEF PlanInv
<1>16. BooksInv'
  BY <1>1, <1>2, <1>12 DEF BooksInv
<1>17. MoneyInv'
  <2>1. (\E m \in Mint : swap[m] = "DONE") => sol' >= Reserve + DeliveryCosts(doc.holders, doc.plan)
    BY <1>1, <1>9, <1>11
  <2> QED
    BY <1>1, <1>12, <2>1 DEF MoneyInv
<1> QED
  BY <1>13, <1>14, <1>15, <1>16, <1>17 DEF IInv

LEMMA DistributeStep ==
  ASSUME IInv, Distribute
  PROVE  IInv' /\ (sol' < sol => sol' >= Reserve)
<1> DEFINE p     == Rebuilt(doc)
           rows  == RowsOf(doc, p)
           cost  == RowCosts(rows, rows \ accounts)
<1>1. /\ doc.status = "DISTRIBUTING" /\ doc \in RoundDoc /\ PlanFacts(doc) /\ sol \in Nat /\ Reserve \in Nat
      /\ doc.carryIn = carry /\ stock = [m \in Mint |-> carry[m] + doc.received[m]]
      /\ carry \in [Mint -> Nat] /\ doc.received \in [Mint -> Nat]
  BY DocCases DEF IInv, PlanInv, BooksInv, Distribute, Snapshotted, TypeOK, RoundDoc
<1>2. p = doc.plan
  BY <1>1, FactsAreFair DEF IInv, TypeOK, RoundDoc
<1>3. /\ stock' = [m \in Mint |-> stock[m] - HandedOut(doc, p, m)]
      /\ carry' = CarryOut(doc, p) /\ accounts' = accounts \cup rows
      /\ sol' = sol - cost /\ doc' = NoRound /\ UNCHANGED <<world, rounds>>
  BY DEF Distribute, RowsOf, RowCosts, FiberOf
<1> HIDE DEF p
<1>4. /\ cost \in Nat /\ cost <= DeliveryCosts(doc.holders, doc.plan)
      /\ (\A m \in Mint : doc.swap[m] # "DONE") => cost = 0
  BY <1>1, <1>2, RowsAreCovered
<1>5. rows \subseteq Wallet \X Mint
  BY DEF RowsOf
<1> HIDE DEF cost, rows
<1>6. sol' \in Nat /\ (sol' < sol => sol' >= Reserve)
  <2>1. CASE \A m \in Mint : doc.swap[m] # "DONE"
    BY <1>1, <1>3, <1>4, <2>1
  <2>2. CASE \E m \in Mint : doc.swap[m] = "DONE"
    <3> DEFINE d == DeliveryCosts(doc.holders, doc.plan)
    <3>1. sol >= Reserve + d
      BY <1>1, <2>2 DEF IInv, MoneyInv
    <3>2. d \in Nat
      <4>1. doc.plan.lamports \in [Mint -> Nat]
        BY <1>1 DEF RoundDoc, PlanType
      <4> QED
        BY <4>1, CostsSplit
    <3> HIDE DEF d
    <3> QED
      BY <1>1, <1>3, <1>4, <3>1, <3>2 DEF d
  <2> QED
    BY <2>1, <2>2
<1>7. \A m \in Mint : HandedOut(doc, p, m) \in Nat /\ HandedOut(doc, p, m) <= doc.received[m] + carry[m]
  BY <1>1, <1>2, ShareFits
<1>8. stock' \in [Mint -> Nat] /\ carry' = stock'
  <2>1. \A m \in Mint : /\ stock[m] - HandedOut(doc, p, m) \in Nat
                        /\ doc.received[m] + doc.carryIn[m] - HandedOut(doc, p, m) = stock[m] - HandedOut(doc, p, m)
    <3> TAKE m \in Mint
    <3>1. carry[m] \in Nat /\ doc.received[m] \in Nat /\ stock[m] = carry[m] + doc.received[m] /\ doc.carryIn[m] = carry[m]
      BY <1>1
    <3> QED
      BY <1>7, <3>1
  <2> QED
    BY <1>3, <2>1 DEF CarryOut
<1>9. doc'.status = "none"
  BY <1>3 DEF NoRound
<1>10. TypeOK'
  <2>1. accounts' \subseteq Wallet \X Mint
    BY <1>3, <1>5 DEF IInv, TypeOK
  <2> QED
    BY <1>3, <1>6, <1>8, <2>1 DEF IInv, TypeOK, world
<1>11. PlanInv' /\ MoneyInv'
  BY <1>9 DEF PlanInv, MoneyInv, Snapshotted
<1>12. BooksInv'
  BY <1>8, <1>9 DEF BooksInv, Snapshotted
<1> QED
  BY <1>6, <1>10, <1>11, <1>12 DEF IInv

LEMMA AnyStep ==
  ASSUME IInv, [Next]_vars
  PROVE  IInv' /\ (sol' < sol => sol' >= Reserve)
<1>0. sol \in Nat /\ IInv
  BY DEF IInv, TypeOK
<1>1. CASE \/ \E w \in Wallet : \E b \in Menu : SavePrefs(w, b)
           \/ \E l \in Liquid : Relist(l)
           \/ \E s \in Settings \ {setting} : Reconfigure(s)
           \/ UNCHANGED vars
  BY <1>0, <1>1, WorldStep
<1>2. CASE \E income \in Incomes : ReadPool(income)
  <2>1. IInv' /\ sol' >= sol
    BY <1>0, <1>2, ReadPoolStep
  <2>2. sol' \in Nat
    BY <2>1 DEF IInv, TypeOK
  <2> QED
    BY <1>0, <2>1, <2>2
<1>3. CASE \E open \in Spreads : \E close \in Spreads : Snapshot(open, close)
  BY <1>0, <1>3, SnapshotStep
<1>4. CASE \E failed \in Failures : \E fill \in Fills : Buy(failed, fill)
  BY <1>0, <1>4, BuyStep
<1>5. CASE Distribute
  BY <1>0, <1>5, DistributeStep
<1> QED
  BY <1>1, <1>2, <1>3, <1>4, <1>5 DEF Next

LEMMA Begin == Init => IInv
<1> SUFFICES ASSUME Init PROVE IInv
  OBVIOUS
<1>1. Menu \subseteq Basket /\ Nothing \in Basket /\ Nothing \in [Mint -> Nat]
  BY MenuAssumption, NothingIsEmpty, BasketTypes
<1>2. prefs \in [Wallet -> Basket] /\ \A w \in Wallet : prefs[w] = Nothing \/ prefs[w] \in Menu
  BY <1>1 DEF Init
<1>3. TypeOK
  BY <1>1, <1>2, BoundsAssumption DEF Init, TypeOK
<1>4. doc.status = "none"
  BY DEF Init, NoRound
<1> QED
  BY <1>3, <1>4 DEF Init, IInv, PlanInv, BooksInv, MoneyInv, Snapshotted

-----------------------------------------------------------------------------
(* The theorems.                                                           *)

\* The plan of a round is the one of the inputs in its document, the vault holds the
\* carry and what the round bought, and above the reserve lies what it still pays
\* (runner.js SNAPSHOT to DISTRIBUTING).
THEOREM Inductive == Spec => []IInv
<1>1. Init => IInv
  BY Begin
<1>2. IInv /\ [Next]_vars => IInv'
  BY AnyStep
<1> QED
  BY <1>1, <1>2, PTL DEF Spec

\* Every variable keeps its type: no balance is ever negative.
THEOREM TypeCorrect == Spec => []TypeOK
<1>1. IInv => TypeOK
  BY DEF IInv
<1> QED
  BY <1>1, Inductive, PTL

LEMMA InvIsFair == IInv => PlanIsFair /\ RebuildAgrees
<1> SUFFICES ASSUME IInv, doc.status \in Snapshotted
             PROVE  /\ \A w \in Wallet : doc.holders[w] > 0 /\ doc.universe # {} =>
                         FairTo(doc.plan.picks[w], doc.chosen[w], doc.universe)
                    /\ SumFunction(doc.holders) <= Supply
                    /\ doc.universe # {} => SumFunction(doc.plan.demand) = Whole * SumFunction(doc.holders)
                    /\ Rebuilt(doc) = doc.plan
  BY DEF PlanIsFair, BasketsAreFair, VotesAreWhole, RebuildAgrees, Agrees
<1>1. doc \in RoundDoc /\ PlanFacts(doc) /\ setting \in Settings
  BY DocCases DEF IInv, PlanInv, TypeOK
<1>2. /\ doc.pool \in Nat /\ doc.holders \in [Wallet -> Nat] /\ doc.chosen \in [Wallet -> Basket] /\ doc.universe \in Universes
  BY <1>1 DEF RoundDoc
<1> QED
  BY <1>1, <1>2, FactsAreFair DEF PlanFacts

\* For every universe, basket and setting: a holder's basket is listed, whole, and in
\* proportion to the choice, and all votes together weigh what was held, no more than
\* the supply (allocate.js effectiveBasket, computeDemand, combineSnapshots).
THEOREM EveryPlanIsFair == Spec => []PlanIsFair
<1>1. IInv => PlanIsFair
  BY InvIsFair
<1> QED
  BY <1>1, Inductive, PTL

\* A plan can be rebuilt from its document, whatever changed since (runner.js
\* rebuildPlan never throws plan_mismatch).
THEOREM PlansCanBeRebuilt == Spec => []RebuildAgrees
<1>1. IInv => RebuildAgrees
  BY InvIsFair
<1> QED
  BY <1>1, Inductive, PTL

\* What a round pays for stocks, fees and accounts never touches the reserve (runner.js
\* estimateRoundCosts).
THEOREM NothingPaysFromTheReserve == Spec => ReserveIsKept
<1>1. IInv /\ [Next]_vars => [sol' < sol => sol' >= Reserve]_sol
  BY AnyStep
<1> QED
  BY <1>1, Inductive, PTL DEF Spec, ReserveIsKept
=============================================================================
