-------------------------- MODULE LendingPoolProofs ---------------------------
(***************************************************************************)
(* Theorems about LendingPool for every choice of accounts, units, rates   *)
(* and inputs that its assumptions allow, in four parts: the arithmetic of *)
(* FixedPoint; the operators that change the books; the inductive          *)
(* invariant PoolInv with the state properties that follow from it; and    *)
(* what a single step may do.                                              *)
(***************************************************************************)
EXTENDS LendingPool, FiniteSetTheorems, TLAPS

-------------------------------------------------------------------------------
(* What the rounding divisions return, for every natural argument.         *)

LEMMA ProductNat ==
    ASSUME NEW x \in Nat, NEW y \in Nat
    PROVE  x * y \in Nat
  OBVIOUS

LEMMA ProductMonotone ==
    ASSUME NEW x \in Nat, NEW y \in Nat, NEW z \in Nat, x <= y
    PROVE  x * z <= y * z
  OBVIOUS

LEMMA Distribute ==
    ASSUME NEW x \in Nat, NEW z \in Nat
    PROVE  (x + 1) * z = x * z + z
  OBVIOUS

LEMMA Quotient ==
    ASSUME NEW n \in Nat, NEW d \in Nat \ {0}
    PROVE  /\ n \div d \in Nat
           /\ (n \div d) * d <= n
           /\ n < (n \div d) * d + d
  OBVIOUS

LEMMA Remainder ==
    ASSUME NEW n \in Nat, NEW d \in Nat \ {0}
    PROVE  n % d \in 0..(d - 1) /\ n = (n \div d) * d + (n % d)
  OBVIOUS

(* The quotient is the greatest such number.                               *)
LEMMA QuotientGreatest ==
    ASSUME NEW n \in Nat, NEW d \in Nat \ {0}, NEW q \in Nat, q * d <= n
    PROVE  q <= n \div d
<1> DEFINE r == n \div d
<1>1. r \in Nat /\ n < r * d + d
  BY Quotient
<1>2. SUFFICES ASSUME r + 1 <= q PROVE FALSE
  BY <1>1
<1>3. (r + 1) * d <= q * d
  BY <1>1, <1>2, ProductMonotone
<1>4. (r + 1) * d = r * d + d
  BY <1>1
<1> QED BY <1>1, <1>3, <1>4

LEMMA QuotientLeast ==
    ASSUME NEW n \in Nat, NEW d \in Nat \ {0}, NEW q \in Nat, n < q * d + d
    PROVE  n \div d <= q
<1> DEFINE r == n \div d
<1>1. r \in Nat /\ r * d <= n
  BY Quotient
<1>2. SUFFICES ASSUME q + 1 <= r PROVE FALSE
  BY <1>1
<1>3. (q + 1) * d <= r * d
  BY <1>1, <1>2, ProductMonotone
<1>4. (q + 1) * d = q * d + d
  OBVIOUS
<1> QED BY <1>1, <1>3, <1>4

(* Adding at most, or at least, k divisors moves a quotient by at most, or *)
(* at least, k: every bound on the dust of an operation is one of these.   *)
LEMMA QuotientAddAtMost ==
    ASSUME NEW x \in Nat, NEW y \in Nat, NEW k \in Nat, NEW d \in Nat \ {0}, y <= k * d
    PROVE  (x + y) \div d <= x \div d + k
<1> DEFINE r == x \div d
<1>1. r \in Nat /\ x < r * d + d
  BY Quotient
<1>2. (r + k) * d = r * d + k * d
  BY <1>1
<1>3. k * d \in Nat /\ r * d \in Nat
  BY <1>1, ProductNat
<1>4. x + y < (r + k) * d + d
  BY <1>1, <1>2, <1>3
<1> HIDE DEF r
<1>5. (x + y) \div d <= r + k
  BY <1>1, <1>4, QuotientLeast
<1> QED BY <1>5 DEF r

LEMMA QuotientAddAtLeast ==
    ASSUME NEW x \in Nat, NEW y \in Nat, NEW k \in Nat, NEW d \in Nat \ {0}, y >= k * d
    PROVE  (x + y) \div d >= x \div d + k
<1> DEFINE r == x \div d
<1>1. r \in Nat /\ r * d <= x
  BY Quotient
<1>2. (r + k) * d = r * d + k * d
  BY <1>1
<1>3. k * d \in Nat /\ r * d \in Nat
  BY <1>1, ProductNat
<1>4. (r + k) * d <= x + y
  BY <1>1, <1>2, <1>3
<1> HIDE DEF r
<1>5. r + k <= (x + y) \div d
  BY <1>1, <1>4, QuotientGreatest
<1> QED BY <1>1, <1>5, Quotient DEF r

(* mulDiv is a natural number within one divisor of the exact quotient.    *)
LEMMA MulDivNat ==
    ASSUME NEW x \in Nat, NEW y \in Nat, NEW d \in Nat \ {0}
    PROVE  /\ MulDiv(x, y, d) \in Nat
           /\ MulDivUp(x, y, d) \in Nat
<1>1. x * y \in Nat /\ x * y + d - 1 \in Nat
  BY ProductNat
<1> QED BY <1>1, Quotient DEF MulDiv, MulDivUp

LEMMA MulDivBound ==
    ASSUME NEW x \in Nat, NEW y \in Nat, NEW d \in Nat \ {0}
    PROVE  /\ MulDiv(x, y, d) * d <= x * y
           /\ x * y < MulDiv(x, y, d) * d + d
           /\ MulDivUp(x, y, d) * d >= x * y
           /\ MulDivUp(x, y, d) * d < x * y + d
<1>1. x * y \in Nat /\ x * y + d - 1 \in Nat
  BY ProductNat
<1> DEFINE up == (x * y + d - 1) \div d
<1>2. up \in Nat /\ up * d <= x * y + d - 1 /\ x * y + d - 1 < up * d + d
  BY <1>1, Quotient
<1>3. up * d \in Nat
  BY <1>2, ProductNat
<1>4. up * d >= x * y /\ up * d < x * y + d
  BY <1>1, <1>2, <1>3
<1> QED BY <1>1, <1>4, Quotient DEF MulDiv, MulDivUp

(* The total at an index after shares are added: floor and ceiling.        *)
LEMMA SharesAdded ==
    ASSUME NEW t \in Nat, NEW s \in Nat, NEW i \in Nat, NEW d \in Nat \ {0}, NEW k \in Nat
    PROVE  /\ s * i <= k * d => /\ MulDiv(t + s, i, d) <= MulDiv(t, i, d) + k
                                /\ MulDivUp(t + s, i, d) <= MulDivUp(t, i, d) + k
           /\ s * i >= k * d => /\ MulDiv(t + s, i, d) >= MulDiv(t, i, d) + k
                                /\ MulDivUp(t + s, i, d) >= MulDivUp(t, i, d) + k
<1>1. t * i \in Nat /\ s * i \in Nat /\ t * i + d - 1 \in Nat
  BY ProductNat
<1>2. (t + s) * i = t * i + s * i
  OBVIOUS
<1>3. (t + s) * i + d - 1 = (t * i + d - 1) + s * i
  BY <1>1, <1>2
<1>4. ASSUME s * i <= k * d
      PROVE  /\ MulDiv(t + s, i, d) <= MulDiv(t, i, d) + k
             /\ MulDivUp(t + s, i, d) <= MulDivUp(t, i, d) + k
  <2>1. (t * i + s * i) \div d <= (t * i) \div d + k
    BY <1>1, <1>4, QuotientAddAtMost
  <2>2. ((t * i + d - 1) + s * i) \div d <= (t * i + d - 1) \div d + k
    BY <1>1, <1>4, QuotientAddAtMost
  <2> QED BY <1>2, <1>3, <2>1, <2>2 DEF MulDiv, MulDivUp
<1>5. ASSUME s * i >= k * d
      PROVE  /\ MulDiv(t + s, i, d) >= MulDiv(t, i, d) + k
             /\ MulDivUp(t + s, i, d) >= MulDivUp(t, i, d) + k
  <2>1. (t * i + s * i) \div d >= (t * i) \div d + k
    BY <1>1, <1>5, QuotientAddAtLeast
  <2>2. ((t * i + d - 1) + s * i) \div d >= (t * i + d - 1) \div d + k
    BY <1>1, <1>5, QuotientAddAtLeast
  <2> QED BY <1>2, <1>3, <2>1, <2>2 DEF MulDiv, MulDivUp
<1> QED BY <1>4, <1>5

LEMMA MulDivCommutes ==
    ASSUME NEW x \in Nat, NEW y \in Nat, NEW d \in Nat \ {0}
    PROVE  MulDiv(x, y, d) = MulDiv(y, x, d) /\ MulDivUp(x, y, d) = MulDivUp(y, x, d)
<1>1. x * y = y * x
  OBVIOUS
<1> QED BY <1>1 DEF MulDiv, MulDivUp

-------------------------------------------------------------------------------
(* Sums over the accounts.                                                 *)

(* The cells that Sum counts for the accounts of a set.                    *)
Cells(f, S) == UNION {{a} \X (1..f[a]) : a \in S}

LEMMA CellsFinite ==
    ASSUME NEW A, IsFiniteSet(A), NEW f \in [A -> Nat], NEW S \in SUBSET A
    PROVE  IsFiniteSet(Cells(f, S))
<1> DEFINE column == [a \in S |-> {a} \X (1..f[a])]
           columns == {{a} \X (1..f[a]) : a \in S}
<1>1. IsFiniteSet(S)
  BY FS_Subset
<1>2. column \in Surjection(S, columns)
  BY DEF Surjection
<1>3. IsFiniteSet(columns)
  BY <1>1, <1>2, FS_Surjection
<1>4. ASSUME NEW T \in columns PROVE IsFiniteSet(T)
  <2>1. PICK a \in S : T = {a} \X (1..f[a])
    OBVIOUS
  <2>2. 1 \in Int /\ f[a] \in Int
    OBVIOUS
  <2>3. IsFiniteSet(1..f[a])
    BY <2>2, FS_Interval
  <2>4. IsFiniteSet({a})
    BY FS_Singleton
  <2> QED BY <2>1, <2>3, <2>4, FS_Product
<1> QED BY <1>3, <1>4, FS_UNION DEF Cells

LEMMA CellsSplit ==
    ASSUME NEW A, IsFiniteSet(A), NEW f \in [A -> Nat], NEW a \in A
    PROVE  /\ Cardinality(Cells(f, A \ {a})) \in Nat
           /\ Sum(f) = Cardinality(Cells(f, A \ {a})) + f[a]
<1> DEFINE others == Cells(f, A \ {a})
           own == {a} \X (1..f[a])
<1>1. IsFiniteSet(others)
  BY CellsFinite
<1>2. /\ IsFiniteSet({a}) /\ Cardinality({a}) = 1
      /\ IsFiniteSet(1..f[a]) /\ Cardinality(1..f[a]) = f[a]
  <2>1. 1 \in Int /\ f[a] \in Nat
    OBVIOUS
  <2>2. IsFiniteSet(1..f[a]) /\ Cardinality(1..f[a]) = f[a]
    BY <2>1, FS_Interval
  <2>3. IsFiniteSet({a}) /\ Cardinality({a}) = 1
    BY FS_Singleton
  <2> QED BY <2>2, <2>3
<1>3. IsFiniteSet(own) /\ Cardinality(own) = f[a]
  <2>1. IsFiniteSet(own) /\ Cardinality(own) = 1 * f[a]
    BY <1>2, FS_Product
  <2> QED BY <2>1
<1>4. others \cap own = {}
  BY DEF Cells
<1>5. UNION {{b} \X (1..f[b]) : b \in DOMAIN f} = others \cup own
  BY DEF Cells
<1>6. Cardinality(others \cup own) = Cardinality(others) + f[a]
  <2>1. Cardinality(others \cup own)
          = Cardinality(others) + Cardinality(own) - Cardinality(others \cap own)
    BY <1>1, <1>3, FS_Union
  <2>2. Cardinality(others) \in Nat
    BY <1>1, FS_CardinalityType
  <2>3. Cardinality({}) = 0
    BY FS_EmptySet
  <2>4. f[a] \in Nat
    OBVIOUS
  <2>5. Cardinality(others \cap own) = 0 /\ Cardinality(own) = f[a]
    BY <1>3, <1>4, <2>3
  <2> HIDE DEF others, own
  <2> QED BY <2>1, <2>2, <2>4, <2>5
<1> QED BY <1>1, <1>5, <1>6, FS_CardinalityType DEF Sum

LEMMA CellsSame ==
    ASSUME NEW A, IsFiniteSet(A), NEW f \in [A -> Nat], NEW g \in [A -> Nat], NEW S \in SUBSET A,
           \A b \in S : f[b] = g[b]
    PROVE  Cells(f, S) = Cells(g, S)
  BY DEF Cells

(* A sum of naturals bounds each term, and changes as the one term that    *)
(* changes.                                                                *)
LEMMA SumBounds ==
    ASSUME NEW A, IsFiniteSet(A), NEW f \in [A -> Nat]
    PROVE  /\ Sum(f) \in Nat
           /\ \A a \in A : f[a] <= Sum(f)
<1>1. Sum(f) = Cardinality(Cells(f, A))
  BY DEF Sum, Cells
<1>2. Sum(f) \in Nat
  BY <1>1, CellsFinite, FS_CardinalityType
<1>3. ASSUME NEW a \in A PROVE f[a] <= Sum(f)
  <2>1. /\ Cardinality(Cells(f, A \ {a})) \in Nat
        /\ Sum(f) = Cardinality(Cells(f, A \ {a})) + f[a]
    BY CellsSplit
  <2> QED BY <2>1
<1> QED BY <1>2, <1>3

LEMMA SumUpdate ==
    ASSUME NEW A, IsFiniteSet(A), NEW f \in [A -> Nat], NEW a \in A, NEW v \in Nat,
           NEW g \in [A -> Nat], g[a] = v, \A b \in A \ {a} : g[b] = f[b]
    PROVE  Sum(g) = Sum(f) - f[a] + v
<1> DEFINE others == Cardinality(Cells(f, A \ {a}))
<1>1. others \in Nat /\ Sum(f) = others + f[a]
  BY CellsSplit
<1>2. Sum(g) = Cardinality(Cells(g, A \ {a})) + v
  BY CellsSplit
<1>3. Cells(g, A \ {a}) = Cells(f, A \ {a})
  BY CellsSame
<1> HIDE DEF others
<1>4. Sum(g) = others + v
  BY <1>2, <1>3 DEF others
<1> QED BY <1>1, <1>4

LEMMA SumZero ==
    ASSUME NEW A, IsFiniteSet(A), NEW f \in [A -> Nat], \A a \in A : f[a] = 0
    PROVE  Sum(f) = 0
<1>1. UNION {{a} \X (1..f[a]) : a \in DOMAIN f} = {}
  OBVIOUS
<1> QED BY <1>1, FS_EmptySet DEF Sum

-------------------------------------------------------------------------------
LEMMA WadPositive == WAD \in Nat \ {0}
  BY UnitAssumption

-------------------------------------------------------------------------------
(* Interest.                                                               *)

(* The borrow index never falls in an interval.                            *)
LEMMA NextBorrowIndexGrows ==
    ASSUME NEW m \in Market, now \in Nat, m.lastAccrual <= now
    PROVE  /\ NextBorrowIndex(m) \in Nat
           /\ NextBorrowIndex(m) >= m.borrowIndex
           /\ StoredBorrow(m) \in Nat
           /\ StoredSupply(m) \in Nat
<1>1. /\ m.supplyIndex \in Nat /\ m.borrowIndex \in Nat /\ m.lastAccrual \in Nat
      /\ m.totalSupplyScaled \in Nat /\ m.totalBorrowScaled \in Nat
  BY DEF Market
<1>2. StoredBorrow(m) \in Nat /\ StoredSupply(m) \in Nat
  BY <1>1, MulDivNat, UnitAssumption DEF StoredBorrow, StoredSupply
<1>3. BorrowApy(m) \in Nat
  <2> DEFINE util == IF StoredSupply(m) = 0 THEN WAD
                     ELSE Least(MulDiv(StoredBorrow(m), WAD, StoredSupply(m)), WAD)
  <2>1. StoredSupply(m) # 0 => MulDiv(StoredBorrow(m), WAD, StoredSupply(m)) \in Nat
    BY <1>2, MulDivNat, UnitAssumption
  <2>2. util \in Nat
    BY <2>1, UnitAssumption DEF Least
  <2>3. MulDiv(util, BORROW_RATE_SLOPE, WAD) \in Nat
    BY <2>2, MulDivNat, UnitAssumption, RateAssumption
  <2>4. BorrowApy(m) = BORROW_RATE_INTERCEPT + MulDiv(util, BORROW_RATE_SLOPE, WAD)
    BY DEF BorrowApy
  <2> QED BY <2>3, <2>4, RateAssumption
<1>4. BorrowApy(m) * (now - m.lastAccrual) \in Nat
  BY <1>1, <1>3, ProductNat
<1>5. WAD * SECONDS_PER_YEAR \in Nat \ {0}
  BY UnitAssumption
<1>6. MulDiv(m.borrowIndex, BorrowApy(m) * (now - m.lastAccrual), WAD * SECONDS_PER_YEAR) \in Nat
  BY <1>1, <1>4, <1>5, MulDivNat
<1> QED BY <1>1, <1>2, <1>6 DEF NextBorrowIndex

(* Every checked subtraction of an interval's interest succeeds, and the   *)
(* interest is shared out between suppliers and reserves to the last token.*)
LEMMA SplitIsExact ==
    ASSUME NEW m \in Market, now \in Nat, m.lastAccrual <= now
    PROVE  LET split == InterestSplit(m)
           IN  /\ split.borrowIndex \in Nat \ {0}
               /\ split.borrowIndex >= m.borrowIndex
               /\ split.supplyIndex \in Nat \ {0}
               /\ split.supplyIndex >= m.supplyIndex
               /\ split.remainder \in 0..(WAD - 1)
               /\ split.interest \in Nat
               /\ split.cut \in 0..split.interest
               /\ split.gain \in 0..split.interest
               /\ MulDivUp(m.totalBorrowScaled, split.borrowIndex, WAD)
                    = StoredBorrow(m) + split.interest
               /\ MulDiv(m.totalSupplyScaled, split.supplyIndex, WAD)
                    = StoredSupply(m) + split.gain
<1> DEFINE T == m.totalBorrowScaled
           S == m.totalSupplyScaled
           index == NextBorrowIndex(m)
           interest == MulDivUp(T, index, WAD) - StoredBorrow(m)
           share == (interest * RESERVE_FACTOR) % WAD
           due == share + m.reserveRemainder
           cut == MulDiv(interest, RESERVE_FACTOR, WAD) + due \div WAD
           step == MulDiv(interest - cut, WAD, S)
           supplyIndex == m.supplyIndex + step
           gain == MulDiv(S, supplyIndex, WAD) - StoredSupply(m)
<1>1. /\ T \in Nat /\ S \in Nat /\ m.supplyIndex \in Nat \ {0} /\ m.borrowIndex \in Nat \ {0}
      /\ m.reserveRemainder \in 0..(WAD - 1)
  BY DEF Market
<1>2. WAD \in Nat \ {0} /\ RESERVE_FACTOR \in 0..WAD
  BY UnitAssumption, RateAssumption
<1>3. index \in Nat /\ index >= m.borrowIndex /\ StoredBorrow(m) \in Nat /\ StoredSupply(m) \in Nat
  BY NextBorrowIndexGrows
<1>4. MulDivUp(T, index, WAD) \in Nat /\ interest \in Nat
  <2> DEFINE delta == index - m.borrowIndex
  <2>1. delta \in Nat /\ index = m.borrowIndex + delta
    BY <1>1, <1>3
  <2>2. delta * T >= 0 * WAD
    BY <1>1, <2>1, <1>2, ProductNat
  <2> HIDE DEF delta
  <2>3. MulDivUp(m.borrowIndex + delta, T, WAD) >= MulDivUp(m.borrowIndex, T, WAD) + 0
    BY <1>1, <1>2, <2>1, <2>2, SharesAdded
  <2> HIDE DEF index, T
  <2>4. /\ MulDivUp(index, T, WAD) = MulDivUp(T, index, WAD)
        /\ MulDivUp(m.borrowIndex, T, WAD) = MulDivUp(T, m.borrowIndex, WAD)
    BY <1>1, <1>2, <1>3, MulDivCommutes
  <2>5. MulDivUp(T, index, WAD) \in Nat /\ MulDivUp(T, m.borrowIndex, WAD) \in Nat
    BY <1>1, <1>2, <1>3, MulDivNat
  <2>6. StoredBorrow(m) = MulDivUp(T, m.borrowIndex, WAD)
    BY DEF StoredBorrow, T
  <2> QED BY <2>1, <2>3, <2>4, <2>5, <2>6
<1> HIDE DEF index, interest
<1>5. share \in 0..(WAD - 1) /\ due \in Nat /\ due % WAD \in 0..(WAD - 1)
      /\ due \div WAD \in 0..1 /\ (share = 0 => due \div WAD = 0)
  <2>1. interest * RESERVE_FACTOR \in Nat
    BY <1>2, <1>4, ProductNat
  <2>2. share \in 0..(WAD - 1)
    BY <1>2, <2>1
  <2> HIDE DEF share
  <2>3. due \in Nat /\ due < WAD + WAD /\ (share = 0 => due < WAD)
    BY <1>1, <1>2, <2>2
  <2> HIDE DEF due
  <2>4. due \div WAD <= 1
    BY <1>2, <2>3, QuotientLeast
  <2>5. share = 0 => due \div WAD <= 0
    BY <1>2, <2>3, QuotientLeast
  <2> QED BY <1>2, <2>2, <2>3, <2>4, <2>5, Quotient
<1>6. cut \in 0..interest
  <2> DEFINE q == MulDiv(interest, RESERVE_FACTOR, WAD)
  <2>1. interest * RESERVE_FACTOR \in Nat /\ interest * RESERVE_FACTOR <= interest * WAD
    BY <1>2, <1>4, ProductNat, ProductMonotone
  <2>2. q \in Nat /\ interest * RESERVE_FACTOR = q * WAD + share
    BY <1>2, <2>1, Quotient, Remainder DEF MulDiv
  <2>3. q <= interest
    BY <1>2, <1>4, <2>1, QuotientLeast DEF MulDiv
  <2>4. q = interest => share = 0
    BY <1>2, <1>4, <2>1, <2>2, <1>5
  <2> HIDE DEF q, share, due
  <2>5. q + due \div WAD \in 0..interest
    BY <1>4, <1>5, <2>2, <2>3, <2>4
  <2> QED BY <2>5 DEF q
<1> HIDE DEF cut, due, share
<1>7. ASSUME S # 0
      PROVE  /\ step \in Nat
             /\ gain \in 0..(interest - cut)
             /\ MulDiv(S, supplyIndex, WAD) \in Nat
  <2>1. interest - cut \in Nat
    BY <1>4, <1>6
  <2>2. step \in Nat /\ step * S <= (interest - cut) * WAD
    BY <1>1, <1>2, <1>7, <2>1, MulDivNat, MulDivBound
  <2>3. step * S >= 0 * WAD
    BY <1>1, <1>2, <2>2, ProductNat
  <2> HIDE DEF step
  <2>4. /\ MulDiv(m.supplyIndex + step, S, WAD) <= MulDiv(m.supplyIndex, S, WAD) + (interest - cut)
        /\ MulDiv(m.supplyIndex + step, S, WAD) >= MulDiv(m.supplyIndex, S, WAD) + 0
    BY <1>1, <1>2, <2>1, <2>2, <2>3, SharesAdded
  <2>5. m.supplyIndex + step \in Nat
    BY <1>1, <2>2
  <2>6. /\ MulDiv(S, supplyIndex, WAD) = MulDiv(m.supplyIndex + step, S, WAD)
        /\ StoredSupply(m) = MulDiv(m.supplyIndex, S, WAD)
    BY <1>1, <1>2, <2>5, MulDivCommutes DEF StoredSupply
  <2>7. MulDiv(S, supplyIndex, WAD) \in Nat
    BY <1>1, <1>2, <2>5, MulDivNat
  <2> QED BY <1>3, <2>1, <2>2, <2>4, <2>6, <2>7
<1> HIDE DEF step
<1>8. InterestSplit(m) =
        IF S = 0
        THEN [borrowIndex |-> index, interest |-> interest, cut |-> 0, gain |-> 0,
              supplyIndex |-> m.supplyIndex, remainder |-> m.reserveRemainder]
        ELSE [borrowIndex |-> index, interest |-> interest, cut |-> cut, gain |-> gain,
              supplyIndex |-> supplyIndex, remainder |-> due % WAD]
  BY DEF InterestSplit, Fraction, index, interest, cut, due, share, step
<1>9. MulDivUp(T, index, WAD) = StoredBorrow(m) + interest
  BY <1>3, <1>4 DEF interest
<1>10. CASE S = 0
  BY <1>1, <1>3, <1>4, <1>8, <1>9, <1>10, <1>2 DEF StoredSupply
<1>11. CASE S # 0
  <2>1. MulDiv(S, supplyIndex, WAD) = StoredSupply(m) + gain
    BY <1>3, <1>7, <1>11
  <2>2. supplyIndex \in Nat \ {0} /\ supplyIndex >= m.supplyIndex
    BY <1>1, <1>7, <1>11
  <2> HIDE DEF gain, supplyIndex
  <2> QED BY <1>1, <1>3, <1>4, <1>5, <1>6, <1>7, <1>8, <1>9, <1>11, <2>1, <2>2
<1> QED BY <1>10, <1>11

-------------------------------------------------------------------------------
(* Accrual.                                                                *)

(* What a market owes less what it is owed: accrual moves it to nobody.    *)
Balance(m) == StoredBorrow(m) - StoredSupply(m) - m.totalReserves

LEMMA StoredNat ==
    ASSUME NEW m \in Market
    PROVE  StoredBorrow(m) \in Nat /\ StoredSupply(m) \in Nat
  BY MulDivNat, UnitAssumption DEF Market, StoredBorrow, StoredSupply

LEMMA InterestIsShared ==
    ASSUME NEW m \in Market, now \in Nat, m.lastAccrual <= now
    PROVE  /\ AccrualFits(m)
           /\ WithInterest(m) \in Market
           /\ WithInterest(m).lastAccrual = m.lastAccrual
           /\ WithInterest(m).totalSupplyScaled = m.totalSupplyScaled
           /\ WithInterest(m).totalBorrowScaled = m.totalBorrowScaled
           /\ WithInterest(m).supplyEpoch = m.supplyEpoch
           /\ WithInterest(m).borrowIndex >= m.borrowIndex
           /\ WithInterest(m).supplyIndex >= m.supplyIndex
           /\ WithInterest(m).totalReserves >= m.totalReserves
           /\ Balance(WithInterest(m)) = Balance(m)
<1> DEFINE split == InterestSplit(m)
<1>1. AccrualFits(m)
  BY SplitIsExact DEF AccrualFits
<1>2. CASE Idle(m)
  BY <1>1, <1>2 DEF WithInterest, Market
<1>3. CASE ~Idle(m)
  <2> DEFINE w == [m EXCEPT !.borrowIndex = split.borrowIndex,
                            !.supplyIndex = split.supplyIndex,
                            !.reserveRemainder = split.remainder,
                            !.totalReserves = @ + split.interest - split.gain]
  <2>1. WithInterest(m) = w
    BY <1>3 DEF WithInterest
  <2>2. /\ split.borrowIndex \in Nat \ {0} /\ split.borrowIndex >= m.borrowIndex
        /\ split.supplyIndex \in Nat \ {0} /\ split.supplyIndex >= m.supplyIndex
        /\ split.remainder \in 0..(WAD - 1)
        /\ split.interest \in Nat
        /\ split.gain \in 0..split.interest
        /\ MulDivUp(m.totalBorrowScaled, split.borrowIndex, WAD)
             = StoredBorrow(m) + split.interest
        /\ MulDiv(m.totalSupplyScaled, split.supplyIndex, WAD)
             = StoredSupply(m) + split.gain
    BY SplitIsExact
  <2> HIDE DEF split
  <2>3. m.totalReserves \in Nat
    BY DEF Market
  <2>4. m.totalReserves + split.interest - split.gain \in Nat
        /\ m.totalReserves + split.interest - split.gain >= m.totalReserves
    BY <2>2, <2>3
  <2>5. w \in Market
    BY <2>2, <2>4 DEF Market
  <2>6. /\ w.lastAccrual = m.lastAccrual
        /\ w.totalSupplyScaled = m.totalSupplyScaled
        /\ w.totalBorrowScaled = m.totalBorrowScaled
        /\ w.supplyEpoch = m.supplyEpoch
        /\ w.borrowIndex = split.borrowIndex
        /\ w.supplyIndex = split.supplyIndex
        /\ w.totalReserves = m.totalReserves + split.interest - split.gain
    BY DEF Market
  <2>7. /\ StoredBorrow(w) = StoredBorrow(m) + split.interest
        /\ StoredSupply(w) = StoredSupply(m) + split.gain
    BY <2>2, <2>6 DEF StoredBorrow, StoredSupply
  <2> HIDE DEF w
  <2>8. Balance(w) = Balance(m)
    BY <2>2, <2>3, <2>6, <2>7, StoredNat DEF Balance
  <2> QED BY <1>1, <2>1, <2>2, <2>4, <2>5, <2>6, <2>8
<1> QED BY <1>2, <1>3

(* The clock never runs behind the last accrual.                           *)
Clock == now \in Nat /\ market \in Market /\ market.lastAccrual <= now

LEMMA AccruedSound ==
    ASSUME Clock, cash \in Nat, faucet.budget \in Nat
    PROVE  /\ AccrualFits(market)
           /\ Accrued \in Market
           /\ Accrued.lastAccrual = now
           /\ Accrued.totalSupplyScaled = market.totalSupplyScaled
           /\ Accrued.totalBorrowScaled = market.totalBorrowScaled
           /\ Accrued.supplyEpoch = market.supplyEpoch
           /\ Accrued.borrowIndex >= market.borrowIndex
           /\ Accrued.supplyIndex >= market.supplyIndex
           /\ Accrued.totalReserves >= market.totalReserves
           /\ Balance(Accrued) =
                Balance(market) - Greatest(0, cash + Balance(market) - faucet.budget)
<1> DEFINE w == WithInterest(market)
           c == [w EXCEPT !.lastAccrual = now]
           surplus == Surplus(c, cash)
<1>1. /\ AccrualFits(market) /\ w \in Market
      /\ w.totalSupplyScaled = market.totalSupplyScaled
      /\ w.totalBorrowScaled = market.totalBorrowScaled
      /\ w.supplyEpoch = market.supplyEpoch
      /\ w.borrowIndex >= market.borrowIndex
      /\ w.supplyIndex >= market.supplyIndex
      /\ w.totalReserves >= market.totalReserves
      /\ Balance(w) = Balance(market)
  BY InterestIsShared DEF Clock
<1> HIDE DEF w
<1>2. /\ c \in Market /\ c.lastAccrual = now
      /\ c.totalSupplyScaled = w.totalSupplyScaled
      /\ c.totalBorrowScaled = w.totalBorrowScaled
      /\ c.supplyEpoch = w.supplyEpoch
      /\ c.borrowIndex = w.borrowIndex /\ c.supplyIndex = w.supplyIndex
      /\ c.totalReserves = w.totalReserves
  BY <1>1 DEF Market, Clock
<1>3. StoredBorrow(c) = StoredBorrow(w) /\ StoredSupply(c) = StoredSupply(w)
  BY <1>2 DEF StoredBorrow, StoredSupply
<1>4. Accrued = [c EXCEPT !.totalReserves = @ + surplus]
  BY DEF Accrued, w
<1> HIDE DEF c
<1>5. /\ StoredBorrow(c) \in Nat /\ StoredSupply(c) \in Nat /\ c.totalReserves \in Nat
      /\ market.totalReserves \in Nat
      /\ StoredBorrow(market) \in Nat /\ StoredSupply(market) \in Nat
  BY <1>2, StoredNat DEF Market, Clock
<1>6. surplus = Greatest(0, cash + Balance(c) - faucet.budget)
  BY <1>5 DEF Surplus, Assets, Liabilities, Balance
<1>7. surplus \in Nat
  BY <1>5, <1>6 DEF Greatest, Balance
<1>8. Balance(c) = Balance(market)
  BY <1>1, <1>2, <1>3 DEF Balance
<1> HIDE DEF surplus
<1>9. /\ Accrued \in Market /\ Accrued.lastAccrual = c.lastAccrual
      /\ Accrued.totalSupplyScaled = c.totalSupplyScaled
      /\ Accrued.totalBorrowScaled = c.totalBorrowScaled
      /\ Accrued.supplyEpoch = c.supplyEpoch
      /\ Accrued.borrowIndex = c.borrowIndex /\ Accrued.supplyIndex = c.supplyIndex
      /\ Accrued.totalReserves = c.totalReserves + surplus
  BY <1>2, <1>4, <1>5, <1>7 DEF Market
<1>10. StoredBorrow(Accrued) = StoredBorrow(c) /\ StoredSupply(Accrued) = StoredSupply(c)
  BY <1>9 DEF StoredBorrow, StoredSupply
<1>11. Balance(Accrued) = Balance(c) - surplus
  BY <1>5, <1>7, <1>9, <1>10 DEF Balance
<1> QED BY <1>1, <1>2, <1>5, <1>6, <1>7, <1>8, <1>9, <1>11

-------------------------------------------------------------------------------
(* Debt: burning shares, and writing off what no collateral covers.        *)

LEMMA WithoutDebtSound ==
    ASSUME NEW m \in Market, NEW burned \in 0..m.totalBorrowScaled
    PROVE  /\ WithoutDebt(m, burned) \in Market
           /\ WithoutDebt(m, burned) = [m EXCEPT !.totalBorrowScaled = m.totalBorrowScaled - burned]
           /\ StoredSupply(WithoutDebt(m, burned)) = StoredSupply(m)
           /\ Cancelled(m, burned) \in 0..StoredBorrow(m)
           /\ StoredBorrow(WithoutDebt(m, burned)) = StoredBorrow(m) - Cancelled(m, burned)
<1> DEFINE w == WithoutDebt(m, burned)
           left == m.totalBorrowScaled - burned
<1>1. m.totalBorrowScaled \in Nat /\ left \in Nat /\ m.totalBorrowScaled = left + burned
      /\ m.borrowIndex \in Nat /\ burned \in Nat /\ WAD \in Nat \ {0}
  BY WadPositive DEF Market
<1>2. /\ w = [m EXCEPT !.totalBorrowScaled = left] /\ w \in Market
      /\ w.totalBorrowScaled = left /\ w.borrowIndex = m.borrowIndex
      /\ w.totalSupplyScaled = m.totalSupplyScaled /\ w.supplyIndex = m.supplyIndex
  BY <1>1 DEF Market, WithoutDebt
<1> HIDE DEF left
<1>3. burned * m.borrowIndex >= 0 * WAD
  BY <1>1, ProductNat
<1>4. MulDivUp(left + burned, m.borrowIndex, WAD) >= MulDivUp(left, m.borrowIndex, WAD) + 0
  BY <1>1, <1>3, SharesAdded
<1>5. /\ StoredBorrow(m) = MulDivUp(left + burned, m.borrowIndex, WAD)
      /\ StoredBorrow(w) = MulDivUp(left, m.borrowIndex, WAD)
      /\ StoredSupply(w) = StoredSupply(m)
  BY <1>1, <1>2 DEF StoredBorrow, StoredSupply
<1>6. StoredBorrow(m) \in Nat /\ StoredBorrow(w) \in Nat
  BY <1>2, StoredNat
<1>7. Cancelled(m, burned) = StoredBorrow(m) - StoredBorrow(w)
  BY DEF Cancelled
<1> QED BY <1>2, <1>4, <1>5, <1>6, <1>7 DEF left

(* A payment never cancels more debt than it is worth, and never more      *)
(* shares than the debtor holds.                                           *)
LEMMA BurnAlwaysFits ==
    ASSUME NEW m \in Market, NEW shares \in 0..m.totalBorrowScaled, NEW pay \in Nat
    PROVE  BurnFits(shares, pay, m)
<1> DEFINE burned == BurnedShares(shares, pay, m)
           left == m.totalBorrowScaled - burned
<1>1. /\ m.totalBorrowScaled \in Nat /\ m.borrowIndex \in Nat \ {0} /\ WAD \in Nat \ {0}
      /\ shares \in Nat
  BY WadPositive DEF Market
<1>2. burned \in 0..shares /\ burned * m.borrowIndex <= pay * WAD
  <2>1. CASE pay >= DebtOf(shares, m)
    <3>1. DebtOf(shares, m) \in Nat /\ DebtOf(shares, m) * WAD >= shares * m.borrowIndex
      BY <1>1, MulDivNat, MulDivBound DEF DebtOf
    <3>2. pay * WAD >= DebtOf(shares, m) * WAD
      BY <1>1, <2>1, <3>1, ProductMonotone
    <3>3. pay * WAD \in Nat /\ shares * m.borrowIndex \in Nat /\ DebtOf(shares, m) * WAD \in Nat
      BY <1>1, <3>1, ProductNat
    <3> QED BY <1>1, <2>1, <3>1, <3>2, <3>3 DEF BurnedShares
  <2>2. CASE pay < DebtOf(shares, m)
    <3>1. burned = MulDiv(pay, WAD, m.borrowIndex)
      <4>1. DebtOf(shares, m) \in Nat
        BY <1>1, MulDivNat DEF DebtOf
      <4> QED BY <2>2, <4>1 DEF BurnedShares
    <3>2. burned \in Nat /\ burned * m.borrowIndex <= pay * WAD
      BY <1>1, <3>1, MulDivNat, MulDivBound
    <3>3. burned <= shares
      <4>1. SUFFICES ASSUME burned >= shares + 1 PROVE FALSE
        BY <3>2
      <4>2. (shares + 1) * m.borrowIndex <= burned * m.borrowIndex
        BY <1>1, <3>2, <4>1, ProductMonotone
      <4>3. (pay + 1) * WAD <= DebtOf(shares, m) * WAD
        <5>1. DebtOf(shares, m) \in Nat
          BY <1>1, MulDivNat DEF DebtOf
        <5> QED BY <1>1, <2>2, <5>1, ProductMonotone
      <4>4. DebtOf(shares, m) * WAD < shares * m.borrowIndex + WAD
        BY <1>1, MulDivBound DEF DebtOf
      <4>5. (shares + 1) * m.borrowIndex = shares * m.borrowIndex + m.borrowIndex
        BY <1>1, Distribute
      <4>6. (pay + 1) * WAD = pay * WAD + WAD
        BY <1>1, Distribute
      <4>7. /\ pay * WAD \in Nat /\ shares * m.borrowIndex \in Nat
            /\ burned * m.borrowIndex \in Nat
        BY <1>1, <3>2, ProductNat
      <4>8. DebtOf(shares, m) * WAD \in Nat
        BY <1>1, MulDivNat, ProductNat DEF DebtOf
      <4> HIDE DEF burned
      <4> QED BY <1>1, <3>2, <4>2, <4>3, <4>4, <4>5, <4>6, <4>7, <4>8
    <3> QED BY <3>2, <3>3
  <2>3. DebtOf(shares, m) \in Nat
    BY <1>1, MulDivNat DEF DebtOf
  <2> QED BY <2>1, <2>2, <2>3
<1> HIDE DEF burned
<1>3. /\ burned \in 0..m.totalBorrowScaled /\ burned \in Nat
      /\ left \in Nat /\ m.totalBorrowScaled = left + burned
  BY <1>1, <1>2
<1> HIDE DEF left
<1>4. MulDivUp(left + burned, m.borrowIndex, WAD) <= MulDivUp(left, m.borrowIndex, WAD) + pay
  BY <1>1, <1>2, <1>3, SharesAdded
<1>5. /\ StoredBorrow(m) = MulDivUp(left + burned, m.borrowIndex, WAD)
      /\ StoredBorrow(WithoutDebt(m, burned)) = MulDivUp(left, m.borrowIndex, WAD)
  BY <1>1, <1>3 DEF StoredBorrow, WithoutDebt, Market
<1>6. Cancelled(m, burned) \in 0..pay
  BY <1>3, <1>4, <1>5, WithoutDebtSound, StoredNat DEF Cancelled
<1> QED BY <1>2, <1>3, <1>6 DEF BurnFits, burned

LEMMA BurnDebtSound ==
    ASSUME NEW m \in Market, NEW shares \in Nat, NEW pay \in Nat, BurnFits(shares, pay, m)
    PROVE  /\ BurnedShares(shares, pay, m) \in 0..shares
           /\ BurnedShares(shares, pay, m) \in 0..m.totalBorrowScaled
           /\ BurnDebt(shares, pay, m) \in Market
           /\ BurnDebt(shares, pay, m).lastAccrual = m.lastAccrual
           /\ BurnDebt(shares, pay, m).borrowIndex = m.borrowIndex
           /\ BurnDebt(shares, pay, m).supplyIndex = m.supplyIndex
           /\ BurnDebt(shares, pay, m).supplyEpoch = m.supplyEpoch
           /\ BurnDebt(shares, pay, m).totalSupplyScaled = m.totalSupplyScaled
           /\ BurnDebt(shares, pay, m).totalBorrowScaled
                = m.totalBorrowScaled - BurnedShares(shares, pay, m)
           /\ Balance(BurnDebt(shares, pay, m)) = Balance(m) - pay
<1> DEFINE burned == BurnedShares(shares, pay, m)
           w == WithoutDebt(m, burned)
           b == BurnDebt(shares, pay, m)
<1>1. burned \in Nat
  BY MulDivNat, UnitAssumption DEF BurnedShares, Market
<1>2. /\ burned \in 0..shares /\ burned \in 0..m.totalBorrowScaled
      /\ Cancelled(m, burned) \in 0..pay
  BY <1>1 DEF BurnFits, Market
<1>3. /\ w \in Market
      /\ w = [m EXCEPT !.totalBorrowScaled = m.totalBorrowScaled - burned]
      /\ StoredSupply(w) = StoredSupply(m)
      /\ StoredBorrow(w) = StoredBorrow(m) - Cancelled(m, burned)
  BY <1>2, WithoutDebtSound
<1>4. b = [w EXCEPT !.totalReserves = w.totalReserves + pay - Cancelled(m, burned)]
  BY DEF BurnDebt
<1> HIDE DEF burned
<1>5. /\ w.lastAccrual = m.lastAccrual /\ w.borrowIndex = m.borrowIndex
      /\ w.supplyIndex = m.supplyIndex /\ w.supplyEpoch = m.supplyEpoch
      /\ w.totalSupplyScaled = m.totalSupplyScaled
      /\ w.totalBorrowScaled = m.totalBorrowScaled - burned
      /\ w.totalReserves = m.totalReserves
  BY <1>3 DEF Market
<1> HIDE DEF w, b
<1>6. m.totalReserves \in Nat /\ w.totalReserves + pay - Cancelled(m, burned) \in Nat
  BY <1>2, <1>5 DEF Market
<1>7. /\ b \in Market
      /\ b.lastAccrual = w.lastAccrual /\ b.borrowIndex = w.borrowIndex
      /\ b.supplyIndex = w.supplyIndex /\ b.supplyEpoch = w.supplyEpoch
      /\ b.totalSupplyScaled = w.totalSupplyScaled
      /\ b.totalBorrowScaled = w.totalBorrowScaled
      /\ b.totalReserves = w.totalReserves + pay - Cancelled(m, burned)
  BY <1>3, <1>4, <1>6 DEF Market
<1>8. StoredBorrow(b) = StoredBorrow(w) /\ StoredSupply(b) = StoredSupply(w)
  BY <1>7 DEF StoredBorrow, StoredSupply
<1>9. Balance(b) = Balance(m) - pay
  BY <1>2, <1>3, <1>5, <1>6, <1>7, <1>8, StoredNat DEF Balance
<1> QED BY <1>2, <1>5, <1>7, <1>9 DEF b, burned

(* Writing off a covered loss: reserves pay first, suppliers the rest, and *)
(* what the new index cannot express becomes a reserve.  An index of zero  *)
(* retires every share.                                                    *)
LEMMA ResolveSound ==
    ASSUME NEW m \in Market, NEW shares \in 0..m.totalBorrowScaled, Covered(shares, m)
    PROVE  LET r == ResolveBadDebt(shares, m)
           IN  /\ ResolveFits(shares, m)
               /\ r \in Market
               /\ r.lastAccrual = m.lastAccrual
               /\ r.borrowIndex = m.borrowIndex
               /\ r.totalBorrowScaled = m.totalBorrowScaled - shares
               /\ \/ r.supplyEpoch = m.supplyEpoch /\ r.totalSupplyScaled = m.totalSupplyScaled
                  \/ r.supplyEpoch = m.supplyEpoch + 1 /\ r.totalSupplyScaled = 0
               /\ Balance(r) = Balance(m)
<1> DEFINE loss == Cancelled(m, shares)
           w == WithoutDebt(m, shares)
           c == ChargeReserves(shares, m)
           used == Least(loss, m.totalReserves)
           sloss == SupplierLoss(shares, m)
<1>1. /\ m.totalReserves \in Nat /\ m.totalSupplyScaled \in Nat /\ m.supplyEpoch \in Nat
      /\ m.totalBorrowScaled \in Nat /\ shares \in Nat
      /\ StoredBorrow(m) \in Nat /\ StoredSupply(m) \in Nat /\ WAD \in Nat \ {0}
  BY StoredNat, WadPositive DEF Market
<1>2. /\ w \in Market
      /\ w = [m EXCEPT !.totalBorrowScaled = m.totalBorrowScaled - shares]
      /\ StoredSupply(w) = StoredSupply(m)
      /\ loss \in 0..StoredBorrow(m)
      /\ StoredBorrow(w) = StoredBorrow(m) - loss
  BY WithoutDebtSound
<1>3. /\ w.lastAccrual = m.lastAccrual /\ w.borrowIndex = m.borrowIndex
      /\ w.supplyIndex = m.supplyIndex /\ w.supplyEpoch = m.supplyEpoch
      /\ w.totalSupplyScaled = m.totalSupplyScaled
      /\ w.totalBorrowScaled = m.totalBorrowScaled - shares
      /\ w.totalReserves = m.totalReserves
  BY <1>2 DEF Market
<1>4. c = [w EXCEPT !.totalReserves = w.totalReserves - Least(loss, w.totalReserves)]
  BY DEF ChargeReserves
<1>5. sloss = loss - used
  BY DEF SupplierLoss
<1> HIDE DEF loss, w, c, sloss
<1>6. /\ used \in 0..m.totalReserves /\ sloss \in Nat
      /\ sloss > 0 => used = m.totalReserves
      /\ sloss <= StoredSupply(m)
  BY <1>1, <1>2, <1>5 DEF Least, Covered, sloss
<1> HIDE DEF used
<1>7. w.totalReserves - used \in Nat /\ used = Least(loss, w.totalReserves)
  BY <1>1, <1>3, <1>6 DEF used
<1>8. /\ c \in Market
      /\ c.lastAccrual = m.lastAccrual /\ c.borrowIndex = m.borrowIndex
      /\ c.supplyIndex = m.supplyIndex /\ c.supplyEpoch = m.supplyEpoch
      /\ c.totalSupplyScaled = m.totalSupplyScaled
      /\ c.totalBorrowScaled = m.totalBorrowScaled - shares
      /\ c.totalReserves = m.totalReserves - used
  BY <1>2, <1>3, <1>4, <1>7 DEF Market
<1>9. /\ StoredBorrow(c) = StoredBorrow(m) - loss /\ StoredSupply(c) = StoredSupply(m)
  BY <1>2, <1>3, <1>8 DEF StoredBorrow, StoredSupply
<1>10. CASE sloss = 0
  <2>1. ResolveBadDebt(shares, m) = c
    BY <1>10 DEF ResolveBadDebt, sloss, c
  <2>2. loss = used /\ loss \in Nat
    BY <1>1, <1>2, <1>5, <1>6, <1>10
  <2>3. Balance(c) = Balance(m)
    BY <1>1, <1>8, <1>9, <2>2 DEF Balance
  <2>4. ResolveFits(shares, m)
    BY <1>1, <1>2, <1>6, <1>8, <2>1 DEF ResolveFits, loss
  <2> QED BY <1>1, <1>8, <2>1, <2>3, <2>4
<1>11. CASE sloss > 0
  <2> DEFINE remaining == StoredSupply(m) - sloss
             index == LossIndex(shares, m)
             p == Repriced(c, index)
             r == [p EXCEPT !.totalReserves = p.totalReserves + remaining - StoredSupply(p)]
  <2>1. remaining \in Nat /\ m.totalSupplyScaled # 0
    <3>1. m.totalSupplyScaled = 0 => StoredSupply(m) = 0
      <4>1. 0 * m.supplyIndex = 0 /\ 0 \div WAD = 0
        BY <1>1 DEF Market
      <4> QED BY <4>1 DEF StoredSupply, MulDiv
    <3> QED BY <1>1, <1>6, <1>11, <3>1
  <2>2. index = MulDiv(remaining, WAD, m.totalSupplyScaled)
    BY DEF LossIndex, sloss
  <2> HIDE DEF remaining
  <2>3. index \in Nat /\ index * m.totalSupplyScaled <= remaining * WAD
    <3> DEFINE t == m.totalSupplyScaled
    <3>1. t \in Nat \ {0} /\ index = MulDiv(remaining, WAD, t)
      BY <1>1, <2>1, <2>2
    <3> HIDE DEF t, index
    <3>2. index \in Nat /\ index * t <= remaining * WAD
      BY <1>1, <2>1, <3>1, MulDivNat, MulDivBound
    <3> QED BY <3>2 DEF t
  <2>4. ResolveBadDebt(shares, m) = r
    BY <1>11, <1>6 DEF ResolveBadDebt, ChargeSuppliers, sloss, c, remaining
  <2> HIDE DEF index
  <2>5. c.totalReserves = 0
    BY <1>1, <1>6, <1>8, <1>11
  <2>6. CASE index = 0
    <3>1. /\ p \in Market /\ p.totalReserves = 0
          /\ p.lastAccrual = m.lastAccrual /\ p.borrowIndex = m.borrowIndex
          /\ p.supplyEpoch = m.supplyEpoch + 1 /\ p.totalSupplyScaled = 0
          /\ p.supplyIndex = WAD
          /\ p.totalBorrowScaled = m.totalBorrowScaled - shares
      <4>1. p = [c EXCEPT !.totalSupplyScaled = 0, !.supplyIndex = WAD,
                          !.supplyEpoch = c.supplyEpoch + 1]
        BY <2>6 DEF Repriced
      <4> HIDE DEF p
      <4>2. c.supplyEpoch + 1 \in Nat
        BY <1>1, <1>8
      <4> QED BY <1>1, <1>8, <2>5, <4>1, <4>2 DEF Market
    <3>2. StoredSupply(p) = 0
      BY <1>1, <3>1 DEF StoredSupply, MulDiv
    <3>3. StoredBorrow(p) = StoredBorrow(c)
      BY <1>8, <3>1 DEF StoredBorrow
    <3> HIDE DEF p
    <3>4. /\ r \in Market /\ r.totalReserves = remaining
          /\ r.lastAccrual = m.lastAccrual /\ r.borrowIndex = m.borrowIndex
          /\ r.supplyEpoch = m.supplyEpoch + 1 /\ r.totalSupplyScaled = 0
          /\ r.supplyIndex = p.supplyIndex
          /\ r.totalBorrowScaled = m.totalBorrowScaled - shares
      BY <2>1, <3>1, <3>2 DEF Market
    <3>5. StoredSupply(r) = StoredSupply(p) /\ StoredBorrow(r) = StoredBorrow(p)
      BY <3>1, <3>4 DEF StoredSupply, StoredBorrow
    <3> HIDE DEF r
    <3>6. Balance(r) = Balance(m)
      BY <1>1, <1>2, <1>5, <1>6, <1>9, <1>11, <3>2, <3>3, <3>4, <3>5 DEF Balance, remaining
    <3>7. ResolveFits(shares, m)
      BY <1>1, <1>2, <2>1, <2>4, <3>4 DEF ResolveFits, loss
    <3> QED BY <2>4, <3>4, <3>6, <3>7
  <2>7. CASE index # 0
    <3>1. /\ p \in Market /\ p.totalReserves = 0
          /\ p.lastAccrual = m.lastAccrual /\ p.borrowIndex = m.borrowIndex
          /\ p.supplyEpoch = m.supplyEpoch /\ p.totalSupplyScaled = m.totalSupplyScaled
          /\ p.supplyIndex = index
          /\ p.totalBorrowScaled = m.totalBorrowScaled - shares
      BY <1>1, <1>8, <2>3, <2>5, <2>7 DEF Repriced, Market
    <3>2. StoredSupply(p) \in 0..remaining
      <4>1. StoredSupply(p) = MulDiv(index, m.totalSupplyScaled, WAD)
        BY <1>1, <2>3, <3>1, MulDivCommutes DEF StoredSupply
      <4>2. index * m.totalSupplyScaled < remaining * WAD + WAD
        BY <1>1, <2>1, <2>3, ProductNat
      <4>3. (index * m.totalSupplyScaled) \div WAD <= remaining
        BY <1>1, <2>1, <2>3, <4>2, ProductNat, QuotientLeast
      <4>4. StoredSupply(p) \in Nat
        BY <3>1, StoredNat
      <4> QED BY <2>1, <4>1, <4>3, <4>4 DEF MulDiv
    <3>3. StoredBorrow(p) = StoredBorrow(c)
      BY <1>8, <3>1 DEF StoredBorrow
    <3> HIDE DEF p
    <3>4. remaining - StoredSupply(p) \in Nat /\ 0 + remaining - StoredSupply(p) \in Nat
      BY <2>1, <3>2
    <3>5. /\ r \in Market /\ r.totalReserves = remaining - StoredSupply(p)
          /\ r.lastAccrual = m.lastAccrual /\ r.borrowIndex = m.borrowIndex
          /\ r.supplyEpoch = m.supplyEpoch /\ r.totalSupplyScaled = m.totalSupplyScaled
          /\ r.supplyIndex = p.supplyIndex
          /\ r.totalBorrowScaled = m.totalBorrowScaled - shares
      BY <2>1, <3>1, <3>2, <3>4 DEF Market
    <3>6. StoredSupply(r) = StoredSupply(p) /\ StoredBorrow(r) = StoredBorrow(p)
      BY <3>1, <3>5 DEF StoredSupply, StoredBorrow
    <3> HIDE DEF r
    <3>7. Balance(r) = Balance(m)
      BY <1>1, <1>2, <1>5, <1>6, <1>9, <1>11, <2>1, <3>2, <3>3, <3>5, <3>6 DEF Balance, remaining
    <3>8. ResolveFits(shares, m)
      BY <1>1, <1>2, <2>1, <2>4, <3>4, <3>5 DEF ResolveFits, loss
    <3> QED BY <2>4, <3>5, <3>7, <3>8
  <2> QED BY <2>6, <2>7
<1> QED BY <1>6, <1>10, <1>11

-------------------------------------------------------------------------------
(* What an operation leaves of the market: its checked arithmetic never    *)
(* fails, and the dust it books keeps the balance.                         *)

Supplied(m, amount, scaled) ==
    LET grown == [m EXCEPT !.totalSupplyScaled = @ + scaled]
    IN  [grown EXCEPT !.totalReserves = @ + amount - (StoredSupply(grown) - StoredSupply(m))]

(* What a supply of amount, credited as scaled shares, does to the books. *)
SupplySafe(m, amount, scaled) ==
    LET grown == [m EXCEPT !.totalSupplyScaled = @ + scaled]
        s == Supplied(m, amount, scaled)
    IN  /\ scaled \in Nat
        /\ StoredSupply(grown) - StoredSupply(m) \in 0..amount
        /\ s \in Market
        /\ s.lastAccrual = m.lastAccrual /\ s.supplyEpoch = m.supplyEpoch
        /\ s.totalSupplyScaled = m.totalSupplyScaled + scaled
        /\ s.totalBorrowScaled = m.totalBorrowScaled
        /\ Balance(s) = Balance(m) - amount

LEMMA SuppliedSound ==
    ASSUME NEW m \in Market, NEW amount \in Nat, NEW scaled,
           scaled = MulDiv(amount, WAD, m.supplyIndex)
    PROVE  SupplySafe(m, amount, scaled)
<1> DEFINE grown == [m EXCEPT !.totalSupplyScaled = @ + scaled]
           credited == StoredSupply(grown) - StoredSupply(m)
           s == Supplied(m, amount, scaled)
           t == m.totalSupplyScaled
           i == m.supplyIndex
<1>1. /\ t \in Nat /\ i \in Nat \ {0} /\ i \in Nat /\ WAD \in Nat \ {0} /\ WAD \in Nat
      /\ m.totalReserves \in Nat
  BY WadPositive DEF Market
<1>2. scaled = MulDiv(amount, WAD, i)
  OBVIOUS
<1> HIDE DEF i
<1>3. scaled \in Nat /\ scaled * i <= amount * WAD
  BY <1>1, <1>2, MulDivNat, MulDivBound
<1>4. scaled * i >= 0 * WAD
  BY <1>1, <1>3, ProductNat
<1> HIDE DEF t
<1>5. /\ MulDiv(t + scaled, i, WAD) <= MulDiv(t, i, WAD) + amount
      /\ MulDiv(t + scaled, i, WAD) >= MulDiv(t, i, WAD) + 0
  BY <1>1, <1>3, <1>4, SharesAdded
<1>6. /\ grown \in Market
      /\ grown.lastAccrual = m.lastAccrual /\ grown.supplyEpoch = m.supplyEpoch
      /\ grown.totalSupplyScaled = t + scaled
      /\ grown.totalBorrowScaled = m.totalBorrowScaled
      /\ grown.supplyIndex = m.supplyIndex /\ grown.borrowIndex = m.borrowIndex
      /\ grown.totalReserves = m.totalReserves
  BY <1>1, <1>3 DEF Market, t
<1> HIDE DEF grown
<1>7. /\ StoredSupply(grown) = MulDiv(t + scaled, i, WAD)
      /\ StoredSupply(m) = MulDiv(t, i, WAD)
      /\ StoredBorrow(grown) = StoredBorrow(m)
      /\ StoredSupply(grown) \in Nat /\ StoredSupply(m) \in Nat /\ StoredBorrow(m) \in Nat
  BY <1>6, StoredNat DEF StoredSupply, StoredBorrow, t, i
<1>8. credited \in 0..amount
  BY <1>5, <1>7
<1>9. /\ s = [grown EXCEPT !.totalReserves = @ + amount - credited]
      /\ grown.totalReserves + amount - credited \in Nat
  BY <1>1, <1>6, <1>8 DEF Supplied, grown
<1>10. /\ s \in Market
       /\ s.lastAccrual = m.lastAccrual /\ s.supplyEpoch = m.supplyEpoch
       /\ s.totalSupplyScaled = t + scaled
       /\ s.totalBorrowScaled = m.totalBorrowScaled
       /\ s.supplyIndex = grown.supplyIndex /\ s.borrowIndex = grown.borrowIndex
       /\ s.totalReserves = m.totalReserves + amount - credited
  BY <1>6, <1>9 DEF Market
<1>11. StoredSupply(s) = StoredSupply(grown) /\ StoredBorrow(s) = StoredBorrow(m)
  BY <1>6, <1>7, <1>10 DEF StoredSupply, StoredBorrow
<1>12. Balance(s) = Balance(m) - amount
  BY <1>1, <1>7, <1>10, <1>11 DEF Balance
<1> QED BY <1>3, <1>8, <1>10, <1>12 DEF t, grown, SupplySafe

Withdrawn(m, amount, scaled) ==
    LET shrunk == [m EXCEPT !.totalSupplyScaled = @ - scaled]
    IN  [shrunk EXCEPT !.totalReserves = @ + (StoredSupply(m) - StoredSupply(shrunk)) - amount]

LEMMA WithdrawnSound ==
    ASSUME NEW m \in Market, NEW amount \in Nat, NEW scaled \in 0..m.totalSupplyScaled,
           scaled * m.supplyIndex >= amount * WAD
    PROVE  LET shrunk == [m EXCEPT !.totalSupplyScaled = @ - scaled]
               s == Withdrawn(m, amount, scaled)
           IN  /\ StoredSupply(m) - StoredSupply(shrunk) >= amount
               /\ s \in Market
               /\ s.lastAccrual = m.lastAccrual /\ s.supplyEpoch = m.supplyEpoch
               /\ s.totalSupplyScaled = m.totalSupplyScaled - scaled
               /\ s.totalBorrowScaled = m.totalBorrowScaled
               /\ Balance(s) = Balance(m) + amount
<1> DEFINE shrunk == [m EXCEPT !.totalSupplyScaled = @ - scaled]
           debited == StoredSupply(m) - StoredSupply(shrunk)
           s == Withdrawn(m, amount, scaled)
           t == m.totalSupplyScaled - scaled
           i == m.supplyIndex
<1>1. /\ m.totalSupplyScaled \in Nat /\ scaled \in Nat /\ t \in Nat
      /\ m.totalSupplyScaled = t + scaled
      /\ i \in Nat /\ WAD \in Nat \ {0} /\ m.totalReserves \in Nat
  BY WadPositive DEF Market
<1> HIDE DEF t
<1>2. MulDiv(t + scaled, i, WAD) >= MulDiv(t, i, WAD) + amount
  BY <1>1, SharesAdded
<1>3. /\ shrunk \in Market
      /\ shrunk.lastAccrual = m.lastAccrual /\ shrunk.supplyEpoch = m.supplyEpoch
      /\ shrunk.totalSupplyScaled = t
      /\ shrunk.totalBorrowScaled = m.totalBorrowScaled
      /\ shrunk.supplyIndex = m.supplyIndex /\ shrunk.borrowIndex = m.borrowIndex
      /\ shrunk.totalReserves = m.totalReserves
  BY <1>1 DEF Market, t
<1> HIDE DEF shrunk
<1>4. /\ StoredSupply(m) = MulDiv(t + scaled, i, WAD)
      /\ StoredSupply(shrunk) = MulDiv(t, i, WAD)
      /\ StoredBorrow(shrunk) = StoredBorrow(m)
      /\ StoredSupply(shrunk) \in Nat /\ StoredSupply(m) \in Nat /\ StoredBorrow(m) \in Nat
  BY <1>1, <1>3, StoredNat DEF StoredSupply, StoredBorrow
<1>5. debited >= amount /\ debited \in Nat
  BY <1>2, <1>4
<1>6. /\ s = [shrunk EXCEPT !.totalReserves = @ + debited - amount]
      /\ shrunk.totalReserves + debited - amount \in Nat
  BY <1>1, <1>3, <1>5 DEF Withdrawn, shrunk
<1>7. /\ s \in Market
      /\ s.lastAccrual = m.lastAccrual /\ s.supplyEpoch = m.supplyEpoch
      /\ s.totalSupplyScaled = t
      /\ s.totalBorrowScaled = m.totalBorrowScaled
      /\ s.supplyIndex = shrunk.supplyIndex /\ s.borrowIndex = shrunk.borrowIndex
      /\ s.totalReserves = m.totalReserves + debited - amount
  BY <1>3, <1>6 DEF Market
<1>8. StoredSupply(s) = StoredSupply(shrunk) /\ StoredBorrow(s) = StoredBorrow(m)
  BY <1>3, <1>4, <1>7 DEF StoredSupply, StoredBorrow
<1>9. Balance(s) = Balance(m) + amount
  BY <1>1, <1>4, <1>7, <1>8 DEF Balance
<1> QED BY <1>5, <1>7, <1>9 DEF t, shrunk

Borrowed(m, amount, scaled) ==
    LET grown == [m EXCEPT !.totalBorrowScaled = @ + scaled]
    IN  [grown EXCEPT !.totalReserves = @ + (StoredBorrow(grown) - StoredBorrow(m)) - amount]

(* What a loan of amount, charged as scaled shares, does to the books. *)
BorrowSafe(m, amount, scaled) ==
    LET grown == [m EXCEPT !.totalBorrowScaled = @ + scaled]
        s == Borrowed(m, amount, scaled)
    IN  /\ scaled \in Nat
        /\ StoredBorrow(grown) - StoredBorrow(m) >= amount
        /\ s \in Market
        /\ s.lastAccrual = m.lastAccrual /\ s.supplyEpoch = m.supplyEpoch
        /\ s.totalSupplyScaled = m.totalSupplyScaled
        /\ s.totalBorrowScaled = m.totalBorrowScaled + scaled
        /\ Balance(s) = Balance(m) + amount

LEMMA BorrowedSound ==
    ASSUME NEW m \in Market, NEW amount \in Nat, NEW scaled,
           scaled = MulDivUp(amount, WAD, m.borrowIndex)
    PROVE  BorrowSafe(m, amount, scaled)
<1> DEFINE grown == [m EXCEPT !.totalBorrowScaled = @ + scaled]
           owed == StoredBorrow(grown) - StoredBorrow(m)
           s == Borrowed(m, amount, scaled)
           t == m.totalBorrowScaled
           i == m.borrowIndex
<1>1. /\ t \in Nat /\ i \in Nat \ {0} /\ i \in Nat /\ WAD \in Nat \ {0} /\ WAD \in Nat
      /\ m.totalReserves \in Nat
  BY WadPositive DEF Market
<1>2. scaled = MulDivUp(amount, WAD, i)
  OBVIOUS
<1> HIDE DEF i
<1>3. scaled \in Nat /\ scaled * i >= amount * WAD
  BY <1>1, <1>2, MulDivNat, MulDivBound
<1> HIDE DEF t
<1>4. MulDivUp(t + scaled, i, WAD) >= MulDivUp(t, i, WAD) + amount
  BY <1>1, <1>3, SharesAdded
<1>5. /\ grown \in Market
      /\ grown.lastAccrual = m.lastAccrual /\ grown.supplyEpoch = m.supplyEpoch
      /\ grown.totalSupplyScaled = m.totalSupplyScaled
      /\ grown.totalBorrowScaled = t + scaled
      /\ grown.supplyIndex = m.supplyIndex /\ grown.borrowIndex = m.borrowIndex
      /\ grown.totalReserves = m.totalReserves
  BY <1>1, <1>3 DEF Market, t
<1> HIDE DEF grown
<1>6. /\ StoredBorrow(grown) = MulDivUp(t + scaled, i, WAD)
      /\ StoredBorrow(m) = MulDivUp(t, i, WAD)
      /\ StoredSupply(grown) = StoredSupply(m)
      /\ StoredBorrow(grown) \in Nat /\ StoredSupply(m) \in Nat /\ StoredBorrow(m) \in Nat
  BY <1>5, StoredNat DEF StoredSupply, StoredBorrow, t, i
<1>7. owed >= amount /\ owed \in Nat
  BY <1>4, <1>6
<1>8. /\ s = [grown EXCEPT !.totalReserves = @ + owed - amount]
      /\ grown.totalReserves + owed - amount \in Nat
  BY <1>1, <1>5, <1>7 DEF Borrowed, grown
<1>9. /\ s \in Market
      /\ s.lastAccrual = m.lastAccrual /\ s.supplyEpoch = m.supplyEpoch
      /\ s.totalSupplyScaled = m.totalSupplyScaled
      /\ s.totalBorrowScaled = t + scaled
      /\ s.supplyIndex = grown.supplyIndex /\ s.borrowIndex = grown.borrowIndex
      /\ s.totalReserves = m.totalReserves + owed - amount
  BY <1>5, <1>8 DEF Market
<1>10. StoredSupply(s) = StoredSupply(m) /\ StoredBorrow(s) = StoredBorrow(grown)
  BY <1>5, <1>6, <1>9 DEF StoredSupply, StoredBorrow
<1>11. Balance(s) = Balance(m) + amount
  BY <1>1, <1>6, <1>9, <1>10 DEF Balance
<1> QED BY <1>3, <1>7, <1>9, <1>11 DEF t, grown, BorrowSafe

-------------------------------------------------------------------------------
(* Liquidation.                                                            *)

LEMMA PricingNat ==
    ASSUME NEW x \in Nat, NEW price \in Nat \ {0}
    PROVE  HbarValue(x, price) \in Nat /\ UsdxValue(x) \in Nat /\ HbarFromUsd(x, price) \in Nat
  BY MulDivNat, UnitAssumption DEF HbarValue, UsdxValue, HbarFromUsd

LEMMA DebtNat ==
    ASSUME NEW m \in Market, NEW shares \in Nat
    PROVE  DebtOf(shares, m) \in Nat
  BY MulDivNat, WadPositive DEF DebtOf, Market

LEMMA RepaymentNat ==
    ASSUME NEW m \in Market, NEW shares \in Nat, NEW amount \in Nat
    PROVE  RepaymentAmount(shares, amount, m) \in Nat
<1>1. DebtOf(shares, m) \in Nat /\ m.borrowIndex \in Nat \ {0} /\ m.borrowIndex \in Nat
      /\ WAD \in Nat \ {0} /\ WAD \in Nat
  BY DebtNat, WadPositive DEF Market
<1>2. MulDiv(amount, WAD, m.borrowIndex) \in Nat
  BY <1>1, MulDivNat
<1>3. MulDivUp(MulDiv(amount, WAD, m.borrowIndex), m.borrowIndex, WAD) \in Nat
  BY <1>1, <1>2, MulDivNat
<1> QED BY <1>1, <1>3 DEF RepaymentAmount

LEMMA QuoteSound ==
    ASSUME NEW m \in Market, NEW shares \in Nat, NEW collateral \in Nat, NEW amount \in Nat,
           NEW price \in Nat \ {0}
    PROVE  /\ PreviewLiquidation(shares, collateral, amount, price, m).pay \in Nat
           /\ PreviewLiquidation(shares, collateral, amount, price, m).seize \in 0..collateral
<1> DEFINE limit == Least(amount, DebtOf(shares, m))
           pay == RepaymentAmount(shares, limit, m)
           usd == MulDiv(UsdxValue(pay), WAD + LIQUIDATION_BONUS, WAD)
           all == CollateralPay(collateral, price)
<1>1. limit \in Nat
  BY DebtNat DEF Least
<1> HIDE DEF limit
<1>2. pay \in Nat
  BY <1>1, RepaymentNat
<1> HIDE DEF pay
<1>3. WAD + LIQUIDATION_BONUS \in Nat \ {0} /\ WAD \in Nat \ {0} /\ USDX_UNIT \in Nat
  BY WadPositive, UnitAssumption, RateAssumption
<1>4. usd \in Nat
  BY <1>2, <1>3, PricingNat, MulDivNat
<1> HIDE DEF usd
<1>5. HbarFromUsd(usd, price) \in Nat
  BY <1>4, PricingNat
<1>6. MulDivUp(HbarValue(collateral, price), USDX_UNIT, WAD + LIQUIDATION_BONUS) \in Nat
  BY <1>3, PricingNat, MulDivNat
<1>7. all \in Nat
  BY <1>6 DEF CollateralPay, Greatest
<1> HIDE DEF all
<1>8. PreviewLiquidation(shares, collateral, amount, price, m) =
        IF collateral = 0 \/ amount = 0 THEN [pay |-> 0, seize |-> 0]
        ELSE IF limit >= all THEN [pay |-> all, seize |-> collateral]
             ELSE [pay |-> pay, seize |-> Least(HbarFromUsd(usd, price), collateral)]
  BY DEF PreviewLiquidation, limit, pay, usd, all
<1>9. Least(HbarFromUsd(usd, price), collateral) \in 0..collateral
  BY <1>5 DEF Least
<1> QED BY <1>2, <1>7, <1>8, <1>9

(* A loss of the whole remaining debt is covered by the reserves and the   *)
(* suppliers of a market that owes at least what it is owed.               *)
LEMMA AlwaysCovered ==
    ASSUME NEW m \in Market, NEW shares \in 0..m.totalBorrowScaled, Balance(m) <= 0
    PROVE  Covered(shares, m)
<1>1. /\ m.totalReserves \in Nat /\ StoredBorrow(m) \in Nat /\ StoredSupply(m) \in Nat
      /\ Cancelled(m, shares) \in 0..StoredBorrow(m)
  BY StoredNat, WithoutDebtSound DEF Market
<1>2. StoredBorrow(m) <= StoredSupply(m) + m.totalReserves
  BY <1>1 DEF Balance
<1>3. Cancelled(m, shares) - Least(Cancelled(m, shares), m.totalReserves) <= StoredSupply(m)
  BY <1>1, <1>2 DEF Least
<1> QED BY <1>3 DEF Covered, SupplierLoss

(* Liquidation of a position of such a market: no checked subtraction      *)
(* fails, no loss is left uncovered, and no debt stays without collateral. *)
(* What a liquidation pays, seizes and leaves. *)
LiquidationSafe(shares, collateral, amount, price, m) ==
    LET d == Liquidation(shares, collateral, amount, price, m)
    IN  /\ d.pay \in Nat /\ d.seize \in 0..collateral /\ d.shares \in 0..shares
        /\ d.fits /\ d.covered
        /\ d.market \in Market
        /\ d.market.lastAccrual = m.lastAccrual
        /\ d.market.totalBorrowScaled = m.totalBorrowScaled - (shares - d.shares)
        /\ \/ /\ d.market.supplyEpoch = m.supplyEpoch
              /\ d.market.totalSupplyScaled = m.totalSupplyScaled
           \/ d.market.supplyEpoch = m.supplyEpoch + 1 /\ d.market.totalSupplyScaled = 0
        /\ Balance(d.market) = Balance(m) - d.pay
        /\ d.shares # 0 => d.seize # collateral

LEMMA LiquidationSound ==
    ASSUME NEW m \in Market, NEW shares \in 0..m.totalBorrowScaled, NEW collateral \in Nat,
           NEW amount \in Nat, NEW price \in Nat \ {0}, Balance(m) <= 0
    PROVE  LiquidationSafe(shares, collateral, amount, price, m)
<1> DEFINE deal == PreviewLiquidation(shares, collateral, amount, price, m)
           paid == deal.pay > 0
           burned == IF paid THEN BurnedShares(shares, deal.pay, m) ELSE 0
           repaid == IF paid THEN BurnDebt(shares, deal.pay, m) ELSE m
           residue == shares - burned
           exhausted == Exhausted(collateral, deal.seize) /\ residue # 0
           d == Liquidation(shares, collateral, amount, price, m)
<1>1. /\ m.totalBorrowScaled \in Nat /\ shares \in Nat /\ m.totalReserves \in Nat
      /\ StoredBorrow(m) \in Nat /\ StoredSupply(m) \in Nat
  BY StoredNat DEF Market
<1>2. deal.pay \in Nat /\ deal.seize \in 0..collateral
  BY <1>1, QuoteSound
<1>3. d = [pay |-> deal.pay, seize |-> deal.seize,
           shares |-> IF exhausted THEN 0 ELSE residue,
           market |-> IF exhausted /\ Covered(residue, repaid)
                      THEN ResolveBadDebt(residue, repaid) ELSE repaid,
           covered |-> exhausted => Covered(residue, repaid),
           fits |-> /\ paid => BurnFits(shares, deal.pay, m)
                    /\ deal.seize <= collateral
                    /\ exhausted => ResolveFits(residue, repaid)]
  BY DEF Liquidation
<1> HIDE DEF deal, d
<1>4. paid => BurnFits(shares, deal.pay, m)
  BY <1>1, <1>2, BurnAlwaysFits
<1>5. /\ burned \in 0..shares
      /\ repaid \in Market
      /\ repaid.lastAccrual = m.lastAccrual /\ repaid.supplyEpoch = m.supplyEpoch
      /\ repaid.totalSupplyScaled = m.totalSupplyScaled
      /\ repaid.totalBorrowScaled = m.totalBorrowScaled - burned
      /\ Balance(repaid) = Balance(m) - deal.pay
  <2>1. CASE paid
    <3>1. BurnFits(shares, deal.pay, m)
      BY <1>4, <2>1
    <3> QED BY <1>1, <1>2, <2>1, <3>1, BurnDebtSound
  <2>2. CASE ~paid
    <3>1. deal.pay = 0 /\ burned = 0 /\ repaid = m
      BY <1>2, <2>2
    <3>2. Balance(m) = Balance(m) - 0 /\ m.totalBorrowScaled = m.totalBorrowScaled - 0
      BY <1>1 DEF Balance
    <3> HIDE DEF burned, repaid
    <3> QED BY <1>1, <3>1, <3>2
  <2> QED BY <2>1, <2>2
<1> HIDE DEF burned, repaid
<1>6. residue \in 0..repaid.totalBorrowScaled /\ residue \in 0..shares
  BY <1>1, <1>5
<1>7. Balance(repaid) <= 0
  BY <1>1, <1>2, <1>5 DEF Balance
<1> HIDE DEF residue
<1>8. Covered(residue, repaid)
  BY <1>5, <1>6, <1>7, AlwaysCovered
<1> DEFINE r == ResolveBadDebt(residue, repaid)
<1>9. /\ ResolveFits(residue, repaid)
      /\ r \in Market
      /\ r.lastAccrual = m.lastAccrual
      /\ r.totalBorrowScaled = repaid.totalBorrowScaled - residue
      /\ \/ r.supplyEpoch = m.supplyEpoch /\ r.totalSupplyScaled = m.totalSupplyScaled
         \/ r.supplyEpoch = m.supplyEpoch + 1 /\ r.totalSupplyScaled = 0
      /\ Balance(r) = Balance(repaid)
  BY <1>5, <1>6, <1>8, ResolveSound
<1> HIDE DEF r
<1>10. /\ d.pay = deal.pay /\ d.seize = deal.seize
       /\ d.shares = IF exhausted THEN 0 ELSE residue
       /\ d.market = IF exhausted THEN r ELSE repaid
       /\ d.covered /\ d.fits
  <2>1. /\ d.pay = deal.pay /\ d.seize = deal.seize
        /\ d.shares = IF exhausted THEN 0 ELSE residue
    BY <1>3
  <2>2. d.market = IF exhausted THEN r ELSE repaid
    BY <1>3, <1>8, Zenon DEF r
  <2>3. d.covered
    BY <1>3, <1>8, Zenon
  <2>4. deal.seize <= collateral
    BY <1>2
  <2>5. d.fits
    BY <1>3, <1>4, <1>9, <2>4, Zenon
  <2> QED BY <2>1, <2>2, <2>3, <2>5
<1>11. CASE exhausted
  <2>1. d.shares = 0 /\ d.market = r
    BY <1>10, <1>11
  <2>2. repaid.totalBorrowScaled - residue = m.totalBorrowScaled - (shares - 0)
    BY <1>1, <1>5, <1>6 DEF residue
  <2> QED BY <1>1, <1>2, <1>5, <1>9, <1>10, <2>1, <2>2 DEF d, LiquidationSafe
<1>12. CASE ~exhausted
  <2>1. d.shares = residue /\ d.market = repaid
    BY <1>10, <1>12
  <2>2. repaid.totalBorrowScaled = m.totalBorrowScaled - (shares - residue)
    BY <1>1, <1>5, <1>6 DEF residue
  <2>3. residue # 0 => deal.seize # collateral
    BY <1>2, <1>12 DEF Exhausted
  <2> HIDE DEF exhausted
  <2> QED BY <1>1, <1>2, <1>5, <1>6, <1>10, <2>1, <2>2, <2>3 DEF d, LiquidationSafe
<1> QED BY <1>11, <1>12

-------------------------------------------------------------------------------
(* The inductive invariant.                                                *)

(* No account has seen an epoch that has not begun.                        *)
EpochsBegun == \A a \in Accounts : supplierEpoch[a] <= market.supplyEpoch

PoolInv ==
    /\ TypeOK
    /\ Clock
    /\ EpochsBegun
    /\ Conservation
    /\ TotalsMatchShares
    /\ NoUnsecuredDebt
    /\ NativeBacked
    /\ FaucetBacked
    /\ NeverStuck

LEMMA BalanceInt ==
    ASSUME NEW m \in Market
    PROVE  Balance(m) \in Int
  BY StoredNat DEF Balance, Market

LEMMA ConservationIsBalance ==
    ASSUME TypeOK
    PROVE  Conservation <=> cash + Balance(market) = faucet.budget + gifted
<1>1. /\ StoredBorrow(market) \in Nat /\ StoredSupply(market) \in Nat
      /\ market.totalReserves \in Nat /\ cash \in Nat /\ faucet.budget \in Nat /\ gifted \in Nat
  BY StoredNat DEF TypeOK, Market
<1> QED BY <1>1 DEF Conservation, Assets, Liabilities, Balance

(* What _accrue hands to the operation that called it: indexes at the      *)
(* present, and every token of the pool owned by somebody.                 *)
Ready(m) ==
    /\ m \in Market
    /\ m.lastAccrual = now
    /\ m.supplyEpoch = market.supplyEpoch
    /\ m.totalSupplyScaled = market.totalSupplyScaled
    /\ m.totalBorrowScaled = market.totalBorrowScaled
    /\ cash + Balance(m) = faucet.budget

LEMMA AccruedReady ==
    ASSUME PoolInv
    PROVE  Ready(Accrued) /\ AccrualFits(market)
<1>1. /\ Clock /\ cash \in Nat /\ faucet.budget \in Nat /\ gifted \in Nat /\ market \in Market
      /\ cash + Balance(market) = faucet.budget + gifted
  BY ConservationIsBalance DEF PoolInv, TypeOK
<1>2. Balance(market) \in Int
  BY <1>1, StoredNat DEF Balance, Market
<1>3. Greatest(0, cash + Balance(market) - faucet.budget) = gifted
  BY <1>1, <1>2 DEF Greatest
<1>4. Balance(Accrued) = Balance(market) - gifted
  BY <1>1, <1>3, AccruedSound
<1>5. cash + Balance(Accrued) = faucet.budget
  BY <1>1, <1>2, <1>4
<1> QED BY <1>1, <1>5, AccruedSound DEF Ready

(* The liquidity on offer stays within the pool's cash, and leaves the     *)
(* faucet's budget alone.                                                  *)
LEMMA LiquidityBound ==
    ASSUME PoolInv, NEW m, Ready(m), NEW amount \in Nat, amount > 0,
           AvailableLiquidity(m) >= amount
    PROVE  cash - amount \in Nat /\ cash - amount >= faucet.budget
<1>1. /\ cash \in Nat /\ faucet.budget \in Nat /\ m.totalReserves \in Nat
      /\ StoredBorrow(m) \in Nat /\ StoredSupply(m) \in Nat
  BY StoredNat DEF PoolInv, TypeOK, Ready, Market
<1>2. Surplus(m, cash) \in Nat
  BY <1>1 DEF Surplus, Assets, Liabilities, Greatest
<1> QED BY <1>1, <1>2 DEF AvailableLiquidity, Greatest

LEMMA OwedAtMostOwned ==
    ASSUME PoolInv, NEW m, Ready(m)
    PROVE  Balance(m) <= 0 /\ Balance(m) \in Int
<1>1. /\ cash \in Nat /\ faucet.budget \in Nat /\ cash >= faucet.budget
      /\ cash + Balance(m) = faucet.budget
      /\ m.totalReserves \in Nat /\ StoredBorrow(m) \in Nat /\ StoredSupply(m) \in Nat
  BY StoredNat DEF PoolInv, TypeOK, Ready, FaucetBacked, Market
<1>2. Balance(m) \in Int
  BY <1>1 DEF Balance
<1> QED BY <1>1, <1>2

(* An account's shares are part of the total.                              *)
LEMMA SharesBounded ==
    ASSUME PoolInv, NEW m, Ready(m), NEW a \in Accounts
    PROVE  /\ borrowScaled[a] \in 0..m.totalBorrowScaled
           /\ ActiveShares(a, m) \in 0..m.totalSupplyScaled
           /\ ActiveShares(a, m) \in 0..supplierShares[a]
           /\ collateralOf[a] \in 0..hbar
<1> DEFINE live == [b \in Accounts |-> ActiveShares(b, market)]
<1>1. /\ borrowScaled \in [Accounts -> Nat] /\ collateralOf \in [Accounts -> Nat]
      /\ supplierShares \in [Accounts -> Nat] /\ stray \in Nat /\ IsFiniteSet(Accounts)
      /\ live \in [Accounts -> Nat]
  BY InputAssumption DEF PoolInv, TypeOK, ActiveShares
<1>2. ActiveShares(a, m) = live[a] /\ ActiveShares(a, m) \in 0..supplierShares[a]
  BY <1>1 DEF ActiveShares, Ready
<1> HIDE DEF live
<1>3. borrowScaled[a] <= Sum(borrowScaled) /\ live[a] <= Sum(live)
      /\ collateralOf[a] <= Sum(collateralOf)
      /\ Sum(collateralOf) \in Nat
  BY <1>1, SumBounds
<1>4. /\ market.totalBorrowScaled = Sum(borrowScaled)
      /\ market.totalSupplyScaled = Sum(live)
      /\ hbar = Sum(collateralOf) + stray
  BY DEF PoolInv, TotalsMatchShares, NativeBacked, live
<1> QED BY <1>1, <1>2, <1>3, <1>4 DEF Ready

(* What a market operation owes the invariant.                             *)
LEMMA CommitStep ==
    ASSUME PoolInv, NEW m, Ready(m), NEW n \in Market, Commit(n),
           n.lastAccrual = m.lastAccrual, n.supplyEpoch >= m.supplyEpoch,
           cash' \in Nat, faucet' = faucet,
           Balance(n) - Balance(m) = cash - cash',
           cash' >= faucet.budget,
           \A a \in Accounts : supplierEpoch'[a] \in {supplierEpoch[a], n.supplyEpoch}
    PROVE  /\ Clock' /\ EpochsBegun' /\ FaucetBacked' /\ NeverStuck' /\ Conservation'
           /\ market' = n /\ gifted' = 0 /\ stray' = stray /\ now' = now /\ stuck' = stuck
<1>1. market' = n /\ gifted' = 0 /\ stray' = stray /\ now' = now /\ stuck' = stuck
  BY DEF Commit
<1>2. Clock'
  BY <1>1 DEF Clock, Ready, PoolInv
<1>3. EpochsBegun'
  <2>1. m.supplyEpoch \in Nat /\ n.supplyEpoch \in Nat /\ m.supplyEpoch = market.supplyEpoch
    BY DEF Ready, Market
  <2>2. \A a \in Accounts : supplierEpoch[a] \in Nat /\ supplierEpoch[a] <= market.supplyEpoch
    BY DEF PoolInv, TypeOK, EpochsBegun
  <2> QED BY <1>1, <2>1, <2>2 DEF EpochsBegun
<1>4. FaucetBacked' /\ NeverStuck'
  BY <1>1 DEF FaucetBacked, NeverStuck, PoolInv
<1>5. Balance(market)' = Balance(n)
  BY <1>1 DEF Balance, StoredBorrow, StoredSupply
<1>6. /\ cash \in Nat /\ cash + Balance(m) = faucet.budget
      /\ Balance(m) \in Int /\ Balance(n) \in Int
  BY BalanceInt DEF PoolInv, TypeOK, Ready
<1>7. cash' + Balance(market)' = faucet.budget' + gifted'
  BY <1>1, <1>5, <1>6
<1>8. Conservation'
  <2>1. /\ StoredBorrow(n) \in Nat /\ StoredSupply(n) \in Nat /\ n.totalReserves \in Nat
        /\ faucet.budget \in Nat
    BY StoredNat DEF Market, PoolInv, TypeOK
  <2>2. cash' + StoredBorrow(n) = StoredSupply(n) + n.totalReserves + faucet.budget
    BY <1>1, <1>5, <1>7, <2>1 DEF Balance
  <2> QED BY <1>1, <2>1, <2>2
          DEF Conservation, Assets, Liabilities, StoredBorrow, StoredSupply
<1> QED BY <1>1, <1>2, <1>3, <1>4, <1>8

-------------------------------------------------------------------------------
(* The actions, one lemma each.                                            *)

LEMMA AccrueStep ==
    ASSUME PoolInv, NEW m, Ready(m), AccrualFits(market), Accrue(m)
    PROVE  PoolInv'
<1>1. /\ Commit(m) /\ UNCHANGED <<positions, prices, faucet, cash, hbar>>
  BY DEF Accrue, Fits
<1>2. m \in Market /\ m.supplyEpoch \in Nat /\ Balance(m) \in Int /\ cash \in Nat
  BY BalanceInt DEF Ready, Market, PoolInv, TypeOK
<1>3. /\ Clock' /\ EpochsBegun' /\ FaucetBacked' /\ NeverStuck' /\ Conservation'
      /\ market' = m /\ gifted' = 0 /\ stray' = stray /\ now' = now /\ stuck' = stuck
  BY <1>1, <1>2, CommitStep DEF positions, PoolInv, FaucetBacked
<1>4. TypeOK'
  BY <1>1, <1>2, <1>3 DEF PoolInv, TypeOK, positions, prices
<1>5. TotalsMatchShares'
  BY <1>1, <1>3 DEF PoolInv, TotalsMatchShares, Ready, ActiveShares, positions
<1>6. NoUnsecuredDebt' /\ NativeBacked'
  BY <1>1, <1>3 DEF PoolInv, NoUnsecuredDebt, NativeBacked, positions
<1> QED BY <1>3, <1>4, <1>5, <1>6 DEF PoolInv

LEMMA SupplyStep ==
    ASSUME PoolInv, NEW m, Ready(m), AccrualFits(market),
           NEW a \in Accounts, NEW amount \in Nat, Supply(a, amount, m)
    PROVE  PoolInv'
<1> DEFINE scaled == MulDiv(amount, WAD, m.supplyIndex)
           n == Supplied(m, amount, scaled)
<1>1. /\ m \in Market /\ cash \in Nat /\ faucet.budget \in Nat
      /\ supplierEpoch \in [Accounts -> Nat] /\ supplierShares \in [Accounts -> Nat]
      /\ m.supplyEpoch \in Nat /\ m.totalSupplyScaled \in Nat
      /\ Balance(m) \in Int /\ FaucetBacked
      /\ m.supplyEpoch = market.supplyEpoch /\ m.totalSupplyScaled = market.totalSupplyScaled
      /\ m.totalBorrowScaled = market.totalBorrowScaled
  BY BalanceInt DEF PoolInv, TypeOK, Ready, Market
<1>2. /\ scaled \in Nat
      /\ StoredSupply([m EXCEPT !.totalSupplyScaled = @ + scaled]) - StoredSupply(m) \in 0..amount
      /\ n \in Market
      /\ n.lastAccrual = m.lastAccrual /\ n.supplyEpoch = m.supplyEpoch
      /\ n.totalSupplyScaled = m.totalSupplyScaled + scaled
      /\ n.totalBorrowScaled = m.totalBorrowScaled
      /\ Balance(n) = Balance(m) - amount
  <2>1. m \in Market
    BY <1>1
  <2>2. scaled = MulDiv(amount, WAD, m.supplyIndex)
    OBVIOUS
  <2> HIDE DEF scaled
  <2>3. SupplySafe(m, amount, scaled)
    BY <2>1, <2>2, SuppliedSound
  <2> QED BY <2>3 DEF SupplySafe
<1>3. /\ Commit(n)
      /\ supplierEpoch' = [supplierEpoch EXCEPT ![a] = m.supplyEpoch]
      /\ supplierShares' = [supplierShares EXCEPT ![a] = CarriedShares(a, m) + scaled]
      /\ cash' = cash + amount
      /\ UNCHANGED <<borrowScaled, collateralOf, prices, faucet, hbar>>
  BY <1>2 DEF Supply, Supplied, Fits
<1> HIDE DEF scaled, n
<1>4. /\ Clock' /\ EpochsBegun' /\ FaucetBacked' /\ NeverStuck' /\ Conservation'
      /\ market' = n /\ gifted' = 0 /\ stray' = stray /\ now' = now /\ stuck' = stuck
  <2>1. /\ cash' \in Nat /\ faucet' = faucet /\ Balance(n) - Balance(m) = cash - cash'
        /\ cash' >= faucet.budget
    BY <1>1, <1>2, <1>3 DEF FaucetBacked
  <2>2. \A b \in Accounts : supplierEpoch'[b] \in {supplierEpoch[b], n.supplyEpoch}
    BY <1>1, <1>2, <1>3
  <2>3. n.supplyEpoch >= m.supplyEpoch
    BY <1>1, <1>2
  <2> QED BY <1>2, <1>3, <2>1, <2>2, <2>3, CommitStep
<1>5. CarriedShares(a, m) = ActiveShares(a, market) /\ CarriedShares(a, m) \in Nat
  BY <1>1 DEF CarriedShares, ActiveShares
<1>6. TypeOK'
  <2>1. supplierShares' \in [Accounts -> Nat] /\ supplierEpoch' \in [Accounts -> Nat]
    BY <1>1, <1>2, <1>3, <1>5
  <2>2. cash' \in Nat
    BY <1>1, <1>3
  <2> QED BY <1>2, <1>3, <1>4, <2>1, <2>2 DEF PoolInv, TypeOK, prices
<1>7. TotalsMatchShares'
  <2> DEFINE f == [b \in Accounts |-> ActiveShares(b, market)]
             g == [b \in Accounts |-> ActiveShares(b, market)']
  <2>1. f \in [Accounts -> Nat] /\ IsFiniteSet(Accounts)
    BY <1>1, InputAssumption DEF ActiveShares
  <2>2. ActiveShares(a, market)' = CarriedShares(a, m) + scaled
    BY <1>1, <1>2, <1>3, <1>4 DEF ActiveShares
  <2>3. \A b \in Accounts \ {a} : ActiveShares(b, market)' = ActiveShares(b, market)
    BY <1>1, <1>2, <1>3, <1>4 DEF ActiveShares
  <2>4. /\ g \in [Accounts -> Nat] /\ g[a] = f[a] + scaled /\ f[a] + scaled \in Nat
        /\ \A b \in Accounts \ {a} : g[b] = f[b]
    BY <1>2, <1>5, <2>1, <2>2, <2>3
  <2> HIDE DEF f, g
  <2>5. Sum(g) = Sum(f) - f[a] + (f[a] + scaled)
    BY <2>1, <2>4, SumUpdate
  <2>6. Sum(f) \in Nat /\ f[a] \in Nat
    BY <2>1, SumBounds
  <2>7. market.totalSupplyScaled = Sum(f)
    BY DEF PoolInv, TotalsMatchShares, f
  <2>8. market'.totalSupplyScaled = Sum(g)
    BY <1>1, <1>2, <1>4, <2>5, <2>6, <2>7
  <2> QED BY <1>1, <1>2, <1>3, <1>4, <2>8 DEF PoolInv, TotalsMatchShares, g
<1>8. NoUnsecuredDebt' /\ NativeBacked'
  BY <1>3, <1>4 DEF PoolInv, NoUnsecuredDebt, NativeBacked
<1> QED BY <1>4, <1>6, <1>7, <1>8 DEF PoolInv

(* The shares of a withdrawal are the account's own, and worth the amount. *)
LEMMA WithdrawalShares ==
    ASSUME PoolInv, NEW m, Ready(m), NEW a \in Accounts, NEW amount \in Nat,
           amount > 0, Claim(a, m) >= amount,
           NEW scaled,
           scaled = IF amount = Claim(a, m) THEN ActiveShares(a, m)
                    ELSE MulDivUp(amount, WAD, m.supplyIndex)
    PROVE  /\ supplierEpoch[a] = m.supplyEpoch
           /\ scaled \in 0..ActiveShares(a, m)
           /\ scaled * m.supplyIndex >= amount * WAD
<1> DEFINE sh == ActiveShares(a, m)
           i == m.supplyIndex
<1>1. /\ sh \in Nat /\ i \in Nat \ {0} /\ i \in Nat /\ WAD \in Nat \ {0} /\ WAD \in Nat
      /\ m.supplyEpoch \in Nat /\ supplierEpoch[a] \in Nat
  <2>1. sh \in Nat
    BY DEF ActiveShares, PoolInv, TypeOK
  <2>2. i \in Nat \ {0} /\ m.supplyEpoch \in Nat /\ supplierEpoch[a] \in Nat
    BY DEF Ready, Market, PoolInv, TypeOK
  <2> QED BY <2>1, <2>2, WadPositive
<1>2. Claim(a, m) = MulDiv(sh, i, WAD)
  BY DEF Claim
<1>3. sh # 0
  <2>1. 0 * i = 0 /\ 0 \div WAD = 0
    BY <1>1
  <2> QED BY <1>2, <2>1 DEF MulDiv
<1>4. supplierEpoch[a] = m.supplyEpoch
  BY <1>3 DEF ActiveShares
<1> HIDE DEF sh, i
<1>5. Claim(a, m) \in Nat /\ Claim(a, m) * WAD <= sh * i
  BY <1>1, <1>2, MulDivNat, MulDivBound
<1>6. amount * WAD <= Claim(a, m) * WAD
  BY <1>1, <1>5, ProductMonotone
<1>7. amount * WAD \in Nat /\ sh * i \in Nat /\ Claim(a, m) * WAD \in Nat
  BY <1>1, <1>5, ProductNat
<1>8. amount * WAD <= sh * i
  BY <1>5, <1>6, <1>7
<1>9. CASE amount = Claim(a, m)
  BY <1>1, <1>4, <1>8, <1>9 DEF sh, i
<1>10. CASE amount # Claim(a, m)
  <2>1. scaled = MulDivUp(amount, WAD, i)
    BY <1>10 DEF i
  <2>2. scaled \in Nat /\ scaled * i >= amount * WAD
    BY <1>1, <2>1, MulDivNat, MulDivBound
  <2>3. amount * WAD + i - 1 \in Nat /\ amount * WAD + i - 1 < sh * i + i
    BY <1>1, <1>7, <1>8
  <2>4. (amount * WAD + i - 1) \div i <= sh
    BY <1>1, <2>3, QuotientLeast
  <2> QED BY <1>1, <1>4, <2>1, <2>2, <2>4 DEF MulDivUp, sh, i
<1> QED BY <1>9, <1>10

LEMMA WithdrawSupplyStep ==
    ASSUME PoolInv, NEW m, Ready(m), AccrualFits(market),
           NEW a \in Accounts, NEW amount \in Nat, WithdrawSupply(a, amount, m)
    PROVE  PoolInv'
<1> DEFINE scaled == IF amount = Claim(a, m) THEN ActiveShares(a, m)
                     ELSE MulDivUp(amount, WAD, m.supplyIndex)
           n == Withdrawn(m, amount, scaled)
<1>1. /\ m \in Market /\ cash \in Nat /\ faucet.budget \in Nat
      /\ supplierEpoch \in [Accounts -> Nat] /\ supplierShares \in [Accounts -> Nat]
      /\ m.supplyEpoch \in Nat /\ m.totalSupplyScaled \in Nat
      /\ Balance(m) \in Int
      /\ m.supplyEpoch = market.supplyEpoch /\ m.totalSupplyScaled = market.totalSupplyScaled
      /\ m.totalBorrowScaled = market.totalBorrowScaled
  BY BalanceInt DEF PoolInv, TypeOK, Ready, Market
<1>2. amount > 0 /\ Claim(a, m) >= amount /\ AvailableLiquidity(m) >= amount
  BY DEF WithdrawSupply
<1>3. /\ supplierEpoch[a] = m.supplyEpoch
      /\ scaled \in 0..ActiveShares(a, m)
      /\ scaled * m.supplyIndex >= amount * WAD
  BY <1>2, WithdrawalShares
<1>4. /\ ActiveShares(a, m) = supplierShares[a] /\ supplierShares[a] \in Nat
      /\ ActiveShares(a, m) \in 0..m.totalSupplyScaled
  BY <1>1, <1>3, SharesBounded DEF ActiveShares
<1>5. scaled \in Nat /\ scaled <= supplierShares[a] /\ scaled \in 0..m.totalSupplyScaled
  BY <1>1, <1>3, <1>4
<1>6. /\ StoredSupply(m) - StoredSupply([m EXCEPT !.totalSupplyScaled = @ - scaled]) >= amount
      /\ n \in Market
      /\ n.lastAccrual = m.lastAccrual /\ n.supplyEpoch = m.supplyEpoch
      /\ n.totalSupplyScaled = m.totalSupplyScaled - scaled
      /\ n.totalBorrowScaled = m.totalBorrowScaled
      /\ Balance(n) = Balance(m) + amount
  BY <1>1, <1>3, <1>5, WithdrawnSound
<1>7. /\ Commit(n)
      /\ supplierShares' = [supplierShares EXCEPT ![a] = @ - scaled]
      /\ cash' = cash - amount
      /\ UNCHANGED <<supplierEpoch, borrowScaled, collateralOf, prices, faucet, hbar>>
  BY <1>1, <1>5, <1>6 DEF WithdrawSupply, Withdrawn, Fits
<1> HIDE DEF scaled, n
<1>8. cash' \in Nat /\ cash' >= faucet.budget
  BY <1>2, <1>7, LiquidityBound
<1>9. /\ Clock' /\ EpochsBegun' /\ FaucetBacked' /\ NeverStuck' /\ Conservation'
      /\ market' = n /\ gifted' = 0 /\ stray' = stray /\ now' = now /\ stuck' = stuck
  <2>1. /\ faucet' = faucet /\ Balance(n) - Balance(m) = cash - cash'
        /\ n.supplyEpoch >= m.supplyEpoch
    BY <1>1, <1>6, <1>7
  <2>2. \A b \in Accounts : supplierEpoch'[b] \in {supplierEpoch[b], n.supplyEpoch}
    BY <1>7
  <2> QED BY <1>6, <1>7, <1>8, <2>1, <2>2, CommitStep
<1>10. TypeOK'
  <2>1. supplierShares' \in [Accounts -> Nat]
    BY <1>1, <1>5, <1>7
  <2> QED BY <1>6, <1>7, <1>8, <1>9, <2>1 DEF PoolInv, TypeOK, prices
<1>11. TotalsMatchShares'
  <2> DEFINE f == [b \in Accounts |-> ActiveShares(b, market)]
             g == [b \in Accounts |-> ActiveShares(b, market)']
  <2>1. f \in [Accounts -> Nat] /\ IsFiniteSet(Accounts)
    BY <1>1, InputAssumption DEF ActiveShares
  <2>2. ActiveShares(a, market)' = supplierShares[a] - scaled
    BY <1>1, <1>3, <1>5, <1>6, <1>7, <1>9 DEF ActiveShares
  <2>3. \A b \in Accounts \ {a} : ActiveShares(b, market)' = ActiveShares(b, market)
    BY <1>1, <1>6, <1>7, <1>9 DEF ActiveShares
  <2>4. f[a] = supplierShares[a]
    BY <1>1, <1>3 DEF ActiveShares
  <2>5. /\ g \in [Accounts -> Nat] /\ g[a] = f[a] - scaled /\ f[a] - scaled \in Nat
        /\ \A b \in Accounts \ {a} : g[b] = f[b]
    BY <1>4, <1>5, <2>1, <2>2, <2>3, <2>4
  <2> HIDE DEF f, g
  <2>6. Sum(g) = Sum(f) - f[a] + (f[a] - scaled)
    BY <2>1, <2>5, SumUpdate
  <2>7. Sum(f) \in Nat /\ f[a] \in Nat
    BY <2>1, SumBounds
  <2>8. market.totalSupplyScaled = Sum(f)
    BY DEF PoolInv, TotalsMatchShares, f
  <2>9. market'.totalSupplyScaled = Sum(g)
    BY <1>1, <1>5, <1>6, <1>9, <2>6, <2>7, <2>8
  <2> QED BY <1>1, <1>6, <1>7, <1>9, <2>9 DEF PoolInv, TotalsMatchShares, g
<1>12. NoUnsecuredDebt' /\ NativeBacked'
  BY <1>7, <1>9 DEF PoolInv, NoUnsecuredDebt, NativeBacked
<1> QED BY <1>9, <1>10, <1>11, <1>12 DEF PoolInv

LEMMA OracleTyped ==
    ASSUME PoolInv, NEW data \in UpdateData
    PROVE  /\ OracleAfter(data) \in Quote
           /\ Fee(data) \in Nat
<1>1. data \in Quote
  <2>1. now \in Nat /\ Genesis \in Nat /\ Prices \subseteq Nat
    BY InputAssumption, RateAssumption DEF Genesis, PoolInv, TypeOK
  <2>2. Genesis..now \subseteq Nat
    BY <2>1
  <2>3. [price: Prices, publishTime: Genesis..now] \subseteq Quote
    BY <2>1, <2>2 DEF Quote
  <2>4. NoData \in Quote
    BY DEF NoData, Quote
  <2> QED BY <2>3, <2>4 DEF UpdateData
<1> QED BY <1>1, RateAssumption DEF OracleAfter, Fee, PoolInv, TypeOK

LEMMA NothingRetained ==
    ASSUME NEW value \in Nat, NEW fee \in Nat
    PROVE  Retained(value, fee) = 0
  BY DEF Retained

(* A debt is never worth nothing, so without collateral it is not healthy. *)
LEMMA DebtNeedsCollateral ==
    ASSUME NEW m \in Market, NEW shares \in Nat, NEW collateral \in Nat, NEW price \in Nat,
           Healthy(shares, collateral, price, m), shares > 0
    PROVE  collateral > 0
<1>1. /\ m.borrowIndex \in Nat \ {0} /\ m.borrowIndex \in Nat /\ WAD \in Nat \ {0} /\ WAD \in Nat
      /\ USDX_UNIT \in Nat \ {0} /\ HBAR_UNIT \in Nat \ {0} /\ COLLATERAL_FACTOR \in Nat
  BY WadPositive, UnitAssumption, RateAssumption DEF Market
<1>2. SUFFICES ASSUME collateral = 0 PROVE FALSE
  OBVIOUS
<1>3. HbarValue(collateral, price) = 0
  <2>1. 0 * price = 0 /\ 0 \div HBAR_UNIT = 0
    BY <1>1
  <2> QED BY <1>2, <2>1 DEF HbarValue, MulDiv
<1>4. MulDiv(HbarValue(collateral, price), COLLATERAL_FACTOR, WAD) = 0
  <2>1. 0 * COLLATERAL_FACTOR = 0 /\ 0 \div WAD = 0
    BY <1>1
  <2> QED BY <1>3, <2>1 DEF MulDiv
<1>5. DebtOf(shares, m) \in Nat /\ DebtOf(shares, m) # 0
  <2>1. DebtOf(shares, m) \in Nat /\ DebtOf(shares, m) * WAD >= shares * m.borrowIndex
    BY <1>1, MulDivNat, MulDivBound DEF DebtOf
  <2>2. shares * m.borrowIndex > 0
    BY <1>1
  <2> DEFINE d == DebtOf(shares, m)
  <2> HIDE DEF d
  <2>3. d \in Nat /\ d * WAD >= shares * m.borrowIndex
    BY <2>1 DEF d
  <2>4. d # 0
    BY <1>1, <2>2, <2>3
  <2> QED BY <2>3, <2>4 DEF d
<1>6. UsdxValue(DebtOf(shares, m)) \in Nat /\ UsdxValue(DebtOf(shares, m)) # 0
  <2> DEFINE d == DebtOf(shares, m)
             k == WAD \div USDX_UNIT
  <2>1. WAD = USDX_UNIT * k /\ k \in Nat
    BY <1>1, UnitAssumption, Quotient
  <2> HIDE DEF d, k
  <2>2. k >= 1
    BY <1>1, <2>1
  <2>3. WAD >= 1 * USDX_UNIT
    BY <1>1, <2>1, <2>2, ProductMonotone
  <2>4. d \in Nat /\ d >= 1
    BY <1>5 DEF d
  <2>5. 1 * WAD <= d * WAD /\ d * WAD \in Nat
    BY <1>1, <2>4, ProductMonotone, ProductNat
  <2>6. 1 * USDX_UNIT <= d * WAD
    BY <1>1, <2>3, <2>5
  <2>7. 1 <= (d * WAD) \div USDX_UNIT /\ (d * WAD) \div USDX_UNIT \in Nat
    BY <1>1, <2>5, <2>6, QuotientGreatest, Quotient
  <2> QED BY <2>7 DEF UsdxValue, MulDiv, d
<1> QED BY <1>4, <1>6 DEF Healthy

(* One entry of a sum of the state changes.                                *)
LEMMA SumStep ==
    ASSUME NEW f \in [Accounts -> Nat], NEW g \in [Accounts -> Nat], NEW a \in Accounts,
           \A b \in Accounts \ {a} : g[b] = f[b]
    PROVE  /\ Sum(g) = Sum(f) - f[a] + g[a]
           /\ Sum(f) \in Nat /\ f[a] \in 0..Sum(f)
<1>1. IsFiniteSet(Accounts)
  BY InputAssumption
<1>2. g[a] \in Nat
  OBVIOUS
<1>3. Sum(g) = Sum(f) - f[a] + g[a]
  BY <1>1, <1>2, SumUpdate
<1>4. Sum(f) \in Nat /\ f[a] <= Sum(f) /\ f[a] \in Nat
  BY <1>1, SumBounds
<1> QED BY <1>3, <1>4

LEMMA DepositCollateralStep ==
    ASSUME PoolInv, NEW a \in Accounts, NEW value \in Nat, DepositCollateral(a, value)
    PROVE  PoolInv'
<1>1. /\ collateralOf' = [collateralOf EXCEPT ![a] = collateralOf[a] + value]
      /\ hbar' = hbar + value /\ value > 0
      /\ UNCHANGED <<market, supplierEpoch, supplierShares, borrowScaled, prices,
                     faucet, cash, now, gifted, stray, stuck>>
  BY DEF DepositCollateral
<1>2. /\ collateralOf \in [Accounts -> Nat] /\ hbar \in Nat /\ stray \in Nat
      /\ hbar = Sum(collateralOf) + stray
  BY DEF PoolInv, TypeOK, NativeBacked
<1>3. /\ collateralOf' \in [Accounts -> Nat]
      /\ Sum(collateralOf') = Sum(collateralOf) + value /\ Sum(collateralOf) \in Nat
  <2>1. collateralOf[a] + value \in Nat /\ collateralOf[a] \in Nat
    BY <1>2
  <2>2. /\ collateralOf' \in [Accounts -> Nat]
        /\ \A b \in Accounts \ {a} : collateralOf'[b] = collateralOf[b]
        /\ collateralOf'[a] = collateralOf[a] + value
    BY <1>1, <1>2, <2>1
  <2>3. /\ Sum(collateralOf') = Sum(collateralOf) - collateralOf[a] + collateralOf'[a]
        /\ Sum(collateralOf) \in Nat
    BY <1>2, <2>2, SumStep
  <2> QED BY <2>1, <2>2, <2>3
<1>4. NativeBacked'
  BY <1>1, <1>2, <1>3 DEF NativeBacked
<1>5. NoUnsecuredDebt'
  BY <1>1, <1>2 DEF NoUnsecuredDebt, PoolInv
<1>6. TypeOK'
  <2>1. hbar' \in Nat
    BY <1>1, <1>2
  <2> QED BY <1>1, <1>3, <2>1 DEF PoolInv, TypeOK, prices
<1>7. Clock' /\ EpochsBegun' /\ FaucetBacked' /\ NeverStuck'
  BY <1>1 DEF PoolInv, Clock, EpochsBegun, FaucetBacked, NeverStuck
<1>8. Conservation' /\ TotalsMatchShares'
  BY <1>1 DEF PoolInv, Conservation, Assets, Liabilities, StoredBorrow, StoredSupply,
              TotalsMatchShares, ActiveShares
<1> QED BY <1>4, <1>5, <1>6, <1>7, <1>8 DEF PoolInv

LEMMA WithdrawCollateralStep ==
    ASSUME PoolInv, NEW m, Ready(m), AccrualFits(market),
           NEW a \in Accounts, NEW amount \in Nat, NEW data \in UpdateData, NEW value \in Nat,
           WithdrawCollateral(a, amount, data, value, m)
    PROVE  PoolInv'
<1> DEFINE left == collateralOf[a] - amount
           indebted == borrowScaled[a] > 0
           held == hbar + Retained(value, IF indebted THEN Fee(data) ELSE 0)
<1>1. /\ m \in Market /\ cash \in Nat /\ faucet.budget \in Nat /\ hbar \in Nat /\ stray \in Nat
      /\ collateralOf \in [Accounts -> Nat] /\ borrowScaled \in [Accounts -> Nat]
      /\ OracleAfter(data) \in Quote /\ Fee(data) \in Nat
      /\ collateralOf[a] \in 0..hbar /\ latest \in Quote /\ oracle \in Quote
      /\ m.supplyEpoch \in Nat
  BY OracleTyped, SharesBounded DEF PoolInv, TypeOK, Ready, Market
<1>2. held = hbar
  BY <1>1, NothingRetained
<1>3. amount > 0 /\ left >= 0 /\ ExitAllowed(a, left, data, value, m)
  BY DEF WithdrawCollateral
<1>4. left \in Nat /\ amount <= hbar
  BY <1>1, <1>3
<1>5. /\ Commit(m)
      /\ collateralOf' = [collateralOf EXCEPT ![a] = left]
      /\ IF indebted THEN PriceRefreshed(data) ELSE UNCHANGED prices
      /\ hbar' = hbar - amount
      /\ UNCHANGED <<supplierEpoch, supplierShares, borrowScaled, faucet, cash>>
  <2> HIDE DEF held
  <2>1. held >= amount
    BY <1>1, <1>2, <1>4
  <2> QED BY <1>2, <2>1 DEF WithdrawCollateral, Fits, held
<1>6. /\ Clock' /\ EpochsBegun' /\ FaucetBacked' /\ NeverStuck' /\ Conservation'
      /\ market' = m /\ gifted' = 0 /\ stray' = stray /\ now' = now /\ stuck' = stuck
  <2>1. cash' \in Nat /\ faucet' = faucet /\ cash' >= faucet.budget
    BY <1>1, <1>5 DEF PoolInv, FaucetBacked
  <2>2. Balance(m) - Balance(m) = cash - cash' /\ m.supplyEpoch >= m.supplyEpoch
    BY <1>1, <1>5, BalanceInt
  <2>3. \A b \in Accounts : supplierEpoch'[b] \in {supplierEpoch[b], m.supplyEpoch}
    BY <1>5
  <2> QED BY <1>1, <1>5, <2>1, <2>2, <2>3, CommitStep
<1>7. latest' \in Quote /\ oracle' \in Quote
  BY <1>1, <1>5 DEF PriceRefreshed, prices
<1>8. /\ collateralOf' \in [Accounts -> Nat] /\ hbar' \in Nat
      /\ Sum(collateralOf') = Sum(collateralOf) - amount /\ Sum(collateralOf) \in Nat
  <2> HIDE DEF left
  <2>1. /\ collateralOf' \in [Accounts -> Nat]
        /\ \A b \in Accounts \ {a} : collateralOf'[b] = collateralOf[b]
        /\ collateralOf'[a] = left
    BY <1>1, <1>4, <1>5
  <2>2. /\ Sum(collateralOf') = Sum(collateralOf) - collateralOf[a] + collateralOf'[a]
        /\ Sum(collateralOf) \in Nat
    BY <1>1, <2>1, SumStep
  <2> QED BY <1>1, <1>4, <1>5, <2>1, <2>2 DEF left
<1>9. NativeBacked'
  BY <1>1, <1>5, <1>6, <1>8 DEF PoolInv, NativeBacked
<1>10. NoUnsecuredDebt'
  <2>1. indebted => left > 0
    <3>1. ASSUME indebted PROVE left > 0
      <4>1. Healthy(borrowScaled[a], left, OracleAfter(data).price, m)
        BY <1>3, <3>1 DEF ExitAllowed
      <4>2. borrowScaled[a] \in Nat /\ OracleAfter(data).price \in Nat
        BY <1>1 DEF Quote
      <4> HIDE DEF left
      <4> QED BY <1>1, <1>4, <3>1, <4>1, <4>2, DebtNeedsCollateral
    <3> QED BY <3>1
  <2> HIDE DEF left
  <2> QED BY <1>1, <1>5, <2>1 DEF PoolInv, NoUnsecuredDebt
<1>11. TypeOK'
  BY <1>1, <1>5, <1>6, <1>7, <1>8 DEF PoolInv, TypeOK
<1>12. TotalsMatchShares'
  BY <1>5, <1>6 DEF PoolInv, TotalsMatchShares, Ready, ActiveShares
<1> QED BY <1>6, <1>9, <1>10, <1>11, <1>12 DEF PoolInv

LEMMA BorrowStep ==
    ASSUME PoolInv, NEW m, Ready(m), AccrualFits(market),
           NEW a \in Accounts, NEW amount \in Nat, NEW data \in UpdateData, NEW value \in Nat,
           Borrow(a, amount, data, value, m)
    PROVE  PoolInv'
<1> DEFINE scaled == MulDivUp(amount, WAD, m.borrowIndex)
           n == Borrowed(m, amount, scaled)
<1>1. /\ m \in Market /\ cash \in Nat /\ faucet.budget \in Nat /\ hbar \in Nat
      /\ collateralOf \in [Accounts -> Nat] /\ borrowScaled \in [Accounts -> Nat]
      /\ OracleAfter(data) \in Quote /\ Fee(data) \in Nat
      /\ m.supplyEpoch \in Nat /\ m.totalBorrowScaled \in Nat
      /\ Balance(m) \in Int
      /\ m.supplyEpoch = market.supplyEpoch /\ m.totalSupplyScaled = market.totalSupplyScaled
      /\ m.totalBorrowScaled = market.totalBorrowScaled
  BY OracleTyped, BalanceInt DEF PoolInv, TypeOK, Ready, Market
<1>2. /\ amount > 0 /\ AvailableLiquidity(m) >= amount
      /\ Healthy(borrowScaled[a] + scaled, collateralOf[a], OracleAfter(data).price, m)
  BY DEF Borrow
<1> HIDE DEF scaled
<1>3. /\ scaled \in Nat
      /\ StoredBorrow([m EXCEPT !.totalBorrowScaled = @ + scaled]) - StoredBorrow(m) >= amount
      /\ n \in Market
      /\ n.lastAccrual = m.lastAccrual /\ n.supplyEpoch = m.supplyEpoch
      /\ n.totalSupplyScaled = m.totalSupplyScaled
      /\ n.totalBorrowScaled = m.totalBorrowScaled + scaled
      /\ Balance(n) = Balance(m) + amount
  <2>1. scaled = MulDivUp(amount, WAD, m.borrowIndex)
    BY DEF scaled
  <2>2. m \in Market
    BY <1>1
  <2>3. BorrowSafe(m, amount, scaled)
    BY <2>1, <2>2, BorrowedSound
  <2> QED BY <2>3 DEF BorrowSafe
<1>4. /\ Commit(n)
      /\ borrowScaled' = [borrowScaled EXCEPT ![a] = borrowScaled[a] + scaled]
      /\ PriceRefreshed(data)
      /\ cash' = cash - amount
      /\ hbar' = hbar + Retained(value, Fee(data))
      /\ UNCHANGED <<supplierEpoch, supplierShares, collateralOf, faucet>>
  BY <1>3 DEF Borrow, Borrowed, Fits, scaled
<1> HIDE DEF n
<1>5. hbar' = hbar
  BY <1>1, <1>4, NothingRetained
<1>6. cash' \in Nat /\ cash' >= faucet.budget
  BY <1>2, <1>4, LiquidityBound
<1>7. /\ Clock' /\ EpochsBegun' /\ FaucetBacked' /\ NeverStuck' /\ Conservation'
      /\ market' = n /\ gifted' = 0 /\ stray' = stray /\ now' = now /\ stuck' = stuck
  <2>1. /\ faucet' = faucet /\ Balance(n) - Balance(m) = cash - cash'
        /\ n.supplyEpoch >= m.supplyEpoch
    BY <1>1, <1>3, <1>4
  <2>2. \A b \in Accounts : supplierEpoch'[b] \in {supplierEpoch[b], n.supplyEpoch}
    BY <1>4
  <2> QED BY <1>3, <1>4, <1>6, <2>1, <2>2, CommitStep
<1>8. /\ borrowScaled' \in [Accounts -> Nat]
      /\ Sum(borrowScaled') = Sum(borrowScaled) + scaled
  <2>1. borrowScaled[a] + scaled \in Nat /\ borrowScaled[a] \in Nat
    BY <1>1, <1>3
  <2>2. /\ borrowScaled' \in [Accounts -> Nat]
        /\ \A b \in Accounts \ {a} : borrowScaled'[b] = borrowScaled[b]
        /\ borrowScaled'[a] = borrowScaled[a] + scaled
    BY <1>1, <1>4, <2>1
  <2>3. /\ Sum(borrowScaled') = Sum(borrowScaled) - borrowScaled[a] + borrowScaled'[a]
        /\ Sum(borrowScaled) \in Nat
    BY <1>1, <2>2, SumStep
  <2> QED BY <1>3, <2>1, <2>2, <2>3
<1>9. TypeOK'
  BY <1>1, <1>3, <1>4, <1>5, <1>6, <1>7, <1>8 DEF PoolInv, TypeOK, PriceRefreshed
<1>10. TotalsMatchShares'
  BY <1>1, <1>3, <1>4, <1>7, <1>8 DEF PoolInv, TotalsMatchShares, ActiveShares
<1>11. NoUnsecuredDebt'
  <2>1. borrowScaled[a] + scaled > 0 => collateralOf[a] > 0
    <3>1. /\ borrowScaled[a] + scaled \in Nat /\ collateralOf[a] \in Nat
          /\ OracleAfter(data).price \in Nat
      BY <1>1, <1>3 DEF Quote
    <3> QED BY <1>1, <1>2, <3>1, DebtNeedsCollateral
  <2> QED BY <1>1, <1>4, <2>1 DEF PoolInv, NoUnsecuredDebt
<1>12. NativeBacked'
  BY <1>4, <1>5, <1>7 DEF PoolInv, NativeBacked
<1> QED BY <1>7, <1>9, <1>10, <1>11, <1>12 DEF PoolInv

LEMMA RepayStep ==
    ASSUME PoolInv, NEW m, Ready(m), AccrualFits(market),
           NEW a \in Accounts, NEW amount \in Nat, Repay(a, amount, m)
    PROVE  PoolInv'
<1> DEFINE pay == RepaymentAmount(borrowScaled[a], amount, m)
           burned == BurnedShares(borrowScaled[a], pay, m)
           n == BurnDebt(borrowScaled[a], pay, m)
<1>1. /\ m \in Market /\ cash \in Nat /\ faucet.budget \in Nat
      /\ borrowScaled \in [Accounts -> Nat] /\ collateralOf \in [Accounts -> Nat]
      /\ m.supplyEpoch \in Nat /\ m.totalBorrowScaled \in Nat
      /\ borrowScaled[a] \in 0..m.totalBorrowScaled /\ borrowScaled[a] \in Nat
      /\ Balance(m) \in Int /\ cash >= faucet.budget
      /\ m.supplyEpoch = market.supplyEpoch /\ m.totalSupplyScaled = market.totalSupplyScaled
      /\ m.totalBorrowScaled = market.totalBorrowScaled
  BY SharesBounded, BalanceInt DEF PoolInv, TypeOK, Ready, Market, FaucetBacked
<1>2. pay \in Nat
  BY <1>1, RepaymentNat
<1> HIDE DEF pay
<1>3. BurnFits(borrowScaled[a], pay, m)
  BY <1>1, <1>2, BurnAlwaysFits
<1>4. /\ burned \in 0..borrowScaled[a] /\ burned \in 0..m.totalBorrowScaled
      /\ n \in Market
      /\ n.lastAccrual = m.lastAccrual /\ n.supplyEpoch = m.supplyEpoch
      /\ n.totalSupplyScaled = m.totalSupplyScaled
      /\ n.totalBorrowScaled = m.totalBorrowScaled - burned
      /\ Balance(n) = Balance(m) - pay
  BY <1>1, <1>2, <1>3, BurnDebtSound
<1>5. /\ Commit(n)
      /\ borrowScaled' = [borrowScaled EXCEPT ![a] = borrowScaled[a] - burned]
      /\ cash' = cash + pay
      /\ UNCHANGED <<supplierEpoch, supplierShares, collateralOf, prices, faucet, hbar>>
  BY <1>3 DEF Repay, Fits, pay
<1> HIDE DEF burned, n
<1>6. cash' \in Nat /\ cash' >= faucet.budget
  BY <1>1, <1>2, <1>5
<1>7. /\ Clock' /\ EpochsBegun' /\ FaucetBacked' /\ NeverStuck' /\ Conservation'
      /\ market' = n /\ gifted' = 0 /\ stray' = stray /\ now' = now /\ stuck' = stuck
  <2>1. /\ faucet' = faucet /\ Balance(n) - Balance(m) = cash - cash'
        /\ n.supplyEpoch >= m.supplyEpoch
    BY <1>1, <1>2, <1>4, <1>5
  <2>2. \A b \in Accounts : supplierEpoch'[b] \in {supplierEpoch[b], n.supplyEpoch}
    BY <1>5
  <2> QED BY <1>4, <1>5, <1>6, <2>1, <2>2, CommitStep
<1>8. /\ borrowScaled' \in [Accounts -> Nat]
      /\ Sum(borrowScaled') = Sum(borrowScaled) - burned /\ Sum(borrowScaled) \in Nat
      /\ \A b \in Accounts : borrowScaled'[b] <= borrowScaled[b]
  <2>1. /\ borrowScaled' \in [Accounts -> Nat]
        /\ \A b \in Accounts \ {a} : borrowScaled'[b] = borrowScaled[b]
        /\ borrowScaled'[a] = borrowScaled[a] - burned
    BY <1>1, <1>4, <1>5
  <2>2. /\ Sum(borrowScaled') = Sum(borrowScaled) - borrowScaled[a] + borrowScaled'[a]
        /\ Sum(borrowScaled) \in Nat
    BY <1>1, <2>1, SumStep
  <2>3. \A b \in Accounts : borrowScaled'[b] <= borrowScaled[b]
    BY <1>1, <1>4, <2>1
  <2> QED BY <1>1, <1>4, <2>1, <2>2, <2>3
<1>9. TypeOK'
  BY <1>1, <1>4, <1>5, <1>6, <1>7, <1>8 DEF PoolInv, TypeOK, prices
<1>10. TotalsMatchShares'
  BY <1>1, <1>4, <1>5, <1>7, <1>8 DEF PoolInv, TotalsMatchShares, ActiveShares
<1>11. NoUnsecuredDebt'
  BY <1>1, <1>5, <1>8 DEF PoolInv, NoUnsecuredDebt
<1>12. NativeBacked'
  BY <1>5, <1>7 DEF PoolInv, NativeBacked
<1> QED BY <1>7, <1>9, <1>10, <1>11, <1>12 DEF PoolInv

(* After a write-off that retires the epoch, nobody has live shares.       *)
LEMMA LiveSharesAfter ==
    ASSUME PoolInv, NEW m, Ready(m), NEW n \in Market, market' = n,
           UNCHANGED <<supplierEpoch, supplierShares>>,
           \/ n.supplyEpoch = m.supplyEpoch /\ n.totalSupplyScaled = m.totalSupplyScaled
           \/ n.supplyEpoch = m.supplyEpoch + 1 /\ n.totalSupplyScaled = 0
    PROVE  market'.totalSupplyScaled = Sum([b \in Accounts |-> ActiveShares(b, market)'])
<1>1. /\ m.supplyEpoch = market.supplyEpoch /\ m.totalSupplyScaled = market.totalSupplyScaled
      /\ market.supplyEpoch \in Nat
      /\ supplierEpoch \in [Accounts -> Nat] /\ supplierShares \in [Accounts -> Nat]
      /\ \A b \in Accounts : supplierEpoch[b] <= market.supplyEpoch
      /\ market.totalSupplyScaled = Sum([b \in Accounts |-> ActiveShares(b, market)])
  BY DEF PoolInv, TypeOK, Ready, Market, EpochsBegun, TotalsMatchShares
<1>2. CASE n.supplyEpoch = m.supplyEpoch /\ n.totalSupplyScaled = m.totalSupplyScaled
  <2>1. \A b \in Accounts : ActiveShares(b, market)' = ActiveShares(b, market)
    BY <1>1, <1>2 DEF ActiveShares
  <2>2. [b \in Accounts |-> ActiveShares(b, market)']
          = [b \in Accounts |-> ActiveShares(b, market)]
    BY <2>1
  <2> QED BY <1>1, <1>2, <2>2
<1>3. CASE n.supplyEpoch = m.supplyEpoch + 1 /\ n.totalSupplyScaled = 0
  <2> DEFINE g == [b \in Accounts |-> ActiveShares(b, market)']
  <2>1. \A b \in Accounts : supplierEpoch'[b] # n.supplyEpoch
    BY <1>1, <1>3
  <2>2. \A b \in Accounts : g[b] = 0
    BY <2>1 DEF ActiveShares
  <2>3. g \in [Accounts -> Nat] /\ IsFiniteSet(Accounts)
    BY <2>2, InputAssumption
  <2> HIDE DEF g
  <2>4. Sum(g) = 0
    BY <2>2, <2>3, SumZero
  <2> QED BY <1>3, <2>4 DEF g
<1> QED BY <1>2, <1>3

LEMMA LiquidateStep ==
    ASSUME PoolInv, NEW m, Ready(m), AccrualFits(market),
           NEW liquidator \in Accounts, NEW a \in Accounts, NEW amount \in Nat,
           NEW data \in UpdateData, NEW value \in Nat,
           Liquidate(liquidator, a, amount, data, value, m)
    PROVE  PoolInv'
<1> DEFINE price == OracleAfter(data).price
           done == Liquidation(borrowScaled[a], collateralOf[a], amount, price, m)
           n == done.market
           held == hbar + Retained(value, Fee(data))
<1>1. /\ m \in Market /\ cash \in Nat /\ faucet.budget \in Nat /\ hbar \in Nat /\ stray \in Nat
      /\ borrowScaled \in [Accounts -> Nat] /\ collateralOf \in [Accounts -> Nat]
      /\ OracleAfter(data) \in Quote /\ Fee(data) \in Nat
      /\ m.supplyEpoch \in Nat /\ m.totalBorrowScaled \in Nat
      /\ borrowScaled[a] \in 0..m.totalBorrowScaled /\ borrowScaled[a] \in Nat
      /\ collateralOf[a] \in 0..hbar /\ collateralOf[a] \in Nat
      /\ cash >= faucet.budget
      /\ m.supplyEpoch = market.supplyEpoch /\ m.totalSupplyScaled = market.totalSupplyScaled
      /\ m.totalBorrowScaled = market.totalBorrowScaled
  BY SharesBounded, OracleTyped DEF PoolInv, TypeOK, Ready, Market, FaucetBacked
<1>2. Balance(m) <= 0 /\ Balance(m) \in Int
  BY OwedAtMostOwned
<1>3. price \in Nat \ {0}
  <2>1. PriceUsable(data, value)
    BY DEF Liquidate
  <2> QED BY <1>1, <2>1 DEF PriceUsable, Quote
<1>4. /\ done.pay \in Nat /\ done.seize \in 0..collateralOf[a]
      /\ done.shares \in 0..borrowScaled[a]
      /\ done.fits /\ done.covered
      /\ n \in Market
      /\ n.lastAccrual = m.lastAccrual
      /\ n.totalBorrowScaled = m.totalBorrowScaled - (borrowScaled[a] - done.shares)
      /\ \/ n.supplyEpoch = m.supplyEpoch /\ n.totalSupplyScaled = m.totalSupplyScaled
         \/ n.supplyEpoch = m.supplyEpoch + 1 /\ n.totalSupplyScaled = 0
      /\ Balance(n) = Balance(m) - done.pay
      /\ done.shares # 0 => done.seize # collateralOf[a]
  <2> HIDE DEF price
  <2>1. /\ m \in Market /\ borrowScaled[a] \in 0..m.totalBorrowScaled
        /\ collateralOf[a] \in Nat /\ price \in Nat \ {0} /\ Balance(m) <= 0
    BY <1>1, <1>2, <1>3
  <2>2. LiquidationSafe(borrowScaled[a], collateralOf[a], amount, price, m)
    BY <2>1, LiquidationSound
  <2> QED BY <2>2 DEF LiquidationSafe
<1>5. held = hbar
  BY <1>1, NothingRetained
<1>6. done.seize \in Nat /\ done.seize <= hbar
  BY <1>1, <1>4
<1> HIDE DEF held
<1>7. /\ Commit(n)
      /\ borrowScaled' = [borrowScaled EXCEPT ![a] = done.shares]
      /\ collateralOf' = [collateralOf EXCEPT ![a] = collateralOf[a] - done.seize]
      /\ PriceRefreshed(data)
      /\ cash' = cash + done.pay
      /\ hbar' = hbar - done.seize
      /\ UNCHANGED <<supplierEpoch, supplierShares, faucet>>
  <2>1. Fits(done.fits /\ held >= done.seize)
    BY <1>4, <1>5, <1>6 DEF Fits
  <2>2. IF ~Fits(done.fits /\ held >= done.seize) THEN Panic
        ELSE IF ~done.covered THEN Revert("uncovered loss")
        ELSE /\ Commit(done.market)
             /\ borrowScaled' = [borrowScaled EXCEPT ![a] = done.shares]
             /\ collateralOf' = [collateralOf EXCEPT ![a] = @ - done.seize]
             /\ PriceRefreshed(data)
             /\ cash' = cash + done.pay
             /\ hbar' = held - done.seize
             /\ UNCHANGED <<supplierEpoch, supplierShares, faucet>>
    BY DEF Liquidate, held
  <2>3. done.covered
    BY <1>4
  <2> HIDE DEF done
  <2>4. /\ Commit(n)
        /\ borrowScaled' = [borrowScaled EXCEPT ![a] = done.shares]
        /\ collateralOf' = [collateralOf EXCEPT ![a] = collateralOf[a] - done.seize]
        /\ PriceRefreshed(data)
        /\ cash' = cash + done.pay
        /\ hbar' = held - done.seize
        /\ UNCHANGED <<supplierEpoch, supplierShares, faucet>>
    BY <2>1, <2>2, <2>3, Zenon
  <2> QED BY <1>5, <2>4, Zenon
<1> HIDE DEF done, n, price
<1>8. cash' \in Nat /\ cash' >= faucet.budget
  BY <1>1, <1>4, <1>7
<1>9. /\ Clock' /\ EpochsBegun' /\ FaucetBacked' /\ NeverStuck' /\ Conservation'
      /\ market' = n /\ gifted' = 0 /\ stray' = stray /\ now' = now /\ stuck' = stuck
  <2>1. /\ faucet' = faucet /\ Balance(n) - Balance(m) = cash - cash'
        /\ n.supplyEpoch >= m.supplyEpoch
    BY <1>1, <1>2, <1>4, <1>7
  <2>2. \A b \in Accounts : supplierEpoch'[b] \in {supplierEpoch[b], n.supplyEpoch}
    BY <1>7
  <2> QED BY <1>4, <1>7, <1>8, <2>1, <2>2, CommitStep
<1>10. /\ borrowScaled' \in [Accounts -> Nat]
       /\ Sum(borrowScaled') = Sum(borrowScaled) - borrowScaled[a] + done.shares
       /\ Sum(borrowScaled) \in Nat
  <2>1. /\ borrowScaled' \in [Accounts -> Nat]
        /\ \A b \in Accounts \ {a} : borrowScaled'[b] = borrowScaled[b]
        /\ borrowScaled'[a] = done.shares
    BY <1>1, <1>4, <1>7
  <2> QED BY <1>1, <2>1, SumStep
<1>11. /\ collateralOf' \in [Accounts -> Nat] /\ hbar' \in Nat
       /\ Sum(collateralOf') = Sum(collateralOf) - done.seize
       /\ Sum(collateralOf) \in Nat
  <2>1. /\ collateralOf' \in [Accounts -> Nat]
        /\ \A b \in Accounts \ {a} : collateralOf'[b] = collateralOf[b]
        /\ collateralOf'[a] = collateralOf[a] - done.seize
    BY <1>1, <1>4, <1>7
  <2>2. /\ Sum(collateralOf') = Sum(collateralOf) - collateralOf[a] + collateralOf'[a]
        /\ Sum(collateralOf) \in Nat
    BY <1>1, <2>1, SumStep
  <2> QED BY <1>1, <1>6, <1>7, <2>1, <2>2
<1>12. latest' \in Quote /\ oracle' \in Quote
  BY <1>1, <1>7 DEF PriceRefreshed
<1>13. TypeOK'
  BY <1>4, <1>7, <1>8, <1>9, <1>10, <1>11, <1>12 DEF PoolInv, TypeOK
<1>14. TotalsMatchShares'
  <2>1. market'.totalBorrowScaled = Sum(borrowScaled')
    BY <1>1, <1>4, <1>9, <1>10 DEF PoolInv, TotalsMatchShares
  <2>2. market'.totalSupplyScaled = Sum([b \in Accounts |-> ActiveShares(b, market)'])
    BY <1>4, <1>7, <1>9, LiveSharesAfter
  <2> QED BY <2>1, <2>2 DEF TotalsMatchShares
<1>15. NoUnsecuredDebt'
  <2>1. done.shares > 0 => collateralOf[a] - done.seize > 0
    BY <1>1, <1>4
  <2> QED BY <1>1, <1>7, <2>1 DEF PoolInv, NoUnsecuredDebt
<1>16. NativeBacked'
  BY <1>1, <1>6, <1>7, <1>9, <1>11 DEF PoolInv, NativeBacked
<1> QED BY <1>9, <1>13, <1>14, <1>15, <1>16 DEF PoolInv

LEMMA ClaimFaucetStep ==
    ASSUME PoolInv, NEW a \in Accounts, ClaimFaucet(a)
    PROVE  PoolInv'
<1>1. /\ faucet \in [enabled: BOOLEAN, budget: Nat, lastAt: [Accounts -> Nat]]
      /\ cash \in Nat /\ now \in Nat /\ cash >= faucet.budget
      /\ FAUCET_AMOUNT \in Nat /\ gifted \in Nat /\ market \in Market
  BY RateAssumption DEF PoolInv, TypeOK, FaucetBacked
<1>2. faucet.budget >= FAUCET_AMOUNT /\ cash >= FAUCET_AMOUNT
  <2>1. faucet.budget >= FAUCET_AMOUNT
    BY DEF ClaimFaucet
  <2>2. faucet.budget \in Nat
    BY <1>1
  <2> QED BY <1>1, <2>1, <2>2
<1>3. /\ faucet' = [faucet EXCEPT !.budget = @ - FAUCET_AMOUNT, !.lastAt[a] = now]
      /\ cash' = cash - FAUCET_AMOUNT
      /\ UNCHANGED <<market, positions, prices, hbar, now, gifted, stray, stuck>>
  BY <1>2 DEF ClaimFaucet
<1>4. /\ faucet' \in [enabled: BOOLEAN, budget: Nat, lastAt: [Accounts -> Nat]]
      /\ faucet'.budget = faucet.budget - FAUCET_AMOUNT /\ cash' \in Nat
  <2>1. /\ faucet.budget \in Nat /\ faucet.lastAt \in [Accounts -> Nat]
        /\ faucet.enabled \in BOOLEAN
    BY <1>1
  <2>2. /\ faucet.budget - FAUCET_AMOUNT \in Nat
        /\ [faucet.lastAt EXCEPT ![a] = now] \in [Accounts -> Nat]
    BY <1>1, <1>2, <2>1
  <2>3. faucet' = [enabled |-> faucet.enabled, budget |-> faucet.budget - FAUCET_AMOUNT,
                   lastAt |-> [faucet.lastAt EXCEPT ![a] = now]]
    BY <1>1, <1>3
  <2>4. cash' \in Nat
    BY <1>1, <1>2, <1>3
  <2> QED BY <2>1, <2>2, <2>3, <2>4
<1>5. TypeOK' /\ Clock' /\ EpochsBegun' /\ NeverStuck' /\ NoUnsecuredDebt' /\ NativeBacked'
  BY <1>3, <1>4 DEF PoolInv, TypeOK, Clock, EpochsBegun, NeverStuck, NoUnsecuredDebt,
                    NativeBacked, positions, prices
<1>6. TotalsMatchShares'
  BY <1>3 DEF PoolInv, TotalsMatchShares, ActiveShares, positions
<1>7. FaucetBacked'
  BY <1>1, <1>2, <1>3, <1>4 DEF FaucetBacked
<1>8. Conservation'
  <2>1. /\ StoredBorrow(market) \in Nat /\ StoredSupply(market) \in Nat
        /\ market.totalReserves \in Nat
    BY <1>1, StoredNat DEF Market
  <2>2. market' = market /\ gifted' = gifted
    BY <1>3
  <2>3. cash + StoredBorrow(market)
          = StoredSupply(market) + market.totalReserves + faucet.budget + gifted
    BY DEF PoolInv, Conservation, Assets, Liabilities
  <2>4. cash' + StoredBorrow(market)
          = StoredSupply(market) + market.totalReserves + faucet'.budget + gifted
    BY <1>1, <1>3, <1>4, <2>1, <2>3
  <2> QED BY <2>2, <2>4 DEF Conservation, Assets, Liabilities, StoredBorrow, StoredSupply
<1> QED BY <1>5, <1>6, <1>7, <1>8 DEF PoolInv

(* A payment into the pool that grows the faucet's budget, or nobody's.    *)
LEMMA FundingStep ==
    ASSUME PoolInv, NEW amount \in Nat, FundFaucet(amount) \/ Donate(amount)
    PROVE  PoolInv'
<1>1. /\ faucet \in [enabled: BOOLEAN, budget: Nat, lastAt: [Accounts -> Nat]]
      /\ cash \in Nat /\ cash >= faucet.budget /\ gifted \in Nat /\ market \in Market
  BY DEF PoolInv, TypeOK, FaucetBacked
<1>2. /\ cash' = cash + amount
      /\ UNCHANGED <<market, positions, prices, hbar, now, stray, stuck>>
      /\ \/ faucet' = [faucet EXCEPT !.budget = @ + amount] /\ gifted' = gifted
         \/ faucet' = faucet /\ gifted' = gifted + amount
  BY DEF FundFaucet, Donate
<1>3. /\ faucet' \in [enabled: BOOLEAN, budget: Nat, lastAt: [Accounts -> Nat]]
      /\ faucet'.budget + gifted' = faucet.budget + gifted + amount
      /\ faucet'.budget <= faucet.budget + amount /\ faucet'.budget \in Nat
      /\ cash' \in Nat /\ gifted' \in Nat
  BY <1>1, <1>2
<1>4. TypeOK' /\ Clock' /\ EpochsBegun' /\ NeverStuck' /\ NoUnsecuredDebt' /\ NativeBacked'
  BY <1>2, <1>3 DEF PoolInv, TypeOK, Clock, EpochsBegun, NeverStuck, NoUnsecuredDebt,
                    NativeBacked, positions, prices
<1>5. TotalsMatchShares'
  BY <1>2 DEF PoolInv, TotalsMatchShares, ActiveShares, positions
<1>6. FaucetBacked'
  BY <1>1, <1>2, <1>3 DEF FaucetBacked
<1>7. Conservation'
  <2>1. /\ StoredBorrow(market) \in Nat /\ StoredSupply(market) \in Nat
        /\ market.totalReserves \in Nat
    BY <1>1, StoredNat DEF Market
  <2>2. cash + StoredBorrow(market)
          = StoredSupply(market) + market.totalReserves + faucet.budget + gifted
    BY DEF PoolInv, Conservation, Assets, Liabilities
  <2>3. cash' + StoredBorrow(market)
          = StoredSupply(market) + market.totalReserves + faucet'.budget + gifted'
    BY <1>1, <1>2, <1>3, <2>1, <2>2
  <2>4. market' = market
    BY <1>2
  <2> QED BY <2>3, <2>4 DEF Conservation, Assets, Liabilities, StoredBorrow, StoredSupply
<1> QED BY <1>4, <1>5, <1>6, <1>7 DEF PoolInv

(* Steps that touch neither the market, nor a position, nor the cash.      *)
LEMMA OutsideStep ==
    ASSUME PoolInv,
           UNCHANGED <<market, positions, cash, gifted, stuck>>,
           latest' \in Quote, oracle' \in Quote,
           faucet' \in [enabled: BOOLEAN, budget: {faucet.budget}, lastAt: [Accounts -> Nat]],
           now' \in Nat, now' >= now,
           hbar' \in Nat, stray' \in Nat, hbar' - stray' = hbar - stray
    PROVE  PoolInv'
<1>1. /\ faucet'.budget = faucet.budget /\ faucet.budget \in Nat
      /\ faucet' \in [enabled: BOOLEAN, budget: Nat, lastAt: [Accounts -> Nat]]
  BY DEF PoolInv, TypeOK
<1>2. TypeOK' /\ EpochsBegun' /\ NeverStuck' /\ NoUnsecuredDebt'
  BY <1>1 DEF PoolInv, TypeOK, EpochsBegun, NeverStuck, NoUnsecuredDebt, positions
<1>3. Clock'
  BY DEF PoolInv, Clock, Market
<1>4. TotalsMatchShares'
  BY DEF PoolInv, TotalsMatchShares, ActiveShares, positions
<1>5. NativeBacked'
  <2>1. /\ hbar \in Nat /\ stray \in Nat /\ hbar = Sum(collateralOf) + stray
        /\ collateralOf \in [Accounts -> Nat] /\ IsFiniteSet(Accounts)
    BY InputAssumption DEF PoolInv, TypeOK, NativeBacked
  <2>2. Sum(collateralOf) \in Nat
    BY <2>1, SumBounds
  <2> QED BY <2>1, <2>2 DEF NativeBacked, positions
<1>6. FaucetBacked' /\ Conservation'
  BY <1>1 DEF PoolInv, FaucetBacked, Conservation, Assets, Liabilities, StoredBorrow, StoredSupply
<1> QED BY <1>2, <1>3, <1>4, <1>5, <1>6 DEF PoolInv

LEMMA UpdatePriceStep ==
    ASSUME PoolInv, NEW data \in UpdateData, NEW value \in Nat, UpdatePrice(data, value)
    PROVE  PoolInv'
<1>1. /\ OracleAfter(data) \in Quote /\ Fee(data) \in Nat /\ hbar \in Nat /\ stray \in Nat
      /\ now \in Nat
      /\ faucet \in [enabled: BOOLEAN, budget: {faucet.budget}, lastAt: [Accounts -> Nat]]
  BY OracleTyped DEF PoolInv, TypeOK
<1>2. hbar' = hbar
  BY <1>1, NothingRetained DEF UpdatePrice
<1> QED BY <1>1, <1>2, OutsideStep DEF UpdatePrice, PriceRefreshed

LEMMA EnvironmentStep ==
    ASSUME PoolInv,
           \/ \E enabled \in BOOLEAN : SetFaucetEnabled(enabled)
           \/ \E amount \in Gifts : Receive(amount)
           \/ \E data \in UpdateData : PushOracle(data)
           \/ Tick
    PROVE  PoolInv'
<1>1. /\ hbar \in Nat /\ stray \in Nat /\ now \in Nat /\ latest \in Quote /\ oracle \in Quote
      /\ faucet \in [enabled: BOOLEAN, budget: Nat, lastAt: [Accounts -> Nat]]
      /\ faucet \in [enabled: BOOLEAN, budget: {faucet.budget}, lastAt: [Accounts -> Nat]]
  BY DEF PoolInv, TypeOK
<1>2. CASE \E enabled \in BOOLEAN : SetFaucetEnabled(enabled)
  <2>1. PICK enabled \in BOOLEAN : SetFaucetEnabled(enabled)
    BY <1>2
  <2>2. faucet' \in [enabled: BOOLEAN, budget: {faucet.budget}, lastAt: [Accounts -> Nat]]
    BY <1>1, <2>1 DEF SetFaucetEnabled
  <2> QED BY <1>1, <2>1, <2>2, OutsideStep DEF SetFaucetEnabled, prices
<1>3. CASE \E amount \in Gifts : Receive(amount)
  <2>1. PICK amount \in Gifts : Receive(amount)
    BY <1>3
  <2>2. amount \in Nat
    BY InputAssumption
  <2> QED BY <1>1, <2>1, <2>2, OutsideStep DEF Receive, prices
<1>4. CASE \E data \in UpdateData : PushOracle(data)
  <2>1. PICK data \in UpdateData : PushOracle(data)
    BY <1>4
  <2>2. data \in Quote
    BY <2>1, OracleTyped DEF PushOracle, OracleAfter
  <2> QED BY <1>1, <2>1, <2>2, OutsideStep DEF PushOracle
<1>5. CASE Tick
  BY <1>1, <1>5, OutsideStep DEF Tick, prices
<1> QED BY <1>2, <1>3, <1>4, <1>5

-------------------------------------------------------------------------------
(* The theorems.                                                           *)

LEMMA InitInv == Init => PoolInv
<1> SUFFICES ASSUME Init PROVE PoolInv
  OBVIOUS
<1>1. /\ WAD \in Nat \ {0} /\ Genesis \in Nat /\ Prices \subseteq Nat /\ IsFiniteSet(Accounts)
  BY WadPositive, RateAssumption, InputAssumption DEF Genesis
<1>2. market \in Market
  BY <1>1 DEF Init, Market
<1>3. TypeOK
  BY <1>1, <1>2 DEF Init, TypeOK, Quote
<1>4. Clock /\ EpochsBegun /\ NoUnsecuredDebt /\ FaucetBacked /\ NeverStuck
  BY <1>1, <1>2 DEF Init, Clock, EpochsBegun, NoUnsecuredDebt, FaucetBacked, NeverStuck
<1>5. Conservation
  <2>1. StoredSupply(market) = 0 /\ StoredBorrow(market) = 0
    <3>1. 0 * WAD = 0 /\ 0 \div WAD = 0 /\ (0 + WAD - 1) \div WAD = 0
      BY <1>1
    <3> QED BY <3>1 DEF Init, StoredSupply, StoredBorrow, MulDiv, MulDivUp
  <2> QED BY <2>1 DEF Init, Conservation, Assets, Liabilities
<1>6. TotalsMatchShares /\ NativeBacked
  <2> DEFINE live == [a \in Accounts |-> ActiveShares(a, market)]
  <2>1. live \in [Accounts -> Nat] /\ \A a \in Accounts : live[a] = 0
    BY DEF Init, ActiveShares
  <2> HIDE DEF live
  <2>2. Sum(live) = 0
    BY <1>1, <2>1, SumZero
  <2>3. Sum(borrowScaled) = 0 /\ Sum(collateralOf) = 0
    <3>1. /\ borrowScaled \in [Accounts -> Nat] /\ \A a \in Accounts : borrowScaled[a] = 0
          /\ collateralOf \in [Accounts -> Nat] /\ \A a \in Accounts : collateralOf[a] = 0
      BY DEF Init
    <3> QED BY <1>1, <3>1, SumZero
  <2> QED BY <2>2, <2>3 DEF Init, TotalsMatchShares, NativeBacked, live
<1> QED BY <1>3, <1>4, <1>5, <1>6 DEF PoolInv

LEMMA StepInv == PoolInv /\ [Next]_vars => PoolInv'
<1> SUFFICES ASSUME PoolInv, [Next]_vars PROVE PoolInv'
  OBVIOUS
<1>1. Amounts \subseteq Nat /\ HbarAmounts \subseteq Nat /\ Values \subseteq Nat
      /\ Gifts \subseteq Nat /\ Fundings \subseteq Nat
  BY InputAssumption
<1>2. Ready(Accrued) /\ AccrualFits(market)
  BY AccruedReady
<1>3. ASSUME MarketCall(Accrued) PROVE PoolInv'
  <2>1. ASSUME NEW a \in Accounts, CashCall(a, Accrued) PROVE PoolInv'
    BY <1>1, <1>2, <2>1, SupplyStep, WithdrawSupplyStep, RepayStep, DepositCollateralStep,
       ClaimFaucetStep DEF CashCall
  <2>2. ASSUME NEW a \in Accounts, NEW data \in UpdateData, NEW value \in Values,
               PriceCall(a, data, value, Accrued)
        PROVE  PoolInv'
    BY <1>1, <1>2, <2>2, WithdrawCollateralStep, BorrowStep, LiquidateStep DEF PriceCall
  <2>3. ASSUME Accrue(Accrued) PROVE PoolInv'
    BY <1>2, <2>3, AccrueStep
  <2> QED BY <1>3, <2>1, <2>2, <2>3 DEF MarketCall
<1>4. ASSUME NEW data \in UpdateData, NEW value \in Values, UpdatePrice(data, value)
      PROVE  PoolInv'
  BY <1>1, <1>4, UpdatePriceStep
<1>5. ASSUME NEW amount \in Fundings, FundFaucet(amount) PROVE PoolInv'
  BY <1>1, <1>5, FundingStep
<1>6. ASSUME NEW amount \in Gifts, Donate(amount) PROVE PoolInv'
  BY <1>1, <1>6, FundingStep
<1>7. CASE UNCHANGED vars
  BY <1>7 DEF vars, positions, prices, PoolInv, TypeOK, Clock, EpochsBegun, Conservation,
              Assets, Liabilities, StoredBorrow, StoredSupply, TotalsMatchShares, ActiveShares,
              NoUnsecuredDebt, NativeBacked, FaucetBacked, NeverStuck
<1> QED BY <1>3, <1>4, <1>5, <1>6, <1>7, EnvironmentStep DEF Next

(* The invariant of which the safety properties of the pool are parts.     *)
THEOREM PoolInvariant == Spec => []PoolInv
  BY InitInv, StepInv, PTL DEF Spec

(* Every stored field keeps the type the contract declares for it.         *)
THEOREM TypeCorrect == Spec => []TypeOK
<1>1. PoolInv => TypeOK
  BY DEF PoolInv
<1> QED BY <1>1, PoolInvariant, PTL

(* A call that passed the checks meant for its caller takes effect: no     *)
(* checked subtraction of an index, a total or a reserve underflows, no    *)
(* loss goes uncovered, and no payment finds the pool short of it.         *)
THEOREM CallsNeverStick == Spec => []NeverStuck
<1>1. PoolInv => NeverStuck
  BY DEF PoolInv
<1> QED BY <1>1, PoolInvariant, PTL

(* Every token the pool holds or is owed is somebody's.                    *)
THEOREM TokensConserved == Spec => []Conservation
<1>1. PoolInv => Conservation
  BY DEF PoolInv
<1> QED BY <1>1, PoolInvariant, PTL

(* The share totals are the sums of the accounts' shares.                  *)
THEOREM TotalsAreSums == Spec => []TotalsMatchShares
<1>1. PoolInv => TotalsMatchShares
  BY DEF PoolInv
<1> QED BY <1>1, PoolInvariant, PTL

(* A debt never outlives its collateral.                                   *)
THEOREM DebtIsSecured == Spec => []NoUnsecuredDebt
<1>1. PoolInv => NoUnsecuredDebt
  BY DEF PoolInv
<1> QED BY <1>1, PoolInvariant, PTL

(* The pool's HBAR is its collateral and what was sent to it directly.     *)
THEOREM CollateralIsThere == Spec => []NativeBacked
<1>1. PoolInv => NativeBacked
  BY DEF PoolInv
<1> QED BY <1>1, PoolInvariant, PTL

(* The faucet can always pay what its budget promises.                     *)
THEOREM FaucetIsThere == Spec => []FaucetBacked
<1>1. PoolInv => FaucetBacked
  BY DEF PoolInv
<1> QED BY <1>1, PoolInvariant, PTL

(* Neither fund the pool holds for others is ever short.                   *)
THEOREM FundsAreThere == Spec => []FundsBacked
<1>1. NativeBacked /\ FaucetBacked => FundsBacked
  BY DEF FundsBacked
<1> QED BY <1>1, CollateralIsThere, FaucetIsThere, PTL

-------------------------------------------------------------------------------
(* What one step may do.  No operation but a liquidation moves both a      *)
(* position and the price of the suppliers' shares, so the steps divide    *)
(* into those that leave the positions (PositionsKept), those that leave   *)
(* the suppliers (SupplyKept), and liquidations.  A liquidation always     *)
(* cancels a share of debt, seizes no more than is paid for, and charges   *)
(* suppliers only after the reserves are gone.                             *)

StepPromises == RiskStep /\ SeizureStep /\ ReservesStep /\ IndexStep /\ SharesStep

-------------------------------------------------------------------------------
(* Liquidation in numbers.                                                 *)

(* A payment that was rounded to what it cancels cancels a share.          *)
LEMMA RepaymentBurns ==
    ASSUME NEW m \in Market, NEW shares \in Nat \ {0}, NEW amount \in Nat,
           RepaymentAmount(shares, amount, m) > 0
    PROVE  BurnedShares(shares, RepaymentAmount(shares, amount, m), m) # 0
<1> DEFINE pay == RepaymentAmount(shares, amount, m)
           i == m.borrowIndex
           k == MulDiv(amount, WAD, i)
<1>1. i \in Nat \ {0} /\ i \in Nat /\ WAD \in Nat \ {0} /\ WAD \in Nat
  BY WadPositive DEF Market
<1>2. pay \in Nat
  BY RepaymentNat
<1>3. CASE pay >= DebtOf(shares, m)
  BY <1>3 DEF BurnedShares
<1>4. CASE ~(pay >= DebtOf(shares, m))
  <2>1. pay = MulDivUp(k, i, WAD)
    BY <1>2, <1>4 DEF RepaymentAmount
  <2>2. BurnedShares(shares, pay, m) = MulDiv(pay, WAD, i)
    BY <1>4 DEF BurnedShares
  <2> HIDE DEF i
  <2>3. k \in Nat
    BY <1>1, MulDivNat
  <2> HIDE DEF k, pay
  <2>4. k # 0
    <3>1. 0 * i = 0 /\ (0 + WAD - 1) \div WAD = 0
      BY <1>1
    <3>2. pay > 0
      BY DEF pay
    <3> QED BY <1>1, <2>1, <3>1, <3>2 DEF MulDivUp
  <2>5. k * i <= pay * WAD
    BY <1>1, <2>1, <2>3, MulDivBound
  <2>6. k <= (pay * WAD) \div i
    BY <1>1, <1>2, <2>3, <2>5, ProductNat, QuotientGreatest
  <2>7. (pay * WAD) \div i \in Nat
    BY <1>1, <1>2, ProductNat, Quotient
  <2> QED BY <2>2, <2>3, <2>4, <2>6, <2>7 DEF MulDiv, pay
<1> QED BY <1>3, <1>4

(* The collateral a payment buys is worth at most the payment and bonus:   *)
(* when it buys a part, by rounding down, and when it buys all, because    *)
(* the price of all of it was rounded up.                                  *)
LEMMA PartIsPaid ==
    ASSUME NEW usd \in Nat, NEW price \in Nat \ {0}, NEW seize \in Nat,
           seize <= HbarFromUsd(usd, price)
    PROVE  HbarValue(seize, price) <= usd
<1> DEFINE h == HbarFromUsd(usd, price)
<1>1. /\ HBAR_UNIT \in Nat \ {0} /\ HBAR_UNIT \in Nat /\ h \in Nat
      /\ h * price <= usd * HBAR_UNIT
  BY UnitAssumption, MulDivNat, MulDivBound DEF HbarFromUsd
<1> HIDE DEF h
<1>2. seize * price <= h * price
  BY <1>1, ProductMonotone DEF h
<1>3. seize * price \in Nat /\ h * price \in Nat /\ usd * HBAR_UNIT \in Nat
  BY <1>1, ProductNat
<1>4. seize * price < usd * HBAR_UNIT + HBAR_UNIT
  BY <1>1, <1>2, <1>3
<1>5. (seize * price) \div HBAR_UNIT <= usd
  BY <1>1, <1>3, <1>4, QuotientLeast
<1> QED BY <1>5 DEF HbarValue, MulDiv

LEMMA AllIsPaid ==
    ASSUME NEW collateral \in Nat, NEW price \in Nat \ {0}
    PROVE  HbarValue(collateral, price)
             <= MulDiv(UsdxValue(CollateralPay(collateral, price)), WAD + LIQUIDATION_BONUS, WAD)
<1> DEFINE v == HbarValue(collateral, price)
           b == WAD + LIQUIDATION_BONUS
           q == MulDivUp(v, USDX_UNIT, b)
           pay == CollateralPay(collateral, price)
           k == WAD \div USDX_UNIT
<1>1. /\ WAD \in Nat \ {0} /\ WAD \in Nat /\ b \in Nat \ {0} /\ b \in Nat
      /\ USDX_UNIT \in Nat \ {0} /\ USDX_UNIT \in Nat
  BY WadPositive, UnitAssumption, RateAssumption
<1>2. v \in Nat
  BY PricingNat
<1>3. k \in Nat /\ WAD = USDX_UNIT * k
  BY <1>1, UnitAssumption, Quotient
<1> HIDE DEF v, b, k
<1>4. q \in Nat /\ v * USDX_UNIT <= q * b
  BY <1>1, <1>2, MulDivNat, MulDivBound
<1> HIDE DEF q
<1>5. pay = Greatest(1, q)
  BY DEF CollateralPay, q, v, b
<1> HIDE DEF pay
<1>6. pay \in Nat /\ q <= pay
  BY <1>4, <1>5 DEF Greatest
<1>7. q * b <= pay * b /\ v * USDX_UNIT \in Nat /\ q * b \in Nat /\ pay * b \in Nat
  BY <1>1, <1>2, <1>4, <1>6, ProductMonotone, ProductNat
<1>8. v * USDX_UNIT <= pay * b
  BY <1>4, <1>7
<1>9. UsdxValue(pay) = pay * k
  <2>1. pay * WAD = (pay * k) * USDX_UNIT
    BY <1>1, <1>3, <1>6
  <2>2. pay * k \in Nat
    BY <1>3, <1>6, ProductNat
  <2> DEFINE x == pay * k
  <2> HIDE DEF x
  <2>3. x \in Nat /\ pay * WAD = x * USDX_UNIT
    BY <2>1, <2>2 DEF x
  <2>4. (x * USDX_UNIT) \div USDX_UNIT = x
    <3>1. x * USDX_UNIT \in Nat /\ x * USDX_UNIT < x * USDX_UNIT + USDX_UNIT
      BY <1>1, <2>3, ProductNat
    <3>2. x <= (x * USDX_UNIT) \div USDX_UNIT /\ (x * USDX_UNIT) \div USDX_UNIT <= x
      BY <1>1, <2>3, <3>1, QuotientGreatest, QuotientLeast
    <3>3. (x * USDX_UNIT) \div USDX_UNIT \in Nat
      BY <1>1, <3>1, Quotient
    <3> QED BY <2>3, <3>2, <3>3
  <2> QED BY <2>3, <2>4 DEF UsdxValue, MulDiv, x
<1>10. v * WAD <= (pay * k) * b
  <2>1. (v * USDX_UNIT) * k <= (pay * b) * k
    BY <1>3, <1>7, <1>8, ProductMonotone
  <2>2. (v * USDX_UNIT) * k = v * WAD
    BY <1>1, <1>2, <1>3
  <2>3. (pay * b) * k = (pay * k) * b
    BY <1>1, <1>3, <1>6
  <2> QED BY <2>1, <2>2, <2>3
<1>11. (pay * k) * b \in Nat
  BY <1>1, <1>3, <1>6, ProductNat
<1>12. v <= ((pay * k) * b) \div WAD
  BY <1>1, <1>2, <1>10, <1>11, QuotientGreatest
<1> QED BY <1>9, <1>12 DEF MulDiv, v, b, pay

LEMMA QuoteIsPaidFor ==
    ASSUME NEW m \in Market, NEW shares \in Nat, NEW collateral \in Nat, NEW amount \in Nat,
           NEW price \in Nat \ {0}
    PROVE  LET quote == PreviewLiquidation(shares, collateral, amount, price, m)
           IN  HbarValue(quote.seize, price)
                 <= MulDiv(UsdxValue(quote.pay), WAD + LIQUIDATION_BONUS, WAD)
<1> DEFINE limit == Least(amount, DebtOf(shares, m))
           pay == RepaymentAmount(shares, limit, m)
           usd == MulDiv(UsdxValue(pay), WAD + LIQUIDATION_BONUS, WAD)
           all == CollateralPay(collateral, price)
           quote == PreviewLiquidation(shares, collateral, amount, price, m)
<1>1. limit \in Nat
  BY DebtNat DEF Least
<1> HIDE DEF limit
<1>2. pay \in Nat
  BY <1>1, RepaymentNat
<1> HIDE DEF pay
<1>3. WAD + LIQUIDATION_BONUS \in Nat /\ WAD \in Nat \ {0}
  BY WadPositive, RateAssumption
<1>4. usd \in Nat
  BY <1>2, <1>3, PricingNat, MulDivNat
<1>5. HbarFromUsd(usd, price) \in Nat
  BY <1>4, PricingNat
<1>6. quote =
        IF collateral = 0 \/ amount = 0 THEN [pay |-> 0, seize |-> 0]
        ELSE IF limit >= all THEN [pay |-> all, seize |-> collateral]
             ELSE [pay |-> pay, seize |-> Least(HbarFromUsd(usd, price), collateral)]
  BY DEF PreviewLiquidation, limit, pay
<1> HIDE DEF quote
<1>7. CASE collateral = 0 \/ amount = 0
  <2>1. quote.seize = 0 /\ quote.pay = 0
    BY <1>6, <1>7
  <2>2. HbarValue(0, price) = 0
    <3>1. 0 * price = 0 /\ 0 \div HBAR_UNIT = 0
      BY UnitAssumption
    <3> QED BY <3>1 DEF HbarValue, MulDiv
  <2>3. UsdxValue(0) \in Nat
    BY PricingNat
  <2>4. MulDiv(UsdxValue(0), WAD + LIQUIDATION_BONUS, WAD) \in Nat
    BY <1>3, <2>3, MulDivNat
  <2> QED BY <2>1, <2>2, <2>4 DEF quote
<1>8. CASE ~(collateral = 0 \/ amount = 0) /\ limit >= all
  <2>1. quote.pay = all /\ quote.seize = collateral
    BY <1>6, <1>8
  <2> QED BY <2>1, AllIsPaid DEF quote
<1>9. CASE ~(collateral = 0 \/ amount = 0) /\ ~(limit >= all)
  <2>1. quote.pay = pay /\ quote.seize = Least(HbarFromUsd(usd, price), collateral)
    BY <1>6, <1>9
  <2> HIDE DEF usd
  <2>2. quote.seize \in Nat /\ quote.seize <= HbarFromUsd(usd, price)
    BY <1>5, <2>1 DEF Least
  <2>3. HbarValue(quote.seize, price) <= usd
    BY <1>4, <2>2, PartIsPaid
  <2> QED BY <2>1, <2>3 DEF usd, quote
<1> QED BY <1>7, <1>8, <1>9

(* A liquidation that is paid for cancels a share of debt at least.        *)
LEMMA LiquidationLowersDebt ==
    ASSUME NEW m \in Market, NEW shares \in 0..m.totalBorrowScaled, shares # 0,
           NEW collateral \in Nat, NEW amount \in Nat, NEW price \in Nat \ {0},
           Liquidation(shares, collateral, amount, price, m).pay > 0
    PROVE  Liquidation(shares, collateral, amount, price, m).shares # shares
<1> DEFINE deal == PreviewLiquidation(shares, collateral, amount, price, m)
           limit == Least(amount, DebtOf(shares, m))
           pay == RepaymentAmount(shares, limit, m)
           usd == MulDiv(UsdxValue(pay), WAD + LIQUIDATION_BONUS, WAD)
           all == CollateralPay(collateral, price)
           burned == BurnedShares(shares, deal.pay, m)
           residue == shares - burned
           d == Liquidation(shares, collateral, amount, price, m)
<1>1. shares \in Nat \ {0} /\ limit \in Nat
  BY DebtNat DEF Least, Market
<1>2. deal.pay = d.pay /\ d.pay > 0
  BY DEF Liquidation
<1>3. d.shares = IF Exhausted(collateral, deal.seize) /\ residue # 0 THEN 0 ELSE residue
  BY <1>2 DEF Liquidation
<1>4. deal =
        IF collateral = 0 \/ amount = 0 THEN [pay |-> 0, seize |-> 0]
        ELSE IF limit >= all THEN [pay |-> all, seize |-> collateral]
             ELSE [pay |-> pay, seize |-> Least(HbarFromUsd(usd, price), collateral)]
  BY DEF PreviewLiquidation
<1> HIDE DEF deal, limit, pay, usd, all, d
<1>5. CASE deal.seize = collateral
  BY <1>1, <1>3, <1>5 DEF Exhausted, d
<1>6. CASE deal.seize # collateral
  <2>1. deal.pay = pay
    BY <1>2, <1>4, <1>6
  <2>2. burned # 0
    BY <1>1, <1>2, <2>1, RepaymentBurns DEF pay
  <2>3. deal.pay \in Nat
    BY <1>1, QuoteSound DEF deal
  <2>4. burned \in 0..shares
    <3>1. BurnFits(shares, deal.pay, m)
      BY <2>3, BurnAlwaysFits
    <3> QED BY <1>1, <2>3, <3>1, BurnDebtSound
  <2> HIDE DEF burned
  <2> QED BY <1>1, <1>3, <2>2, <2>4 DEF d
<1> QED BY <1>5, <1>6

(* A write-off leaves the debtors' index, and the suppliers' shares and    *)
(* their price, or else the reserves are spent: what they hold then is     *)
(* what the rounded price of the shares leaves over.                       *)
SuppliersSpared(n, m) ==
    /\ n.supplyIndex = m.supplyIndex /\ n.supplyEpoch = m.supplyEpoch
    /\ n.totalSupplyScaled = m.totalSupplyScaled

ReservesSpent(n, m) == n.totalReserves * WAD <= m.totalSupplyScaled + WAD

LEMMA DustBound ==
    ASSUME NEW remaining \in Nat, NEW total \in Nat \ {0}, NEW index,
           index = MulDiv(remaining, WAD, total)
    PROVE  /\ index = 0 => remaining * WAD <= total + WAD
           /\ (remaining - MulDiv(total, index, WAD)) * WAD <= total + WAD
<1>1. WAD \in Nat \ {0} /\ WAD \in Nat /\ total \in Nat
  BY WadPositive
<1>2. /\ index \in Nat
      /\ index * total <= remaining * WAD /\ remaining * WAD < index * total + total
  BY <1>1, MulDivNat, MulDivBound
<1> DEFINE s == MulDiv(total, index, WAD)
           x == total * index
           y == remaining * WAD
<1>3. s \in Nat /\ s * WAD <= x /\ x < s * WAD + WAD
  BY <1>1, <1>2, MulDivNat, MulDivBound
<1>4. x \in Nat /\ y \in Nat /\ x = index * total /\ s * WAD \in Nat
  BY <1>1, <1>2, <1>3, ProductNat
<1>5. (remaining - s) * WAD = y - s * WAD
  <2> HIDE DEF s
  <2> QED BY <1>1, <1>3
<1>6. index = 0 => y <= total + WAD
  <2>1. index = 0 => x = 0
    BY <1>1
  <2> HIDE DEF x, y
  <2> QED BY <1>1, <1>2, <1>4, <2>1 DEF y
<1>7. y - s * WAD <= total + WAD
  <2>1. y < x + total
    BY <1>2, <1>4
  <2> DEFINE z == s * WAD
  <2>2. z \in Nat /\ x < z + WAD
    BY <1>3, <1>4
  <2> HIDE DEF x, y, z
  <2>3. y - z <= total + WAD
    BY <1>1, <1>4, <2>1, <2>2
  <2> QED BY <2>3 DEF z
<1> QED BY <1>5, <1>6, <1>7

LEMMA LossSpendsReserves ==
    ASSUME NEW m \in Market, NEW shares \in 0..m.totalBorrowScaled, Covered(shares, m)
    PROVE  LET r == ResolveBadDebt(shares, m)
           IN  SuppliersSpared(r, m) \/ ReservesSpent(r, m)
<1> DEFINE c == ChargeReserves(shares, m)
           w == WithoutDebt(m, shares)
           loss == Cancelled(m, shares)
           sloss == SupplierLoss(shares, m)
           remaining == StoredSupply(m) - sloss
           index == LossIndex(shares, m)
           total == m.totalSupplyScaled
           p == Repriced(c, index)
           r == ResolveBadDebt(shares, m)
<1>1. /\ m.totalReserves \in Nat /\ total \in Nat /\ m.supplyIndex \in Nat
      /\ StoredSupply(m) \in Nat /\ StoredBorrow(m) \in Nat /\ WAD \in Nat \ {0}
  BY StoredNat, WadPositive DEF Market
<1>2. /\ w \in Market /\ w = [m EXCEPT !.totalBorrowScaled = m.totalBorrowScaled - shares]
      /\ loss \in Nat
  BY <1>1, WithoutDebtSound
<1>3. /\ w.supplyIndex = m.supplyIndex /\ w.supplyEpoch = m.supplyEpoch
      /\ w.totalSupplyScaled = m.totalSupplyScaled /\ w.totalReserves = m.totalReserves
  BY <1>2 DEF Market
<1> HIDE DEF w, loss
<1>4. /\ c = [w EXCEPT !.totalReserves = w.totalReserves - Least(loss, w.totalReserves)]
      /\ sloss = loss - Least(loss, m.totalReserves)
  BY DEF ChargeReserves, SupplierLoss, w, loss
<1>5. sloss \in Nat /\ sloss <= StoredSupply(m)
  BY <1>1, <1>2, <1>4 DEF Least, Covered
<1> HIDE DEF c
<1>6. w.totalReserves - Least(loss, w.totalReserves) \in Nat
  BY <1>1, <1>2, <1>3 DEF Least
<1>7. /\ c \in Market /\ SuppliersSpared(c, m)
      /\ c.totalReserves = m.totalReserves - Least(loss, m.totalReserves)
  BY <1>2, <1>3, <1>4, <1>6 DEF Market, SuppliersSpared
<1>8. CASE sloss = 0
  <2>1. r = c
    BY <1>8 DEF ResolveBadDebt, c
  <2> QED BY <1>7, <2>1
<1>9. CASE sloss # 0
  <2>1. c.totalReserves = 0
    BY <1>1, <1>2, <1>4, <1>7, <1>9 DEF Least
  <2>2. r = [p EXCEPT !.totalReserves = p.totalReserves + remaining - StoredSupply(p)]
    BY <1>9 DEF ResolveBadDebt, ChargeSuppliers, c
  <2>3. remaining \in Nat
    BY <1>1, <1>5
  <2>4. total # 0
    <3>1. total = 0 => StoredSupply(m) = 0
      <4>1. 0 * m.supplyIndex = 0 /\ 0 \div WAD = 0
        BY <1>1
      <4> QED BY <4>1 DEF StoredSupply, MulDiv
    <3> QED BY <1>1, <1>5, <1>9, <3>1
  <2>5. index = MulDiv(remaining, WAD, total)
    BY DEF LossIndex
  <2> HIDE DEF r, remaining, index, sloss
  <2>6. /\ index \in Nat
        /\ index = 0 => remaining * WAD <= total + WAD
        /\ (remaining - MulDiv(total, index, WAD)) * WAD <= total + WAD
    <3> HIDE DEF total
    <3> QED BY <1>1, <2>3, <2>4, <2>5, DustBound, MulDivNat
  <2>7. CASE index = 0
    <3>1. p = [c EXCEPT !.totalSupplyScaled = 0, !.supplyIndex = WAD,
                        !.supplyEpoch = c.supplyEpoch + 1]
      BY <2>7 DEF Repriced
    <3> HIDE DEF p
    <3>2. p.totalReserves = 0 /\ p.totalSupplyScaled = 0 /\ p.supplyIndex = WAD
          /\ r.totalReserves = p.totalReserves + remaining - StoredSupply(p)
      BY <1>1, <1>7, <2>1, <2>2, <3>1 DEF Market
    <3>3. StoredSupply(p) = 0
      BY <1>1, <3>2 DEF StoredSupply, MulDiv
    <3>4. r.totalReserves = remaining
      BY <2>3, <3>2, <3>3
    <3> QED BY <2>6, <2>7, <3>4 DEF ReservesSpent, r
  <2>8. CASE index # 0
    <3>1. p = [c EXCEPT !.supplyIndex = index]
      BY <2>8 DEF Repriced
    <3> HIDE DEF p
    <3>2. p.totalReserves = 0 /\ p.totalSupplyScaled = total /\ p.supplyIndex = index
          /\ r.totalReserves = p.totalReserves + remaining - StoredSupply(p)
      BY <1>1, <1>7, <2>1, <2>2, <2>6, <3>1 DEF Market, SuppliersSpared
    <3>3. StoredSupply(p) = MulDiv(total, index, WAD) /\ MulDiv(total, index, WAD) \in Nat
      BY <1>1, <2>6, <3>2, MulDivNat DEF StoredSupply
    <3>4. r.totalReserves = remaining - MulDiv(total, index, WAD)
      BY <2>3, <3>2, <3>3
    <3> QED BY <2>6, <3>4 DEF ReservesSpent, r
  <2> QED BY <2>7, <2>8
<1> QED BY <1>8, <1>9

(* What a liquidation of a debtor with collateral does, in the terms of    *)
(* the step properties.                                                    *)
LiquidationFair(shares, collateral, amount, price, m) ==
    LET d == Liquidation(shares, collateral, amount, price, m)
    IN  /\ d.pay > 0 => d.shares # shares
        /\ d.market.borrowIndex = m.borrowIndex
        /\ HbarValue(d.seize, price)
             <= MulDiv(UsdxValue(d.pay), WAD + LIQUIDATION_BONUS, WAD)
        /\ \/ SuppliersSpared(d.market, m)
           \/ ReservesSpent(d.market, m) /\ d.shares = 0 /\ d.seize = collateral

LEMMA LiquidationIsFair ==
    ASSUME NEW m \in Market, NEW shares \in 0..m.totalBorrowScaled, shares # 0,
           NEW collateral \in Nat, NEW amount \in Nat, NEW price \in Nat \ {0},
           Balance(m) <= 0
    PROVE  LiquidationFair(shares, collateral, amount, price, m)
<1> DEFINE deal == PreviewLiquidation(shares, collateral, amount, price, m)
           paid == deal.pay > 0
           burned == IF paid THEN BurnedShares(shares, deal.pay, m) ELSE 0
           repaid == IF paid THEN BurnDebt(shares, deal.pay, m) ELSE m
           residue == shares - burned
           exhausted == Exhausted(collateral, deal.seize) /\ residue # 0
           d == Liquidation(shares, collateral, amount, price, m)
           r == ResolveBadDebt(residue, repaid)
<1>0. shares \in Nat /\ m.totalBorrowScaled \in Nat
  BY DEF Market
<1>1. deal.pay \in Nat /\ deal.seize \in 0..collateral
  BY <1>0, QuoteSound
<1>2. /\ d.pay = deal.pay /\ d.seize = deal.seize
      /\ d.shares = IF exhausted THEN 0 ELSE residue
      /\ d.market = IF exhausted /\ Covered(residue, repaid) THEN r ELSE repaid
  BY DEF Liquidation
<1>3. d.pay > 0 => d.shares # shares
  BY LiquidationLowersDebt
<1>4. HbarValue(deal.seize, price)
        <= MulDiv(UsdxValue(deal.pay), WAD + LIQUIDATION_BONUS, WAD)
  BY <1>0, QuoteIsPaidFor
<1> HIDE DEF deal, d
<1>5. /\ burned \in 0..shares /\ repaid \in Market
      /\ repaid.totalBorrowScaled = m.totalBorrowScaled - burned
      /\ SuppliersSpared(repaid, m) /\ repaid.borrowIndex = m.borrowIndex
  <2>1. CASE paid
    <3>1. BurnFits(shares, deal.pay, m)
      BY <1>1, BurnAlwaysFits
    <3> QED BY <1>0, <1>1, <2>1, <3>1, BurnDebtSound DEF SuppliersSpared
  <2>2. CASE ~paid
    <3>1. burned = 0 /\ repaid = m
      BY <2>2
    <3> HIDE DEF burned, repaid
    <3> QED BY <1>0, <3>1 DEF SuppliersSpared
  <2> QED BY <2>1, <2>2
<1> HIDE DEF burned, repaid
<1>6. residue \in 0..repaid.totalBorrowScaled
  BY <1>0, <1>5
<1> HIDE DEF residue
<1>7. Covered(residue, repaid) =>
        /\ r.borrowIndex = m.borrowIndex
        /\ SuppliersSpared(r, m) \/ ReservesSpent(r, m)
  <2>1. Covered(residue, repaid) =>
          /\ r.borrowIndex = repaid.borrowIndex
          /\ SuppliersSpared(r, repaid) \/ ReservesSpent(r, repaid)
    BY <1>5, <1>6, LossSpendsReserves, ResolveSound
  <2> HIDE DEF r
  <2> QED BY <1>5, <2>1 DEF SuppliersSpared, ReservesSpent
<1> HIDE DEF r
<1>8. CASE exhausted /\ Covered(residue, repaid)
  <2>1. d.market = r /\ d.shares = 0 /\ d.seize = collateral
    BY <1>1, <1>2, <1>8 DEF Exhausted
  <2> QED BY <1>2, <1>3, <1>4, <1>7, <1>8, <2>1 DEF LiquidationFair, d
<1>9. CASE ~(exhausted /\ Covered(residue, repaid))
  <2>1. d.market = repaid
    BY <1>2, <1>9
  <2> QED BY <1>2, <1>3, <1>4, <1>5, <2>1 DEF LiquidationFair, d
<1> QED BY <1>8, <1>9

-------------------------------------------------------------------------------
(* Steps that leave something alone.                                       *)

LEMMA StateTyped ==
    ASSUME PoolInv
    PROVE  /\ \A a \in Accounts : /\ borrowScaled[a] \in Nat /\ collateralOf[a] \in Nat
                                  /\ ActiveShares(a, market) \in Nat
           /\ Accrued \in Market /\ market \in Market
           /\ Accrued.borrowIndex >= market.borrowIndex
           /\ Accrued.supplyIndex >= market.supplyIndex
           /\ Accrued.totalSupplyScaled = market.totalSupplyScaled
           /\ Accrued.supplyEpoch = market.supplyEpoch
<1>1. cash \in Nat /\ faucet.budget \in Nat /\ Clock
  BY DEF PoolInv, TypeOK
<1> QED BY <1>1, AccruedSound DEF PoolInv, TypeOK, ActiveShares

LEMMA PositionsKept ==
    ASSUME PoolInv, UNCHANGED <<borrowScaled, collateralOf>>
    PROVE  RiskStep /\ SeizureStep
  BY StateTyped DEF RiskStep, SeizureStep

LEMMA MarketKept ==
    ASSUME PoolInv, UNCHANGED <<market, supplierEpoch, supplierShares>>
    PROVE  ReservesStep /\ IndexStep /\ SharesStep
<1>1. market.borrowIndex \in Nat /\ market.supplyIndex \in Nat
  BY DEF PoolInv, TypeOK, Market
<1>2. \A a \in Accounts : ActiveShares(a, market)' = ActiveShares(a, market)
  BY DEF ActiveShares
<1> QED BY <1>1, <1>2, StateTyped DEF ReservesStep, IndexStep, SharesStep

(* The market is the accrued one, up to the debt and the reserves.         *)
SupplyKept(n) == SuppliersSpared(n, Accrued) /\ n.borrowIndex = Accrued.borrowIndex

LEMMA SuppliersKept ==
    ASSUME PoolInv, NEW n \in Market, market' = n, SupplyKept(n),
           UNCHANGED <<supplierEpoch, supplierShares>>
    PROVE  ReservesStep /\ IndexStep /\ SharesStep
<1>1. /\ market.borrowIndex \in Nat /\ market.supplyIndex \in Nat /\ market.supplyEpoch \in Nat
      /\ Accrued.borrowIndex \in Nat /\ Accrued.supplyIndex \in Nat
      /\ StoredSupply(Accrued) \in Nat
  BY StateTyped, StoredNat DEF Market
<1>2. \A a \in Accounts : ActiveShares(a, market)' = ActiveShares(a, market)
  BY StateTyped DEF ActiveShares, SupplyKept, SuppliersSpared
<1>3. StoredSupply(market)' = StoredSupply(Accrued)
  BY DEF StoredSupply, SupplyKept, SuppliersSpared
<1>4. ReservesStep
  BY <1>1, <1>3 DEF ReservesStep
<1>5. IndexStep
  BY <1>1, StateTyped DEF IndexStep, SupplyKept, SuppliersSpared
<1>6. SharesStep
  BY <1>2, StateTyped DEF SharesStep
<1> QED BY <1>4, <1>5, <1>6

(* A reverted call, and every step outside the market's operations.        *)
LEMMA NothingMoved ==
    ASSUME PoolInv, UNCHANGED <<market, positions>>
    PROVE  StepPromises
  BY PositionsKept, MarketKept DEF StepPromises, positions

LEMMA Reverted ==
    ASSUME PoolInv, NEW reason, Revert(reason)
    PROVE  StepPromises
  BY NothingMoved DEF Revert

-------------------------------------------------------------------------------
(* The operations, one lemma each.                                         *)

LEMMA AccruePromises ==
    ASSUME PoolInv, Accrue(Accrued)
    PROVE  StepPromises
<1>1. CASE Panic
  BY <1>1, Reverted DEF Panic
<1>2. CASE market' = Accrued /\ UNCHANGED positions
  <2>1. SupplyKept(Accrued) /\ Accrued \in Market
    BY StateTyped DEF SupplyKept, SuppliersSpared
  <2> QED BY <1>2, <2>1, SuppliersKept, PositionsKept DEF positions, StepPromises
<1> QED BY <1>1, <1>2 DEF Accrue, Commit

LEMMA DepositPromises ==
    ASSUME PoolInv, NEW a \in Accounts, NEW value \in Nat, DepositCollateral(a, value)
    PROVE  StepPromises
<1>1. \A b \in Accounts : borrowScaled'[b] = borrowScaled[b] /\ collateralOf'[b] >= collateralOf[b]
                         /\ collateralOf'[b] \in Nat
  <2>1. collateralOf \in [Accounts -> Nat]
    BY DEF PoolInv, TypeOK
  <2>2. collateralOf' = [collateralOf EXCEPT ![a] = collateralOf[a] + value]
        /\ borrowScaled' = borrowScaled
    BY DEF DepositCollateral
  <2>3. collateralOf'[a] = collateralOf[a] + value
        /\ \A b \in Accounts \ {a} : collateralOf'[b] = collateralOf[b]
    BY <2>1, <2>2
  <2> QED BY <2>1, <2>2, <2>3
<1>2. \A b \in Accounts : ~(borrowScaled'[b] > borrowScaled[b]) /\ ~(collateralOf'[b] < collateralOf[b])
  BY <1>1, StateTyped
<1>3. RiskStep /\ SeizureStep
  BY <1>2 DEF RiskStep, SeizureStep
<1>4. UNCHANGED <<market, supplierEpoch, supplierShares>>
  BY DEF DepositCollateral
<1> QED BY <1>3, <1>4, MarketKept DEF StepPromises

LEMMA WithdrawCollateralPromises ==
    ASSUME PoolInv, NEW a \in Accounts, NEW amount \in Nat, NEW data, NEW value,
           WithdrawCollateral(a, amount, data, value, Accrued)
    PROVE  StepPromises
<1> DEFINE left == collateralOf[a] - amount
           indebted == borrowScaled[a] > 0
<1>1. amount > 0 /\ left >= 0 /\ ExitAllowed(a, left, data, value, Accrued)
  BY DEF WithdrawCollateral
<1>2. CASE Panic
  BY <1>2, Reverted DEF Panic
<1>3. CASE ~Panic
  <2>1. /\ Commit(Accrued)
        /\ collateralOf' = [collateralOf EXCEPT ![a] = left]
        /\ IF indebted THEN PriceRefreshed(data) ELSE UNCHANGED prices
        /\ UNCHANGED <<supplierEpoch, supplierShares, borrowScaled, faucet, cash>>
    BY <1>3 DEF WithdrawCollateral
  <2>2. market' = Accrued /\ SupplyKept(Accrued) /\ Accrued \in Market
    BY <2>1, StateTyped DEF Commit, SupplyKept, SuppliersSpared
  <2>3. ReservesStep /\ IndexStep /\ SharesStep
    BY <2>1, <2>2, SuppliersKept
  <2>4. \A b \in Accounts : /\ borrowScaled'[b] = borrowScaled[b]
                            /\ b # a => collateralOf'[b] = collateralOf[b]
                            /\ b = a => collateralOf'[b] = left
    BY <2>1 DEF PoolInv, TypeOK
  <2>5. SeizureStep
    BY <2>4, StateTyped DEF SeizureStep
  <2>6. RiskStep
    <3> SUFFICES ASSUME NEW b \in Accounts,
                        \/ borrowScaled'[b] > borrowScaled[b]
                        \/ borrowScaled'[b] = borrowScaled[b] /\ borrowScaled[b] > 0
                             /\ collateralOf'[b] < collateralOf[b]
                 PROVE  /\ Healthy(borrowScaled'[b], collateralOf'[b], latest'.price, market')
                        /\ now - latest'.publishTime <= PRICE_MAX_AGE
      BY DEF RiskStep
    <3>1. b = a /\ indebted
      BY <2>4, StateTyped
    <3>2. /\ PriceUsable(data, value) /\ latest' = OracleAfter(data)
          /\ Healthy(borrowScaled[a], left, OracleAfter(data).price, Accrued)
      BY <1>1, <2>1, <3>1 DEF ExitAllowed, PriceRefreshed
    <3>3. Healthy(borrowScaled'[b], collateralOf'[b], latest'.price, market')
      BY <2>2, <2>4, <3>1, <3>2
    <3> QED BY <3>2, <3>3 DEF PriceUsable
  <2> QED BY <2>3, <2>5, <2>6 DEF StepPromises
<1> QED BY <1>2, <1>3

LEMMA SupplyPromises ==
    ASSUME PoolInv, NEW a \in Accounts, NEW amount \in Nat, Supply(a, amount, Accrued)
    PROVE  StepPromises
<1> DEFINE m == Accrued
           scaled == MulDiv(amount, WAD, m.supplyIndex)
           grown == [m EXCEPT !.totalSupplyScaled = @ + scaled]
           n == [grown EXCEPT !.totalReserves = @ + amount - (StoredSupply(grown) - StoredSupply(m))]
<1>1. CASE Panic
  BY <1>1, Reverted DEF Panic
<1>2. CASE ~Panic
  <2>1. /\ Commit(n)
        /\ supplierEpoch' = [supplierEpoch EXCEPT ![a] = m.supplyEpoch]
        /\ supplierShares' = [supplierShares EXCEPT ![a] = CarriedShares(a, m) + scaled]
        /\ cash' = cash + amount
        /\ UNCHANGED <<borrowScaled, collateralOf, prices, faucet, hbar>>
    BY <1>2 DEF Supply
  <2> HIDE DEF m
  <2>2. m \in Market /\ m.supplyIndex \in Nat \ {0} /\ m.supplyIndex \in Nat
        /\ m.totalSupplyScaled \in Nat
    BY StateTyped DEF m, Market
  <2>3. /\ m.borrowIndex \in Nat /\ market.borrowIndex \in Nat /\ market.supplyIndex \in Nat
        /\ m.borrowIndex >= market.borrowIndex /\ m.supplyIndex >= market.supplyIndex
        /\ m.supplyEpoch = market.supplyEpoch /\ market.supplyEpoch \in Nat /\ cash \in Nat
    BY StateTyped DEF m, Market, PoolInv, TypeOK
  <2>4. WAD \in Nat \ {0} /\ WAD \in Nat
    BY WadPositive
  <2>5. scaled \in Nat /\ MulDiv(scaled, m.supplyIndex, WAD) <= amount
    <3> DEFINE i == m.supplyIndex
    <3> HIDE DEF i
    <3>1. i \in Nat \ {0} /\ i \in Nat
      BY <2>2 DEF i
    <3>2. scaled \in Nat /\ scaled * i <= amount * WAD
      BY <2>4, <3>1, MulDivNat, MulDivBound DEF i
    <3> HIDE DEF scaled
    <3>3. scaled * i \in Nat /\ amount * WAD \in Nat
      BY <2>4, <3>1, <3>2, ProductNat
    <3>4. scaled * i < amount * WAD + WAD
      BY <2>4, <3>2, <3>3
    <3>5. (scaled * i) \div WAD <= amount
      BY <2>4, <3>3, <3>4, QuotientLeast
    <3> QED BY <3>2, <3>5 DEF MulDiv, i
  <2>6. /\ StoredSupply(grown) >= StoredSupply(m)
        /\ StoredSupply(grown) \in Nat /\ StoredSupply(m) \in Nat
    <3>1. SupplySafe(m, amount, scaled)
      BY <2>2, SuppliedSound
    <3>2. StoredSupply(grown) - StoredSupply(m) \in 0..amount
      BY <3>1 DEF SupplySafe
    <3>3. grown \in Market
      BY <2>2, <2>5 DEF Market
    <3> HIDE DEF grown
    <3>4. StoredSupply(grown) \in Nat /\ StoredSupply(m) \in Nat
      BY <2>2, <3>3, StoredNat
    <3> QED BY <3>2, <3>4
  <2> HIDE DEF scaled
  <2>7. /\ n.supplyIndex = m.supplyIndex /\ n.borrowIndex = m.borrowIndex
        /\ n.supplyEpoch = m.supplyEpoch
        /\ n.totalSupplyScaled = m.totalSupplyScaled + scaled
        /\ grown.supplyIndex = m.supplyIndex
        /\ grown.totalSupplyScaled = m.totalSupplyScaled + scaled
    BY <2>2 DEF Market
  <2> HIDE DEF grown, n
  <2>8. market' = n /\ StoredSupply(n) = StoredSupply(grown)
    BY <2>1, <2>7 DEF Commit, StoredSupply
  <2>9. ReservesStep
    <3>1. StoredSupply(market)' = StoredSupply(grown)
      BY <2>8 DEF StoredSupply
    <3> QED BY <2>6, <3>1 DEF ReservesStep, m
  <2>10. IndexStep
    BY <2>2, <2>3, <2>7, <2>8 DEF IndexStep
  <2>11. SharesStep
    <3> SUFFICES ASSUME NEW b \in Accounts,
                        ActiveShares(b, market)' > ActiveShares(b, market)
                 PROVE  MulDiv(ActiveShares(b, market)' - ActiveShares(b, market),
                               market'.supplyIndex, WAD) <= cash' - cash
      BY DEF SharesStep
    <3>1. b # a => ActiveShares(b, market)' = ActiveShares(b, market)
      BY <2>1, <2>3, <2>7, <2>8 DEF ActiveShares, PoolInv, TypeOK
    <3>2. b = a
      BY <3>1, StateTyped
    <3>3. ActiveShares(a, market)' = CarriedShares(a, m) + scaled
      BY <2>1, <2>3, <2>7, <2>8 DEF ActiveShares, PoolInv, TypeOK
    <3>4. CarriedShares(a, m) = ActiveShares(a, market)
      BY <2>3 DEF CarriedShares, ActiveShares
    <3>5. ActiveShares(a, market)' - ActiveShares(a, market) = scaled
      BY <2>5, <3>3, <3>4, StateTyped
    <3>6. cash' - cash = amount
      BY <2>1, <2>3
    <3> QED BY <2>5, <2>7, <2>8, <3>2, <3>5, <3>6
  <2>12. RiskStep /\ SeizureStep
    BY <2>1, PositionsKept
  <2> QED BY <2>9, <2>10, <2>11, <2>12 DEF StepPromises
<1> QED BY <1>1, <1>2

LEMMA WithdrawSupplyPromises ==
    ASSUME PoolInv, NEW a \in Accounts, NEW amount \in Nat, WithdrawSupply(a, amount, Accrued)
    PROVE  StepPromises
<1> DEFINE m == Accrued
           scaled == IF amount = Claim(a, m) THEN ActiveShares(a, m)
                     ELSE MulDivUp(amount, WAD, m.supplyIndex)
           shrunk == [m EXCEPT !.totalSupplyScaled = @ - scaled]
           n == [shrunk EXCEPT
                   !.totalReserves = @ + (StoredSupply(m) - StoredSupply(shrunk)) - amount]
<1>1. CASE Panic
  BY <1>1, Reverted DEF Panic
<1>2. CASE ~Panic
  <2>1. /\ Commit(n)
        /\ supplierShares' = [supplierShares EXCEPT ![a] = supplierShares[a] - scaled]
        /\ cash' = cash - amount
        /\ UNCHANGED <<supplierEpoch, borrowScaled, collateralOf, prices, faucet, hbar>>
    BY <1>2 DEF WithdrawSupply
  <2>2. Ready(m) /\ amount > 0 /\ Claim(a, m) >= amount
    BY AccruedReady DEF WithdrawSupply
  <2> HIDE DEF m
  <2>3. scaled \in 0..ActiveShares(a, m) /\ ActiveShares(a, m) \in 0..supplierShares[a]
    BY <2>2, WithdrawalShares, SharesBounded
  <2> HIDE DEF scaled
  <2>4. m \in Market /\ m.supplyEpoch = market.supplyEpoch
    BY <2>2 DEF Ready
  <2>5. /\ m.borrowIndex \in Nat /\ market.borrowIndex \in Nat
        /\ m.supplyIndex \in Nat /\ market.supplyIndex \in Nat
        /\ m.borrowIndex >= market.borrowIndex /\ m.supplyIndex >= market.supplyIndex
        /\ supplierShares \in [Accounts -> Nat] /\ cash \in Nat
    BY StateTyped DEF m, Market, PoolInv, TypeOK
  <2>6. /\ n.supplyIndex = m.supplyIndex /\ n.borrowIndex = m.borrowIndex
        /\ n.supplyEpoch = m.supplyEpoch
    BY <2>4 DEF Market
  <2> HIDE DEF n
  <2>7. market' = n
    BY <2>1 DEF Commit
  <2>8. ReservesStep
    BY <2>1, <2>2, <2>5 DEF ReservesStep
  <2>9. IndexStep
    BY <2>4, <2>5, <2>6, <2>7 DEF IndexStep
  <2>10. SharesStep
    <3>1. \A b \in Accounts : supplierShares'[b] <= supplierShares[b] /\ supplierShares'[b] \in Nat
      <4>1. supplierShares[a] \in Nat /\ scaled \in Nat /\ scaled <= supplierShares[a]
        BY <2>3, <2>5
      <4>2. /\ supplierShares'[a] = supplierShares[a] - scaled
            /\ \A b \in Accounts \ {a} : supplierShares'[b] = supplierShares[b]
        BY <2>1, <2>5
      <4> QED BY <2>5, <4>1, <4>2
    <3>2. \A b \in Accounts : ~(ActiveShares(b, market)' > ActiveShares(b, market))
      BY <2>1, <2>4, <2>5, <2>6, <2>7, <3>1 DEF ActiveShares
    <3> QED BY <3>2 DEF SharesStep
  <2>11. RiskStep /\ SeizureStep
    BY <2>1, PositionsKept
  <2> QED BY <2>8, <2>9, <2>10, <2>11 DEF StepPromises
<1> QED BY <1>1, <1>2

LEMMA BorrowPromises ==
    ASSUME PoolInv, NEW a \in Accounts, NEW amount \in Nat, NEW data, NEW value,
           Borrow(a, amount, data, value, Accrued)
    PROVE  StepPromises
<1> DEFINE m == Accrued
           scaled == MulDivUp(amount, WAD, m.borrowIndex)
           n == Borrowed(m, amount, scaled)
<1>1. CASE Panic
  BY <1>1, Reverted DEF Panic
<1>2. CASE ~Panic
  <2>1. /\ Commit(n)
        /\ borrowScaled' = [borrowScaled EXCEPT ![a] = borrowScaled[a] + scaled]
        /\ PriceRefreshed(data)
        /\ UNCHANGED <<supplierEpoch, supplierShares, collateralOf, faucet>>
    BY <1>2 DEF Borrow, Borrowed
  <2>2. /\ PriceUsable(data, value)
        /\ Healthy(borrowScaled[a] + scaled, collateralOf[a], OracleAfter(data).price, m)
    BY DEF Borrow
  <2>3. m \in Market
    BY StateTyped
  <2>4. BorrowSafe(m, amount, scaled)
    <3> HIDE DEF m
    <3> QED BY <2>3, BorrowedSound
  <2>5. /\ scaled \in Nat /\ n \in Market
    BY <2>4 DEF BorrowSafe
  <2>6. /\ n.supplyIndex = m.supplyIndex /\ n.borrowIndex = m.borrowIndex
        /\ n.supplyEpoch = m.supplyEpoch /\ n.totalSupplyScaled = m.totalSupplyScaled
    <3> HIDE DEF m
    <3> QED BY <2>3 DEF Market, Borrowed
  <2> HIDE DEF scaled, n
  <2>7. market' = n
    BY <2>1 DEF Commit
  <2>8. ReservesStep /\ IndexStep /\ SharesStep
    BY <2>1, <2>5, <2>6, <2>7, SuppliersKept DEF SupplyKept, SuppliersSpared
  <2>9. /\ borrowScaled \in [Accounts -> Nat]
        /\ borrowScaled'[a] = borrowScaled[a] + scaled
        /\ \A b \in Accounts \ {a} : borrowScaled'[b] = borrowScaled[b]
        /\ collateralOf' = collateralOf
    BY <2>1 DEF PoolInv, TypeOK
  <2>10. SeizureStep
    BY <2>9, StateTyped DEF SeizureStep
  <2>11. RiskStep
    <3> SUFFICES ASSUME NEW b \in Accounts,
                        \/ borrowScaled'[b] > borrowScaled[b]
                        \/ borrowScaled'[b] = borrowScaled[b] /\ borrowScaled[b] > 0
                             /\ collateralOf'[b] < collateralOf[b]
                 PROVE  /\ Healthy(borrowScaled'[b], collateralOf'[b], latest'.price, market')
                        /\ now - latest'.publishTime <= PRICE_MAX_AGE
      BY DEF RiskStep
    <3>1. b = a
      BY <2>9, StateTyped
    <3>2. latest' = OracleAfter(data)
      BY <2>1 DEF PriceRefreshed
    <3>3. Healthy(borrowScaled'[b], collateralOf'[b], latest'.price, m)
      BY <2>2, <2>9, <3>1, <3>2
    <3>4. \A s : DebtOf(s, market') = DebtOf(s, m)
      BY <2>6, <2>7 DEF DebtOf
    <3>5. Healthy(borrowScaled'[b], collateralOf'[b], latest'.price, market')
      BY <3>3, <3>4 DEF Healthy
    <3> QED BY <2>2, <3>2, <3>5 DEF PriceUsable
  <2> QED BY <2>8, <2>10, <2>11 DEF StepPromises
<1> QED BY <1>1, <1>2

LEMMA RepayPromises ==
    ASSUME PoolInv, NEW a \in Accounts, NEW amount \in Nat, Repay(a, amount, Accrued)
    PROVE  StepPromises
<1> DEFINE m == Accrued
           pay == RepaymentAmount(borrowScaled[a], amount, m)
           burned == BurnedShares(borrowScaled[a], pay, m)
           n == BurnDebt(borrowScaled[a], pay, m)
<1>1. CASE Panic
  BY <1>1, Reverted DEF Panic
<1>2. CASE ~Panic
  <2>1. /\ Commit(n)
        /\ borrowScaled' = [borrowScaled EXCEPT ![a] = borrowScaled[a] - burned]
        /\ UNCHANGED <<supplierEpoch, supplierShares, collateralOf, prices, faucet, hbar>>
    BY <1>2 DEF Repay
  <2>2. Ready(m)
    BY AccruedReady
  <2> HIDE DEF m
  <2>3. m \in Market /\ borrowScaled[a] \in 0..m.totalBorrowScaled /\ borrowScaled[a] \in Nat
    BY <2>2, SharesBounded DEF Ready, Market
  <2>4. pay \in Nat
    BY <2>3, RepaymentNat
  <2> HIDE DEF pay
  <2>5. BurnFits(borrowScaled[a], pay, m)
    BY <2>3, <2>4, BurnAlwaysFits
  <2>6. /\ burned \in 0..borrowScaled[a] /\ n \in Market
        /\ n.supplyIndex = m.supplyIndex /\ n.borrowIndex = m.borrowIndex
        /\ n.supplyEpoch = m.supplyEpoch /\ n.totalSupplyScaled = m.totalSupplyScaled
    BY <2>3, <2>4, <2>5, BurnDebtSound
  <2> HIDE DEF burned, n
  <2>7. market' = n
    BY <2>1 DEF Commit
  <2>8. ReservesStep /\ IndexStep /\ SharesStep
    BY <2>1, <2>6, <2>7, SuppliersKept DEF SupplyKept, SuppliersSpared, m
  <2>9. /\ borrowScaled \in [Accounts -> Nat]
        /\ borrowScaled'[a] = borrowScaled[a] - burned
        /\ \A b \in Accounts \ {a} : borrowScaled'[b] = borrowScaled[b]
        /\ collateralOf' = collateralOf
    BY <2>1 DEF PoolInv, TypeOK
  <2>10. \A b \in Accounts : ~(borrowScaled'[b] > borrowScaled[b]) /\ ~(collateralOf'[b] < collateralOf[b])
    BY <2>3, <2>6, <2>9, StateTyped
  <2> QED BY <2>8, <2>10 DEF StepPromises, RiskStep, SeizureStep
<1> QED BY <1>1, <1>2

LEMMA NoSharesNoDebt ==
    ASSUME NEW m \in Market, NEW collateral, NEW price, Liquidatable(0, collateral, price, m)
    PROVE  FALSE
<1>1. m.borrowIndex \in Nat /\ WAD \in Nat \ {0} /\ USDX_UNIT \in Nat \ {0}
  BY WadPositive, UnitAssumption DEF Market
<1>2. 0 * m.borrowIndex = 0 /\ (0 + WAD - 1) \div WAD = 0
  BY <1>1
<1>3. DebtOf(0, m) = 0
  BY <1>2 DEF DebtOf, MulDivUp
<1>4. 0 * WAD = 0 /\ 0 \div USDX_UNIT = 0
  BY <1>1
<1>5. UsdxValue(0) = 0
  BY <1>4 DEF UsdxValue, MulDiv
<1> QED BY <1>3, <1>5 DEF Liquidatable

LEMMA LiquidatePromises ==
    ASSUME PoolInv, NEW liquidator \in Accounts, NEW a \in Accounts, NEW amount \in Nat,
           NEW data \in UpdateData, NEW value,
           Liquidate(liquidator, a, amount, data, value, Accrued)
    PROVE  StepPromises
<1> DEFINE m == Accrued
           price == OracleAfter(data).price
           shares == borrowScaled[a]
           collateral == collateralOf[a]
           done == Liquidation(shares, collateral, amount, price, m)
           n == done.market
<1>1. CASE \E reason : Revert(reason)
  BY <1>1, Reverted
<1>2. CASE ~\E reason : Revert(reason)
  <2>1. /\ PriceUsable(data, value) /\ Liquidatable(shares, collateral, price, m)
        /\ collateral > 0 => done.pay > 0
        /\ Commit(n)
        /\ borrowScaled' = [borrowScaled EXCEPT ![a] = done.shares]
        /\ collateralOf' = [collateralOf EXCEPT ![a] = collateral - done.seize]
        /\ PriceRefreshed(data)
        /\ cash' = cash + done.pay
        /\ UNCHANGED <<supplierEpoch, supplierShares, faucet>>
    BY <1>2, Zenon DEF Liquidate, Panic
  <2>2. Ready(m)
    BY AccruedReady
  <2>3. Balance(m) <= 0
    BY <2>2, OwedAtMostOwned
  <2>4. /\ m.borrowIndex >= market.borrowIndex /\ m.supplyEpoch = market.supplyEpoch
        /\ m.totalSupplyScaled = market.totalSupplyScaled
        /\ m.borrowIndex \in Nat /\ market.borrowIndex \in Nat
        /\ market.supplyEpoch \in Nat /\ market.totalSupplyScaled \in Nat
    BY StateTyped DEF Market
  <2> HIDE DEF m
  <2>5. /\ m \in Market /\ shares \in 0..m.totalBorrowScaled /\ shares \in Nat
        /\ collateral \in Nat /\ cash \in Nat
        /\ borrowScaled \in [Accounts -> Nat] /\ collateralOf \in [Accounts -> Nat]
    BY <2>2, SharesBounded DEF Ready, Market, PoolInv, TypeOK
  <2>6. price \in Nat \ {0}
    BY <2>1, OracleTyped DEF PriceUsable, Quote
  <2>7. shares # 0 /\ collateral > 0
    <3>1. shares # 0
      BY <2>1, <2>5, NoSharesNoDebt
    <3> QED BY <2>5, <3>1 DEF PoolInv, NoUnsecuredDebt
  <2> HIDE DEF price
  <2>8. LiquidationSafe(shares, collateral, amount, price, m)
    BY <2>3, <2>5, <2>6, LiquidationSound
  <2>9. LiquidationFair(shares, collateral, amount, price, m)
    BY <2>3, <2>5, <2>6, <2>7, LiquidationIsFair
  <2>10. /\ done.pay \in Nat /\ done.seize \in 0..collateral /\ done.shares \in 0..shares
         /\ n \in Market
         /\ \/ n.supplyEpoch = m.supplyEpoch
            \/ n.supplyEpoch = m.supplyEpoch + 1
    BY <2>8 DEF LiquidationSafe
  <2>11. /\ done.shares # shares
         /\ n.borrowIndex = m.borrowIndex
         /\ HbarValue(done.seize, price)
              <= MulDiv(UsdxValue(done.pay), WAD + LIQUIDATION_BONUS, WAD)
         /\ \/ SuppliersSpared(n, m)
            \/ ReservesSpent(n, m) /\ done.shares = 0 /\ done.seize = collateral
    BY <2>1, <2>7, <2>9 DEF LiquidationFair
  <2> HIDE DEF done, n
  <2>12. market' = n /\ latest' = OracleAfter(data) /\ latest'.price = price
    BY <2>1 DEF Commit, PriceRefreshed, price
  <2>13. /\ borrowScaled'[a] = done.shares /\ collateralOf'[a] = collateral - done.seize
         /\ \A b \in Accounts \ {a} : /\ borrowScaled'[b] = borrowScaled[b]
                                      /\ collateralOf'[b] = collateralOf[b]
    BY <2>1, <2>5
  <2>14. borrowScaled'[a] < shares
    BY <2>5, <2>10, <2>11, <2>13
  <2>15. RiskStep
    <3>1. \A b \in Accounts : ~(borrowScaled'[b] > borrowScaled[b])
                              /\ (borrowScaled'[b] = borrowScaled[b] => b # a)
      BY <2>5, <2>10, <2>13, <2>14, StateTyped
    <3>2. \A b \in Accounts : b # a => ~(collateralOf'[b] < collateralOf[b])
      BY <2>13, StateTyped
    <3> QED BY <3>1, <3>2 DEF RiskStep
  <2>16. SeizureStep
    <3> SUFFICES ASSUME NEW b \in Accounts,
                        collateralOf'[b] < collateralOf[b], borrowScaled'[b] < borrowScaled[b]
                 PROVE  /\ Liquidatable(borrowScaled[b], collateralOf[b], latest'.price, Accrued)
                        /\ HbarValue(collateralOf[b] - collateralOf'[b], latest'.price)
                             <= MulDiv(UsdxValue(cash' - cash), WAD + LIQUIDATION_BONUS, WAD)
      BY DEF SeizureStep
    <3>1. b = a
      BY <2>13, StateTyped
    <3>2. collateralOf[a] - collateralOf'[a] = done.seize /\ cash' - cash = done.pay
      BY <2>1, <2>5, <2>10, <2>13
    <3> QED BY <2>1, <2>11, <2>12, <3>1, <3>2 DEF m
  <2>17. CASE SuppliersSpared(n, m)
    <3>1. ReservesStep /\ IndexStep /\ SharesStep
      BY <2>1, <2>10, <2>11, <2>12, <2>17, SuppliersKept DEF SupplyKept, m
    <3> QED BY <2>15, <2>16, <3>1 DEF StepPromises
  <2>18. CASE ReservesSpent(n, m) /\ done.shares = 0 /\ done.seize = collateral
    <3>1. ReservesStep
      BY <2>4, <2>12, <2>18 DEF ReservesStep, ReservesSpent
    <3>2. borrowScaled'[a] = 0 /\ collateralOf'[a] = 0 /\ borrowScaled[a] > 0 /\ collateralOf[a] > 0
      BY <2>5, <2>7, <2>13, <2>18
    <3>3. IndexStep
      BY <2>4, <2>11, <2>12, <3>2 DEF IndexStep
    <3>4. SharesStep
      <4>1. \A b \in Accounts : supplierEpoch[b] \in Nat /\ supplierEpoch[b] <= market.supplyEpoch
        BY DEF PoolInv, TypeOK, EpochsBegun
      <4>2. \A b \in Accounts : ActiveShares(b, market)' \in {0, ActiveShares(b, market)}
        BY <2>1, <2>4, <2>10, <2>12, <4>1 DEF ActiveShares
      <4> QED BY <4>2, StateTyped DEF SharesStep
    <3> QED BY <2>15, <2>16, <3>1, <3>3, <3>4 DEF StepPromises
  <2> QED BY <2>11, <2>17, <2>18
<1> QED BY <1>1, <1>2

(* The faucet, the admin, the oracle and the clock move no position, no    *)
(* share and no index.                                                     *)
LEMMA OutsidePromises ==
    ASSUME PoolInv,
           \/ \E a \in Accounts : ClaimFaucet(a)
           \/ \E data \in UpdateData, value \in Values : UpdatePrice(data, value)
           \/ \E amount \in Fundings : FundFaucet(amount)
           \/ \E enabled \in BOOLEAN : SetFaucetEnabled(enabled)
           \/ \E amount \in Gifts : Donate(amount) \/ Receive(amount)
           \/ \E data \in UpdateData : PushOracle(data)
           \/ Tick
           \/ UNCHANGED vars
    PROVE  StepPromises
<1>1. UNCHANGED <<market, positions>>
  BY DEF ClaimFaucet, Revert, UpdatePrice, FundFaucet, SetFaucetEnabled, Donate, Receive,
         PushOracle, Tick, vars
<1> QED BY <1>1, NothingMoved

LEMMA StepKeepsPromises == PoolInv /\ [Next]_vars => StepPromises
<1> SUFFICES ASSUME PoolInv, [Next]_vars PROVE StepPromises
  OBVIOUS
<1>1. Amounts \subseteq Nat /\ HbarAmounts \subseteq Nat
  BY InputAssumption
<1>2. ASSUME NEW a \in Accounts, CashCall(a, Accrued) PROVE StepPromises
  BY <1>1, <1>2, SupplyPromises, WithdrawSupplyPromises, RepayPromises, DepositPromises,
     OutsidePromises DEF CashCall
<1>3. ASSUME NEW a \in Accounts, NEW data \in UpdateData, NEW value \in Values,
             PriceCall(a, data, value, Accrued)
      PROVE  StepPromises
  BY <1>1, <1>3, WithdrawCollateralPromises, BorrowPromises, LiquidatePromises DEF PriceCall
<1>4. CASE MarketCall(Accrued)
  BY <1>2, <1>3, <1>4, AccruePromises DEF MarketCall
<1> QED BY <1>4, OutsidePromises DEF Next

-------------------------------------------------------------------------------
(* Liquidation is open.                                                    *)

(* What is paid is worth at least the smallest amount of USDX.             *)
LEMMA UsdxGrows ==
    ASSUME NEW pay \in Nat \ {0}
    PROVE  UsdxValue(1) \in Nat /\ UsdxValue(1) <= UsdxValue(pay)
<1>1. WAD \in Nat /\ USDX_UNIT \in Nat \ {0} /\ pay \in Nat /\ 1 <= pay
  BY UnitAssumption
<1> DEFINE k == (1 * WAD) \div USDX_UNIT
<1>2. k \in Nat /\ k * USDX_UNIT <= 1 * WAD
  BY <1>1, Quotient
<1>3. 1 * WAD <= pay * WAD /\ pay * WAD \in Nat
  BY <1>1, ProductMonotone, ProductNat
<1> HIDE DEF k
<1>4. k * USDX_UNIT <= pay * WAD
  <2>1. k * USDX_UNIT \in Nat
    BY <1>1, <1>2, ProductNat
  <2> QED BY <1>1, <1>2, <1>3, <2>1
<1>5. k <= (pay * WAD) \div USDX_UNIT
  BY <1>1, <1>2, <1>3, <1>4, QuotientGreatest
<1> QED BY <1>2, <1>5 DEF UsdxValue, MulDiv, k

(* With the bonus, it buys a tinybar that costs no more than that.         *)
LEMMA BuysTinybar ==
    ASSUME NEW pay \in Nat \ {0}, NEW price \in Nat \ {0}, price <= UsdxValue(1) * HBAR_UNIT
    PROVE  HbarFromUsd(MulDiv(UsdxValue(pay), WAD + LIQUIDATION_BONUS, WAD), price) >= 1
<1> DEFINE v == UsdxValue(pay)
           one == UsdxValue(1)
           usd == MulDiv(v, WAD + LIQUIDATION_BONUS, WAD)
<1>1. /\ WAD \in Nat \ {0} /\ WAD + LIQUIDATION_BONUS \in Nat /\ WAD <= WAD + LIQUIDATION_BONUS
      /\ WAD \in Nat /\ HBAR_UNIT \in Nat
  BY UnitAssumption, RateAssumption
<1>2. v \in Nat /\ one \in Nat /\ one <= v
  BY UsdxGrows, PricingNat
<1> HIDE DEF v, one
<1>3. v * WAD <= v * (WAD + LIQUIDATION_BONUS) /\ v * (WAD + LIQUIDATION_BONUS) \in Nat
  <2> DEFINE w == WAD + LIQUIDATION_BONUS
  <2>1. w \in Nat /\ WAD <= w
    BY <1>1
  <2> HIDE DEF w
  <2>2. WAD * v <= w * v
    BY <1>1, <1>2, <2>1, ProductMonotone
  <2>3. WAD * v = v * WAD /\ w * v = v * w
    BY <1>1, <1>2, <2>1
  <2>4. v * w \in Nat
    BY <1>2, <2>1, ProductNat
  <2> QED BY <2>2, <2>3, <2>4 DEF w
<1>4. usd \in Nat /\ v <= usd
  BY <1>1, <1>2, <1>3, QuotientGreatest, Quotient DEF MulDiv
<1> HIDE DEF usd
<1>5. one * HBAR_UNIT <= usd * HBAR_UNIT /\ usd * HBAR_UNIT \in Nat /\ one * HBAR_UNIT \in Nat
  BY <1>1, <1>2, <1>4, ProductMonotone, ProductNat
<1>6. 1 * price <= usd * HBAR_UNIT
  BY <1>5 DEF one
<1>7. 1 <= (usd * HBAR_UNIT) \div price
  BY <1>5, <1>6, QuotientGreatest
<1> QED BY <1>7 DEF HbarFromUsd, MulDiv, usd, v

(* A quote for the whole debt pays something and seizes something.         *)
LEMMA QuoteIsOpen ==
    ASSUME NEW m \in Market, NEW shares \in Nat, NEW collateral \in Nat \ {0},
           NEW price \in Nat \ {0}, price <= UsdxValue(1) * HBAR_UNIT, DebtOf(shares, m) # 0
    PROVE  LET quote == PreviewLiquidation(shares, collateral, DebtOf(shares, m), price, m)
           IN  quote.pay > 0 /\ quote.seize > 0
<1> DEFINE debt == DebtOf(shares, m)
           usd == MulDiv(UsdxValue(debt), WAD + LIQUIDATION_BONUS, WAD)
           all == CollateralPay(collateral, price)
           quote == PreviewLiquidation(shares, collateral, debt, price, m)
<1>1. debt \in Nat /\ debt # 0
  BY DebtNat
<1>2. WAD + LIQUIDATION_BONUS \in Nat \ {0} /\ WAD \in Nat \ {0} /\ USDX_UNIT \in Nat
  BY UnitAssumption, RateAssumption
<1>3. HbarFromUsd(usd, price) \in Nat /\ HbarFromUsd(usd, price) >= 1
  <2> HIDE DEF debt
  <2>1. UsdxValue(debt) \in Nat
    BY <1>1, PricingNat
  <2>2. usd \in Nat
    BY <1>2, <2>1, MulDivNat
  <2> QED BY <1>1, <2>2, PricingNat, BuysTinybar
<1>4. all \in Nat /\ all >= 1
  <2>1. HbarValue(collateral, price) \in Nat
    BY PricingNat
  <2>2. MulDivUp(HbarValue(collateral, price), USDX_UNIT, WAD + LIQUIDATION_BONUS) \in Nat
    BY <1>2, <2>1, MulDivNat
  <2> QED BY <2>2 DEF CollateralPay, Greatest
<1>5. Least(debt, debt) = debt /\ RepaymentAmount(shares, debt, m) = debt
  BY <1>1 DEF Least, RepaymentAmount
<1> HIDE DEF all
<1>6. quote = IF debt >= all THEN [pay |-> all, seize |-> collateral]
              ELSE [pay |-> debt, seize |-> Least(HbarFromUsd(usd, price), collateral)]
  BY <1>1, <1>5 DEF PreviewLiquidation, all
<1> HIDE DEF quote, usd, debt
<1>7. quote.pay > 0 /\ quote.seize > 0
  BY <1>1, <1>3, <1>4, <1>6 DEF Least
<1> QED BY <1>7 DEF quote, debt

-------------------------------------------------------------------------------
(* The theorems.                                                           *)

(* A liquidatable position can be liquidated, however the quote rounds.    *)
THEOREM LiquidationIsOpen == Spec => []LiquidationOpen
<1>1. ASSUME PoolInv PROVE LiquidationOpen
  <2> SUFFICES ASSUME NEW a \in Accounts, PriceUsable(NoData, 0),
                      oracle.price <= UsdxValue(1) * HBAR_UNIT,
                      Liquidatable(borrowScaled[a], collateralOf[a], oracle.price, Accrued)
               PROVE  LET quote == PreviewLiquidation(borrowScaled[a], collateralOf[a],
                                     DebtOf(borrowScaled[a], Accrued), oracle.price, Accrued)
                      IN  quote.pay > 0 /\ quote.seize > 0
    BY DEF LiquidationOpen
  <2>1. Accrued \in Market
    BY <1>1, AccruedReady DEF Ready
  <2>2. borrowScaled[a] \in Nat /\ collateralOf[a] \in Nat /\ oracle.price \in Nat \ {0}
    <3>1. oracle.price \in Nat /\ oracle.publishTime \in Nat
      BY <1>1 DEF PoolInv, TypeOK, Quote
    <3>2. OracleAfter(NoData) = oracle
      BY <3>1 DEF OracleAfter, NoData
    <3>3. oracle.price > 0
      BY <3>2 DEF PriceUsable
    <3>4. borrowScaled[a] \in Nat /\ collateralOf[a] \in Nat
      BY <1>1 DEF PoolInv, TypeOK
    <3> QED BY <3>1, <3>3, <3>4
  <2>3. DebtOf(borrowScaled[a], Accrued) \in Nat /\ DebtOf(borrowScaled[a], Accrued) # 0
    <3>1. UsdxValue(0) = 0
      <4>1. 0 * WAD = 0 /\ 0 \div USDX_UNIT = 0
        BY UnitAssumption
      <4> QED BY <4>1 DEF UsdxValue, MulDiv
    <3> QED BY <2>1, <2>2, <3>1, DebtNat DEF Liquidatable
  <2>4. borrowScaled[a] > 0
    <3>1. borrowScaled[a] # 0
      BY <2>1, NoSharesNoDebt
    <3> QED BY <2>2, <3>1
  <2>5. collateralOf[a] # 0
    BY <1>1, <2>2, <2>4 DEF PoolInv, NoUnsecuredDebt
  <2> QED BY <2>1, <2>2, <2>3, <2>5, QuoteIsOpen
<1> QED BY <1>1, PoolInvariant, PTL

(* Whoever adds debt, or takes collateral from under a debt that stays,    *)
(* is healthy afterwards, at a fresh price and with interest accrued.      *)
THEOREM RiskIsHealthy == Spec => RiskOnlyWhenHealthy
<1>1. PoolInv /\ [Next]_vars => [RiskStep]_vars
  BY StepKeepsPromises DEF StepPromises
<1> QED BY <1>1, PoolInvariant, PTL DEF Spec, RiskOnlyWhenHealthy

(* Nobody loses collateral to a liquidation unless liquidatable, nor more  *)
(* than the payment and its bonus are worth, however the divisions round.  *)
THEOREM SeizuresArePaidFor == Spec => SeizureIsPaidFor
<1>1. PoolInv /\ [Next]_vars => [SeizureStep]_vars
  BY StepKeepsPromises DEF StepPromises
<1> QED BY <1>1, PoolInvariant, PTL DEF Spec, SeizureIsPaidFor

(* Suppliers pay for a bad debt only what the reserves could not.          *)
THEOREM ReservesGoFirst == Spec => ReservesAbsorbFirst
<1>1. PoolInv /\ [Next]_vars => [ReservesStep]_vars
  BY StepKeepsPromises DEF StepPromises
<1> QED BY <1>1, PoolInvariant, PTL DEF Spec, ReservesAbsorbFirst

(* Debt never shrinks by itself; suppliers are charged only in the step    *)
(* that takes the last collateral of a debtor and clears its debt.         *)
THEOREM IndexesFallInWriteOffs == Spec => IndexesOnlyFallInWriteOff
<1>1. PoolInv /\ [Next]_vars => [IndexStep]_vars
  BY StepKeepsPromises DEF StepPromises
<1> QED BY <1>1, PoolInvariant, PTL DEF Spec, IndexesOnlyFallInWriteOff

(* No supplier's live shares grow without a payment worth as much.         *)
THEOREM SharesAreBought == Spec => SharesArePaidFor
<1>1. PoolInv /\ [Next]_vars => [SharesStep]_vars
  BY StepKeepsPromises DEF StepPromises
<1> QED BY <1>1, PoolInvariant, PTL DEF Spec, SharesArePaidFor

===============================================================================
