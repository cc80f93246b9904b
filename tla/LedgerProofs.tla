---------------------------- MODULE LedgerProofs ----------------------------
(***************************************************************************)
(* Facts about totals, transfers, positions and the arithmetic of the      *)
(* accumulator that the proofs about projects and about pools share.       *)
(***************************************************************************)
EXTENDS Ledger, FiniteSetTheorems, WellFoundedInduction, TLAPS

(***************************************************************************)
(* Totals                                                                  *)
(*                                                                         *)
(* Facts about SumFunction (community module Functions) for functions from *)
(* a finite set to the naturals.  The balances, positions and claims of    *)
(* the program are such functions of the wallets, and every accounting     *)
(* invariant speaks of their totals.                                       *)
(*                                                                         *)
(* SumFunction is a fold, and induction over its definition needs          *)
(* second-order theorems.  The lemmas below avoid it: Units(f, s) is a set *)
(* with one element for every unit that f assigns to a member of s, its    *)
(* cardinality satisfies the equation of the fold (UnitsSplit), and a      *)
(* least counterexample (WFMin) shows the fold equals it.                  *)
(***************************************************************************)
\* One element <<i, k>> for every k-th unit that f assigns to i.
Units(f, s) == {u \in s \X Nat : 1 <= u[2] /\ u[2] <= f[u[1]]}

\* The right-hand side of the recursive function inside MapThenFoldSet.
FoldStep(f, I, g) ==
  [s \in SUBSET I |->
     IF s = {} THEN 0
     ELSE f[CHOOSE x \in s : TRUE] + g[s \ {CHOOSE x \in s : TRUE}]]

Fold(f, I) == CHOOSE g : g = FoldStep(f, I, g)

\* Every nonempty family of subsets of a finite set has a minimal member.
LEMMA MinimalSubset ==
  ASSUME NEW I, IsFiniteSet(I), NEW T, T \subseteq SUBSET I, T # {}
  PROVE  \E s \in T : \A r \in T : r \subseteq s => r = s
<1>1. IsWellFoundedOn(StrictSubsetOrdering(I), FiniteSubsetsOf(I))
  BY FS_StrictSubsetOrderingWellFounded
<1>2. T \subseteq FiniteSubsetsOf(I)
  BY FS_FiniteSubsetsOfFinite
<1>3. PICK s \in T : \A r \in T : ~ (<<r, s>> \in StrictSubsetOrdering(I))
  BY <1>1, <1>2, WFMin
<1>4. ASSUME NEW r \in T, r \subseteq s PROVE r = s
  BY <1>3, <1>4 DEF StrictSubsetOrdering
<1> QED BY <1>4

\* The units of finitely many members are finitely many.
LEMMA UnitsFinite ==
  ASSUME NEW I, IsFiniteSet(I), NEW f \in [I -> Nat], NEW s \in SUBSET I
  PROVE  IsFiniteSet(Units(f, s))
<1> DEFINE Col(i) == {i} \X (1 .. f[i])
           g == [i \in s |-> Col(i)]
           C == {Col(i) : i \in s}
<1>1. IsFiniteSet(s)
  BY FS_Subset
<1>2. g \in Surjection(s, C)
  BY DEF Surjection
<1>3. IsFiniteSet(C)
  BY <1>1, <1>2, FS_Surjection
<1>4. ASSUME NEW c \in C PROVE IsFiniteSet(c)
  <2>1. PICK i \in s : c = Col(i)
    OBVIOUS
  <2>2. IsFiniteSet({i})
    BY FS_Singleton
  <2>3. IsFiniteSet(1 .. f[i])
    <3>1. f[i] \in Int
      OBVIOUS
    <3> QED BY <3>1, FS_Interval
  <2> QED BY <2>1, <2>2, <2>3, FS_Product
<1>5. IsFiniteSet(UNION C)
  BY <1>3, <1>4, FS_UNION
<1>6. Units(f, s) \subseteq UNION C
  BY DEF Units
<1> QED BY <1>5, <1>6, FS_Subset

\* Taking out one member takes out its units: the equation of the fold.
LEMMA UnitsSplit ==
  ASSUME NEW I, IsFiniteSet(I), NEW f \in [I -> Nat], NEW s \in SUBSET I,
         NEW x \in s
  PROVE  Cardinality(Units(f, s)) = f[x] + Cardinality(Units(f, s \ {x}))
<1> DEFINE Col == {x} \X (1 .. f[x])
           Rest == Units(f, s \ {x})
<1>1. IsFiniteSet(Rest) /\ Cardinality(Rest) \in Nat
  BY UnitsFinite, FS_CardinalityType
<1>2. IsFiniteSet({x}) /\ Cardinality({x}) = 1
  BY FS_Singleton
<1>3. IsFiniteSet(1 .. f[x]) /\ Cardinality(1 .. f[x]) = f[x]
  <2>1. f[x] \in Nat
    OBVIOUS
  <2>2. /\ IsFiniteSet(1 .. f[x])
        /\ Cardinality(1 .. f[x]) = IF 1 > f[x] THEN 0 ELSE f[x] - 1 + 1
    BY <2>1, FS_Interval
  <2> QED BY <2>1, <2>2
<1>4. IsFiniteSet(Col) /\ Cardinality(Col) = 1 * f[x]
  BY <1>2, <1>3, FS_Product
<1>5. Units(f, s) = Col \cup Rest /\ Col \cap Rest = {}
  BY DEF Units
<1> HIDE DEF Col, Rest
<1>6. Cardinality(Col \cup Rest) =
        Cardinality(Col) + Cardinality(Rest) - Cardinality(Col \cap Rest)
  BY <1>1, <1>4, FS_Union
<1>7. f[x] \in Nat
  OBVIOUS
<1>8. Cardinality(Col \cap Rest) = 0
  BY <1>5, FS_EmptySet
<1>9. Cardinality(Units(f, s)) = Cardinality(Col \cup Rest)
  BY <1>5
<1> DEFINE c == Cardinality(Col)
           d == Cardinality(Rest)
           e == Cardinality(Col \cap Rest)
<1>10. c \in Nat /\ d \in Nat /\ c = f[x] /\ e = 0
  BY <1>1, <1>4, <1>7, <1>8
<1>11. Cardinality(Units(f, s)) = c + d - e
  BY <1>6, <1>9
<1> HIDE DEF c, d, e
<1>12. Cardinality(Units(f, s)) = f[x] + d
  BY <1>7, <1>10, <1>11
<1> QED BY <1>12 DEF Rest, d

LEMMA UnitsEmpty ==
  ASSUME NEW f PROVE Cardinality(Units(f, {})) = 0
<1>1. Units(f, {}) = {}
  BY DEF Units
<1> QED BY <1>1, FS_EmptySet

LEMMA SumIsFold ==
  ASSUME NEW I, NEW f \in [I -> Nat]
  PROVE  SumFunction(f) = Fold(f, I)[I]
BY DEF SumFunction, SumFunctionOnSet, FoldFunctionOnSet, MapThenFoldSet,
       FoldStep, Fold

\* SumFunction counts units.
LEMMA SumIsUnits ==
  ASSUME NEW I, IsFiniteSet(I), NEW f \in [I -> Nat]
  PROVE  SumFunction(f) = Cardinality(Units(f, I))
<1> DEFINE h == [s \in SUBSET I |-> Cardinality(Units(f, s))]
           g == Fold(f, I)
           Bad == {s \in SUBSET I : g[s] # h[s]}
           pick(s) == CHOOSE x \in s : TRUE
<1>1. h = FoldStep(f, I, h)
  <2>1. ASSUME NEW s \in SUBSET I, s # {}
        PROVE  h[s] = f[pick(s)] + h[s \ {pick(s)}]
    <3>1. pick(s) \in s /\ s \ {pick(s)} \in SUBSET I
      BY <2>1
    <3> HIDE DEF pick
    <3> QED BY <3>1, UnitsSplit
  <2>2. h[{}] = 0
    BY UnitsEmpty
  <2> QED BY <2>1, <2>2 DEF FoldStep
<1> HIDE DEF h
<1>2. g = FoldStep(f, I, g)
  BY <1>1 DEF Fold
<1> HIDE DEF g
<1>3. Bad = {}
  <2> SUFFICES ASSUME Bad # {} PROVE FALSE
    OBVIOUS
  <2>1. PICK s \in Bad : \A r \in Bad : r \subseteq s => r = s
    <3>1. Bad \subseteq SUBSET I
      OBVIOUS
    <3> HIDE DEF Bad
    <3> QED BY <3>1, MinimalSubset
  <2>2. CASE s = {}
    <3>1. g[s] = 0 /\ h[s] = 0
      BY <1>1, <1>2, <2>2 DEF FoldStep
    <3> QED BY <3>1, <2>1
  <2>3. CASE s # {}
    <3>1. pick(s) \in s
      BY <2>3
    <3>2. s \ {pick(s)} \in SUBSET I /\ s \ {pick(s)} # s
          /\ s \ {pick(s)} \subseteq s
      BY <3>1
    <3>3. g[s \ {pick(s)}] = h[s \ {pick(s)}]
      BY <2>1, <3>2
    <3>4. g[s] = f[pick(s)] + g[s \ {pick(s)}]
      BY <1>2, <2>3 DEF FoldStep
    <3>5. h[s] = f[pick(s)] + h[s \ {pick(s)}]
      BY <1>1, <2>3 DEF FoldStep
    <3> QED BY <2>1, <3>3, <3>4, <3>5
  <2> QED BY <2>2, <2>3
<1>4. g[I] = h[I]
  BY <1>3
<1> QED BY <1>4, SumIsFold DEF h, g

(***************************************************************************)
(* The lemmas the accounting proofs cite.                                  *)
(***************************************************************************)

\* The sum of naturals over a finite set is a natural.
LEMMA SumType ==
  ASSUME NEW I, IsFiniteSet(I), NEW f \in [I -> Nat]
  PROVE  SumFunction(f) \in Nat
BY SumIsUnits, UnitsFinite, FS_CardinalityType

\* Changing one value changes the sum by the difference.
LEMMA SumUpdate ==
  ASSUME NEW I, IsFiniteSet(I), NEW f \in [I -> Nat], NEW i \in I, NEW v \in Nat
  PROVE  SumFunction([f EXCEPT ![i] = v]) = SumFunction(f) + v - f[i]
<1> DEFINE f2 == [f EXCEPT ![i] = v]
           rest == Cardinality(Units(f, I \ {i}))
<1>1. f2 \in [I -> Nat] /\ f2[i] = v /\ f[i] \in Nat
  OBVIOUS
<1>2. Units(f2, I \ {i}) = Units(f, I \ {i})
  BY DEF Units
<1>3. rest \in Nat
  BY UnitsFinite, FS_CardinalityType
<1> HIDE DEF f2
<1>4. SumFunction(f2) = f2[i] + Cardinality(Units(f2, I \ {i}))
  BY <1>1, SumIsUnits, UnitsSplit
<1>5. SumFunction(f) = f[i] + rest
  BY SumIsUnits, UnitsSplit
<1> HIDE DEF rest
<1>6. SumFunction(f2) = SumFunction(f) + v - f[i]
  BY <1>1, <1>2, <1>3, <1>4, <1>5 DEF rest
<1> QED BY <1>6 DEF f2

\* One value never exceeds the sum.
LEMMA SumMember ==
  ASSUME NEW I, IsFiniteSet(I), NEW f \in [I -> Nat], NEW i \in I
  PROVE  f[i] <= SumFunction(f)
<1>1. Cardinality(Units(f, I \ {i})) \in Nat
  BY UnitsFinite, FS_CardinalityType
<1>2. SumFunction(f) = f[i] + Cardinality(Units(f, I \ {i}))
  BY SumIsUnits, UnitsSplit
<1>3. f[i] \in Nat
  OBVIOUS
<1> QED BY <1>1, <1>2, <1>3

\* The all-zero function sums to zero.
LEMMA SumZero ==
  ASSUME NEW I, IsFiniteSet(I), NEW f \in [I -> Nat], \A i \in I : f[i] = 0
  PROVE  SumFunction(f) = 0
<1>1. Units(f, I) = {}
  BY DEF Units
<1> QED BY <1>1, SumIsUnits, FS_EmptySet

\* A comparison of two scaled functions, value by value, carries over to
\* their sums.
LEMMA SumScaledLeq ==
  ASSUME NEW I, IsFiniteSet(I), NEW f \in [I -> Nat], NEW g \in [I -> Nat],
         NEW a \in Nat, NEW b \in Nat, \A i \in I : a * f[i] <= b * g[i]
  PROVE  a * SumFunction(f) <= b * SumFunction(g)
<1> DEFINE F(s) == Cardinality(Units(f, s))
           G(s) == Cardinality(Units(g, s))
           Bad  == {s \in SUBSET I : ~ (a * F(s) <= b * G(s))}
<1>1. ASSUME NEW s \in SUBSET I PROVE F(s) \in Nat /\ G(s) \in Nat
  BY UnitsFinite, FS_CardinalityType
<1>2. Bad = {}
  <2> SUFFICES ASSUME Bad # {} PROVE FALSE
    OBVIOUS
  <2>1. PICK s \in Bad : \A r \in Bad : r \subseteq s => r = s
    <3>1. Bad \subseteq SUBSET I
      OBVIOUS
    <3> HIDE DEF Bad
    <3> QED BY <3>1, MinimalSubset
  <2>2. s # {}
    <3>1. F({}) = 0 /\ G({}) = 0
      BY UnitsEmpty
    <3>2. a * F({}) <= b * G({})
      BY <3>1
    <3> QED BY <3>2
  <2>3. PICK x \in s : TRUE
    BY <2>2
  <2> DEFINE r == s \ {x}
  <2>4. r \in SUBSET I /\ r \subseteq s /\ r # s /\ x \in I
    OBVIOUS
  <2>5. a * F(r) <= b * G(r)
    BY <2>1, <2>4
  <2>6. F(s) = f[x] + F(r)
    BY UnitsSplit
  <2>7. G(s) = g[x] + G(r)
    BY UnitsSplit
  <2>8. ~ (a * F(s) <= b * G(s))
    BY <2>1
  <2>9. a * f[x] <= b * g[x] /\ f[x] \in Nat /\ g[x] \in Nat
    BY <2>4
  <2>10. F(r) \in Nat /\ G(r) \in Nat
    BY <1>1, <2>4
  <2> HIDE DEF F, G, r
  <2>11. a * (f[x] + F(r)) <= b * (g[x] + G(r))
    BY <2>5, <2>9, <2>10
  <2> QED BY <2>6, <2>7, <2>8, <2>11
<1>3. a * F(I) <= b * G(I)
  BY <1>2
<1> QED BY <1>3, SumIsUnits

\* The sum of a pointwise sum.
LEMMA SumAdd ==
  ASSUME NEW I, IsFiniteSet(I), NEW f \in [I -> Nat], NEW g \in [I -> Nat],
         NEW h \in [I -> Nat], \A i \in I : h[i] = f[i] + g[i]
  PROVE  SumFunction(h) = SumFunction(f) + SumFunction(g)
<1> DEFINE F(s) == Cardinality(Units(f, s))
           G(s) == Cardinality(Units(g, s))
           H(s) == Cardinality(Units(h, s))
           Bad  == {s \in SUBSET I : H(s) # F(s) + G(s)}
<1>1. ASSUME NEW s \in SUBSET I PROVE F(s) \in Nat /\ G(s) \in Nat /\ H(s) \in Nat
  BY UnitsFinite, FS_CardinalityType
<1>2. Bad = {}
  <2> SUFFICES ASSUME Bad # {} PROVE FALSE
    OBVIOUS
  <2>1. PICK s \in Bad : \A r \in Bad : r \subseteq s => r = s
    <3>1. Bad \subseteq SUBSET I
      OBVIOUS
    <3> HIDE DEF Bad
    <3> QED BY <3>1, MinimalSubset
  <2>2. s # {}
    <3>1. F({}) = 0 /\ G({}) = 0 /\ H({}) = 0
      BY UnitsEmpty
    <3>2. H({}) = F({}) + G({})
      BY <3>1
    <3> QED BY <3>2
  <2>3. PICK x \in s : TRUE
    BY <2>2
  <2> DEFINE r == s \ {x}
  <2>4. r \in SUBSET I /\ r \subseteq s /\ r # s /\ x \in I
    OBVIOUS
  <2>5. H(r) = F(r) + G(r)
    BY <2>1, <2>4
  <2>6. F(s) = f[x] + F(r)
    BY UnitsSplit
  <2>7. G(s) = g[x] + G(r)
    BY UnitsSplit
  <2>8. H(s) = h[x] + H(r)
    BY UnitsSplit
  <2>9. H(s) # F(s) + G(s)
    BY <2>1
  <2>10. h[x] = f[x] + g[x] /\ f[x] \in Nat /\ g[x] \in Nat
    BY <2>4
  <2>11. F(r) \in Nat /\ G(r) \in Nat
    BY <1>1, <2>4
  <2> HIDE DEF F, G, H, r
  <2> QED BY <2>5, <2>6, <2>7, <2>8, <2>9, <2>10, <2>11
<1>3. H(I) = F(I) + G(I)
  BY <1>2
<1> QED BY <1>3, SumIsUnits

USE DEF U64, U128

(***************************************************************************)
(* Arithmetic                                                              *)
(***************************************************************************)
LEMMA Division ==
  ASSUME NEW a \in Nat, NEW b \in Nat, b > 0
  PROVE  /\ a \div b \in Nat
         /\ b * (a \div b) <= a
         /\ a < b * (a \div b) + b
OBVIOUS

LEMMA DivisionAdds ==
  ASSUME NEW a \in Nat, NEW b \in Nat, NEW k \in Nat, k > 0
  PROVE  (a + b) \div k >= a \div k + b \div k
OBVIOUS

LEMMA Scale ==
  ASSUME NEW a \in Nat, NEW b \in Nat, NEW k \in Nat, a <= b
  PROVE  a * k <= b * k
OBVIOUS

LEMMA CancelScale ==
  ASSUME NEW a \in Int, NEW b \in Int, NEW k \in Nat, k > 0, k * a <= k * b
  PROVE  a <= b
OBVIOUS

\* A rounded-down increment keeps the accumulator backed.
LEMMA BackedIncrement ==
  ASSUME NEW cum \in Nat, NEW sold \in Nat, sold > 0, NEW total \in Nat,
         NEW amount \in Nat, NEW P \in Nat, cum * sold <= P * total
  PROVE  /\ (amount * P) \div sold \in Nat
         /\ (cum + (amount * P) \div sold) * sold <= P * (total + amount)
<1> DEFINE d == (amount * P) \div sold
<1>1. amount * P \in Nat
  OBVIOUS
<1>2. d \in Nat /\ sold * d <= amount * P
  BY <1>1, Division
<1> HIDE DEF d
<1>3. (cum + d) * sold = cum * sold + sold * d
  BY <1>2
<1>4. P * (total + amount) = P * total + amount * P
  OBVIOUS
<1>5. cum * sold \in Nat /\ sold * d \in Nat /\ P * total \in Nat
  BY <1>2
<1>6. (cum + d) * sold <= P * (total + amount)
  BY <1>1, <1>2, <1>3, <1>4, <1>5
<1> QED BY <1>2, <1>6 DEF d

\* A claim's value in scaled units: what was claimed and what is owed are
\* backed by the tokens held and the accumulator.
LEMMA OwedBacked ==
  ASSUME NEW held \in Nat, NEW last \in Nat, NEW cum \in Nat, last <= cum,
         NEW claimed \in Nat, NEW P \in Nat, P > 0, P * claimed <= held * last
  PROVE  /\ held * (cum - last) \in Nat
         /\ (held * (cum - last)) \div P \in Nat
         /\ P * (claimed + (held * (cum - last)) \div P) <= held * cum
<1> DEFINE d == cum - last
           owed == (held * d) \div P
<1>1. d \in Nat /\ cum = last + d
  OBVIOUS
<1> HIDE DEF d
<1>2. held * d \in Nat
  BY <1>1
<1>3. owed \in Nat /\ P * owed <= held * d
  BY <1>2, Division
<1> HIDE DEF owed
<1>4. P * (claimed + owed) = P * claimed + P * owed
  BY <1>3
<1>5. held * cum = held * last + held * d
  BY <1>1
<1>6. P * claimed \in Nat /\ P * owed \in Nat /\ held * last \in Nat
  BY <1>3
<1>7. P * (claimed + owed) <= held * cum
  BY <1>2, <1>3, <1>4, <1>5, <1>6
<1> QED BY <1>2, <1>3, <1>7 DEF d, owed

\* What a distribution of raise per token adds to what a position is owed.
LEMMA OwedGrows ==
  ASSUME NEW held \in Nat, NEW last \in Nat, NEW cum \in Nat, last <= cum,
         NEW raise \in Nat, NEW P \in Nat, P > 0
  PROVE  (held * ((cum + raise) - last)) \div P
           >= (held * (cum - last)) \div P + (held * raise) \div P
<1> DEFINE d == cum - last
<1>1. d \in Nat /\ (cum + raise) - last = d + raise
  OBVIOUS
<1> HIDE DEF d
<1>2. held * d \in Nat /\ held * raise \in Nat /\ held * (d + raise) = held * d + held * raise
  BY <1>1
<1>3. (held * d + held * raise) \div P >= (held * d) \div P + (held * raise) \div P
  BY <1>2, DivisionAdds
<1> QED BY <1>1, <1>2, <1>3 DEF d

(***************************************************************************)
(* Transfers                                                               *)
(***************************************************************************)
LEMMA TransferType ==
  ASSUME usdc \in [Accounts -> Nat], NEW from \in Accounts, NEW to \in Accounts,
         NEW amount \in Nat, Transfer(from, to, amount)
  PROVE  usdc' \in [Accounts -> Nat]
BY DEF Transfer

LEMMA TransferEffect ==
  ASSUME usdc \in [Accounts -> Nat], NEW from \in Accounts, NEW to \in Accounts,
         NEW amount \in Nat, Transfer(from, to, amount)
  PROVE  /\ usdc'[from] = usdc[from] - amount
         /\ usdc'[to] = usdc[to] + amount
         /\ \A a \in Accounts \ {from, to} : usdc'[a] = usdc[a]
BY DEF Transfer

(***************************************************************************)
(* Positions                                                               *)
(***************************************************************************)
HeldOf(f)    == [i \in Wallets |-> f[i].tokens_held]
ClaimedOf(f) == [i \in Wallets |-> f[i].total_claimed]

LEMMA WalletsFinite == IsFiniteSet(Wallets)
BY LedgerAssumption, FS_Subset

LEMMA AfterBuyType ==
  ASSUME NEW pos \in PositionType, NEW i \in Wallets, NEW cum \in U128,
         NEW amount \in Nat, pos.tokens_held + amount \in U64
  PROVE  AfterBuy(pos, i, cum, amount) \in PositionType
<1>1. Opened(pos, i, cum) \in PositionType
  <2>1. 0 \in U64
    BY WidthAssumption
  <2>2. CASE pos.owner = NoKey
    BY <2>1, <2>2 DEF Opened, PositionType
  <2>3. CASE pos.owner # NoKey
    BY <2>3 DEF Opened
  <2> QED BY <2>2, <2>3
<1>2. Opened(pos, i, cum).tokens_held = pos.tokens_held
  BY DEF Opened, PositionType
<1> QED BY <1>1, <1>2 DEF AfterBuy, PositionType

\* The totals after one position changed.
LEMMA PositionUpdate ==
  ASSUME NEW f \in [Wallets -> PositionType], NEW i \in Wallets,
         NEW np \in PositionType, NEW g, g = [f EXCEPT ![i] = np]
  PROVE  /\ SumFunction(HeldOf(g)) =
              SumFunction(HeldOf(f)) + np.tokens_held - f[i].tokens_held
         /\ SumFunction(ClaimedOf(g)) =
              SumFunction(ClaimedOf(f)) + np.total_claimed - f[i].total_claimed
<1>1. /\ HeldOf(f) \in [Wallets -> Nat] /\ ClaimedOf(f) \in [Wallets -> Nat]
      /\ np.tokens_held \in Nat /\ np.total_claimed \in Nat
  BY WidthAssumption DEF HeldOf, ClaimedOf, PositionType
<1>2. HeldOf(g) = [HeldOf(f) EXCEPT ![i] = np.tokens_held]
  BY DEF HeldOf
<1>3. ClaimedOf(g) = [ClaimedOf(f) EXCEPT ![i] = np.total_claimed]
  BY DEF ClaimedOf
<1>4. HeldOf(f)[i] = f[i].tokens_held /\ ClaimedOf(f)[i] = f[i].total_claimed
  BY DEF HeldOf, ClaimedOf
<1>5. SumFunction([HeldOf(f) EXCEPT ![i] = np.tokens_held]) =
        SumFunction(HeldOf(f)) + np.tokens_held - HeldOf(f)[i]
  BY <1>1, SumUpdate, WalletsFinite
<1>6. SumFunction([ClaimedOf(f) EXCEPT ![i] = np.total_claimed]) =
        SumFunction(ClaimedOf(f)) + np.total_claimed - ClaimedOf(f)[i]
  BY <1>1, SumUpdate, WalletsFinite
<1> QED BY <1>2, <1>3, <1>4, <1>5, <1>6
\* A function of two arguments that differs from another at one place.
LEMMA NestedUpdate ==
  ASSUME NEW S, NEW T, NEW f, NEW g, NEW a \in S, NEW b \in T, NEW v,
         f = [x \in S |-> [y \in T |-> f[x][y]]],
         g = [x \in S |-> [y \in T |-> g[x][y]]],
         \A x \in S, y \in T : ~(x = a /\ y = b) => g[x][y] = f[x][y],
         g[a][b] = v
  PROVE  g = [f EXCEPT ![a][b] = v]
<1> DEFINE h == [f EXCEPT ![a][b] = v]
<1>1. \A x \in S : g[x] = [y \in T |-> g[x][y]] /\ f[x] = [y \in T |-> f[x][y]]
  OBVIOUS
<1>2. \A x \in S \ {a} : h[x] = f[x]
  OBVIOUS
<1>3. h[a] = [f[a] EXCEPT ![b] = v]
  OBVIOUS
<1>4. \A x \in S \ {a} : g[x] = f[x]
  BY <1>1
<1>5. g[a] = [f[a] EXCEPT ![b] = v]
  BY <1>1
<1>6. \A x \in S : g[x] = h[x]
  BY <1>2, <1>3, <1>4, <1>5
<1>7. h = [x \in S |-> h[x]]
  OBVIOUS
<1> HIDE DEF h
<1>8. g = h
  BY <1>6, <1>7
<1> QED BY <1>8 DEF h
=============================================================================
