-------------------------- MODULE YieldVaultProofs --------------------------
(***************************************************************************)
(* What the vault guarantees for every set of depositors, every balance,   *)
(* every amount and every growth per tick.  First come sums over finite    *)
(* sets, which the other programs' proofs use too, then the arithmetic in  *)
(* the lemmas on \div; the theorems follow one action at a time.           *)
(***************************************************************************)
EXTENDS YieldVault, FiniteSets, FiniteSetTheorems, WellFoundedInduction, TLAPS

-----------------------------------------------------------------------------
(***************************************************************************)
(* Sums over finite sets: what the sums of the books (stakes, shares,      *)
(* tickets, weights) obey, whatever the number of users.                   *)
(*                                                                         *)
(* Total(f, S) adds f[x] over the elements of S, one chosen after the      *)
(* other, as MapThenSumSet of the community modules does: a sum of that    *)
(* kind is a Total by unfolding the two definitions, which the proofs      *)
(* that use it do.  The induction is over sets of sets: G holds the sets   *)
(* for which something is shown.                                           *)
(***************************************************************************)
Pick(s) == CHOOSE x \in s : TRUE

\* h adds f over each set of D.
Adds(h, f, D) ==
    h = [s \in D |-> IF s = {} THEN 0 ELSE f[Pick(s)] + h[s \ {Pick(s)}]]

Summed(f, S) == CHOOSE h : Adds(h, f, SUBSET S)

Total(f, S) == Summed(f, S)[S]

-----------------------------------------------------------------------------
LEMMA PickIsMember ==
    ASSUME NEW s, s # {}
    PROVE  Pick(s) \in s
BY DEF Pick

\* Induction over the naturals, for a set of them.
LEMMA NumberInduction ==
    ASSUME NEW N \in SUBSET Nat, 0 \in N, \A n \in N : n + 1 \in N
    PROVE  N = Nat
<1> SUFFICES ASSUME Nat \ N # {}
             PROVE  FALSE
  OBVIOUS
<1> DEFINE Less == OpToRel(<, Nat)
<1>1. PICK x \in Nat \ N : \A y \in Nat \ N : ~(<<y, x>> \in Less)
  BY NatLessThanWellFounded, WFMin
<1> DEFINE LessPairs == {ss \in Nat \X Nat : ss[1] < ss[2]}
<1>2. Less = LessPairs
  BY DEF OpToRel
<1>3. x # 0 /\ x - 1 \in Nat /\ x - 1 < x /\ (x - 1) + 1 = x
  OBVIOUS
<1>4. <<x - 1, x>> \in LessPairs
  BY <1>3
<1>5. x - 1 \in N
  BY <1>1, <1>2, <1>3, <1>4
<1> QED BY <1>3, <1>5

\* Induction over the subsets of a finite set, for a set of them.
LEMMA SetInduction ==
    ASSUME NEW S, IsFiniteSet(S), NEW G,
           {} \in G,
           \A s \in SUBSET S : s # {} => \E x \in s : s \ {x} \in G => s \in G
    PROVE  SUBSET S \subseteq G
<1> DEFINE N == {n \in Nat : \A s \in SUBSET S : Cardinality(s) = n => s \in G}
<1>1. \A s \in SUBSET S : IsFiniteSet(s) /\ Cardinality(s) \in Nat
  BY FS_Subset, FS_CardinalityType
<1>2. 0 \in N
  BY <1>1, FS_EmptySet
<1>3. ASSUME NEW n \in N
      PROVE  n + 1 \in N
  <2> SUFFICES ASSUME NEW s \in SUBSET S, Cardinality(s) = n + 1
               PROVE  s \in G
    OBVIOUS
  <2>1. IsFiniteSet(s) /\ s # {} /\ n \in Nat
    BY <1>1, FS_EmptySet
  <2>2. PICK x \in s : s \ {x} \in G => s \in G
    BY <2>1
  <2>3. Cardinality(s \ {x}) = n
    <3>1. Cardinality(s \ {x}) = Cardinality(s) - 1
      BY <2>1, FS_RemoveElement
    <3> QED BY <2>1, <3>1
  <2>4. s \ {x} \in G
    BY <2>3
  <2> QED BY <2>2, <2>4
<1>4. N = Nat
  <2> HIDE DEF N
  <2>1. N \in SUBSET Nat
    BY DEF N
  <2> QED BY <1>2, <1>3, <2>1, NumberInduction
<1> QED BY <1>1, <1>4

\* There is such a function on the subsets of a finite set: it is extended
\* from those of at most n elements to those of at most n + 1.
LEMMA AddsExists ==
    ASSUME NEW f, NEW S, IsFiniteSet(S)
    PROVE  Adds(Summed(f, S), f, SUBSET S)
<1> DEFINE Upto(n) == {s \in SUBSET S : Cardinality(s) <= n}
           N == {n \in Nat : \E h : Adds(h, f, Upto(n))}
<1>1. \A s \in SUBSET S : /\ IsFiniteSet(s)
                          /\ Cardinality(s) \in Nat /\ Cardinality(s) <= Cardinality(S)
  BY FS_Subset, FS_CardinalityType
<1>2. \A s \in SUBSET S : s # {} =>
          /\ s \ {Pick(s)} \in SUBSET S
          /\ Cardinality(s \ {Pick(s)}) = Cardinality(s) - 1
  BY <1>1, PickIsMember, FS_RemoveElement
<1>3. 0 \in N
  <2> DEFINE h == [s \in Upto(0) |-> 0]
  <2>1. \A s \in Upto(0) : s = {}
    BY <1>1, FS_EmptySet
  <2>2. Adds(h, f, Upto(0))
    BY <2>1 DEF Adds
  <2> QED BY <2>2
<1>4. ASSUME NEW n \in N
      PROVE  n + 1 \in N
  <2>1. n \in Nat
    OBVIOUS
  <2>2. PICK h : Adds(h, f, Upto(n))
    OBVIOUS
  <2> DEFINE body(s) == IF s = {} THEN 0 ELSE f[Pick(s)] + h[s \ {Pick(s)}]
             k == [s \in Upto(n + 1) |-> body(s)]
  <2>3. \A s \in Upto(n) : h[s] = body(s) /\ s \in Upto(n + 1)
    <3>1. h = [s \in Upto(n) |-> body(s)]
      BY <2>2 DEF Adds
    <3>2. \A s \in Upto(n) : s \in Upto(n + 1)
      BY <1>1, <2>1
    <3> HIDE DEF Upto, body
    <3>3. \A s \in Upto(n) : h[s] = body(s)
      BY <3>1
    <3> QED BY <3>2, <3>3
  <2>4. \A s \in Upto(n) : k[s] = h[s]
    BY <2>3
  <2>5. \A s \in Upto(n + 1) : s # {} => s \ {Pick(s)} \in Upto(n)
    BY <1>1, <1>2, <2>1
  <2>6. \A s \in Upto(n + 1) :
            body(s) = IF s = {} THEN 0 ELSE f[Pick(s)] + k[s \ {Pick(s)}]
    BY <2>4, <2>5
  <2>7. Adds(k, f, Upto(n + 1))
    BY <2>6 DEF Adds
  <2> HIDE DEF k, Upto
  <2>8. n + 1 \in Nat /\ \E g : Adds(g, f, Upto(n + 1))
    BY <2>1, <2>7
  <2> QED BY <2>8
<1>5. N = Nat
  <2> HIDE DEF N
  <2>1. N \in SUBSET Nat
    BY DEF N
  <2> QED BY <1>3, <1>4, <2>1, NumberInduction
<1>6. Cardinality(S) \in N
  BY <1>5, FS_CardinalityType
<1>7. Upto(Cardinality(S)) = SUBSET S
  BY <1>1
<1>8. \E h : Adds(h, f, SUBSET S)
  BY <1>6, <1>7
<1> QED BY <1>8 DEF Summed

\* Adding over a subset is the same in both sets.
LEMMA SummedBelow ==
    ASSUME NEW f, NEW S, IsFiniteSet(S), NEW T \in SUBSET S
    PROVE  \A s \in SUBSET T : Summed(f, S)[s] = Summed(f, T)[s]
<1> DEFINE G == {s \in SUBSET T : Summed(f, S)[s] = Summed(f, T)[s]}
<1>1. IsFiniteSet(T)
  BY FS_Subset
<1>2. Adds(Summed(f, S), f, SUBSET S) /\ Adds(Summed(f, T), f, SUBSET T)
  BY <1>1, AddsExists
<1>3. \A s \in SUBSET T :
          /\ Summed(f, S)[s] = IF s = {} THEN 0 ELSE f[Pick(s)] + Summed(f, S)[s \ {Pick(s)}]
          /\ Summed(f, T)[s] = IF s = {} THEN 0 ELSE f[Pick(s)] + Summed(f, T)[s \ {Pick(s)}]
  <2> HIDE DEF G
  <2> DEFINE a == Summed(f, S)
             b == Summed(f, T)
  <2>1. /\ a = [s \in SUBSET S |-> IF s = {} THEN 0 ELSE f[Pick(s)] + a[s \ {Pick(s)}]]
        /\ b = [s \in SUBSET T |-> IF s = {} THEN 0 ELSE f[Pick(s)] + b[s \ {Pick(s)}]]
    BY <1>2 DEF Adds
  <2> HIDE DEF a, b
  <2>2. \A s \in SUBSET T :
          /\ a[s] = IF s = {} THEN 0 ELSE f[Pick(s)] + a[s \ {Pick(s)}]
          /\ b[s] = IF s = {} THEN 0 ELSE f[Pick(s)] + b[s \ {Pick(s)}]
    BY <2>1
  <2> QED BY <2>2 DEF a, b
<1>4. {} \in G
  BY <1>3
<1>5. \A s \in SUBSET T : s # {} => \E x \in s : s \ {x} \in G => s \in G
  BY <1>3, PickIsMember
<1>6. SUBSET T \subseteq G
  <2> HIDE DEF G
  <2> QED BY <1>1, <1>4, <1>5, SetInduction
<1> QED BY <1>6

LEMMA TotalEmpty ==
    ASSUME NEW f
    PROVE  Total(f, {}) = 0
<1>1. Adds(Summed(f, {}), f, SUBSET {})
  BY AddsExists, FS_EmptySet
<1> DEFINE a == Summed(f, {})
<1>2. a = [s \in SUBSET {} |-> IF s = {} THEN 0 ELSE f[Pick(s)] + a[s \ {Pick(s)}]]
  BY <1>1 DEF Adds
<1> HIDE DEF a
<1>3. a[{}] = 0
  BY <1>2
<1> QED BY <1>3 DEF a, Total

\* The first element is added to the sum of the others.
LEMMA TotalPick ==
    ASSUME NEW f, NEW S, IsFiniteSet(S), S # {}
    PROVE  Total(f, S) = f[Pick(S)] + Total(f, S \ {Pick(S)})
<1> DEFINE T == S \ {Pick(S)}
           a == Summed(f, S)
<1>1. Summed(f, S)[T] = Summed(f, T)[T]
  BY SummedBelow
<1>2. a = [s \in SUBSET S |-> IF s = {} THEN 0 ELSE f[Pick(s)] + a[s \ {Pick(s)}]]
  <2>1. Adds(a, f, SUBSET S)
    BY AddsExists
  <2> QED BY <2>1 DEF Adds
<1> HIDE DEF a
<1>3. a[S] = f[Pick(S)] + a[T]
  BY <1>2
<1> QED BY <1>1, <1>3 DEF a, Total

-----------------------------------------------------------------------------
(***************************************************************************)
(* The laws of a sum of naturals.                                          *)
(***************************************************************************)
LEMMA TotalType ==
    ASSUME NEW S, IsFiniteSet(S), NEW f, \A x \in S : f[x] \in Nat
    PROVE  Total(f, S) \in Nat
<1> DEFINE G == {s \in SUBSET S : Total(f, s) \in Nat}
<1>1. {} \in G
  BY TotalEmpty
<1>2. \A s \in SUBSET S : s # {} => \E x \in s : s \ {x} \in G => s \in G
  <2> SUFFICES ASSUME NEW s \in SUBSET S, s # {}, s \ {Pick(s)} \in G
               PROVE  s \in G
    BY PickIsMember
  <2>1. IsFiniteSet(s) /\ Pick(s) \in S
    BY FS_Subset, PickIsMember
  <2>2. Total(f, s) = f[Pick(s)] + Total(f, s \ {Pick(s)})
    BY <2>1, TotalPick
  <2> QED BY <2>1, <2>2
<1>3. SUBSET S \subseteq G
  <2> HIDE DEF G
  <2> QED BY <1>1, <1>2, SetInduction
<1> QED BY <1>3

\* Any element is added to the sum of the others: the order does not matter.
LEMMA TotalRemove ==
    ASSUME NEW S, IsFiniteSet(S), NEW f, \A y \in S : f[y] \in Nat, NEW x \in S
    PROVE  Total(f, S) = f[x] + Total(f, S \ {x})
<1> DEFINE Law(s) == \A y \in s : Total(f, s) = f[y] + Total(f, s \ {y})
           N == {n \in Nat : \A s \in SUBSET S : Cardinality(s) = n => Law(s)}
<1>1. \A s \in SUBSET S : /\ IsFiniteSet(s) /\ Cardinality(s) \in Nat
                          /\ Total(f, s) \in Nat
  BY FS_Subset, FS_CardinalityType, TotalType
<1>2. \A s \in SUBSET S : \A y \in s : Cardinality(s \ {y}) = Cardinality(s) - 1
  BY <1>1, FS_RemoveElement
<1>3. 0 \in N
  BY <1>1, FS_EmptySet
<1>4. ASSUME NEW n \in N
      PROVE  n + 1 \in N
  <2> SUFFICES ASSUME NEW s \in SUBSET S, Cardinality(s) = n + 1, NEW y \in s
               PROVE  Total(f, s) = f[y] + Total(f, s \ {y})
    OBVIOUS
  <2> DEFINE c == Pick(s)
  <2>1. n \in Nat /\ \A t \in SUBSET S : Cardinality(t) = n => Law(t)
    OBVIOUS
  <2>2. c \in s /\ Total(f, s) = f[c] + Total(f, s \ {c})
    BY <1>1, PickIsMember, TotalPick
  <2>3. CASE y = c
    BY <2>2, <2>3
  <2>4. CASE y # c
    <3>1. /\ s \ {c} \in SUBSET S /\ Cardinality(s \ {c}) = n
          /\ s \ {y} \in SUBSET S /\ Cardinality(s \ {y}) = n
      BY <1>1, <1>2, <2>1, <2>2
    <3>2. Total(f, s \ {c}) = f[y] + Total(f, (s \ {c}) \ {y})
      BY <2>1, <2>4, <3>1
    <3>3. Total(f, s \ {y}) = f[c] + Total(f, (s \ {y}) \ {c})
      BY <2>1, <2>2, <2>4, <3>1
    <3>4. (s \ {c}) \ {y} = (s \ {y}) \ {c}
      OBVIOUS
    <3>5. f[c] \in Nat /\ f[y] \in Nat /\ Total(f, (s \ {y}) \ {c}) \in Nat
      BY <1>1, <2>2
    <3> DEFINE rest == Total(f, (s \ {y}) \ {c})
    <3>6. /\ Total(f, s) = f[c] + (f[y] + rest)
          /\ Total(f, s \ {y}) = f[c] + rest
      BY <2>2, <3>2, <3>3, <3>4
    <3> HIDE DEF c, rest
    <3>7. rest \in Nat
      BY <3>5 DEF rest
    <3>8. f[c] + (f[y] + rest) = f[y] + (f[c] + rest)
      BY <3>5, <3>7
    <3> QED BY <3>6, <3>8
  <2> QED BY <2>3, <2>4
<1>5. N = Nat
  <2> HIDE DEF N
  <2>1. N \in SUBSET Nat
    BY DEF N
  <2> QED BY <1>3, <1>4, <2>1, NumberInduction
<1> QED BY <1>1, <1>5

\* Only what is added counts.
LEMMA TotalSame ==
    ASSUME NEW S, NEW f, NEW g, \A x \in S : f[x] = g[x]
    PROVE  Total(f, S) = Total(g, S)
<1>1. ASSUME NEW h
      PROVE  Adds(h, f, SUBSET S) <=> Adds(h, g, SUBSET S)
  <2>1. \A s \in SUBSET S : s # {} => f[Pick(s)] = g[Pick(s)]
    BY PickIsMember
  <2>2. [s \in SUBSET S |-> IF s = {} THEN 0 ELSE f[Pick(s)] + h[s \ {Pick(s)}]]
          = [s \in SUBSET S |-> IF s = {} THEN 0 ELSE g[Pick(s)] + h[s \ {Pick(s)}]]
    BY <2>1
  <2> QED BY <2>2 DEF Adds
<1>2. Summed(f, S) = Summed(g, S)
  BY <1>1 DEF Summed
<1> QED BY <1>2 DEF Total

\* A sum with one addend changed.
LEMMA TotalChange ==
    ASSUME NEW S, IsFiniteSet(S), NEW f, NEW g,
           \A y \in S : f[y] \in Nat /\ g[y] \in Nat,
           NEW x \in S, \A y \in S \ {x} : f[y] = g[y]
    PROVE  /\ Total(g, S) + f[x] = Total(f, S) + g[x]
           /\ f[x] <= Total(f, S)
<1> DEFINE T == S \ {x}
<1>1. Total(f, T) = Total(g, T)
  BY TotalSame
<1>2. Total(f, T) \in Nat
  <2>1. IsFiniteSet(T)
    BY FS_RemoveElement
  <2> QED BY <2>1, TotalType
<1>3. Total(f, S) = f[x] + Total(f, T) /\ Total(g, S) = g[x] + Total(g, T)
  BY TotalRemove
<1> HIDE DEF T
<1> QED BY <1>1, <1>2, <1>3

\* One addend is not above the sum.
LEMMA TotalAbove ==
    ASSUME NEW S, IsFiniteSet(S), NEW f, \A y \in S : f[y] \in Nat, NEW x \in S
    PROVE  f[x] <= Total(f, S)
BY TotalChange

\* If each addend of g is bounded by that of f in a proportion of m to k, so is
\* the sum.
LEMMA TotalBound ==
    ASSUME NEW S, IsFiniteSet(S), NEW f, NEW g, NEW k \in Nat, NEW m \in Nat,
           \A x \in S : /\ f[x] \in Nat /\ g[x] \in Nat
                       /\ g[x] * k <= f[x] * m
    PROVE  Total(g, S) * k <= Total(f, S) * m
<1> DEFINE G == {s \in SUBSET S : Total(g, s) * k <= Total(f, s) * m}
<1>1. {} \in G
  BY TotalEmpty
<1>2. \A s \in SUBSET S : s # {} => \E x \in s : s \ {x} \in G => s \in G
  <2> SUFFICES ASSUME NEW s \in SUBSET S, s # {}, s \ {Pick(s)} \in G
               PROVE  s \in G
    BY PickIsMember
  <2> DEFINE x == Pick(s)
             t == s \ {x}
  <2>1. IsFiniteSet(s) /\ IsFiniteSet(t) /\ x \in S /\ t \in SUBSET S
    BY FS_Subset, PickIsMember
  <2>2. Total(f, s) = f[x] + Total(f, t) /\ Total(g, s) = g[x] + Total(g, t)
    BY <2>1, TotalPick
  <2>3. Total(f, t) \in Nat /\ Total(g, t) \in Nat
    BY <2>1, TotalType
  <2>4. /\ f[x] \in Nat /\ g[x] \in Nat /\ g[x] * k <= f[x] * m
        /\ Total(g, t) * k <= Total(f, t) * m
    BY <2>1
  <2> HIDE DEF x, t
  <2>5. (g[x] + Total(g, t)) * k <= (f[x] + Total(f, t)) * m
    BY <2>3, <2>4
  <2> QED BY <2>2, <2>5
<1>3. SUBSET S \subseteq G
  <2> HIDE DEF G
  <2> QED BY <1>1, <1>2, SetInduction
<1> QED BY <1>3

\* The sum over a set and over the part of it where f counts: the others add 0.
LEMMA TotalPart ==
    ASSUME NEW S, IsFiniteSet(S), NEW f, NEW g, NEW T \in SUBSET S,
           \A x \in S : f[x] \in Nat,
           \A x \in T : g[x] = f[x],
           \A x \in S \ T : g[x] = 0
    PROVE  Total(g, S) = Total(f, T)
<1> DEFINE G == {s \in SUBSET S : Total(g, s) = Total(f, s \cap T)}
<1>0. \A x \in S : f[x] \in Nat /\ g[x] \in Nat
  OBVIOUS
<1>1. {} \in G
  <2>1. {} \cap T = {}
    OBVIOUS
  <2> QED BY <2>1, TotalEmpty
<1>2. \A s \in SUBSET S : s # {} => \E x \in s : s \ {x} \in G => s \in G
  <2> SUFFICES ASSUME NEW s \in SUBSET S, s # {}, s \ {Pick(s)} \in G
               PROVE  s \in G
    BY PickIsMember
  <2> DEFINE x == Pick(s)
  <2>1. IsFiniteSet(s) /\ IsFiniteSet(s \cap T) /\ x \in S /\ x \in s
    BY FS_Subset, PickIsMember
  <2>2. Total(g, s) = g[x] + Total(g, s \ {x})
    BY <2>1, TotalPick
  <2>3. Total(g, s \ {x}) = Total(f, (s \ {x}) \cap T)
    OBVIOUS
  <2>6. IsFiniteSet((s \ {x}) \cap T)
    BY FS_Subset
  <2>7. Total(f, (s \ {x}) \cap T) \in Nat
    BY <2>6, TotalType
  <2> HIDE DEF x, G
  <2>4. CASE x \in T
    <3>1. (s \cap T) \ {x} = (s \ {x}) \cap T
      OBVIOUS
    <3>2. Total(f, s \cap T) = f[x] + Total(f, (s \cap T) \ {x})
      BY <2>1, <2>4, TotalRemove
    <3>3. Total(g, s) = Total(f, s \cap T)
      BY <2>2, <2>3, <2>4, <3>1, <3>2
    <3> QED BY <3>3 DEF G
  <2>5. CASE x \notin T
    <3>1. s \cap T = (s \ {x}) \cap T
      BY <2>5
    <3>2. g[x] = 0
      BY <2>1, <2>5
    <3>3. Total(g, s) = Total(f, s \cap T)
      BY <2>2, <2>3, <2>7, <3>1, <3>2
    <3> QED BY <3>3 DEF G
  <2> QED BY <2>4, <2>5
<1>3. SUBSET S \subseteq G
  <2> HIDE DEF G
  <2> QED BY <1>1, <1>2, SetInduction
<1>4. S \cap T = T
  OBVIOUS
<1> QED BY <1>3, <1>4

\* Nothing adds up to nothing.
LEMMA TotalZero ==
    ASSUME NEW S, IsFiniteSet(S), NEW f, \A x \in S : f[x] = 0
    PROVE  Total(f, S) = 0
<1>1. Total(f, S) = Total(f, {})
  BY TotalPart
<1> QED BY <1>1, TotalEmpty

-----------------------------------------------------------------------------
(***************************************************************************)
(* Arithmetic.                                                             *)
(***************************************************************************)
\* What rounding down means: the quotient times the divisor is the largest
\* multiple not above the dividend.
LEMMA DivBounds ==
    ASSUME NEW x \in Nat, NEW y \in Nat \ {0}
    PROVE  /\ x \div y \in Nat
           /\ (x \div y) * y <= x
           /\ x < (x \div y) * y + y
  OBVIOUS

\* Cancellation of a common positive factor.
LEMMA Cancel ==
    ASSUME NEW a \in Nat, NEW b \in Nat, NEW c \in Nat \ {0}, a * c <= b * c
    PROVE  a <= b
  OBVIOUS

LEMMA ProductMonotone ==
    ASSUME NEW a \in Nat, NEW b \in Nat, NEW c \in Nat, a <= b
    PROVE  a * c <= b * c
  OBVIOUS

\* Minting rounds in favour of the shares outstanding, and at a price of at
\* least one never mints more shares than base units were paid.
LEMMA MintBounds ==
    ASSUME totalShares \in Nat, totalUnderlying \in Nat, NEW amount \in Nat,
           totalShares <= totalUnderlying
    PROVE  /\ MintedFor(amount) \in Nat
           /\ MintedFor(amount) <= amount
           /\ totalShares > 0 /\ totalUnderlying > 0
                => MintedFor(amount) * totalUnderlying <= amount * totalShares
<1>1. CASE totalShares = 0 \/ totalUnderlying = 0
  BY <1>1 DEF MintedFor
<1>2. CASE totalShares > 0 /\ totalUnderlying > 0
  <2> DEFINE m == (amount * totalShares) \div totalUnderlying
  <2>1. amount * totalShares \in Nat
    OBVIOUS
  <2>2. m \in Nat /\ m * totalUnderlying <= amount * totalShares
    BY <1>2, <2>1, DivBounds
  <2>3. amount * totalShares <= amount * totalUnderlying
    BY ProductMonotone
  <2>4. m * totalUnderlying <= amount * totalUnderlying
    BY <2>1, <2>2, <2>3
  <2>5. m <= amount
    BY <1>2, <2>2, <2>4, Cancel
  <2>6. MintedFor(amount) = m
    BY <1>2 DEF MintedFor
  <2>7. QED
    BY <2>2, <2>5, <2>6
<1>3. QED
  BY <1>1, <1>2

\* Redeeming rounds in favour of the shares that stay, never pays out more
\* than the vault holds, and pays everything exactly when every share goes.
LEMMA WorthBounds ==
    ASSUME totalShares \in Nat \ {0}, totalUnderlying \in Nat,
           NEW s \in Nat, s <= totalShares
    PROVE  /\ Worth(s) \in Nat
           /\ Worth(s) * totalShares <= s * totalUnderlying
           /\ Worth(s) <= totalUnderlying
           /\ s = totalShares => Worth(s) = totalUnderlying
<1>1. s * totalUnderlying \in Nat
  OBVIOUS
<1>2. /\ Worth(s) \in Nat
      /\ Worth(s) * totalShares <= s * totalUnderlying
      /\ s * totalUnderlying < Worth(s) * totalShares + totalShares
  BY <1>1, DivBounds DEF Worth
<1>3. s * totalUnderlying <= totalUnderlying * totalShares
  BY ProductMonotone
<1>4. Worth(s) * totalShares <= totalUnderlying * totalShares
  BY <1>1, <1>2, <1>3
<1>5. Worth(s) <= totalUnderlying
  BY <1>2, <1>4, Cancel
<1>6. ASSUME s = totalShares PROVE Worth(s) = totalUnderlying
  <2>1. totalUnderlying * totalShares < (Worth(s) + 1) * totalShares
    BY <1>2, <1>6
  <2>2. totalUnderlying < Worth(s) + 1
    BY <1>2, <2>1
  <2>3. QED
    BY <1>2, <1>5, <2>2
<1>7. QED
  BY <1>2, <1>5, <1>6

-----------------------------------------------------------------------------
\* What VaultDeposit and VaultWithdraw do to the vault's own state, whoever
\* the depositor is (a wallet, or the batch PDA by CPI from undegen_core).
LEMMA DepositTypes ==
    ASSUME VaultTypeOK, NEW d \in Depositors, NEW amount \in Nat, VaultDeposit(d, amount)
    PROVE  /\ totalShares' \in Nat
           /\ totalUnderlying' = totalUnderlying + amount
           /\ shares' \in [Depositors -> Nat]
           /\ MintedFor(amount) \in Nat
<1> USE DEF VaultTypeOK
<1>1. MintedFor(amount) \in Nat
  <2>1. amount * totalShares \in Nat
    OBVIOUS
  <2>2. CASE totalShares = 0 \/ totalUnderlying = 0
    BY <2>2 DEF MintedFor
  <2>3. CASE ~(totalShares = 0 \/ totalUnderlying = 0)
    BY <2>1, <2>3, DivBounds DEF MintedFor
  <2>4. QED
    BY <2>2, <2>3
<1>2. QED
  BY <1>1 DEF VaultDeposit

LEMMA WithdrawTypes ==
    ASSUME VaultTypeOK, NEW d \in Depositors, NEW s \in Nat, VaultWithdraw(d, s)
    PROVE  /\ totalShares' \in Nat
           /\ totalUnderlying' = totalUnderlying - Worth(s)
           /\ totalUnderlying' \in Nat
           /\ shares' \in [Depositors -> Nat]
           /\ Worth(s) \in Nat
<1> USE DEF VaultTypeOK
<1>1. totalShares > 0 /\ s <= totalShares /\ s <= shares[d]
  BY DEF VaultWithdraw, CanWithdraw
<1>2. Worth(s) \in Nat /\ Worth(s) <= totalUnderlying
  BY <1>1, WorthBounds
<1>3. QED
  BY <1>1, <1>2 DEF VaultWithdraw

\* A token transfer keeps every balance a natural number.
LEMMA MovedTypes ==
    ASSUME NEW bal \in [TokenAccounts -> Nat],
           NEW from \in TokenAccounts, NEW to \in TokenAccounts,
           NEW amount \in Nat, CanPay(bal, from, amount)
    PROVE  Moved(bal, from, to, amount) \in [TokenAccounts -> Nat]
  BY DEF Moved, CanPay

LEMMA WalletIsAccount ==
    ASSUME NEW w \in Wallets
    PROVE  /\ w \in Depositors /\ w \in TokenAccounts
           /\ w # VaultAcct /\ w # ReserveAcct /\ w # AdminAcct
  BY VaultConstants

LEMMA GrowthBounds ==
    ASSUME VaultTypeOK
    PROVE  Growth \in Nat /\ Growth <= tok[ReserveAcct]
  BY VaultConstants DEF Growth, VaultTypeOK

-----------------------------------------------------------------------------
\* Every step of the vault keeps its state well typed.
LEMMA VaultStepTypes ==
    ASSUME VaultTypeOK, VaultNext
    PROVE  VaultTypeOK'
<1> USE DEF VaultTypeOK
<1>1. ASSUME NEW w \in Wallets, NEW a \in Amounts, Deposit(w, a) PROVE VaultTypeOK'
  <2>1. a \in Nat
    BY VaultConstants
  <2>2. tok' \in [TokenAccounts -> Nat]
    BY <1>1, <2>1, WalletIsAccount, MovedTypes, VaultConstants DEF Deposit
  <2>3. QED
    BY <1>1, <2>1, <2>2, WalletIsAccount, DepositTypes DEF Deposit
<1>2. ASSUME NEW w \in Wallets, NEW s \in 1..totalShares, Withdraw(w, s) PROVE VaultTypeOK'
  <2>1. VaultWithdraw(w, s) /\ w \in Depositors /\ s \in Nat
    BY <1>2, WalletIsAccount DEF Withdraw
  <2>2. totalShares' \in Nat /\ totalUnderlying' \in Nat /\ Worth(s) \in Nat
        /\ shares' \in [Depositors -> Nat]
    BY <2>1, WithdrawTypes
  <2>3. tok' \in [TokenAccounts -> Nat]
    BY <1>2, <2>2, WalletIsAccount, MovedTypes, VaultConstants DEF Withdraw
  <2>4. QED
    BY <2>2, <2>3
<1>3. CASE TickYield
  <2>1. tok' \in [TokenAccounts -> Nat]
    BY <1>3, GrowthBounds, VaultConstants DEF TickYield, Moved
  <2>2. QED
    BY <1>3, <2>1, GrowthBounds DEF TickYield
<1>4. ASSUME NEW a \in Amounts, FundReserve(a) PROVE VaultTypeOK'
  BY <1>4, VaultConstants DEF FundReserve, CanPay, Moved, vaultVars
<1>5. QED
  BY <1>1, <1>2, <1>3, <1>4 DEF VaultNext

\* Type correctness: every counter, position and balance stays a natural
\* number in every behaviour (no handler underflows an account).
THEOREM VaultTypeCorrect == VaultSpec => []VaultTypeOK
<1>1. VaultInit => VaultTypeOK
  BY VaultConstants DEF VaultInit, VaultTypeOK
<1>2. VaultTypeOK /\ [VaultNext]_vaultSystemVars => VaultTypeOK'
  <2>1. VaultTypeOK /\ UNCHANGED vaultSystemVars => VaultTypeOK'
    BY DEF vaultSystemVars, VaultTypeOK
  <2>2. QED
    BY <2>1, VaultStepTypes
<1>3. QED
  BY <1>1, <1>2, PTL DEF VaultSpec

\* Every step of the vault moves the tokens it books.
LEMMA VaultStepHeld ==
    ASSUME VaultTypeOK, UnderlyingIsHeld, VaultNext
    PROVE  UnderlyingIsHeld'
<1> USE DEF VaultTypeOK, UnderlyingIsHeld
<1>1. ASSUME NEW w \in Wallets, NEW a \in Amounts, Deposit(w, a) PROVE UnderlyingIsHeld'
  BY <1>1, VaultConstants DEF Deposit, VaultDeposit, Moved
<1>2. ASSUME NEW w \in Wallets, NEW s \in 1..totalShares, Withdraw(w, s)
      PROVE  UnderlyingIsHeld'
  BY <1>2, VaultConstants DEF Withdraw, VaultWithdraw, Moved
<1>3. CASE TickYield
  BY <1>3, VaultConstants DEF TickYield, Moved
<1>4. ASSUME NEW a \in Amounts, FundReserve(a) PROVE UnderlyingIsHeld'
  BY <1>4, VaultConstants DEF FundReserve, Moved, vaultVars
<1>5. QED
  BY <1>1, <1>2, <1>3, <1>4 DEF VaultNext

\* The underlying the counters promise is really held: total_underlying is
\* the balance of vault_token_account after every handler.
THEOREM UnderlyingAlwaysHeld == VaultSpec => []UnderlyingIsHeld
<1>1. VaultInit => UnderlyingIsHeld
  BY VaultConstants DEF VaultInit, UnderlyingIsHeld
<1>2. VaultTypeOK /\ UnderlyingIsHeld /\ [VaultNext]_vaultSystemVars => UnderlyingIsHeld'
  <2>1. UnderlyingIsHeld /\ UNCHANGED vaultSystemVars => UnderlyingIsHeld'
    BY DEF vaultSystemVars, UnderlyingIsHeld
  <2>2. QED
    BY <2>1, VaultStepHeld
<1>3. QED
  BY <1>1, <1>2, VaultTypeCorrect, PTL DEF VaultSpec

\* What one deposit does to the price, whoever the depositor is (a wallet, or
\* the batch PDA by CPI from undegen_core).
LEMMA DepositKeepsPrice ==
    ASSUME VaultTypeOK, PriceAtLeastOne,
           NEW d \in Depositors, NEW amount \in Nat, VaultDeposit(d, amount)
    PROVE  /\ PriceAtLeastOne'
           /\ totalShares > 0
                => totalUnderlying * totalShares' <= totalUnderlying' * totalShares
<1> DEFINE m == MintedFor(amount)
<1> USE DEF VaultTypeOK
<1>1. /\ m \in Nat /\ m <= amount
      /\ totalShares > 0 /\ totalUnderlying > 0
           => m * totalUnderlying <= amount * totalShares
  BY MintBounds DEF PriceAtLeastOne
<1>2. /\ m > 0
      /\ totalShares' = totalShares + m
      /\ totalUnderlying' = totalUnderlying + amount
  BY DEF VaultDeposit
<1> HIDE DEF m
<1>3. PriceAtLeastOne'
  BY <1>1, <1>2 DEF PriceAtLeastOne
<1>4. ASSUME totalShares > 0
      PROVE  totalUnderlying * totalShares' <= totalUnderlying' * totalShares
  <2>1. totalUnderlying > 0
    BY <1>4 DEF PriceAtLeastOne
  <2>2. totalUnderlying * totalShares' = totalUnderlying * totalShares + m * totalUnderlying
    BY <1>1, <1>2
  <2>3. totalUnderlying' * totalShares = totalUnderlying * totalShares + amount * totalShares
    BY <1>2
  <2>4. QED
    BY <1>1, <1>4, <2>1, <2>2, <2>3
<1>5. QED
  BY <1>3, <1>4

\* What one withdrawal does to the price.
LEMMA WithdrawKeepsPrice ==
    ASSUME VaultTypeOK, PriceAtLeastOne,
           NEW d \in Depositors, NEW s \in Nat, VaultWithdraw(d, s)
    PROVE  /\ PriceAtLeastOne'
           /\ totalUnderlying * totalShares' <= totalUnderlying' * totalShares
<1> DEFINE u == Worth(s)
<1> USE DEF VaultTypeOK
<1>1. /\ s > 0 /\ s <= totalShares /\ totalShares \in Nat \ {0}
      /\ totalShares' = totalShares - s
      /\ totalUnderlying' = totalUnderlying - u
  BY DEF VaultWithdraw, CanWithdraw
<1>2. /\ u \in Nat /\ u <= totalUnderlying
      /\ u * totalShares <= s * totalUnderlying
      /\ s = totalShares => u = totalUnderlying
  BY <1>1, WorthBounds
<1> HIDE DEF u
<1>3. totalUnderlying * totalShares' <= totalUnderlying' * totalShares
  <2>1. totalUnderlying * totalShares' = totalUnderlying * totalShares - s * totalUnderlying
    BY <1>1
  <2>2. totalUnderlying' * totalShares = totalUnderlying * totalShares - u * totalShares
    BY <1>1, <1>2
  <2>3. QED
    BY <1>1, <1>2, <2>1, <2>2
<1>4. totalShares' <= totalUnderlying'
  <2>1. totalShares' \in Nat /\ totalUnderlying' \in Nat
    BY <1>1, <1>2
  <2>2. totalShares * totalShares' <= totalUnderlying * totalShares'
    BY <2>1, ProductMonotone DEF PriceAtLeastOne
  <2>3. totalShares' * totalShares <= totalUnderlying' * totalShares
    BY <1>1, <1>3, <2>1, <2>2
  <2>4. QED
    BY <1>1, <2>1, <2>3, Cancel
<1>5. totalShares' = 0 => totalUnderlying' = 0
  BY <1>1, <1>2
<1>6. QED
  BY <1>3, <1>4, <1>5 DEF PriceAtLeastOne

\* What any step of the vault does to the price.
PriceStep ==
    totalShares > 0 /\ totalShares' > 0 =>
        totalUnderlying * totalShares' <= totalUnderlying' * totalShares

LEMMA VaultStepPrice ==
    ASSUME VaultTypeOK, PriceAtLeastOne, VaultNext
    PROVE  PriceAtLeastOne' /\ PriceStep
<1>1. ASSUME NEW w \in Wallets, NEW a \in Amounts, Deposit(w, a)
      PROVE  PriceAtLeastOne' /\ PriceStep
  BY <1>1, VaultConstants, DepositKeepsPrice DEF Deposit, PriceStep
<1>2. ASSUME NEW w \in Wallets, NEW s \in 1..totalShares, Withdraw(w, s)
      PROVE  PriceAtLeastOne' /\ PriceStep
  BY <1>2, VaultConstants, WithdrawKeepsPrice DEF Withdraw, VaultTypeOK, PriceStep
<1>3. CASE TickYield
  <2>1. /\ totalUnderlying' \in Nat
        /\ totalUnderlying <= totalUnderlying'
        /\ totalShares' = totalShares
        /\ totalUnderlying > 0
    BY <1>3, GrowthBounds DEF TickYield, VaultTypeOK
  <2>2. PriceAtLeastOne'
    BY <2>1 DEF VaultTypeOK, PriceAtLeastOne
  <2>3. PriceStep
    BY <2>1, ProductMonotone DEF VaultTypeOK, PriceStep
  <2>4. QED
    BY <2>2, <2>3
<1>4. ASSUME NEW a \in Amounts, FundReserve(a) PROVE PriceAtLeastOne' /\ PriceStep
  BY <1>4 DEF FundReserve, vaultVars, VaultTypeOK, PriceAtLeastOne, PriceStep
<1>5. QED
  BY <1>1, <1>2, <1>3, <1>4 DEF VaultNext

\* A share is always worth at least one base unit and the vault never holds
\* underlying without shares.
THEOREM SharesNeverUnderWater == VaultSpec => []PriceAtLeastOne
<1>1. VaultInit => PriceAtLeastOne
  BY DEF VaultInit, PriceAtLeastOne
<1>2. VaultTypeOK /\ PriceAtLeastOne /\ [VaultNext]_vaultSystemVars => PriceAtLeastOne'
  <2>1. PriceAtLeastOne /\ UNCHANGED vaultSystemVars => PriceAtLeastOne'
    BY DEF vaultSystemVars, PriceAtLeastOne
  <2>2. QED
    BY <2>1, VaultStepPrice
<1>3. QED
  BY <1>1, <1>2, VaultTypeCorrect, PTL DEF VaultSpec

\* No step of the vault lowers the price of a share: the roundings of deposit
\* and withdraw never take from the holders who stay.
THEOREM PriceIsMonotone == VaultSpec => PriceNeverFalls
<1>1. VaultTypeOK /\ PriceAtLeastOne /\ [VaultNext]_vaultSystemVars
        => [PriceStep]_vaultSystemVars
  BY VaultStepPrice
<1>2. QED
  BY <1>1, VaultTypeCorrect, SharesNeverUnderWater, PTL DEF VaultSpec, PriceNeverFalls, PriceStep


-----------------------------------------------------------------------------
(***************************************************************************)
(* The positions add up to the shares issued.                              *)
(***************************************************************************)
\* SharesAreOwned, with the sum as a Total.
SharesAddUp == Total(shares, Depositors) = totalShares

LEMMA SharesIssuedIsTotal == SharesIssued = Total(shares, Depositors)
  BY DEF SharesIssued, MapThenSumSet, MapThenFoldSet, Total, Summed, Adds, Pick

\* No position exceeds the shares issued.
LEMMA SharesBelowTotal ==
    ASSUME VaultTypeOK, SharesAddUp, NEW d \in Depositors
    PROVE  shares[d] <= totalShares
  BY FiniteDepositors, TotalAbove DEF VaultTypeOK, SharesAddUp

\* A deposit issues what it books, a withdrawal redeems what it takes.
LEMMA DepositAddsUp ==
    ASSUME VaultTypeOK, SharesAddUp, NEW d \in Depositors, NEW amount \in Nat,
           VaultDeposit(d, amount)
    PROVE  SharesAddUp'
<1>1. MintedFor(amount) \in Nat /\ shares' \in [Depositors -> Nat]
  BY DepositTypes
<1>2. /\ shares'[d] = shares[d] + MintedFor(amount)
      /\ totalShares' = totalShares + MintedFor(amount)
      /\ \A e \in Depositors \ {d} : shares[e] = shares'[e]
      /\ \A e \in Depositors : shares[e] \in Nat /\ shares'[e] \in Nat
  BY <1>1 DEF VaultDeposit, VaultTypeOK
<1>3. Total(shares', Depositors) + shares[d] = Total(shares, Depositors) + shares'[d]
  BY <1>2, FiniteDepositors, TotalChange
<1>4. Total(shares, Depositors) \in Nat /\ Total(shares', Depositors) \in Nat
  BY <1>2, FiniteDepositors, TotalType
<1>5. QED
  BY <1>1, <1>2, <1>3, <1>4 DEF SharesAddUp

LEMMA WithdrawAddsUp ==
    ASSUME VaultTypeOK, SharesAddUp, NEW d \in Depositors, NEW s \in Nat,
           VaultWithdraw(d, s)
    PROVE  SharesAddUp'
<1>1. shares' \in [Depositors -> Nat]
  BY WithdrawTypes
<1>2. /\ shares'[d] = shares[d] - s
      /\ totalShares' = totalShares - s
      /\ \A e \in Depositors \ {d} : shares[e] = shares'[e]
      /\ \A e \in Depositors : shares[e] \in Nat /\ shares'[e] \in Nat
  BY <1>1 DEF VaultWithdraw, VaultTypeOK
<1>3. Total(shares', Depositors) + shares[d] = Total(shares, Depositors) + shares'[d]
  BY <1>2, FiniteDepositors, TotalChange
<1>4. Total(shares, Depositors) \in Nat /\ Total(shares', Depositors) \in Nat
  BY <1>2, FiniteDepositors, TotalType
<1>5. shares[d] \in Nat /\ s \in Nat
  BY <1>2
<1>6. Total(shares', Depositors) = Total(shares, Depositors) - s
  BY <1>2, <1>3, <1>4, <1>5
<1>7. Total(shares', Depositors) = totalShares'
  BY <1>2, <1>6 DEF SharesAddUp
<1>8. QED
  BY <1>7 DEF SharesAddUp

LEMMA VaultStepAddsUp ==
    ASSUME VaultTypeOK, SharesAddUp, VaultNext
    PROVE  SharesAddUp'
<1>1. ASSUME NEW w \in Wallets, NEW a \in Amounts, Deposit(w, a) PROVE SharesAddUp'
  BY <1>1, VaultConstants, DepositAddsUp DEF Deposit
<1>2. ASSUME NEW w \in Wallets, NEW s \in 1..totalShares, Withdraw(w, s) PROVE SharesAddUp'
  BY <1>2, VaultConstants, WithdrawAddsUp DEF Withdraw
<1>3. CASE TickYield
  BY <1>3 DEF TickYield, SharesAddUp
<1>4. ASSUME NEW a \in Amounts, FundReserve(a) PROVE SharesAddUp'
  BY <1>4 DEF FundReserve, vaultVars, SharesAddUp
<1>5. QED
  BY <1>1, <1>2, <1>3, <1>4 DEF VaultNext

\* Before the first deposit nobody holds a share.
LEMMA NoSharesAddUp ==
    ASSUME shares = [d \in Depositors |-> 0], totalShares = 0
    PROVE  SharesAddUp
  BY FiniteDepositors, TotalZero DEF SharesAddUp

LEMMA VaultAddsUp == VaultSpec => []SharesAddUp
<1>1. VaultInit => SharesAddUp
  BY NoSharesAddUp DEF VaultInit
<1>2. VaultTypeOK /\ SharesAddUp /\ [VaultNext]_vaultSystemVars => SharesAddUp'
  <2>1. SharesAddUp /\ UNCHANGED vaultSystemVars => SharesAddUp'
    BY DEF vaultSystemVars, SharesAddUp
  <2>2. QED
    BY <2>1, VaultStepAddsUp
<1>3. QED
  BY <1>1, <1>2, VaultTypeCorrect, PTL DEF VaultSpec

\* The positions add up to total_shares, however many depositors there are.
THEOREM SharesAlwaysOwned == VaultSpec => []SharesAreOwned
<1>1. SharesAddUp => SharesAreOwned
  BY SharesIssuedIsTotal DEF SharesAddUp, SharesAreOwned
<1>2. QED
  BY <1>1, VaultAddsUp, PTL

-----------------------------------------------------------------------------
(***************************************************************************)
(* What follows for the holders.                                           *)
(***************************************************************************)
\* A share is worth something, so any part of a position can be redeemed.
LEMMA PartIsRedeemable ==
    ASSUME VaultTypeOK, PriceAtLeastOne, SharesAddUp,
           NEW d \in Depositors, NEW s \in 1..shares[d]
    PROVE  CanWithdraw(d, s)
<1>1. /\ totalShares \in Nat /\ totalUnderlying \in Nat /\ shares[d] \in Nat
      /\ totalShares <= totalUnderlying
      /\ shares[d] <= totalShares
      /\ s \in Nat /\ s > 0 /\ s <= shares[d]
  BY SharesBelowTotal DEF VaultTypeOK, PriceAtLeastOne
<1>2. totalShares \in Nat \ {0} /\ s <= totalShares
  BY <1>1
<1>3. Worth(s) \in Nat /\ Worth(s) <= totalUnderlying
  BY <1>1, <1>2, WorthBounds
<1>4. Worth(s) > 0
  <2>1. s * totalUnderlying \in Nat /\ totalShares <= s * totalUnderlying
    <3>1. 1 * totalUnderlying <= s * totalUnderlying
      BY <1>1, ProductMonotone
    <3>2. QED
      BY <1>1, <3>1
  <2>2. s * totalUnderlying < Worth(s) * totalShares + totalShares
    BY <1>2, <2>1, DivBounds DEF Worth
  <2>3. Worth(s) = 0 => s * totalUnderlying < totalShares
    BY <1>1, <2>2
  <2>4. QED
    BY <1>1, <1>3, <2>1, <2>3
<1>5. QED
  BY <1>1, <1>2, <1>3, <1>4 DEF CanWithdraw

WorthOfPositions == MapThenSumSet(LAMBDA d : Worth(shares[d]), Depositors)

LEMMA WorthOfPositionsIsTotal ==
    WorthOfPositions = Total([d \in Depositors |-> Worth(shares[d])], Depositors)
<1> DEFINE f == [d \in Depositors |-> Worth(shares[d])]
<1>1. ASSUME NEW h
      PROVE  [s \in SUBSET Depositors |->
                 IF s = {} THEN 0 ELSE f[Pick(s)] + h[s \ {Pick(s)}]]
               = [s \in SUBSET Depositors |->
                     IF s = {} THEN 0 ELSE Worth(shares[Pick(s)]) + h[s \ {Pick(s)}]]
  <2>1. \A s \in SUBSET Depositors : s # {} => f[Pick(s)] = Worth(shares[Pick(s)])
    BY PickIsMember
  <2>2. QED
    BY <2>1
<1>2. Summed(f, Depositors) =
        CHOOSE h : h = [s \in SUBSET Depositors |->
                           IF s = {} THEN 0 ELSE Worth(shares[Pick(s)]) + h[s \ {Pick(s)}]]
  BY <1>1 DEF Summed, Adds
<1>3. WorthOfPositions =
        (CHOOSE h : h = [s \in SUBSET Depositors |->
             IF s = {} THEN 0 ELSE Worth(shares[Pick(s)]) + h[s \ {Pick(s)}]])[Depositors]
  BY DEF WorthOfPositions, MapThenSumSet, MapThenFoldSet, Pick
<1>4. QED
  BY <1>2, <1>3 DEF Total

\* All positions together are worth no more than the underlying.
LEMMA PositionsAreCovered ==
    ASSUME VaultTypeOK, SharesAddUp, totalShares > 0
    PROVE  WorthOfPositions <= totalUnderlying
<1> DEFINE f == [d \in Depositors |-> Worth(shares[d])]
<1>1. totalShares \in Nat \ {0} /\ totalUnderlying \in Nat
  BY DEF VaultTypeOK
<1>2. ASSUME NEW d \in Depositors
      PROVE  /\ shares[d] \in Nat /\ f[d] \in Nat
             /\ f[d] * totalShares <= shares[d] * totalUnderlying
  <2>1. shares[d] \in Nat /\ shares[d] <= totalShares
    BY SharesBelowTotal DEF VaultTypeOK
  <2>2. Worth(shares[d]) \in Nat /\ Worth(shares[d]) * totalShares <= shares[d] * totalUnderlying
    BY <1>1, <2>1, WorthBounds
  <2>3. QED
    BY <2>1, <2>2
<1> HIDE DEF f
<1>3. Total(f, Depositors) * totalShares <= Total(shares, Depositors) * totalUnderlying
  BY <1>1, <1>2, FiniteDepositors, TotalBound
<1>4. Total(f, Depositors) \in Nat
  BY <1>2, FiniteDepositors, TotalType
<1>5. Total(f, Depositors) * totalShares <= totalUnderlying * totalShares
  BY <1>1, <1>3 DEF SharesAddUp
<1>6. Total(f, Depositors) <= totalUnderlying
  BY <1>1, <1>4, <1>5, Cancel
<1>7. QED
  BY <1>6, WorthOfPositionsIsTotal DEF f

\* Nobody is locked in, alone or with all the others.
THEOREM PositionsAlwaysRedeemable == VaultSpec => []EveryPositionRedeemable
<1>1. VaultTypeOK /\ PriceAtLeastOne /\ SharesAddUp => EveryPositionRedeemable
  BY PartIsRedeemable, PositionsAreCovered DEF EveryPositionRedeemable, WorthOfPositions
<1>2. QED
  BY <1>1, VaultTypeCorrect, SharesNeverUnderWater, VaultAddsUp, PTL

\* Minting rounds down and redeeming rounds down: a round trip never gains.
LEMMA RoundTrip ==
    ASSUME VaultTypeOK, PriceAtLeastOne, NEW a \in Nat, MintedFor(a) > 0
    PROVE  (MintedFor(a) * (totalUnderlying + a)) \div (totalShares + MintedFor(a)) <= a
<1> DEFINE m == MintedFor(a)
           q == (m * (totalUnderlying + a)) \div (totalShares + m)
<1>1. /\ totalShares \in Nat /\ totalUnderlying \in Nat
      /\ m \in Nat /\ m > 0
      /\ totalShares > 0 /\ totalUnderlying > 0 => m * totalUnderlying <= a * totalShares
      /\ totalShares = 0 \/ totalUnderlying = 0 => m = a
      /\ totalUnderlying = 0 => totalShares = 0
      /\ totalShares = 0 => totalUnderlying = 0
  BY MintBounds DEF VaultTypeOK, PriceAtLeastOne, MintedFor
<1> HIDE DEF m
<1>2. m * (totalUnderlying + a) \in Nat /\ totalShares + m \in Nat \ {0}
  BY <1>1
<1>3. m * (totalUnderlying + a) <= a * (totalShares + m)
  <2>1. m * totalUnderlying <= a * totalShares
    <3>1. CASE totalShares = 0
      BY <1>1, <3>1
    <3>2. CASE totalShares > 0
      BY <1>1, <3>2
    <3>3. QED
      BY <1>1, <3>1, <3>2
  <2>2. m * (totalUnderlying + a) = m * totalUnderlying + a * m
    BY <1>1
  <2>3. a * (totalShares + m) = a * totalShares + a * m
    BY <1>1
  <2>4. QED
    BY <1>1, <2>1, <2>2, <2>3
<1>4. q \in Nat /\ q * (totalShares + m) <= m * (totalUnderlying + a)
  BY <1>2, DivBounds
<1> HIDE DEF q
<1>5. q * (totalShares + m) <= a * (totalShares + m)
  <2>1. a * (totalShares + m) \in Nat /\ q * (totalShares + m) \in Nat
    BY <1>1, <1>4
  <2>2. QED
    BY <1>2, <1>3, <1>4, <2>1
<1>6. q <= a
  BY <1>2, <1>4, <1>5, Cancel
<1>7. QED
  BY <1>6 DEF q, m

\* A deposit that is redeemed at once never pays more than was put in.
THEOREM RoundTripsNeverGain == VaultSpec => []RoundTripNeverGains
<1>1. VaultTypeOK /\ PriceAtLeastOne => RoundTripNeverGains
  BY RoundTrip, VaultConstants DEF RoundTripNeverGains
<1>2. QED
  BY <1>1, VaultTypeCorrect, SharesNeverUnderWater, PTL

=============================================================================
