----------------------------- MODULE BookTheorems -----------------------------
(***************************************************************************)
(* Facts about order books that the proofs about every engine use: which   *)
(* bid is the first one, and how a total over a finite set changes when    *)
(* one entry changes (SumFunctionOnSet of the community modules).          *)
(*                                                                         *)
(* The fold behind a sum is defined by recursion on sets.  That it exists  *)
(* and is unique is proved here by smallest counterexamples, because an    *)
(* induction theorem would take the induction hypothesis as an operator.   *)
(***************************************************************************)
EXTENDS Matching, FiniteSetTheorems, WellFoundedInduction, TLAPS

Pick(s) == CHOOSE x \in s : TRUE

\* A non-empty set of natural numbers has a least element.
LEMMA LeastNat ==
    ASSUME NEW T, T \subseteq Nat, T # {}
    PROVE  \E m \in T : \A n \in T : m <= n
<1>1. \E m \in T : \A n \in T : <<n, m>> \notin OpToRel(<, Nat)
  BY NatLessThanWellFounded, WFMin
<1>2. ASSUME NEW m \in Nat, NEW n \in Nat, <<n, m>> \notin OpToRel(<, Nat)
      PROVE  m <= n
  <2>1. <<n, m>> \in Nat \X Nat  OBVIOUS
  <2>2. ~(n < m)  BY <1>2, <2>1 DEF OpToRel
  <2> QED  BY <2>2
<1> QED  BY <1>1, <1>2

\* Of bids with bounded prices and distinct sequence numbers one has the
\* highest price, and of these the lowest number: the first key
\* (Reverse(price), seq) of a BTreeMap, and the first row of ORDER BY.
LEMMA BestBid ==
    ASSUME NEW S, S # {}, NEW top \in Int,
           \A b \in S : b.price \in Int /\ b.price <= top /\ b.seq \in Nat,
           \A b, c \in S : b.seq = c.seq => b = c
    PROVE  \E b \in S : \A c \in S :
                \/ c = b \/ b.price > c.price
                \/ b.price = c.price /\ b.seq < c.seq
<1> DEFINE Gaps == {top - b.price : b \in S}
<1>1. PICK g \in Gaps : \A n \in Gaps : g <= n
  <2>1. Gaps \subseteq Nat /\ Gaps # {}  OBVIOUS
  <2> HIDE DEF Gaps
  <2> QED  BY <2>1, LeastNat
<1>2. PICK b \in S : g = top - b.price  OBVIOUS
<1>3. ASSUME NEW c \in S  PROVE c.price <= b.price
  <2>1. top - c.price \in Gaps  OBVIOUS
  <2>2. top - b.price <= top - c.price  BY <1>1, <1>2, <2>1
  <2> QED  BY <2>2
<1> DEFINE Ages == {c.seq : c \in {d \in S : d.price = b.price}}
<1>4. PICK a \in Ages : \A n \in Ages : a <= n
  <2>1. Ages \subseteq Nat /\ Ages # {}  OBVIOUS
  <2> HIDE DEF Ages
  <2> QED  BY <2>1, LeastNat
<1>5. PICK c \in S : c.price = b.price /\ a = c.seq  OBVIOUS
<1>6. ASSUME NEW d \in S
      PROVE  d = c \/ c.price > d.price \/ (c.price = d.price /\ c.seq < d.seq)
  <2>1. CASE d.price = c.price
    <3>1. d.seq \in Ages  BY <1>5, <2>1
    <3>2. c.seq <= d.seq  BY <1>4, <1>5, <3>1
    <3>3. c.seq = d.seq \/ c.seq < d.seq  BY <3>2
    <3> QED  BY <2>1, <3>3
  <2>2. CASE d.price # c.price
    BY <1>3, <1>5, <2>2
  <2> QED  BY <2>1, <2>2
<1> QED  BY <1>6

\* Of the subsets of a finite set that are in a family, one is smallest: none
\* of its proper subsets is in the family.
LEMMA SmallestSubset ==
    ASSUME NEW S, IsFiniteSet(S), NEW F, F \subseteq SUBSET S, F # {}
    PROVE  \E T \in F : \A U \in F : U \subseteq T => U = T
<1>1. IsWellFoundedOn(StrictSubsetOrdering(S), SUBSET S)
  BY FS_StrictSubsetOrderingWellFounded, FS_FiniteSubsetsOfFinite
<1>2. PICK T \in F : \A U \in F : <<U, T>> \notin StrictSubsetOrdering(S)
  BY <1>1, WFMin
<1>3. ASSUME NEW U \in F, U \subseteq T, U # T  PROVE FALSE
  <2>1. <<U, T>> \in (SUBSET S) \X (SUBSET S)  OBVIOUS
  <2>2. <<U, T>>[1] = U /\ <<U, T>>[2] = T  OBVIOUS
  <2> QED  BY <1>2, <1>3, <2>1, <2>2 DEF StrictSubsetOrdering
<1> QED  BY <1>3

-----------------------------------------------------------------------------
(* The recursive definition *)

\* The function that the fold computes, on the subsets in D.
IsSum(it, f, D) ==
    it = [s \in D |-> IF s = {} THEN 0 ELSE f[Pick(s)] + it[s \ {Pick(s)}]]

\* The subsets of S with at most n elements.
LOCAL Small(S, n) == {s \in SUBSET S : Cardinality(s) <= n}

\* It exists on the small subsets of a finite set.
LEMMA SumUpTo ==
    ASSUME NEW S, IsFiniteSet(S), NEW f, NEW n \in Nat
    PROVE  \E it : IsSum(it, f, Small(S, n))
<1> DEFINE Bad == {k \in Nat : ~ \E it : IsSum(it, f, Small(S, k))}
<1>1. SUFFICES ASSUME Bad # {}  PROVE FALSE
  OBVIOUS
<1>b. \A k \in Nat : k \notin Bad => \E it : IsSum(it, f, Small(S, k))
  OBVIOUS
<1>c. Bad \subseteq Nat /\ \A k \in Bad : ~ \E it : IsSum(it, f, Small(S, k))
  OBVIOUS
<1> HIDE DEF Bad
<1>2. PICK m \in Bad : \A k \in Bad : m <= k
  BY <1>1, <1>c, LeastNat
<1>3. \A s \in SUBSET S : IsFiniteSet(s) /\ Cardinality(s) \in Nat
  BY FS_Subset, FS_CardinalityType
<1>4. \A s \in SUBSET S : s # {} =>
        /\ Pick(s) \in s /\ s \ {Pick(s)} \in SUBSET S
        /\ Cardinality(s \ {Pick(s)}) = Cardinality(s) - 1
  BY <1>3, FS_RemoveElement DEF Pick
<1>5. CASE m = 0
  <2>1. \A s \in Small(S, m) : s = {}
    BY <1>3, <1>5, FS_EmptySet DEF Small
  <2>2. IsSum([s \in Small(S, m) |-> 0], f, Small(S, m))
    BY <2>1 DEF IsSum
  <2> QED  BY <1>c, <2>2
<1>6. CASE m # 0
  <2>1. m \in Nat /\ m - 1 \in Nat /\ m - 1 < m
    BY <1>c, <1>6
  <2>2. m - 1 \notin Bad
    BY <1>2, <2>1
  <2>3. PICK it : IsSum(it, f, Small(S, m - 1))
    BY <1>b, <2>1, <2>2
  <2> DEFINE next == [s \in Small(S, m) |->
                IF s = {} THEN 0 ELSE f[Pick(s)] + it[s \ {Pick(s)}]]
  <2>4. \A s \in Small(S, m - 1) : s \in Small(S, m)
    BY <1>3, <2>1 DEF Small
  <2>5. \A s \in Small(S, m - 1) : next[s] = it[s]
    BY <2>3, <2>4 DEF IsSum
  <2>6. \A s \in Small(S, m) : s # {} => s \ {Pick(s)} \in Small(S, m - 1)
    BY <1>3, <1>4, <2>1 DEF Small
  <2>7. IsSum(next, f, Small(S, m))
    BY <2>5, <2>6 DEF IsSum
  <2> QED  BY <1>c, <2>7
<1> QED  BY <1>5, <1>6

\* Two of them agree on every finite set that both are defined on.
LEMMA SumUnique ==
    ASSUME NEW S, IsFiniteSet(S), NEW f, NEW it, NEW ju, NEW D, NEW E,
           SUBSET S \subseteq D, SUBSET S \subseteq E,
           IsSum(it, f, D), IsSum(ju, f, E)
    PROVE  it[S] = ju[S]
<1> DEFINE Bad == {T \in SUBSET S : it[T] # ju[T]}
<1>1. SUFFICES ASSUME Bad # {}  PROVE FALSE
  OBVIOUS
<1>b. /\ Bad \subseteq SUBSET S /\ \A T \in Bad : it[T] # ju[T]
      /\ \A T \in SUBSET S : T \notin Bad => it[T] = ju[T]
  OBVIOUS
<1> HIDE DEF Bad
<1>2. PICK T \in Bad : \A U \in Bad : U \subseteq T => U = T
  BY <1>1, <1>b, SmallestSubset
<1>i. T \in D /\ T \in E  BY <1>b
<1>3. CASE T = {}
  BY <1>b, <1>i, <1>3 DEF IsSum
<1>4. CASE T # {}
  <2>1. Pick(T) \in T  BY <1>4 DEF Pick
  <2>2. T \ {Pick(T)} \in SUBSET S /\ T \ {Pick(T)} \notin Bad
    BY <1>2, <1>b, <2>1
  <2>3. it[T] = f[Pick(T)] + it[T \ {Pick(T)}]
    BY <1>4, <1>i DEF IsSum
  <2>4. ju[T] = f[Pick(T)] + ju[T \ {Pick(T)}]
    BY <1>4, <1>i DEF IsSum
  <2> QED  BY <1>b, <2>2, <2>3, <2>4
<1> QED  BY <1>3, <1>4

\* So SumFunctionOnSet follows its recursive definition.
LEMMA SumDef ==
    ASSUME NEW S, IsFiniteSet(S), NEW f
    PROVE  \E it : IsSum(it, f, SUBSET S) /\ SumFunctionOnSet(f, S) = it[S]
<1>1. \A s \in SUBSET S : Cardinality(s) <= Cardinality(S)
  BY FS_Subset
<1>2. Small(S, Cardinality(S)) = SUBSET S
  BY <1>1 DEF Small
<1>3. \E it : IsSum(it, f, SUBSET S)
  <2>1. Cardinality(S) \in Nat  BY FS_CardinalityType
  <2>2. \E it : IsSum(it, f, Small(S, Cardinality(S)))
    BY <2>1, SumUpTo
  <2> QED  BY <1>2, <2>2
<1>4. IsSum(CHOOSE it : IsSum(it, f, SUBSET S), f, SUBSET S)
  BY <1>3
<1>5. SumFunctionOnSet(f, S) = (CHOOSE it : IsSum(it, f, SUBSET S))[S]
  BY DEF SumFunctionOnSet, FoldFunctionOnSet, MapThenFoldSet, IsSum, Pick
<1> QED  BY <1>4, <1>5

\* The sum over nothing.
LEMMA SumEmpty == \A f : SumFunctionOnSet(f, {}) = 0
BY SumDef, FS_EmptySet DEF IsSum

\* The sum over a set is that over the rest and the element that is picked.
LEMMA SumPicked ==
    ASSUME NEW S, IsFiniteSet(S), S # {}, NEW f
    PROVE  /\ Pick(S) \in S
           /\ SumFunctionOnSet(f, S)
                = f[Pick(S)] + SumFunctionOnSet(f, S \ {Pick(S)})
<1>1. PICK it : IsSum(it, f, SUBSET S) /\ SumFunctionOnSet(f, S) = it[S]
  BY SumDef
<1> DEFINE T == S \ {Pick(S)}
<1>2. IsFiniteSet(T)  BY FS_RemoveElement
<1>3. PICK ju : IsSum(ju, f, SUBSET T) /\ SumFunctionOnSet(f, T) = ju[T]
  BY <1>2, SumDef
<1>4. SUBSET T \subseteq SUBSET S  OBVIOUS
<1>5. it[T] = ju[T]
  BY <1>1, <1>2, <1>3, <1>4, SumUnique
<1>6. it[S] = f[Pick(S)] + it[T]
  BY <1>1 DEF IsSum
<1>7. Pick(S) \in S  BY DEF Pick
<1> QED  BY <1>1, <1>3, <1>5, <1>6, <1>7

-----------------------------------------------------------------------------
(* Working with sums *)

\* A sum of integers is an integer.
LEMMA SumInt ==
    ASSUME NEW S, IsFiniteSet(S), NEW f, \A x \in S : f[x] \in Int
    PROVE  SumFunctionOnSet(f, S) \in Int
<1> DEFINE Bad == {T \in SUBSET S : SumFunctionOnSet(f, T) \notin Int}
<1>1. SUFFICES ASSUME Bad # {}  PROVE FALSE
  OBVIOUS
<1>b. /\ Bad \subseteq SUBSET S /\ \A T \in Bad : SumFunctionOnSet(f, T) \notin Int
      /\ \A T \in SUBSET S : T \notin Bad => SumFunctionOnSet(f, T) \in Int
  OBVIOUS
<1> HIDE DEF Bad
<1>2. PICK T \in Bad : \A U \in Bad : U \subseteq T => U = T
  BY <1>1, <1>b, SmallestSubset
<1>3. IsFiniteSet(T) /\ T \subseteq S  BY <1>b, FS_Subset
<1>z. SumFunctionOnSet(f, {}) \in Int
  <2>1. SumFunctionOnSet(f, {}) = 0  BY SumEmpty
  <2> QED  BY <2>1
<1>4. T # {}  BY <1>b, <1>z
<1>5. /\ Pick(T) \in T
      /\ SumFunctionOnSet(f, T) = f[Pick(T)] + SumFunctionOnSet(f, T \ {Pick(T)})
  BY <1>3, <1>4, SumPicked
<1>6. T \ {Pick(T)} \in SUBSET S /\ T \ {Pick(T)} \notin Bad
  BY <1>2, <1>3, <1>5
<1> QED  BY <1>b, <1>3, <1>5, <1>6

\* Any element can be taken out of a sum first, not only the one picked.
LEMMA SumRemove ==
    ASSUME NEW S, IsFiniteSet(S), NEW f, \A y \in S : f[y] \in Int, NEW x \in S
    PROVE  SumFunctionOnSet(f, S) = f[x] + SumFunctionOnSet(f, S \ {x})
<1> DEFINE Right(T) == \A y \in T :
                SumFunctionOnSet(f, T) = f[y] + SumFunctionOnSet(f, T \ {y})
           Bad == {T \in SUBSET S : ~ Right(T)}
<1>1. SUFFICES ASSUME Bad # {}  PROVE FALSE
  OBVIOUS
<1>b. /\ Bad \subseteq SUBSET S /\ \A T \in Bad : ~ Right(T)
      /\ \A T \in SUBSET S : T \notin Bad => Right(T)
  OBVIOUS
<1> HIDE DEF Bad
<1>2. PICK T \in Bad : \A U \in Bad : U \subseteq T => U = T
  BY <1>1, <1>b, SmallestSubset
<1>3. T \subseteq S /\ IsFiniteSet(T)  BY <1>b, FS_Subset
<1>4. PICK y \in T :
        SumFunctionOnSet(f, T) # f[y] + SumFunctionOnSet(f, T \ {y})
  BY <1>b
<1>5. PICK p \in T :
        SumFunctionOnSet(f, T) = f[p] + SumFunctionOnSet(f, T \ {p})
  BY <1>3, <1>4, SumPicked
<1>6. p # y  BY <1>4, <1>5
<1>7. \A z \in T : T \ {z} \in SUBSET S /\ Right(T \ {z})
  BY <1>2, <1>3, <1>b
<1> DEFINE R == T \ {p, y}
<1>8. (T \ {p}) \ {y} = R /\ (T \ {y}) \ {p} = R  OBVIOUS
<1>9. SumFunctionOnSet(f, T \ {p}) = f[y] + SumFunctionOnSet(f, R)
  BY <1>6, <1>7, <1>8
<1>10. SumFunctionOnSet(f, T \ {y}) = f[p] + SumFunctionOnSet(f, R)
  BY <1>6, <1>7, <1>8
<1>11. SumFunctionOnSet(f, R) \in Int
  BY <1>3, FS_Subset, SumInt
<1>12. f[p] \in Int /\ f[y] \in Int  BY <1>3
<1> QED  BY <1>4, <1>5, <1>9, <1>10, <1>11, <1>12

\* A new element adds its value.
LEMMA SumAdd ==
    ASSUME NEW S, IsFiniteSet(S), NEW x, x \notin S, NEW f,
           \A y \in S \cup {x} : f[y] \in Int
    PROVE  SumFunctionOnSet(f, S \cup {x}) = f[x] + SumFunctionOnSet(f, S)
<1>1. IsFiniteSet(S \cup {x}) /\ (S \cup {x}) \ {x} = S
  BY FS_AddElement
<1> QED  BY <1>1, SumRemove

\* Only the values on the set matter.
LEMMA SumSame ==
    ASSUME NEW S, IsFiniteSet(S), NEW f, NEW g, \A x \in S : f[x] = g[x]
    PROVE  SumFunctionOnSet(f, S) = SumFunctionOnSet(g, S)
<1> DEFINE Bad == {T \in SUBSET S : SumFunctionOnSet(f, T) # SumFunctionOnSet(g, T)}
<1>1. SUFFICES ASSUME Bad # {}  PROVE FALSE
  OBVIOUS
<1>b. /\ Bad \subseteq SUBSET S
      /\ \A T \in Bad : SumFunctionOnSet(f, T) # SumFunctionOnSet(g, T)
      /\ \A T \in SUBSET S : T \notin Bad =>
            SumFunctionOnSet(f, T) = SumFunctionOnSet(g, T)
  OBVIOUS
<1> HIDE DEF Bad
<1>2. PICK T \in Bad : \A U \in Bad : U \subseteq T => U = T
  BY <1>1, <1>b, SmallestSubset
<1>3. IsFiniteSet(T) /\ T \subseteq S  BY <1>b, FS_Subset
<1>z. SumFunctionOnSet(f, {}) = 0 /\ SumFunctionOnSet(g, {}) = 0  BY SumEmpty
<1>4. T # {}  BY <1>b, <1>z
<1>5. /\ Pick(T) \in T
      /\ SumFunctionOnSet(f, T) = f[Pick(T)] + SumFunctionOnSet(f, T \ {Pick(T)})
      /\ SumFunctionOnSet(g, T) = g[Pick(T)] + SumFunctionOnSet(g, T \ {Pick(T)})
  BY <1>3, <1>4, SumPicked
<1>6. T \ {Pick(T)} \in SUBSET S /\ T \ {Pick(T)} \notin Bad
  BY <1>2, <1>3, <1>5
<1> QED  BY <1>b, <1>3, <1>5, <1>6

\* When one value changes, the sum changes by as much.
LEMMA SumChange ==
    ASSUME NEW S, IsFiniteSet(S), NEW x \in S, NEW f, NEW g,
           \A y \in S : f[y] \in Int /\ g[y] \in Int,
           \A y \in S \ {x} : f[y] = g[y]
    PROVE  SumFunctionOnSet(g, S) = SumFunctionOnSet(f, S) + g[x] - f[x]
<1>1. IsFiniteSet(S \ {x})  BY FS_RemoveElement
<1>2. SumFunctionOnSet(f, S \ {x}) = SumFunctionOnSet(g, S \ {x})
  BY <1>1, SumSame
<1>3. SumFunctionOnSet(f, S) = f[x] + SumFunctionOnSet(f, S \ {x})
  BY SumRemove
<1>4. SumFunctionOnSet(g, S) = g[x] + SumFunctionOnSet(g, S \ {x})
  BY SumRemove
<1>5. SumFunctionOnSet(f, S \ {x}) \in Int  BY <1>1, SumInt
<1>6. f[x] \in Int /\ g[x] \in Int  OBVIOUS
<1> QED  BY <1>2, <1>3, <1>4, <1>5, <1>6

\* A sum grows with its values.
LEMMA SumMonotonic ==
    ASSUME NEW S, IsFiniteSet(S), NEW f, NEW g,
           \A x \in S : f[x] \in Int /\ g[x] \in Int /\ f[x] <= g[x]
    PROVE  SumFunctionOnSet(f, S) <= SumFunctionOnSet(g, S)
<1> DEFINE Bad == {T \in SUBSET S :
                ~ (SumFunctionOnSet(f, T) <= SumFunctionOnSet(g, T))}
<1>1. SUFFICES ASSUME Bad # {}  PROVE FALSE
  OBVIOUS
<1>b. /\ Bad \subseteq SUBSET S
      /\ \A T \in Bad : ~ (SumFunctionOnSet(f, T) <= SumFunctionOnSet(g, T))
      /\ \A T \in SUBSET S : T \notin Bad =>
            SumFunctionOnSet(f, T) <= SumFunctionOnSet(g, T)
  OBVIOUS
<1> HIDE DEF Bad
<1>2. PICK T \in Bad : \A U \in Bad : U \subseteq T => U = T
  BY <1>1, <1>b, SmallestSubset
<1>3. IsFiniteSet(T) /\ T \subseteq S  BY <1>b, FS_Subset
<1>z. SumFunctionOnSet(f, {}) = 0 /\ SumFunctionOnSet(g, {}) = 0  BY SumEmpty
<1>4. T # {}  BY <1>b, <1>z
<1>5. PICK p \in T : TRUE  BY <1>4
<1>6. /\ SumFunctionOnSet(f, T) = f[p] + SumFunctionOnSet(f, T \ {p})
      /\ SumFunctionOnSet(g, T) = g[p] + SumFunctionOnSet(g, T \ {p})
  BY <1>3, SumRemove
<1>7. T \ {p} \in SUBSET S /\ T \ {p} \notin Bad /\ IsFiniteSet(T \ {p})
  BY <1>2, <1>3, FS_RemoveElement
<1>8. /\ SumFunctionOnSet(f, T \ {p}) \in Int
      /\ SumFunctionOnSet(g, T \ {p}) \in Int
  BY <1>7, SumInt
<1>9. /\ f[p] \in Int /\ g[p] \in Int /\ f[p] <= g[p]
      /\ SumFunctionOnSet(f, T \ {p}) <= SumFunctionOnSet(g, T \ {p})
  BY <1>b, <1>3, <1>7
<1>10. ~ (SumFunctionOnSet(f, T) <= SumFunctionOnSet(g, T))  BY <1>b
<1> QED  BY <1>6, <1>8, <1>9, <1>10

\* The sum of zeros.
LEMMA SumZero ==
    ASSUME NEW S, IsFiniteSet(S), NEW f, \A x \in S : f[x] = 0
    PROVE  SumFunctionOnSet(f, S) = 0
<1> DEFINE Bad == {T \in SUBSET S : SumFunctionOnSet(f, T) # 0}
<1>1. SUFFICES ASSUME Bad # {}  PROVE FALSE
  OBVIOUS
<1>b. /\ Bad \subseteq SUBSET S /\ \A T \in Bad : SumFunctionOnSet(f, T) # 0
      /\ \A T \in SUBSET S : T \notin Bad => SumFunctionOnSet(f, T) = 0
  OBVIOUS
<1> HIDE DEF Bad
<1>2. PICK T \in Bad : \A U \in Bad : U \subseteq T => U = T
  BY <1>1, <1>b, SmallestSubset
<1>3. IsFiniteSet(T) /\ T \subseteq S  BY <1>b, FS_Subset
<1>z. SumFunctionOnSet(f, {}) = 0  BY SumEmpty
<1>4. T # {}  BY <1>b, <1>z
<1>5. /\ Pick(T) \in T
      /\ SumFunctionOnSet(f, T) = f[Pick(T)] + SumFunctionOnSet(f, T \ {Pick(T)})
  BY <1>3, <1>4, SumPicked
<1>6. T \ {Pick(T)} \in SUBSET S /\ T \ {Pick(T)} \notin Bad
  BY <1>2, <1>3, <1>5
<1> QED  BY <1>b, <1>3, <1>5, <1>6

\* Amounts add up to an amount, no smaller than any of them.
LEMMA SumNat ==
    ASSUME NEW S, IsFiniteSet(S), NEW f, \A x \in S : f[x] \in Nat
    PROVE  /\ SumFunctionOnSet(f, S) \in Nat
           /\ \A x \in S : f[x] <= SumFunctionOnSet(f, S)
<1>1. ASSUME NEW T \in SUBSET S  PROVE SumFunctionOnSet(f, T) \in Nat
  <2> DEFINE zero == [x \in T |-> 0]
  <2>1. IsFiniteSet(T)  BY FS_Subset
  <2>2. SumFunctionOnSet(zero, T) = 0  BY <2>1, SumZero
  <2>3. \A x \in T : zero[x] \in Int /\ f[x] \in Int /\ zero[x] <= f[x]
    OBVIOUS
  <2> HIDE DEF zero
  <2>4. SumFunctionOnSet(zero, T) <= SumFunctionOnSet(f, T)
    BY <2>1, <2>3, SumMonotonic
  <2>5. SumFunctionOnSet(f, T) \in Int  BY <2>1, <2>3, SumInt
  <2> QED  BY <2>2, <2>4, <2>5
<1>2. ASSUME NEW x \in S  PROVE f[x] <= SumFunctionOnSet(f, S)
  <2>1. SumFunctionOnSet(f, S) = f[x] + SumFunctionOnSet(f, S \ {x})
    BY SumRemove
  <2>2. SumFunctionOnSet(f, S \ {x}) \in Nat  BY <1>1
  <2> QED  BY <2>1, <2>2
<1> QED  BY <1>1, <1>2

\* Terms outside a subset do not count when they are zero.
LEMMA SumSupport ==
    ASSUME NEW S, IsFiniteSet(S), NEW T, T \subseteq S, NEW f, NEW g,
           \A x \in T : f[x] \in Int /\ g[x] = f[x],
           \A x \in S \ T : g[x] = 0
    PROVE  SumFunctionOnSet(g, S) = SumFunctionOnSet(f, T)
<1> DEFINE Bad == {U \in SUBSET S :
                SumFunctionOnSet(g, U) # SumFunctionOnSet(f, U \cap T)}
<1>1. SUFFICES ASSUME Bad # {}  PROVE FALSE
  <2>1. S \cap T = T  OBVIOUS
  <2>2. S \notin Bad  BY <1>1
  <2> QED  BY <2>1, <2>2
<1>b. /\ Bad \subseteq SUBSET S
      /\ \A U \in Bad : SumFunctionOnSet(g, U) # SumFunctionOnSet(f, U \cap T)
      /\ \A U \in SUBSET S : U \notin Bad =>
            SumFunctionOnSet(g, U) = SumFunctionOnSet(f, U \cap T)
  OBVIOUS
<1> HIDE DEF Bad
<1>2. PICK U \in Bad : \A V \in Bad : V \subseteq U => V = U
  BY <1>1, <1>b, SmallestSubset
<1>3. IsFiniteSet(U) /\ U \subseteq S  BY <1>b, FS_Subset
<1>z. SumFunctionOnSet(g, {}) = 0 /\ SumFunctionOnSet(f, {}) = 0  BY SumEmpty
<1>4. U # {}
  <2>1. {} \cap T = {}  OBVIOUS
  <2> QED  BY <1>b, <1>z, <2>1
<1>5. PICK p \in U : TRUE  BY <1>4
<1>6. \A x \in S : g[x] \in Int  OBVIOUS
<1>7. SumFunctionOnSet(g, U) = g[p] + SumFunctionOnSet(g, U \ {p})
  BY <1>3, <1>6, SumRemove
<1>8. U \ {p} \in SUBSET S /\ U \ {p} \notin Bad /\ IsFiniteSet(U \ {p})
  BY <1>2, <1>3, FS_RemoveElement
<1>9. SumFunctionOnSet(g, U \ {p}) = SumFunctionOnSet(f, (U \ {p}) \cap T)
  BY <1>b, <1>8
<1>10. SumFunctionOnSet(g, U \ {p}) \in Int  BY <1>3, <1>6, <1>8, SumInt
<1>11. IsFiniteSet(U \cap T)  BY <1>3, FS_Subset
<1>12. CASE p \in T
  <2>1. (U \ {p}) \cap T = (U \cap T) \ {p}  OBVIOUS
  <2>2. SumFunctionOnSet(f, U \cap T)
          = f[p] + SumFunctionOnSet(f, (U \cap T) \ {p})
    BY <1>11, <1>12, SumRemove
  <2> QED  BY <1>b, <1>7, <1>9, <1>12, <2>1, <2>2
<1>13. CASE p \notin T
  <2>1. (U \ {p}) \cap T = U \cap T /\ g[p] = 0  BY <1>3, <1>13
  <2> QED  BY <1>b, <1>7, <1>9, <1>10, <2>1
<1> QED  BY <1>12, <1>13

\* An entry that is written, new or not, changes the total by what it adds.
LEMMA SumPut ==
    ASSUME NEW f, IsFiniteSet(DOMAIN f), \A x \in DOMAIN f : f[x] \in Int,
           NEW k, NEW n \in Int, NEW g, DOMAIN g = DOMAIN f \cup {k},
           \A x \in DOMAIN f \ {k} : g[x] = f[x],
           g[k] = (IF k \in DOMAIN f THEN f[k] ELSE 0) + n
    PROVE  /\ IsFiniteSet(DOMAIN g)
           /\ \A x \in DOMAIN g : g[x] \in Int
           /\ SumFunction(g) = SumFunction(f) + n
<1> DEFINE D == DOMAIN f
<1>1. /\ SumFunction(f) = SumFunctionOnSet(f, D)
      /\ SumFunction(g) = SumFunctionOnSet(g, D \cup {k})
  BY DEF SumFunction
<1>2. IsFiniteSet(D \cup {k})  BY FS_AddElement
<1>3. \A x \in D \cup {k} : g[x] \in Int
  OBVIOUS
<1> SUFFICES SumFunctionOnSet(g, D \cup {k}) = SumFunctionOnSet(f, D) + n
  BY <1>1, <1>2, <1>3
<1>4. CASE k \in D
  <2>1. D \cup {k} = D  BY <1>4
  <2>2. SumFunctionOnSet(g, D) = SumFunctionOnSet(f, D) + g[k] - f[k]
    <3>1. \A y \in D : f[y] \in Int /\ g[y] \in Int  BY <1>3
    <3>2. \A y \in D \ {k} : f[y] = g[y]  OBVIOUS
    <3> QED  BY <1>4, <3>1, <3>2, SumChange
  <2>3. g[k] = f[k] + n /\ f[k] \in Int  BY <1>4
  <2>4. SumFunctionOnSet(f, D) \in Int  BY SumInt
  <2>5. g[k] - f[k] = n  BY <2>3
  <2>6. SumFunctionOnSet(g, D) = SumFunctionOnSet(f, D) + n
    BY <1>3, <2>2, <2>3, <2>4, <2>5
  <2> HIDE DEF D
  <2> QED  BY <2>1, <2>6
<1>5. CASE k \notin D
  <2>1. SumFunctionOnSet(g, D \cup {k}) = g[k] + SumFunctionOnSet(g, D)
    BY <1>3, <1>5, SumAdd
  <2>2. SumFunctionOnSet(f, D) = SumFunctionOnSet(g, D)
    <3>1. \A y \in D : f[y] = g[y]  BY <1>5
    <3> QED  BY <3>1, SumSame
  <2>3. g[k] = n  BY <1>5
  <2>4. SumFunctionOnSet(f, D) \in Int  BY SumInt
  <2>5. g[k] \in Int  BY <1>3
  <2> HIDE DEF D
  <2> QED  BY <2>1, <2>2, <2>3, <2>4, <2>5
<1> QED  BY <1>4, <1>5

\* The sum of two functions.
LEMMA SumPlus ==
    ASSUME NEW S, IsFiniteSet(S), NEW f, NEW g, NEW h,
           \A x \in S : f[x] \in Int /\ g[x] \in Int /\ h[x] = f[x] + g[x]
    PROVE  SumFunctionOnSet(h, S) = SumFunctionOnSet(f, S) + SumFunctionOnSet(g, S)
<1> DEFINE Right(T) == SumFunctionOnSet(h, T)
                         = SumFunctionOnSet(f, T) + SumFunctionOnSet(g, T)
           Bad == {T \in SUBSET S : ~ Right(T)}
<1>1. SUFFICES ASSUME Bad # {}  PROVE FALSE
  OBVIOUS
<1>b. /\ Bad \subseteq SUBSET S /\ \A T \in Bad : ~ Right(T)
      /\ \A T \in SUBSET S : T \notin Bad => Right(T)
  OBVIOUS
<1> HIDE DEF Bad
<1>2. PICK T \in Bad : \A U \in Bad : U \subseteq T => U = T
  BY <1>1, <1>b, SmallestSubset
<1>3. IsFiniteSet(T) /\ T \subseteq S  BY <1>b, FS_Subset
<1>z. Right({})
  <2>1. /\ SumFunctionOnSet(f, {}) = 0 /\ SumFunctionOnSet(g, {}) = 0
        /\ SumFunctionOnSet(h, {}) = 0
    BY SumEmpty
  <2> QED  BY <2>1
<1>4. T # {}  BY <1>b, <1>z
<1>5. PICK p \in T : TRUE  BY <1>4
<1>6. \A x \in T : f[x] \in Int /\ g[x] \in Int /\ h[x] \in Int /\ h[x] = f[x] + g[x]
  BY <1>3
<1> DEFINE R == T \ {p}
<1>7. /\ SumFunctionOnSet(f, T) = f[p] + SumFunctionOnSet(f, R)
      /\ SumFunctionOnSet(g, T) = g[p] + SumFunctionOnSet(g, R)
      /\ SumFunctionOnSet(h, T) = h[p] + SumFunctionOnSet(h, R)
  BY <1>3, <1>6, SumRemove
<1>8. R \in SUBSET S /\ R \notin Bad /\ IsFiniteSet(R)
  BY <1>2, <1>3, FS_RemoveElement
<1>9. SumFunctionOnSet(f, R) \in Int /\ SumFunctionOnSet(g, R) \in Int
  BY <1>6, <1>8, SumInt
<1>10. SumFunctionOnSet(h, R) = SumFunctionOnSet(f, R) + SumFunctionOnSet(g, R)
  BY <1>b, <1>8
<1>11. f[p] \in Int /\ g[p] \in Int /\ h[p] = f[p] + g[p]  BY <1>6
<1>12. ~ Right(T)  BY <1>b
<1> HIDE DEF R
<1> QED  BY <1>7, <1>9, <1>10, <1>11, <1>12

\* A sum over an image of a set, when no two elements have the same image.
LEMMA SumImage ==
    ASSUME NEW S, IsFiniteSet(S), NEW move, NEW f, NEW g,
           \A x, y \in S : move[x] = move[y] => x = y,
           \A x \in S : f[x] \in Int /\ g[move[x]] = f[x]
    PROVE  /\ IsFiniteSet({move[x] : x \in S})
           /\ SumFunctionOnSet(g, {move[x] : x \in S}) = SumFunctionOnSet(f, S)
<1> DEFINE Im(T) == {move[x] : x \in T}
           Right(T) == /\ IsFiniteSet(Im(T))
                       /\ SumFunctionOnSet(g, Im(T)) = SumFunctionOnSet(f, T)
           Bad == {T \in SUBSET S : ~ Right(T)}
<1>1. SUFFICES ASSUME Bad # {}  PROVE FALSE
  OBVIOUS
<1>b. /\ Bad \subseteq SUBSET S /\ \A T \in Bad : ~ Right(T)
      /\ \A T \in SUBSET S : T \notin Bad => Right(T)
  OBVIOUS
<1> HIDE DEF Bad
<1>2. PICK T \in Bad : \A U \in Bad : U \subseteq T => U = T
  BY <1>1, <1>b, SmallestSubset
<1>3. IsFiniteSet(T) /\ T \subseteq S  BY <1>b, FS_Subset
<1>z. Right({})
  <2>1. Im({}) = {}  OBVIOUS
  <2>2. SumFunctionOnSet(g, {}) = 0 /\ SumFunctionOnSet(f, {}) = 0  BY SumEmpty
  <2>3. IsFiniteSet({})  BY FS_EmptySet
  <2> HIDE DEF Im
  <2> QED  BY <2>1, <2>2, <2>3
<1>4. T # {}  BY <1>b, <1>z
<1>5. PICK p \in T : TRUE  BY <1>4
<1> DEFINE R == T \ {p}
<1>6. R \in SUBSET S /\ R \notin Bad
  BY <1>2, <1>3
<1>7. Right(R)  BY <1>b, <1>6
<1>8. move[p] \notin Im(R) /\ Im(T) = Im(R) \cup {move[p]}
  BY <1>3
<1>9. \A y \in Im(T) : g[y] \in Int
  BY <1>3
<1>10. SumFunctionOnSet(f, T) = f[p] + SumFunctionOnSet(f, R)
  BY <1>3, SumRemove
<1>11. g[move[p]] = f[p]  BY <1>3
<1> HIDE DEF Im
<1>12. IsFiniteSet(Im(R) \cup {move[p]})  BY <1>7, FS_AddElement
<1>13. SumFunctionOnSet(g, Im(R) \cup {move[p]}) = g[move[p]] + SumFunctionOnSet(g, Im(R))
  BY <1>7, <1>8, <1>9, SumAdd
<1>14. Right(T)
  BY <1>7, <1>8, <1>10, <1>11, <1>12, <1>13
<1> QED  BY <1>b, <1>14

\* A sum, taken key by key.
LEMMA SumByKey ==
    ASSUME NEW S, IsFiniteSet(S), NEW D, IsFiniteSet(D), NEW key, NEW f,
           \A x \in S : f[x] \in Int /\ key[x] \in D
    PROVE  SumFunctionOnSet([k \in D |-> SumFunctionOnSet(f, {x \in S : key[x] = k})], D)
             = SumFunctionOnSet(f, S)
<1> DEFINE Of(T, k) == {x \in T : key[x] = k}
           part(T) == [k \in D |-> SumFunctionOnSet(f, Of(T, k))]
           Right(T) == SumFunctionOnSet(part(T), D) = SumFunctionOnSet(f, T)
           Bad == {T \in SUBSET S : ~ Right(T)}
<1>1. SUFFICES ASSUME Bad # {}  PROVE FALSE
  OBVIOUS
<1>b. /\ Bad \subseteq SUBSET S /\ \A T \in Bad : ~ Right(T)
      /\ \A T \in SUBSET S : T \notin Bad => Right(T)
  OBVIOUS
<1>p. \A T : \A k \in D : part(T)[k] = SumFunctionOnSet(f, Of(T, k))  OBVIOUS
<1>o. \A T, k : Of(T, k) \subseteq T /\ \A x \in Of(T, k) : key[x] = k  OBVIOUS
<1>i. \A T, k : \A x \in T : key[x] = k => x \in Of(T, k)  OBVIOUS
<1> HIDE DEF Bad, Of, part
<1>2. PICK T \in Bad : \A U \in Bad : U \subseteq T => U = T
  BY <1>1, <1>b, SmallestSubset
<1>3. IsFiniteSet(T) /\ T \subseteq S  BY <1>b, FS_Subset
<1>4. \A U \in SUBSET S : \A k \in D : /\ IsFiniteSet(Of(U, k))
                                       /\ part(U)[k] \in Int
  <2> TAKE U \in SUBSET S
  <2> TAKE k \in D
  <2>1. IsFiniteSet(Of(U, k)) /\ \A x \in Of(U, k) : f[x] \in Int
    BY <1>o, FS_Subset
  <2> QED  BY <1>p, <2>1, SumInt
<1>z. Right({})
  <2>1. \A k \in D : part({})[k] = 0
    <3> TAKE k \in D
    <3>1. Of({}, k) = {}  BY <1>o
    <3> QED  BY <1>p, <3>1, SumEmpty
  <2> QED  BY <2>1, SumZero, SumEmpty
<1>5. PICK p \in T : TRUE  BY <1>b, <1>z
<1>6. PICK R : R = T \ {p}  OBVIOUS
<1>7. R \in SUBSET S /\ IsFiniteSet(R) /\ Right(R)
  BY <1>b, <1>2, <1>3, <1>5, <1>6, FS_Subset
<1>8. PICK a : a = key[p] /\ a \in D  BY <1>3, <1>5
<1>9. \A k \in D \ {a} : part(T)[k] = part(R)[k]
  <2> TAKE k \in D \ {a}
  <2>1. Of(T, k) = Of(R, k)  BY <1>6, <1>8 DEF Of
  <2> QED  BY <1>p, <2>1
<1>10. part(T)[a] = f[p] + part(R)[a]
  <2>1. p \in Of(T, a) /\ Of(R, a) = Of(T, a) \ {p}  BY <1>5, <1>6, <1>8 DEF Of
  <2>2. IsFiniteSet(Of(T, a)) /\ \A x \in Of(T, a) : f[x] \in Int
    BY <1>3, <1>4, <1>8, <1>o
  <2>3. SumFunctionOnSet(f, Of(T, a)) = f[p] + SumFunctionOnSet(f, Of(T, a) \ {p})
    BY <2>1, <2>2, SumRemove
  <2> QED  BY <1>p, <1>8, <2>1, <2>3
<1>11. \A k \in D : part(T)[k] \in Int /\ part(R)[k] \in Int
  BY <1>3, <1>4, <1>7
<1>12. SumFunctionOnSet(part(T), D)
         = SumFunctionOnSet(part(R), D) + part(T)[a] - part(R)[a]
  <2>1. PICK g, h : g = part(R) /\ h = part(T)  OBVIOUS
  <2>2. SumFunctionOnSet(h, D) = SumFunctionOnSet(g, D) + h[a] - g[a]
    BY <1>8, <1>9, <1>11, <2>1, SumChange
  <2> QED  BY <2>1, <2>2
<1>13. SumFunctionOnSet(f, T) = f[p] + SumFunctionOnSet(f, R)
  BY <1>3, <1>5, <1>6, SumRemove
<1>14. f[p] \in Int /\ SumFunctionOnSet(part(R), D) \in Int
  BY <1>3, <1>5, <1>11, SumInt
<1>15. SumFunctionOnSet(part(T), D) = SumFunctionOnSet(part(R), D) + f[p]
  BY <1>8, <1>10, <1>11, <1>12, <1>14
<1>16. ~Right(T)  BY <1>b, <1>2
<1> QED  BY <1>7, <1>13, <1>14, <1>15, <1>16

-----------------------------------------------------------------------------
(* What Matching does to a book *)

\* The orders of a book of the users U.
IsBook(book, U) ==
    /\ IsFiniteSet(book)
    /\ book \subseteq [user : U, volume : Nat, price : Int, seq : Nat]
    /\ \A o, p \in book : o.seq = p.seq => o = p

\* What orders want is an amount, and the sum of what each of them wants.
LEMMA WantedBasics ==
    ASSUME NEW S, IsFiniteSet(S), \A o \in S : o.volume \in Nat
    PROVE  /\ Wanted(S) \in Nat
           /\ \A o \in S : Wanted(S) = o.volume + Wanted(S \ {o})
           /\ \A T \in SUBSET S : Wanted(T) \in Nat /\ Wanted(T) <= Wanted(S)
<1> DEFINE vol == [o \in S |-> o.volume]
<1>1. \A o \in S : vol[o] \in Nat /\ vol[o] \in Int  OBVIOUS
<1>2. ASSUME NEW T \in SUBSET S
      PROVE  Wanted(T) = SumFunctionOnSet(vol, T) /\ IsFiniteSet(T)
  <2>1. IsFiniteSet(T)  BY FS_Subset
  <2>2. SumFunctionOnSet([o \in T |-> o.volume], T) = SumFunctionOnSet(vol, T)
    <3>1. \A o \in T : [p \in T |-> p.volume][o] = vol[o]  OBVIOUS
    <3> HIDE DEF vol
    <3> QED  BY <2>1, <3>1, SumSame
  <2> QED  BY <2>1, <2>2 DEF Wanted, SumFunction
<1> HIDE DEF vol
<1>3. ASSUME NEW T \in SUBSET S  PROVE Wanted(T) \in Nat
  <2>1. \A o \in T : vol[o] \in Nat  BY <1>1
  <2> QED  BY <1>2, <2>1, SumNat
<1>4. ASSUME NEW o \in S  PROVE Wanted(S) = o.volume + Wanted(S \ {o})
  <2>1. SumFunctionOnSet(vol, S) = vol[o] + SumFunctionOnSet(vol, S \ {o})
    BY <1>1, SumRemove
  <2>2. vol[o] = o.volume  BY DEF vol
  <2> QED  BY <1>2, <2>1, <2>2
<1>5. ASSUME NEW T \in SUBSET S  PROVE Wanted(T) <= Wanted(S)
  <2> DEFINE inT == [o \in S |-> IF o \in T THEN o.volume ELSE 0]
  <2>1. \A o \in S : inT[o] \in Int /\ vol[o] \in Int /\ inT[o] <= vol[o]
    BY <1>1 DEF vol
  <2>2. \A o \in T : vol[o] \in Int /\ inT[o] = vol[o]
    BY <1>1 DEF vol
  <2>3. \A o \in S \ T : inT[o] = 0  OBVIOUS
  <2> HIDE DEF inT
  <2>4. SumFunctionOnSet(inT, S) = SumFunctionOnSet(vol, T)
    BY <2>2, <2>3, SumSupport
  <2>5. SumFunctionOnSet(inT, S) <= SumFunctionOnSet(vol, S)
    BY <2>1, SumMonotonic
  <2>6. S \in SUBSET S  OBVIOUS
  <2> QED  BY <1>2, <2>4, <2>5, <2>6
<1> QED  BY <1>3, <1>4, <1>5

\* Nobody waits for nothing.
LEMMA WantedNothing == Wanted({}) = 0
BY SumEmpty DEF Wanted, SumFunction

\* An order that is served gets an amount, and never more than it wants.
LEMMA PortionFits ==
    ASSUME NEW U, NEW book, IsBook(book, U), NEW total \in Int
    PROVE  /\ \A o \in book : Ahead(book, o) \in Nat /\ o.volume \in Nat
           /\ \A o \in Served(book, total) :
                /\ o \in book /\ Portion(book, total, o) \in Nat
                /\ o.volume - Portion(book, total, o) \in Nat
<1>1. ASSUME NEW o \in book  PROVE Ahead(book, o) \in Nat /\ o.volume \in Nat
  <2>1. \A p \in book : p.volume \in Nat  BY DEF IsBook
  <2>2. {p \in book : Before(p, o)} \in SUBSET book  OBVIOUS
  <2> QED  BY <2>1, <2>2, WantedBasics DEF Ahead, IsBook
<1>2. ASSUME NEW o \in Served(book, total)
      PROVE  /\ o \in book /\ Portion(book, total, o) \in Nat
             /\ o.volume - Portion(book, total, o) \in Nat
  <2>1. o \in book /\ Ahead(book, o) < total  BY <1>2 DEF Served
  <2>2. Ahead(book, o) \in Nat /\ o.volume \in Nat  BY <1>1, <2>1
  <2>3. total - Ahead(book, o) \in Nat  BY <2>1, <2>2
  <2> QED  BY <2>1, <2>2, <2>3 DEF Portion
<1> QED  BY <1>1, <1>2

\* Together they get an amount.
LEMMA PortionsFit ==
    ASSUME NEW U, NEW book, IsBook(book, U), NEW total \in Int,
           NEW some, some \subseteq Served(book, total)
    PROVE  IsFiniteSet(some) /\ Portions(book, total, some) \in Nat
<1>1. some \subseteq book  BY DEF Served
<1>2. IsFiniteSet(some)  BY <1>1, FS_Subset DEF IsBook
<1> DEFINE part == [o \in some |-> Portion(book, total, o)]
<1>3. \A o \in some : part[o] \in Nat  BY PortionFits
<1>4. Portions(book, total, some) = SumFunctionOnSet(part, some)
  BY DEF Portions, SumFunction
<1> HIDE DEF part
<1> QED  BY <1>2, <1>3, <1>4, SumNat

\* Nobody ever has less after a match than before it.
LEMMA MatchGives ==
    ASSUME NEW U, NEW book, IsBook(book, U), NEW total \in Int, NEW given,
           \A u \in DOMAIN given : given[u] \in Nat
    PROVE  LET after == GivenAfter(given, book, total) IN
           /\ DOMAIN given \subseteq DOMAIN after
           /\ \A u \in DOMAIN after : after[u] \in Nat
           /\ \A u : GivenTo(given, u) <= GivenTo(after, u)
<1> DEFINE after == GivenAfter(given, book, total)
           mine(u) == {o \in Served(book, total) : o.user = u}
<1>1. /\ DOMAIN after = DOMAIN given \cup {o.user : o \in Served(book, total)}
      /\ \A u \in DOMAIN after :
            after[u] = GivenTo(given, u) + Portions(book, total, mine(u))
  BY DEF GivenAfter
<1>2. ASSUME NEW u  PROVE Portions(book, total, mine(u)) \in Nat
  <2>1. mine(u) \subseteq Served(book, total)  OBVIOUS
  <2> QED  BY <2>1, PortionsFit
<1>3. \A u : GivenTo(given, u) \in Nat  BY DEF GivenTo
<1> HIDE DEF after, mine
<1>4. \A u \in DOMAIN after : after[u] \in Nat /\ GivenTo(given, u) <= after[u]
  BY <1>1, <1>2, <1>3
<1>5. \A u : GivenTo(given, u) <= GivenTo(after, u)
  <2> SUFFICES ASSUME NEW u  PROVE GivenTo(given, u) <= GivenTo(after, u)
    OBVIOUS
  <2>1. CASE u \in DOMAIN after
    BY <1>4, <2>1 DEF GivenTo
  <2>2. CASE u \notin DOMAIN after
    <3>1. u \notin DOMAIN given  BY <1>1, <2>2
    <3> QED  BY <2>2, <3>1 DEF GivenTo
  <2> QED  BY <2>1, <2>2
<1>6. DOMAIN given \subseteq DOMAIN after  BY <1>1
<1> QED  BY <1>4, <1>5, <1>6 DEF after

\* An order with what a match leaves of it.
LOCAL Rest(book, total, o) ==
    IF o \in Served(book, total)
    THEN [o EXCEPT !.volume = @ - Portion(book, total, o)] ELSE o

LOCAL Stays(book, total) ==
    {o \in book : o \in Served(book, total) => Portion(book, total, o) < o.volume}

\* The orders that stay are the rests of different orders.
LEMMA RestsStay ==
    ASSUME NEW U, NEW book, IsBook(book, U), NEW total \in Int
    PROVE  /\ OrdersAfter(book, total)
                = {Rest(book, total, o) : o \in Stays(book, total)}
           /\ \A o \in book :
                /\ Rest(book, total, o)
                     \in [user : U, volume : Nat, price : Int, seq : Nat]
                /\ Rest(book, total, o).user = o.user
                /\ Rest(book, total, o).price = o.price
                /\ Rest(book, total, o).seq = o.seq
                /\ Rest(book, total, o).volume =
                     (IF o \in Served(book, total)
                      THEN o.volume - Portion(book, total, o) ELSE o.volume)
<1>1. Served(book, total) \subseteq book  BY DEF Served
<1>2. OrdersAfter(book, total)
        = {Rest(book, total, o) : o \in Stays(book, total)}
  <2> DEFINE cut == {o \in Served(book, total) : Portion(book, total, o) < o.volume}
             less(o) == [o EXCEPT !.volume = @ - Portion(book, total, o)]
  <2>1. OrdersAfter(book, total)
          = (book \ Served(book, total)) \cup {less(o) : o \in cut}
    BY DEF OrdersAfter
  <2>2. Stays(book, total) = (book \ Served(book, total)) \cup cut
    BY <1>1 DEF Stays
  <2>3. \A o \in book \ Served(book, total) : Rest(book, total, o) = o
    BY DEF Rest
  <2>4. \A o \in cut : Rest(book, total, o) = less(o)
    BY DEF Rest
  <2> HIDE DEF cut, less
  <2> QED  BY <2>1, <2>2, <2>3, <2>4
<1>3. ASSUME NEW o \in book
      PROVE  /\ Rest(book, total, o)
                  \in [user : U, volume : Nat, price : Int, seq : Nat]
             /\ Rest(book, total, o).user = o.user
             /\ Rest(book, total, o).price = o.price
             /\ Rest(book, total, o).seq = o.seq
             /\ Rest(book, total, o).volume =
                  (IF o \in Served(book, total)
                   THEN o.volume - Portion(book, total, o) ELSE o.volume)
  <2>1. o \in [user : U, volume : Nat, price : Int, seq : Nat]
    BY DEF IsBook
  <2>2. CASE o \in Served(book, total)
    <3>1. o.volume - Portion(book, total, o) \in Nat  BY <2>2, PortionFits
    <3> QED  BY <2>1, <2>2, <3>1 DEF Rest
  <2>3. CASE o \notin Served(book, total)
    BY <2>1, <2>3 DEF Rest
  <2> QED  BY <2>2, <2>3
<1> QED  BY <1>2, <1>3

\* A match leaves a book, of orders that were there before.
LEMMA BookAfter ==
    ASSUME NEW U, NEW book, IsBook(book, U), NEW total \in Int
    PROVE  /\ IsBook(OrdersAfter(book, total), U)
           /\ \A p \in OrdersAfter(book, total) : \E o \in book : p.seq = o.seq
<1> DEFINE rest == [o \in Stays(book, total) |-> Rest(book, total, o)]
           after == OrdersAfter(book, total)
<1>1. after = {rest[o] : o \in Stays(book, total)}
  BY RestsStay
<1>2. Stays(book, total) \subseteq book /\ IsFiniteSet(Stays(book, total))
  BY FS_Subset DEF Stays, IsBook
<1>3. IsFiniteSet({rest[o] : o \in Stays(book, total)})
  <2>1. rest \in Surjection(Stays(book, total), {rest[o] : o \in Stays(book, total)})
    BY DEF Surjection
  <2> QED  BY <1>2, <2>1, FS_Surjection
<1>4. \A p \in after : \E o \in book : p = Rest(book, total, o)
  BY <1>1, <1>2
<1> HIDE DEF rest, after
<1>5. after \subseteq [user : U, volume : Nat, price : Int, seq : Nat]
  BY <1>4, RestsStay
<1>6. ASSUME NEW p \in after, NEW q \in after, p.seq = q.seq  PROVE p = q
  <2>1. PICK o \in book : p = Rest(book, total, o)  BY <1>4
  <2>2. PICK r \in book : q = Rest(book, total, r)  BY <1>4
  <2>3. o.seq = r.seq  BY <1>6, <2>1, <2>2, RestsStay
  <2>4. o = r  BY <2>3 DEF IsBook
  <2> QED  BY <2>1, <2>2, <2>4
<1>7. ASSUME NEW p \in after  PROVE \E o \in book : p.seq = o.seq
  <2>1. PICK o \in book : p = Rest(book, total, o)  BY <1>4
  <2>2. p.seq = o.seq  BY <2>1, RestsStay
  <2> QED  BY <2>2
<1> QED  BY <1>1, <1>3, <1>5, <1>6, <1>7 DEF IsBook, after

\* What a user is given in a match is what the user's orders have less: what a
\* user has and still wants stays the same.
LEMMA MatchKeepsDemand ==
    ASSUME NEW U, NEW book, IsBook(book, U), NEW total \in Int, NEW given,
           \A v \in DOMAIN given : given[v] \in Nat, NEW u
    PROVE  GivenTo(GivenAfter(given, book, total), u)
             + Wanted({o \in OrdersAfter(book, total) : o.user = u})
           = GivenTo(given, u) + Wanted({o \in book : o.user = u})
<1> DEFINE B == {o \in book : o.user = u}
           P == {o \in Served(book, total) : o.user = u}
           K == {o \in Stays(book, total) : o.user = u}
           A == {o \in OrdersAfter(book, total) : o.user = u}
           vol == [o \in B |-> o.volume]
           part == [o \in B |-> IF o \in P THEN Portion(book, total, o) ELSE 0]
           left == [o \in B |-> Rest(book, total, o).volume]
           rest == [o \in K |-> Rest(book, total, o)]
           leftVol == [o \in A |-> o.volume]
<1>1. B \subseteq book /\ P \subseteq B /\ K \subseteq B
  BY DEF Served, Stays
<1>2. IsFiniteSet(B) /\ IsFiniteSet(P) /\ IsFiniteSet(K)
  BY <1>1, FS_Subset DEF IsBook
<1>3. \A o \in B : /\ vol[o] \in Nat /\ part[o] \in Nat /\ left[o] \in Nat
                   /\ vol[o] = left[o] + part[o]
  <2> SUFFICES ASSUME NEW o \in B
               PROVE  /\ vol[o] \in Nat /\ part[o] \in Nat /\ left[o] \in Nat
                      /\ vol[o] = left[o] + part[o]
    OBVIOUS
  <2>1. o \in book /\ o.volume \in Nat  BY <1>1, PortionFits
  <2>2. CASE o \in Served(book, total)
    <3>1. /\ Portion(book, total, o) \in Nat
          /\ o.volume - Portion(book, total, o) \in Nat
      BY <2>2, PortionFits
    <3>2. left[o] = o.volume - Portion(book, total, o)
      BY <2>1, <2>2, RestsStay
    <3>3. part[o] = Portion(book, total, o)  BY <2>2
    <3> HIDE DEF left, part, B
    <3>4. vol[o] = o.volume  OBVIOUS
    <3> HIDE DEF vol
    <3> QED  BY <2>1, <3>1, <3>2, <3>3, <3>4
  <2>3. CASE o \notin Served(book, total)
    <3>1. left[o] = o.volume  BY <2>1, <2>3, RestsStay
    <3>2. part[o] = 0  BY <2>3
    <3>3. vol[o] = o.volume  OBVIOUS
    <3> HIDE DEF left, part, vol, B
    <3> QED  BY <2>1, <3>1, <3>2, <3>3
  <2> QED  BY <2>2, <2>3
<1>4. SumFunctionOnSet(vol, B) = SumFunctionOnSet(left, B) + SumFunctionOnSet(part, B)
  <2> HIDE DEF vol, left, part, B
  <2> QED  BY <1>2, <1>3, SumPlus
<1>5. Wanted(B) = SumFunctionOnSet(vol, B)
  BY DEF Wanted, SumFunction
<1>6. Portions(book, total, P) = SumFunctionOnSet(part, B)
  <2> DEFINE f == [o \in P |-> Portion(book, total, o)]
  <2>1. Portions(book, total, P) = SumFunctionOnSet(f, P)
    BY DEF Portions, SumFunction
  <2>2. \A o \in P : f[o] \in Int /\ part[o] = f[o]
    <3>1. \A o \in P : Portion(book, total, o) \in Nat  BY PortionFits
    <3> QED  BY <1>1, <3>1
  <2>3. \A o \in B \ P : part[o] = 0  OBVIOUS
  <2> HIDE DEF f, part, B, P
  <2> QED  BY <1>1, <1>2, <2>1, <2>2, <2>3, SumSupport
<1>7. Wanted(A) = SumFunctionOnSet(left, B)
  <2>1. A = {rest[o] : o \in K}
    <3>1. \A o \in Stays(book, total) : Rest(book, total, o).user = o.user
      BY RestsStay DEF Stays
    <3>2. OrdersAfter(book, total) = {Rest(book, total, o) : o \in Stays(book, total)}
      BY RestsStay
    <3>3. A = {Rest(book, total, o) : o \in K}
      BY <3>1, <3>2
    <3> QED  BY <3>3
  <2>2. \A o, p \in K : rest[o] = rest[p] => o = p
    <3>1. \A o \in K : rest[o].seq = o.seq /\ o \in book
      BY <1>1, RestsStay
    <3> HIDE DEF rest, K
    <3> QED  BY <3>1 DEF IsBook
  <2>3. \A o \in K : left[o] \in Int /\ leftVol[rest[o]] = left[o]
    <3>1. \A o \in K : left[o] \in Int
      <4> HIDE DEF K, B, left
      <4> QED  BY <1>1, <1>3
    <3>2. \A o \in K : rest[o] \in A  BY <2>1
    <3>3. \A o \in K : rest[o] = Rest(book, total, o)  OBVIOUS
    <3> HIDE DEF A, rest
    <3> QED  BY <1>1, <3>1, <3>2, <3>3
  <2>4. Wanted(A) = SumFunctionOnSet(leftVol, A)
    BY DEF Wanted, SumFunction
  <2>5. \A o \in B \ K : left[o] = 0
    <3> SUFFICES ASSUME NEW o \in B \ K  PROVE left[o] = 0
      OBVIOUS
    <3>1. o \in Served(book, total) /\ ~(Portion(book, total, o) < o.volume)
      BY <1>1 DEF Stays
    <3>2. o.volume - Portion(book, total, o) \in Nat /\ o.volume \in Nat
          /\ Portion(book, total, o) \in Nat
      BY <1>1, <3>1, PortionFits
    <3>3. left[o] = o.volume - Portion(book, total, o)
      BY <1>1, <3>1, RestsStay
    <3> HIDE DEF left, B, K
    <3> QED  BY <3>1, <3>2, <3>3
  <2> HIDE DEF A, rest, leftVol, left, B, K
  <2>6. SumFunctionOnSet(leftVol, A) = SumFunctionOnSet(left, K)
    <3>1. SumFunctionOnSet(leftVol, {rest[o] : o \in K}) = SumFunctionOnSet(left, K)
      BY <1>2, <2>2, <2>3, SumImage
    <3> QED  BY <2>1, <3>1
  <2>7. SumFunctionOnSet(left, B) = SumFunctionOnSet(left, K)
    BY <1>1, <1>2, <2>3, <2>5, SumSupport
  <2> QED  BY <2>4, <2>6, <2>7
<1>8. GivenTo(GivenAfter(given, book, total), u)
        = GivenTo(given, u) + Portions(book, total, P)
  <2>1. CASE u \in DOMAIN GivenAfter(given, book, total)
    BY <2>1 DEF GivenAfter, GivenTo
  <2>2. CASE u \notin DOMAIN GivenAfter(given, book, total)
    <3>1. u \notin DOMAIN given /\ P = {}
      BY <2>2 DEF GivenAfter
    <3>2. Portions(book, total, {}) = 0
      BY SumEmpty DEF Portions, SumFunction
    <3> HIDE DEF P
    <3> QED  BY <2>2, <3>1, <3>2 DEF GivenTo
  <2> QED  BY <2>1, <2>2
<1>9. GivenTo(given, u) \in Int  BY DEF GivenTo
<1>10. SumFunctionOnSet(left, B) \in Int /\ SumFunctionOnSet(part, B) \in Int
  <2> HIDE DEF B, left, part
  <2> QED  BY <1>2, <1>3, SumInt
<1> HIDE DEF A, B, P, left, part, vol
<1>11. GivenTo(GivenAfter(given, book, total), u) + Wanted(A)
        = GivenTo(given, u) + Wanted(B)
  BY <1>4, <1>5, <1>6, <1>7, <1>8, <1>9, <1>10
<1> QED  BY <1>11 DEF A, B

\* What allocations become when a user is given n.
Credit(given, u, n) ==
    [v \in DOMAIN given \cup {u} |->
        IF v = u THEN GivenTo(given, u) + n ELSE given[v]]

\* Amounts by user.
IsAccount(given) ==
    /\ given = [u \in DOMAIN given |-> given[u]]
    /\ \A u \in DOMAIN given : given[u] \in Nat

\* The order of a book that comes before all others.
IsFirst(b, book) == b \in book /\ \A c \in book : c = b \/ Before(b, c)

\* A match that serves nobody changes nothing.
LEMMA MatchIdle ==
    ASSUME NEW U, NEW book, IsBook(book, U), NEW total \in Nat,
           NEW given, IsAccount(given), total = 0 \/ book = {}
    PROVE  /\ OrdersAfter(book, total) = book
           /\ OfferAfter(book, total) = total
           /\ GivenAfter(given, book, total) = given
<1>1. Served(book, total) = {}
  <2>1. \A o \in book : Ahead(book, o) \in Nat  BY PortionFits
  <2>2. \A o \in book : ~(Ahead(book, o) < total)  BY <2>1
  <2> QED  BY <2>2 DEF Served
<1>2. Portions(book, total, {}) = 0
  BY SumEmpty DEF Portions, SumFunction
<1>3. OrdersAfter(book, total) = book
  BY <1>1 DEF OrdersAfter
<1>4. OfferAfter(book, total) = total
  BY <1>1, <1>2 DEF OfferAfter
<1>5. GivenAfter(given, book, total) = given
  <2>1. GivenAfter(given, book, total)
          = [u \in DOMAIN given |-> GivenTo(given, u) + 0]
    <3>1. {o.user : o \in Served(book, total)} = {}  BY <1>1
    <3>2. \A u : {o \in Served(book, total) : o.user = u} = {}  BY <1>1
    <3> QED  BY <1>2, <3>1, <3>2 DEF GivenAfter
  <2>2. \A u \in DOMAIN given : GivenTo(given, u) + 0 = given[u]
    BY DEF GivenTo, IsAccount
  <2> QED  BY <2>1, <2>2 DEF IsAccount
<1> QED  BY <1>3, <1>4, <1>5

\* Nothing is before the first order, and without it a book is left.
LEMMA FirstHasNoneAhead ==
    ASSUME NEW U, NEW book, IsBook(book, U), NEW b, IsFirst(b, book)
    PROVE  IsBook(book \ {b}, U) /\ Ahead(book, b) = 0
<1>1. b \in book /\ \A c \in book : c = b \/ Before(b, c)  BY DEF IsFirst
<1>2. IsBook(book \ {b}, U)
  BY FS_RemoveElement DEF IsBook
<1>3. \A o \in book : o.price \in Int /\ o.seq \in Nat
  BY DEF IsBook
<1>4. \A c \in book : ~Before(c, b)
  BY <1>1, <1>3 DEF Before
<1>5. {p \in book : Before(p, b)} = {}  BY <1>4
<1> QED  BY <1>2, <1>5, WantedNothing DEF Ahead

\* Any other order has it ahead, and what is ahead of it in the rest.
LEMMA AheadOfRest ==
    ASSUME NEW U, NEW book, IsBook(book, U), NEW b, IsFirst(b, book),
           NEW o \in book \ {b}
    PROVE  /\ Ahead(book \ {b}, o) \in Nat
           /\ Ahead(book, o) = b.volume + Ahead(book \ {b}, o)
<1> DEFINE S == {p \in book : Before(p, o)}
<1>1. b \in S /\ S \subseteq book  BY DEF IsFirst
<1>2. S \ {b} = {p \in book \ {b} : Before(p, o)}  OBVIOUS
<1> HIDE DEF S
<1>3. IsFiniteSet(S) /\ \A p \in S : p.volume \in Nat
  BY <1>1, FS_Subset DEF IsBook
<1>4. Wanted(S) = b.volume + Wanted(S \ {b}) /\ Wanted(S \ {b}) \in Nat
  <2>1. S \ {b} \in SUBSET S  OBVIOUS
  <2> QED  BY <1>1, <1>3, <2>1, WantedBasics
<1> QED  BY <1>2, <1>4 DEF Ahead, S

\* A first order that is filled takes its volume; the rest of the book meets the
\* rest of what is on offer.
LEMMA MatchFull ==
    ASSUME NEW U, NEW book, IsBook(book, U), NEW b, IsFirst(b, book),
           NEW total \in Nat, total > 0, b.volume <= total,
           NEW given, IsAccount(given)
    PROVE  LET rest == book \ {b}
               left == total - b.volume
           IN  /\ OrdersAfter(book, total) = OrdersAfter(rest, left)
               /\ OfferAfter(book, total) = OfferAfter(rest, left)
               /\ GivenAfter(given, book, total)
                    = GivenAfter(Credit(given, b.user, b.volume), rest, left)
<1> DEFINE rest == book \ {b}
           left == total - b.volume
           S == Served(book, total)
           T == Served(rest, left)
           after == Credit(given, b.user, b.volume)
<1>1. b \in book /\ b.volume \in Nat /\ left \in Nat
  BY DEF IsBook, IsFirst
<1>2. /\ IsBook(rest, U) /\ Ahead(book, b) = 0
      /\ \A o \in rest : /\ Ahead(rest, o) \in Nat
                         /\ Ahead(book, o) = b.volume + Ahead(rest, o)
  <2>1. IsBook(book \ {b}, U) /\ Ahead(book, b) = 0
    BY FirstHasNoneAhead
  <2>2. ASSUME NEW o \in book \ {b}
        PROVE  /\ Ahead(book \ {b}, o) \in Nat
               /\ Ahead(book, o) = b.volume + Ahead(book \ {b}, o)
    BY AheadOfRest
  <2> QED  BY <2>1, <2>2
<1> HIDE DEF rest, left
<1>3. S = T \cup {b} /\ b \notin T /\ T = S \ {b} /\ T \subseteq rest
  <2>1. \A o \in rest : Ahead(book, o) < total <=> Ahead(rest, o) < left
    BY <1>1, <1>2 DEF left
  <2>2. b \in S  BY <1>1, <1>2 DEF Served
  <2> QED  BY <2>1, <2>2 DEF Served, rest
<1>4. Portion(book, total, b) = b.volume
  BY <1>1, <1>2 DEF Portion
<1>5. \A o \in rest : Portion(book, total, o) = Portion(rest, left, o)
  <2> SUFFICES ASSUME NEW o \in rest
               PROVE  Portion(book, total, o) = Portion(rest, left, o)
    OBVIOUS
  <2>1. total - Ahead(book, o) = left - Ahead(rest, o)
    BY <1>1, <1>2 DEF left
  <2> QED  BY <2>1 DEF Portion
<1>6. OrdersAfter(book, total) = OrdersAfter(rest, left)
  <2> DEFINE cut(s, bk, t) == {p \in s : Portion(bk, t, p) < p.volume}
             less(bk, t, o) == [o EXCEPT !.volume = @ - Portion(bk, t, o)]
  <2>1. OrdersAfter(book, total)
          = (book \ S) \cup {less(book, total, o) : o \in cut(S, book, total)}
    BY DEF OrdersAfter
  <2>2. OrdersAfter(rest, left)
          = (rest \ T) \cup {less(rest, left, o) : o \in cut(T, rest, left)}
    BY DEF OrdersAfter
  <2>3. cut(S, book, total) = cut(T, rest, left)
    <3>1. ~(Portion(book, total, b) < b.volume)  BY <1>1, <1>4
    <3> QED  BY <1>3, <1>5, <3>1
  <2>4. \A o \in cut(T, rest, left) : less(book, total, o) = less(rest, left, o)
    BY <1>3, <1>5
  <2>5. book \ S = rest \ T  BY <1>3 DEF rest
  <2> HIDE DEF cut, less, S, T
  <2> QED  BY <2>1, <2>2, <2>3, <2>4, <2>5
\* Each set of served orders gets the same, but for the first order's part.
<1>7. ASSUME NEW some, some \subseteq S
      PROVE  Portions(book, total, some)
               = (IF b \in some THEN b.volume ELSE 0)
                 + Portions(rest, left, some \ {b})
             /\ Portions(rest, left, some \ {b}) \in Nat
  <2> DEFINE f == [o \in some |-> Portion(book, total, o)]
             g == [o \in some \ {b} |-> Portion(rest, left, o)]
  <2>1. IsFiniteSet(some) /\ IsFiniteSet(some \ {b})
    <3>1. IsFiniteSet(some)  BY <1>7, PortionsFit
    <3> QED  BY <3>1, FS_RemoveElement
  <2>2. \A o \in some : f[o] \in Int
    <3>1. \A o \in some : Portion(book, total, o) \in Nat
      BY <1>7, PortionFits
    <3> QED  BY <3>1
  <2>3. \A o \in some \ {b} : g[o] = f[o]
    BY <1>3, <1>5, <1>7
  <2>4. b \in some => f[b] = b.volume  BY <1>4
  <2>5. /\ Portions(book, total, some) = SumFunctionOnSet(f, some)
        /\ Portions(rest, left, some \ {b}) = SumFunctionOnSet(g, some \ {b})
    BY DEF Portions, SumFunction
  <2>6. Portions(rest, left, some \ {b}) \in Nat
    <3>1. some \ {b} \subseteq Served(rest, left)  BY <1>3, <1>7
    <3> QED  BY <1>1, <1>2, <3>1, PortionsFit
  <2> HIDE DEF f, g
  <2>7. SumFunctionOnSet(g, some \ {b}) = SumFunctionOnSet(f, some \ {b})
    BY <2>1, <2>3, SumSame
  <2>8. CASE b \in some
    <3>1. SumFunctionOnSet(f, some) = f[b] + SumFunctionOnSet(f, some \ {b})
      BY <2>1, <2>2, <2>8, SumRemove
    <3> QED  BY <2>4, <2>5, <2>6, <2>7, <2>8, <3>1
  <2>9. CASE b \notin some
    <3>1. some \ {b} = some  BY <2>9
    <3>2. Portions(book, total, some) = Portions(rest, left, some \ {b})
      BY <2>5, <2>7, <3>1
    <3> QED  BY <2>6, <2>9, <3>2
  <2> QED  BY <2>8, <2>9
<1>8. OfferAfter(book, total) = OfferAfter(rest, left)
  <2>1. Portions(book, total, S) = b.volume + Portions(rest, left, T)
        /\ Portions(rest, left, T) \in Nat
    BY <1>3, <1>7
  <2> HIDE DEF S, T
  <2>2. total - Portions(book, total, S) = left - Portions(rest, left, T)
    BY <1>1, <2>1 DEF left
  <2> QED  BY <2>2 DEF OfferAfter, S, T
<1>9. GivenAfter(given, book, total) = GivenAfter(after, rest, left)
  <2> DEFINE mineS(u) == {o \in S : o.user = u}
             mineT(u) == {o \in T : o.user = u}
             domS == DOMAIN given \cup {o.user : o \in S}
             domT == DOMAIN after \cup {o.user : o \in T}
  <2>1. /\ GivenAfter(given, book, total)
             = [u \in domS |-> GivenTo(given, u) + Portions(book, total, mineS(u))]
        /\ GivenAfter(after, rest, left)
             = [u \in domT |-> GivenTo(after, u) + Portions(rest, left, mineT(u))]
    BY DEF GivenAfter
  <2>2. domS = domT
    BY <1>3 DEF Credit
  <2>3. ASSUME NEW u
        PROVE  GivenTo(given, u) + Portions(book, total, mineS(u))
                 = GivenTo(after, u) + Portions(rest, left, mineT(u))
    <3>1. mineS(u) \subseteq S  OBVIOUS
    <3>2. mineS(u) \ {b} = mineT(u)  BY <1>3
    <3>3. b \in mineS(u) <=> u = b.user  BY <1>3
    <3>4. GivenTo(given, u) \in Nat  BY DEF GivenTo, IsAccount
    <3>5. GivenTo(after, u)
            = GivenTo(given, u) + (IF u = b.user THEN b.volume ELSE 0)
      <4>1. CASE u = b.user
        BY <4>1 DEF Credit, GivenTo
      <4>2. CASE u # b.user
        <5>1. GivenTo(after, u) = GivenTo(given, u)
          BY <4>2 DEF Credit, GivenTo
        <5> QED  BY <3>4, <4>2, <5>1
      <4> QED  BY <4>1, <4>2
    <3> HIDE DEF mineS, mineT, after
    <3>6. /\ Portions(book, total, mineS(u))
               = (IF u = b.user THEN b.volume ELSE 0) + Portions(rest, left, mineT(u))
          /\ Portions(rest, left, mineT(u)) \in Nat
      BY <1>7, <3>1, <3>2, <3>3
    <3>7. CASE u = b.user
      BY <1>1, <3>4, <3>5, <3>6, <3>7
    <3>8. CASE u # b.user
      BY <3>4, <3>5, <3>6, <3>8
    <3> QED  BY <3>7, <3>8
  <2> HIDE DEF mineS, mineT, domS, domT, after
  <2> QED  BY <2>1, <2>2, <2>3
<1> QED  BY <1>6, <1>8, <1>9 DEF rest, left

\* A first order that wants more than there is takes all of it.
LEMMA MatchPartial ==
    ASSUME NEW U, NEW book, IsBook(book, U), NEW b, IsFirst(b, book),
           NEW total \in Nat, total > 0, total < b.volume,
           NEW given, IsAccount(given)
    PROVE  /\ OrdersAfter(book, total)
                = (book \ {b}) \cup {[b EXCEPT !.volume = @ - total]}
           /\ OfferAfter(book, total) = 0
           /\ GivenAfter(given, book, total) = Credit(given, b.user, total)
<1>1. b \in book /\ b.volume \in Nat  BY DEF IsBook, IsFirst
<1>2. /\ Ahead(book, b) = 0
      /\ \A o \in book \ {b} : /\ Ahead(book \ {b}, o) \in Nat
                               /\ Ahead(book, o) = b.volume + Ahead(book \ {b}, o)
  BY FirstHasNoneAhead, AheadOfRest
<1>3. Served(book, total) = {b}
  <2>1. \A o \in book \ {b} : ~(Ahead(book, o) < total)
    BY <1>1, <1>2
  <2> QED  BY <1>1, <1>2, <2>1 DEF Served
<1>4. Portion(book, total, b) = total
  BY <1>1, <1>2 DEF Portion
<1>5. OrdersAfter(book, total)
        = (book \ {b}) \cup {[b EXCEPT !.volume = @ - total]}
  <2>1. {p \in {b} : Portion(book, total, p) < p.volume} = {b}
    BY <1>4
  <2>2. {[o EXCEPT !.volume = @ - Portion(book, total, o)] : o \in {b}}
          = {[b EXCEPT !.volume = @ - total]}
    BY <1>4
  <2> QED  BY <1>3, <2>1, <2>2 DEF OrdersAfter
<1>6. Portions(book, total, {b}) = total /\ Portions(book, total, {}) = 0
  <2> DEFINE f == [o \in {b} |-> Portion(book, total, o)]
  <2>1. f[b] = total  BY <1>4
  <2>2. IsFiniteSet({}) /\ {} \cup {b} = {b}  BY FS_EmptySet
  <2>3. Portions(book, total, {b}) = SumFunctionOnSet(f, {b})
    BY DEF Portions, SumFunction
  <2>4. Portions(book, total, {}) = 0
    BY SumEmpty DEF Portions, SumFunction
  <2>5. SumFunctionOnSet(f, {}) = 0  BY SumEmpty
  <2> HIDE DEF f
  <2>6. SumFunctionOnSet(f, {b}) = f[b] + SumFunctionOnSet(f, {})
    <3>1. \A y \in {} \cup {b} : f[y] \in Int  BY <2>1
    <3>2. SumFunctionOnSet(f, {} \cup {b}) = f[b] + SumFunctionOnSet(f, {})
      BY <2>2, <3>1, SumAdd
    <3> QED  BY <2>2, <3>2
  <2> QED  BY <2>1, <2>3, <2>4, <2>5, <2>6
<1>7. OfferAfter(book, total) = 0
  BY <1>3, <1>6 DEF OfferAfter
<1>8. GivenAfter(given, book, total) = Credit(given, b.user, total)
  <2> DEFINE mine(u) == {o \in {b} : o.user = u}
             dom == DOMAIN given \cup {b.user}
  <2>1. GivenAfter(given, book, total)
          = [u \in dom |-> GivenTo(given, u) + Portions(book, total, mine(u))]
    <3>1. {o.user : o \in {b}} = {b.user}  OBVIOUS
    <3> QED  BY <1>3, <3>1 DEF GivenAfter
  <2>2. ASSUME NEW u \in dom
        PROVE  GivenTo(given, u) + Portions(book, total, mine(u))
                 = IF u = b.user THEN GivenTo(given, b.user) + total ELSE given[u]
    <3>1. CASE u = b.user
      <4>1. mine(u) = {b}  BY <3>1
      <4> QED  BY <1>6, <3>1, <4>1
    <3>2. CASE u # b.user
      <4>1. mine(u) = {}  BY <3>2
      <4>2. GivenTo(given, u) = given[u] /\ given[u] \in Nat
        BY <3>2 DEF GivenTo, IsAccount
      <4> HIDE DEF mine
      <4> QED  BY <1>6, <3>2, <4>1, <4>2
    <3> QED  BY <3>1, <3>2
  <2> HIDE DEF mine
  <2> QED  BY <2>1, <2>2 DEF Credit
<1> QED  BY <1>5, <1>7, <1>8

\* What a user is given is an amount.
LEMMA CreditIsAccount ==
    ASSUME NEW given, IsAccount(given), NEW u, NEW n \in Nat
    PROVE  IsAccount(Credit(given, u, n))
<1>1. DOMAIN Credit(given, u, n) = DOMAIN given \cup {u}
  BY DEF Credit
<1>2. \A v \in DOMAIN given \cup {u} : Credit(given, u, n)[v] \in Nat
  BY DEF Credit, GivenTo, IsAccount
<1> QED  BY <1>1, <1>2 DEF IsAccount, Credit

\* A single order on offer: it takes what it wants, or all there is.
LEMMA MatchAlone ==
    ASSUME NEW U, NEW o, IsBook({o}, U), NEW total \in Nat, total > 0,
           NEW given, IsAccount(given)
    PROVE  /\ o.volume <= total =>
                /\ OrdersAfter({o}, total) = {}
                /\ OfferAfter({o}, total) = total - o.volume
                /\ GivenAfter(given, {o}, total) = Credit(given, o.user, o.volume)
           /\ o.volume > total =>
                /\ OrdersAfter({o}, total) = {[o EXCEPT !.volume = @ - total]}
                /\ OfferAfter({o}, total) = 0
                /\ GivenAfter(given, {o}, total) = Credit(given, o.user, total)
<1>1. IsFirst(o, {o}) /\ {o} \ {o} = {}  BY DEF IsFirst
<1>2. o.volume \in Nat  BY DEF IsBook
<1>3. CASE o.volume <= total
  <2>1. IsBook({}, U)  BY FS_EmptySet DEF IsBook
  <2>2. IsAccount(Credit(given, o.user, o.volume))  BY <1>2, CreditIsAccount
  <2>3. total - o.volume \in Nat  BY <1>2, <1>3
  <2>4. /\ OrdersAfter({}, total - o.volume) = {}
        /\ OfferAfter({}, total - o.volume) = total - o.volume
        /\ GivenAfter(Credit(given, o.user, o.volume), {}, total - o.volume)
             = Credit(given, o.user, o.volume)
    BY <2>1, <2>2, <2>3, MatchIdle
  <2>5. /\ OrdersAfter({o}, total) = OrdersAfter({o} \ {o}, total - o.volume)
        /\ OfferAfter({o}, total) = OfferAfter({o} \ {o}, total - o.volume)
        /\ GivenAfter(given, {o}, total)
             = GivenAfter(Credit(given, o.user, o.volume), {o} \ {o}, total - o.volume)
    BY <1>1, <1>3, MatchFull
  <2>6. ~(o.volume > total)  BY <1>2, <1>3
  <2> QED  BY <1>1, <2>4, <2>5, <2>6
<1>4. CASE total < o.volume
  <2>1. /\ OrdersAfter({o}, total) = ({o} \ {o}) \cup {[o EXCEPT !.volume = @ - total]}
        /\ OfferAfter({o}, total) = 0
        /\ GivenAfter(given, {o}, total) = Credit(given, o.user, total)
    BY <1>1, <1>4, MatchPartial
  <2>2. ~(o.volume <= total)  BY <1>2, <1>4
  <2> QED  BY <2>1, <2>2
<1> QED  BY <1>2, <1>3, <1>4

\* A match gives away just what it takes from the offer.
LEMMA MatchConserves ==
    ASSUME NEW U, NEW book, IsBook(book, U), NEW total \in Int,
           NEW given, IsAccount(given), IsFiniteSet(DOMAIN given)
    PROVE  LET after == GivenAfter(given, book, total) IN
           /\ IsFiniteSet(DOMAIN after)
           /\ SumFunction(given) \in Nat /\ SumFunction(after) \in Nat
           /\ SumFunction(after) + OfferAfter(book, total) = SumFunction(given) + total
<1> DEFINE P == Served(book, total)
           key == [o \in P |-> o.user]
           D == DOMAIN given \cup {key[o] : o \in P}
           part == [o \in P |-> Portion(book, total, o)]
           had == [u \in D |-> GivenTo(given, u)]
           gets == [u \in D |-> SumFunctionOnSet(part, {o \in P : key[o] = u})]
           after == GivenAfter(given, book, total)
<1>1. IsFiniteSet(P) /\ P \subseteq book /\ Portions(book, total, P) \in Nat
  BY PortionsFit, FS_Subset DEF Served, IsBook
<1>2. \A o \in P : part[o] \in Nat /\ key[o] = o.user /\ key[o] \in D
  BY PortionFits
<1>3. IsFiniteSet(D)
  <2> DEFINE T == {key[o] : o \in P}
  <2>1. key \in Surjection(P, T)  BY DEF Surjection
  <2>2. IsFiniteSet(T)
    <3> HIDE DEF key, T, P
    <3> QED  BY <1>1, <2>1, FS_Surjection
  <2> HIDE DEF T
  <2> QED  BY <2>2, FS_Union DEF T
<1>4. \A u \in D : gets[u] \in Nat /\ gets[u] = Portions(book, total, {o \in P : o.user = u})
  <2> TAKE u \in D
  <2> DEFINE mine == {o \in P : o.user = u}
             mypart == [o \in mine |-> Portion(book, total, o)]
  <2>1. mine \subseteq P /\ {o \in P : key[o] = u} = mine  BY <1>2
  <2>2. Portions(book, total, mine) \in Nat /\ IsFiniteSet(mine)
    <3> HIDE DEF mine
    <3> QED  BY <2>1, PortionsFit
  <2>3. Portions(book, total, mine) = SumFunctionOnSet(mypart, mine)
    BY DEF Portions, SumFunction
  <2>4. \A o \in mine : part[o] = mypart[o]  OBVIOUS
  <2>5. gets[u] = SumFunctionOnSet(part, mine)  BY <2>1
  <2> HIDE DEF part, mypart, mine
  <2>6. SumFunctionOnSet(part, mine) = SumFunctionOnSet(mypart, mine)
    BY <2>2, <2>4, SumSame
  <2> QED  BY <2>2, <2>3, <2>5, <2>6 DEF mine
<1>5. DOMAIN after = D /\ \A u \in D : after[u] = had[u] + gets[u] /\ had[u] \in Nat
  <2>1. DOMAIN after = DOMAIN given \cup {o.user : o \in P}
        /\ \A u \in DOMAIN after :
              after[u] = GivenTo(given, u) + Portions(book, total, {o \in P : o.user = u})
    BY DEF GivenAfter
  <2>2. {key[o] : o \in P} = {o.user : o \in P}  BY <1>2
  <2>3. \A u : GivenTo(given, u) \in Nat  BY DEF GivenTo, IsAccount
  <2> HIDE DEF gets, P, key, after
  <2> QED  BY <1>4, <2>1, <2>2, <2>3
<1>6. SumFunctionOnSet(gets, D) = SumFunctionOnSet(part, P)
  <2>1. \A o \in P : part[o] \in Int /\ key[o] \in D  BY <1>2
  <2> HIDE DEF P, key, D, part
  <2> QED  BY <1>1, <1>3, <2>1, SumByKey
<1>7. SumFunctionOnSet(had, D) = SumFunctionOnSet(given, DOMAIN given)
  <2>1. /\ DOMAIN given \subseteq D
        /\ \A u \in DOMAIN given : given[u] \in Int /\ had[u] = given[u]
        /\ \A u \in D \ DOMAIN given : had[u] = 0
    BY DEF GivenTo, IsAccount
  <2> HIDE DEF D, had
  <2> QED  BY <1>3, <2>1, SumSupport
<1>8. Portions(book, total, P) = SumFunctionOnSet(part, P)
  BY DEF Portions, SumFunction
<1>9. OfferAfter(book, total) = total - Portions(book, total, P)
  BY DEF OfferAfter
<1> HIDE DEF P, key, D, part, had, gets, after
<1>10. SumFunctionOnSet(after, D) = SumFunctionOnSet(had, D) + SumFunctionOnSet(gets, D)
  <2>1. \A u \in D : had[u] \in Int /\ gets[u] \in Int /\ after[u] = had[u] + gets[u]
    <3> TAKE u \in D
    <3>1. had[u] \in Nat /\ gets[u] \in Nat  BY <1>4, <1>5
    <3> QED  BY <1>5, <3>1
  <2> QED  BY <1>3, <2>1, SumPlus
<1>11. SumFunctionOnSet(had, D) \in Nat /\ SumFunctionOnSet(gets, D) \in Nat
  BY <1>3, <1>4, <1>5, SumNat
<1> QED  BY <1>1, <1>3, <1>5, <1>6, <1>7, <1>8, <1>9, <1>10, <1>11
         DEF SumFunction, after
=============================================================================
