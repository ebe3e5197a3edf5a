--------------------------- MODULE SidePot_proofs ---------------------------
(***************************************************************************)
(* The side pots of a hand, for every table: they are a list, and together *)
(* they are what was put in.  First the lemmas about numbers and finite    *)
(* sets that this proof and those about the contract need: induction up to *)
(* a number, stated about a set because the provers take no predicate as a *)
(* parameter; the places of the members of a finite set in an order; and   *)
(* what a sum over a finite set adds up to.                                *)
(***************************************************************************)
EXTENDS SidePot, Functions, TLAPS,
        WellFoundedInduction, FiniteSetTheorems, SequenceTheorems

Below == {pair \in Nat \X Nat : pair[1] < pair[2]}

\* A set of natural numbers that is not empty has a least member.
LEMMA LeastMember ==
    ASSUME NEW T \in SUBSET Nat, T # {}
    PROVE  \E n \in T : \A m \in T : n <= m
<1>1. IsWellFoundedOn(Below, Nat)
  BY NatLessThanWellFounded DEF OpToRel, Below
<1>2. PICK n \in T : \A m \in T : <<m, n>> \notin Below
  BY <1>1, WFMin
<1>3. ASSUME NEW m \in T, m < n PROVE FALSE
  <2>1. <<m, n>> \in Nat \X Nat
    OBVIOUS
  <2>2. <<m, n>> \in Below
    BY <2>1, <1>3 DEF Below
  <2> QED
    BY <2>2, <1>2
<1> QED
  BY <1>2, <1>3

\* A set that has 0 and, with each number below n, the next, has all of 0 .. n.
LEMMA UpTo ==
    ASSUME NEW n \in Nat, NEW S, 0 \in S,
           \A i \in 1 .. n : i - 1 \in S => i \in S
    PROVE  \A i \in 0 .. n : i \in S
<1> DEFINE T == {i \in 0 .. n : i \notin S}
<1>1. SUFFICES ASSUME T # {} PROVE FALSE
  OBVIOUS
<1>2. T \in SUBSET Nat
  OBVIOUS
<1> HIDE DEF T
<1>3. PICK m \in T : \A k \in T : m <= k
  BY <1>1, <1>2, LeastMember
<1>4. m \in 1 .. n /\ m \notin S /\ m - 1 \notin T /\ m - 1 \in 0 .. n
  BY <1>3 DEF T
<1> QED
  BY <1>4 DEF T

\* below[x] are the members before x in a total order of S: no two members
\* have the same number of them, and every number up to the last occurs.
LEMMA Ranking ==
    ASSUME NEW S, IsFiniteSet(S), NEW below,
           \A x \in S : below[x] \subseteq S /\ x \notin below[x],
           \A x, y \in S : x # y => x \in below[y] \/ y \in below[x],
           \A x, y \in S : x \in below[y] => below[x] \subseteq below[y]
    PROVE  /\ \A x, y \in S :
                 Cardinality(below[x]) = Cardinality(below[y]) => x = y
           /\ \A x \in S : Cardinality(below[x]) \in 0 .. Cardinality(S) - 1
           /\ \A k \in 0 .. Cardinality(S) - 1 :
                 \E x \in S : Cardinality(below[x]) = k
<1> DEFINE rank == [x \in S |-> Cardinality(below[x])]
           places == 0 .. Cardinality(S) - 1
<1>1. Cardinality(S) \in Nat
  BY FS_CardinalityType
<1>2. \A x \in S : IsFiniteSet(below[x]) /\ Cardinality(below[x]) \in Nat
  BY FS_Subset, FS_CardinalityType
<1>3. \A x, y \in S : x \in below[y] => Cardinality(below[x]) < Cardinality(below[y])
  <2> SUFFICES ASSUME NEW x \in S, NEW y \in S, x \in below[y]
               PROVE  Cardinality(below[x]) < Cardinality(below[y])
    OBVIOUS
  <2>1. below[x] \in SUBSET below[y] /\ below[x] # below[y]
    OBVIOUS
  <2>2. Cardinality(below[x]) <= Cardinality(below[y])
    BY <2>1, <1>2, FS_Subset
  <2>3. Cardinality(below[x]) # Cardinality(below[y])
    BY <2>1, <1>2, FS_Subset
  <2> QED
    BY <2>2, <2>3, <1>2
<1>4. \A x \in S : Cardinality(below[x]) \in places
  <2> SUFFICES ASSUME NEW x \in S
               PROVE  Cardinality(below[x]) < Cardinality(S)
    BY <1>1, <1>2
  <2>1. below[x] \in SUBSET S /\ below[x] # S
    OBVIOUS
  <2>2. Cardinality(below[x]) <= Cardinality(S)
    BY <2>1, FS_Subset
  <2>3. Cardinality(below[x]) # Cardinality(S)
    BY <2>1, FS_Subset
  <2> QED
    BY <2>2, <2>3, <1>1, <1>2
<1>5. \A x, y \in S : Cardinality(below[x]) = Cardinality(below[y]) => x = y
  BY <1>2, <1>3
<1>6. rank \in Injection(S, places)
  <2> HIDE DEF places
  <2>1. rank \in [S -> places]
    BY <1>4
  <2>2. \A x, y \in S : rank[x] = rank[y] => x = y
    BY <1>5
  <2> HIDE DEF rank
  <2> QED
    BY <2>1, <2>2 DEF Injection, IsInjective
<1>7. IsFiniteSet(places) /\ Cardinality(places) = Cardinality(S)
  <2>1. \A n \in Nat : IsFiniteSet(0 .. n - 1) /\ Cardinality(0 .. n - 1) = n
    <3> SUFFICES ASSUME NEW n \in Nat
                 PROVE  IsFiniteSet(0 .. n - 1) /\ Cardinality(0 .. n - 1) = n
      OBVIOUS
    <3>1. CASE n = 0
      BY <3>1, FS_Interval
    <3>2. CASE n # 0
      BY <3>2, FS_Interval
    <3> QED
      BY <3>1, <3>2
  <2> QED
    BY <1>1, <2>1
<1> HIDE DEF places
<1>8. rank \in Surjection(S, places)
  <2> HIDE DEF rank
  <2> QED
    BY <1>6, <1>7, FS_Injection
<1>9. \A k \in places : \E x \in S : rank[x] = k
  <2> HIDE DEF rank
  <2> QED
    BY <1>8 DEF Surjection
<1> QED
  BY <1>4, <1>5, <1>9 DEF places

\* A set that has a set as soon as it has all that lack one of its members
\* has all subsets of a finite set.
LEMMA BySize ==
    ASSUME NEW S, IsFiniteSet(S), NEW P,
           \A T \in SUBSET S : (\A x \in T : T \ {x} \in P) => T \in P
    PROVE  \A T \in SUBSET S : T \in P
<1> DEFINE Sizes == {n \in 0 .. Cardinality(S) :
                        \A T \in SUBSET S : Cardinality(T) = n => T \in P}
<1>1. \A T \in SUBSET S : IsFiniteSet(T) /\ Cardinality(T) \in 0 .. Cardinality(S)
  BY FS_Subset, FS_CardinalityType
<1>2. Cardinality(S) \in Nat
  BY FS_CardinalityType
<1>3. 0 \in Sizes
  <2>1. ASSUME NEW T \in SUBSET S, Cardinality(T) = 0 PROVE T \in P
    <3>1. T = {}
      BY <1>1, <2>1, FS_EmptySet
    <3> QED
      BY <3>1
  <2> QED
    BY <1>2, <2>1
<1>4. ASSUME NEW n \in 1 .. Cardinality(S), n - 1 \in Sizes
      PROVE  n \in Sizes
  <2>1. ASSUME NEW T \in SUBSET S, Cardinality(T) = n, NEW x \in T
        PROVE  T \ {x} \in P
    <3>1. Cardinality(T \ {x}) = n - 1
      BY <1>1, <2>1, FS_RemoveElement
    <3> QED
      BY <1>4, <3>1
  <2> QED
    BY <2>1, <1>2
<1> HIDE DEF Sizes
<1>5. \A n \in 0 .. Cardinality(S) : n \in Sizes
  BY <1>2, <1>3, <1>4, UpTo
<1> QED
  BY <1>1, <1>5 DEF Sizes

\* Images of finite sets are finite.
LEMMA ImageFinite ==
    ASSUME NEW S, IsFiniteSet(S), NEW f
    PROVE  IsFiniteSet({f[x] : x \in S})
<1> DEFINE g == [x \in S |-> f[x]]
<1>1. g \in Surjection(S, {f[x] : x \in S})
  BY DEF Surjection
<1> HIDE DEF g
<1> QED
  BY <1>1, FS_Surjection

-----------------------------------------------------------------------------
(* Sums over finite sets.                                                  *)

\* The sum of f over S, as the contract adds up over its seats.
Total(f, S) == MapThenSumSet(LAMBDA x : f[x], S)

\* The member with which a sum goes on.
Pick(T) == CHOOSE x \in T : TRUE

\* g[T] is the sum of f over T for each subset T of S.
Adds(g, f, S) ==
    g = [T \in SUBSET S |-> IF T = {} THEN 0 ELSE f[Pick(T)] + g[T \ {Pick(T)}]]

\* Two ways to add up agree.
LEMMA AddsUnique ==
    ASSUME NEW S, IsFiniteSet(S), NEW R \in SUBSET S, NEW f, NEW e, NEW g, NEW h,
           Adds(g, f, S), Adds(h, e, R), \A x \in R : e[x] = f[x]
    PROVE  \A T \in SUBSET R : g[T] = h[T]
<1> DEFINE P == {T \in SUBSET R : g[T] = h[T]}
<1>1. IsFiniteSet(R)
  BY FS_Subset
<1>2. ASSUME NEW T \in SUBSET R, \A x \in T : T \ {x} \in P
      PROVE  T \in P
  <2>1. CASE T = {}
    BY <2>1 DEF Adds
  <2>2. CASE T # {}
    <3>1. Pick(T) \in T
      BY <2>2 DEF Pick
    <3>2. g[T] = f[Pick(T)] + g[T \ {Pick(T)}] /\ h[T] = e[Pick(T)] + h[T \ {Pick(T)}]
      BY <2>2, <3>1 DEF Adds
    <3>3. g[T \ {Pick(T)}] = h[T \ {Pick(T)}] /\ e[Pick(T)] = f[Pick(T)]
      BY <1>2, <3>1
    <3> QED
      BY <3>2, <3>3
  <2> QED
    BY <2>1, <2>2
<1> HIDE DEF P
<1>3. \A T \in SUBSET R : T \in P
  BY <1>1, <1>2, BySize
<1> QED
  BY <1>3 DEF P

\* There is a way to add up.
LEMMA AddsExist ==
    ASSUME NEW S, IsFiniteSet(S), NEW f
    PROVE  \E g : Adds(g, f, S)
<1> DEFINE Next(g, T) == IF T = {} THEN 0 ELSE f[Pick(T)] + g[T \ {Pick(T)}]
           Small(n) == {T \in SUBSET S : Cardinality(T) <= n}
           Known == {n \in 0 .. Cardinality(S) :
                        \E g : \A T \in Small(n) : g[T] = Next(g, T)}
<1>1. \A T \in SUBSET S : IsFiniteSet(T) /\ Cardinality(T) \in 0 .. Cardinality(S)
  BY FS_Subset, FS_CardinalityType
<1>2. Cardinality(S) \in Nat
  BY FS_CardinalityType
<1>3. \A T \in SUBSET S : T # {} =>
         Pick(T) \in T /\ Cardinality(T \ {Pick(T)}) = Cardinality(T) - 1
  <2> TAKE T \in SUBSET S
  <2> HAVE T # {}
  <2>1. Pick(T) \in T
    BY DEF Pick
  <2> QED
    BY <2>1, <1>1, FS_RemoveElement
<1>4. 0 \in Known
  <2> DEFINE g == [T \in {{}} |-> 0]
  <2>1. \A T \in Small(0) : T = {}
    BY <1>1, FS_EmptySet
  <2>2. \A T \in Small(0) : g[T] = Next(g, T)
    BY <2>1
  <2> HIDE DEF g, Next, Small
  <2> QED
    BY <2>2, <1>2
<1>5. ASSUME NEW n \in 1 .. Cardinality(S), n - 1 \in Known
      PROVE  n \in Known
  <2>1. PICK g : \A T \in Small(n - 1) : g[T] = Next(g, T)
    BY <1>5
  <2> DEFINE h == [T \in Small(n) |-> IF T \in Small(n - 1) THEN g[T] ELSE Next(g, T)]
  <2>2. ASSUME NEW T \in Small(n)
        PROVE  h[T] = Next(h, T)
    <3>1. CASE T = {}
      <4>1. T \in Small(n - 1)
        BY <3>1, <1>2, FS_EmptySet
      <4> QED
        BY <4>1, <3>1, <2>1
    <3>2. CASE T # {}
      <4>1. T \ {Pick(T)} \in Small(n - 1) /\ T \ {Pick(T)} \in Small(n)
        BY <1>1, <1>2, <1>3, <3>2
      <4>2. h[T \ {Pick(T)}] = g[T \ {Pick(T)}]
        BY <4>1
      <4>3. h[T] = Next(g, T)
        BY <2>1
      <4> QED
        BY <4>2, <4>3, <3>2
    <3> QED
      BY <3>1, <3>2
  <2> HIDE DEF h, Next, Small
  <2> QED
    BY <2>2, <1>2
<1> HIDE DEF Known
<1>6. \A n \in 0 .. Cardinality(S) : n \in Known
  BY <1>2, <1>4, <1>5, UpTo
<1>7. Cardinality(S) \in Known
  BY <1>2, <1>6
<1>8. PICK g : \A T \in Small(Cardinality(S)) : g[T] = Next(g, T)
  BY <1>7 DEF Known
<1> DEFINE h == [T \in SUBSET S |-> g[T]]
<1>9. \A T \in SUBSET S : h[T] = Next(h, T)
  <2> TAKE T \in SUBSET S
  <2>1. T \in Small(Cardinality(S))
    BY <1>1, <1>2
  <2> QED
    BY <1>8, <2>1
<1>10. Adds(h, f, S)
  BY <1>9 DEF Adds
<1> QED
  BY <1>10

\* The sum over S is what a way to add up gives for S.
LEMMA TotalAdds ==
    ASSUME NEW S, IsFiniteSet(S), NEW f
    PROVE  \E g : Adds(g, f, S) /\ Total(f, S) = g[S]
<1> DEFINE g == CHOOSE g : Adds(g, f, S)
<1>1. Adds(g, f, S)
  BY AddsExist
<1>2. Total(f, S) = g[S]
  BY DEF Total, MapThenSumSet, MapThenFoldSet, Adds, Pick
<1> QED
  BY <1>1, <1>2

\* The sum over nothing.
LEMMA TotalEmpty ==
    ASSUME NEW f
    PROVE  Total(f, {}) = 0
<1>1. IsFiniteSet({})
  BY FS_EmptySet
<1> QED
  BY <1>1, TotalAdds DEF Adds

\* Equal numbers have equal sums.
LEMMA TotalEqual ==
    ASSUME NEW S, IsFiniteSet(S), NEW f, NEW e, \A x \in S : e[x] = f[x]
    PROVE  Total(e, S) = Total(f, S)
<1>1. PICK g : Adds(g, f, S) /\ Total(f, S) = g[S]
  BY TotalAdds
<1>2. PICK h : Adds(h, e, S) /\ Total(e, S) = h[S]
  BY TotalAdds
<1>3. \A T \in SUBSET S : g[T] = h[T]
  BY <1>1, <1>2, AddsUnique
<1> QED
  BY <1>1, <1>2, <1>3

\* A sum goes on with the member that is picked.
LEMMA TotalPick ==
    ASSUME NEW S, IsFiniteSet(S), NEW f, S # {}
    PROVE  /\ Pick(S) \in S
           /\ Total(f, S) = f[Pick(S)] + Total(f, S \ {Pick(S)})
<1> DEFINE R == S \ {Pick(S)}
<1>1. Pick(S) \in S
  BY DEF Pick
<1>2. R \in SUBSET S /\ IsFiniteSet(R)
  BY FS_Subset
<1>3. PICK g : Adds(g, f, S) /\ Total(f, S) = g[S]
  BY TotalAdds
<1>4. PICK h : Adds(h, f, R) /\ Total(f, R) = h[R]
  BY <1>2, TotalAdds
<1>5. g[R] = h[R]
  <2> HIDE DEF R
  <2> QED
    BY <1>2, <1>3, <1>4, AddsUnique
<1>6. g[S] = f[Pick(S)] + g[R]
  BY <1>3 DEF Adds
<1> QED
  BY <1>1, <1>3, <1>4, <1>5, <1>6

\* The sum of integers is an integer.
LEMMA TotalInt ==
    ASSUME NEW S, IsFiniteSet(S), NEW f, \A x \in S : f[x] \in Int
    PROVE  \A T \in SUBSET S : Total(f, T) \in Int
<1> DEFINE P == {T \in SUBSET S : Total(f, T) \in Int}
<1>1. ASSUME NEW T \in SUBSET S, \A x \in T : T \ {x} \in P
      PROVE  T \in P
  <2>1. CASE T = {}
    BY <2>1, TotalEmpty
  <2>2. CASE T # {}
    <3> DEFINE c == Pick(T)
    <3>1. c \in T /\ Total(f, T) = f[c] + Total(f, T \ {c})
      BY <2>2, FS_Subset, TotalPick
    <3> HIDE DEF c
    <3>2. f[c] \in Int /\ Total(f, T \ {c}) \in Int
      BY <1>1, <3>1
    <3>3. Total(f, T) \in Int
      BY <3>1, <3>2
    <3> QED
      BY <3>3
  <2> QED
    BY <2>1, <2>2
<1> HIDE DEF P
<1>2. \A T \in SUBSET S : T \in P
  BY <1>1, BySize
<1> QED
  BY <1>2 DEF P

\* The sum of natural numbers is a natural number.
LEMMA TotalNat ==
    ASSUME NEW S, IsFiniteSet(S), NEW f, \A x \in S : f[x] \in Nat
    PROVE  \A T \in SUBSET S : Total(f, T) \in Nat
<1> DEFINE P == {T \in SUBSET S : Total(f, T) \in Nat}
<1>1. ASSUME NEW T \in SUBSET S, \A x \in T : T \ {x} \in P
      PROVE  T \in P
  <2>1. CASE T = {}
    BY <2>1, TotalEmpty
  <2>2. CASE T # {}
    <3> DEFINE c == Pick(T)
    <3>1. c \in T /\ Total(f, T) = f[c] + Total(f, T \ {c})
      BY <2>2, FS_Subset, TotalPick
    <3> HIDE DEF c
    <3>2. f[c] \in Nat /\ Total(f, T \ {c}) \in Nat
      BY <1>1, <3>1
    <3>3. Total(f, T) \in Nat
      BY <3>1, <3>2
    <3> QED
      BY <3>3
  <2> QED
    BY <2>1, <2>2
<1> HIDE DEF P
<1>2. \A T \in SUBSET S : T \in P
  BY <1>1, BySize
<1> QED
  BY <1>2 DEF P

\* Any member may be added last.
LEMMA TotalRemove ==
    ASSUME NEW S, IsFiniteSet(S), NEW f, \A x \in S : f[x] \in Int
    PROVE  \A T \in SUBSET S : \A x \in T : Total(f, T) = f[x] + Total(f, T \ {x})
<1> DEFINE P == {T \in SUBSET S : \A x \in T : Total(f, T) = f[x] + Total(f, T \ {x})}
<1>1. ASSUME NEW T \in SUBSET S, \A x \in T : T \ {x} \in P
      PROVE  T \in P
  <2>1. ASSUME NEW x \in T
        PROVE  Total(f, T) = f[x] + Total(f, T \ {x})
    <3> DEFINE c == Pick(T)
    <3>1. c \in T /\ Total(f, T) = f[c] + Total(f, T \ {c})
      BY FS_Subset, TotalPick
    <3>2. CASE x = c
      BY <3>1, <3>2
    <3>3. CASE x # c
      <4>1. Total(f, T \ {c}) = f[x] + Total(f, (T \ {c}) \ {x})
        BY <1>1, <3>1, <3>3
      <4>2. Total(f, T \ {x}) = f[c] + Total(f, (T \ {x}) \ {c})
        BY <1>1, <3>1, <3>3
      <4>3. (T \ {c}) \ {x} = (T \ {x}) \ {c}
        OBVIOUS
      <4>4. Total(f, (T \ {c}) \ {x}) \in Int /\ f[c] \in Int /\ f[x] \in Int
        BY <3>1, TotalInt
      <4>5. Total(f, T) = f[c] + (f[x] + Total(f, (T \ {c}) \ {x}))
        BY <3>1, <4>1
      <4>6. f[x] + Total(f, T \ {x}) = f[x] + (f[c] + Total(f, (T \ {c}) \ {x}))
        BY <4>2, <4>3
      <4> HIDE DEF c
      <4> QED
        BY <4>4, <4>5, <4>6
    <3> QED
      BY <3>2, <3>3
  <2> QED
    BY <2>1
<1> HIDE DEF P
<1>2. \A T \in SUBSET S : T \in P
  BY <1>1, BySize
<1> QED
  BY <1>2 DEF P

\* The same of the whole set.
LEMMA TotalWithout ==
    ASSUME NEW S, IsFiniteSet(S), NEW f, \A x \in S : f[x] \in Int, NEW x \in S
    PROVE  Total(f, S) = f[x] + Total(f, S \ {x})
BY TotalRemove

\* A sum changes by as much as the one member that changes.
LEMMA TotalExcept ==
    ASSUME NEW S, IsFiniteSet(S), NEW f, NEW g, NEW x \in S,
           \A y \in S : f[y] \in Int, g[x] \in Int,
           \A y \in S \ {x} : g[y] = f[y]
    PROVE  Total(g, S) = Total(f, S) - f[x] + g[x]
<1>1. \A y \in S : g[y] \in Int
  OBVIOUS
<1>2. Total(g, S) = g[x] + Total(g, S \ {x})
  BY <1>1, TotalRemove
<1>3. Total(f, S) = f[x] + Total(f, S \ {x})
  BY TotalRemove
<1>4. Total(g, S \ {x}) = Total(f, S \ {x})
  BY FS_Subset, TotalEqual
<1>5. Total(f, S \ {x}) \in Int
  BY TotalInt
<1> QED
  BY <1>2, <1>3, <1>4, <1>5

\* The sum of sums, and the sum of smaller numbers.
LEMMA TotalPlus ==
    ASSUME NEW S, IsFiniteSet(S), NEW f, NEW g, NEW h,
           \A x \in S : f[x] \in Int /\ g[x] \in Int /\ h[x] = f[x] + g[x]
    PROVE  Total(h, S) = Total(f, S) + Total(g, S)
<1> DEFINE P == {T \in SUBSET S : Total(h, T) = Total(f, T) + Total(g, T)}
<1>1. ASSUME NEW T \in SUBSET S, \A x \in T : T \ {x} \in P
      PROVE  T \in P
  <2>1. IsFiniteSet(T)
    BY FS_Subset
  <2>2. CASE T = {}
    BY <2>2, TotalEmpty
  <2>3. CASE T # {}
    <3> DEFINE c == Pick(T)
    <3>1. /\ c \in T
          /\ Total(f, T) = f[c] + Total(f, T \ {c})
          /\ Total(g, T) = g[c] + Total(g, T \ {c})
          /\ Total(h, T) = h[c] + Total(h, T \ {c})
      BY <2>1, <2>3, TotalPick
    <3>2. Total(f, T \ {c}) \in Int /\ Total(g, T \ {c}) \in Int
      BY TotalInt
    <3> HIDE DEF c
    <3> QED
      BY <1>1, <3>1, <3>2
  <2> QED
    BY <2>2, <2>3
<1> HIDE DEF P
<1>2. \A T \in SUBSET S : T \in P
  BY <1>1, BySize
<1> QED
  BY <1>2 DEF P

\* Numbers that are nowhere greater have a sum that is not greater.
LEMMA TotalLess ==
    ASSUME NEW S, IsFiniteSet(S), NEW f, NEW g,
           \A x \in S : f[x] \in Int /\ g[x] \in Int /\ f[x] <= g[x]
    PROVE  Total(f, S) <= Total(g, S)
<1> DEFINE d == [x \in S |-> g[x] - f[x]]
<1>1. \A x \in S : d[x] \in Nat /\ g[x] = f[x] + d[x]
  OBVIOUS
<1> HIDE DEF d
<1>2. Total(g, S) = Total(f, S) + Total(d, S)
  BY <1>1, TotalPlus
<1>3. Total(d, S) \in Nat /\ Total(f, S) \in Int
  BY <1>1, TotalNat, TotalInt
<1> QED
  BY <1>2, <1>3

\* The sum of the same number.
LEMMA TotalSame ==
    ASSUME NEW S, IsFiniteSet(S), NEW f, NEW n \in Int, \A x \in S : f[x] = n
    PROVE  Total(f, S) = Cardinality(S) * n
<1> DEFINE P == {T \in SUBSET S : Total(f, T) = Cardinality(T) * n}
<1>1. ASSUME NEW T \in SUBSET S, \A x \in T : T \ {x} \in P
      PROVE  T \in P
  <2>1. IsFiniteSet(T)
    BY FS_Subset
  <2>2. CASE T = {}
    BY <2>2, TotalEmpty, FS_EmptySet
  <2>3. CASE T # {}
    <3> DEFINE c == Pick(T)
    <3>1. c \in T /\ Total(f, T) = n + Total(f, T \ {c})
      BY <2>1, <2>3, TotalPick
    <3>2. Cardinality(T \ {c}) = Cardinality(T) - 1 /\ Cardinality(T) \in Nat
      BY <2>1, <3>1, FS_RemoveElement, FS_CardinalityType
    <3>3. Total(f, T \ {c}) = (Cardinality(T) - 1) * n
      BY <1>1, <3>1, <3>2
    <3> HIDE DEF c
    <3>4. (Cardinality(T) - 1) * n = Cardinality(T) * n - n
      BY <3>2
    <3> QED
      BY <3>1, <3>2, <3>3, <3>4
  <2> QED
    BY <2>2, <2>3
<1> HIDE DEF P
<1>2. \A T \in SUBSET S : T \in P
  BY <1>1, BySize
<1> QED
  BY <1>2 DEF P

\* Members with 0 do not count.
LEMMA TotalPart ==
    ASSUME NEW S, IsFiniteSet(S), NEW R \in SUBSET S, NEW f, NEW g,
           \A x \in S : f[x] \in Int,
           \A x \in S : g[x] = IF x \in R THEN f[x] ELSE 0
    PROVE  Total(g, S) = Total(f, R)
<1> DEFINE P == {T \in SUBSET S : Total(g, T) = Total(f, T \cap R)}
<1>1. ASSUME NEW T \in SUBSET S, \A x \in T : T \ {x} \in P
      PROVE  T \in P
  <2>1. IsFiniteSet(T) /\ T \cap R \in SUBSET S
    BY FS_Subset
  <2>2. CASE T = {}
    BY <2>2, TotalEmpty
  <2>3. CASE T # {}
    <3> DEFINE c == Pick(T)
    <3>1. c \in T /\ Total(g, T) = g[c] + Total(g, T \ {c})
      BY <2>1, <2>3, TotalPick
    <3>2. Total(g, T \ {c}) = Total(f, (T \ {c}) \cap R)
      BY <1>1, <3>1
    <3> HIDE DEF c
    <3>3. CASE c \in R
      <4>1. (T \ {c}) \cap R = (T \cap R) \ {c} /\ c \in T \cap R
        BY <3>1, <3>3
      <4>2. Total(f, T \cap R) = f[c] + Total(f, (T \cap R) \ {c})
        BY <2>1, <4>1, TotalRemove
      <4> QED
        BY <3>1, <3>2, <3>3, <4>1, <4>2
    <3>4. CASE c \notin R
      <4>1. (T \ {c}) \cap R = T \cap R /\ g[c] = 0
        BY <3>1, <3>4
      <4>2. Total(f, T \cap R) \in Int
        BY <2>1, TotalInt
      <4>3. Total(g, T) = 0 + Total(f, T \cap R)
        BY <3>1, <3>2, <4>1
      <4> QED
        BY <4>2, <4>3
    <3> QED
      BY <3>3, <3>4
  <2> QED
    BY <2>2, <2>3
<1> HIDE DEF P
<1>2. \A T \in SUBSET S : T \in P
  BY <1>1, BySize
<1>3. S \cap R = R
  OBVIOUS
<1> QED
  BY <1>2, <1>3 DEF P

\* Any way to add up f over S gives the sum.
LEMMA AddsTotal ==
    ASSUME NEW S, IsFiniteSet(S), NEW f, NEW g, Adds(g, f, S)
    PROVE  Total(f, S) = g[S]
<1>1. PICK h : Adds(h, f, S) /\ Total(f, S) = h[S]
  BY TotalAdds
<1> QED
  BY <1>1, AddsUnique

\* The order in which the members come does not matter.
LEMMA TotalReindex ==
    ASSUME NEW S, IsFiniteSet(S), NEW R, IsFiniteSet(R), NEW f, NEW g, NEW b,
           \A x \in R : f[x] \in Int,
           \A k \in S : b[k] \in R /\ g[k] = f[b[k]],
           \A x \in R : \E k \in S : b[k] = x,
           \A j, k \in S : b[j] = b[k] => j = k
    PROVE  Total(g, S) = Total(f, R)
<1> DEFINE Image(T) == {x \in R : \E k \in T : b[k] = x}
           P == {T \in SUBSET S : Total(g, T) = Total(f, Image(T))}
<1>1. ASSUME NEW T \in SUBSET S, \A k \in T : T \ {k} \in P
      PROVE  T \in P
  <2>1. CASE T = {}
    <3>1. Image(T) = {}
      BY <2>1
    <3> QED
      BY <2>1, <3>1, TotalEmpty
  <2>2. CASE T # {}
    <3> DEFINE k == Pick(T)
    <3>1. k \in T /\ Total(g, T) = g[k] + Total(g, T \ {k})
      BY <2>2, FS_Subset, TotalPick
    <3> HIDE DEF k
    <3>2. Total(g, T \ {k}) = Total(f, Image(T \ {k}))
      BY <1>1, <3>1
    <3>3. Image(T \ {k}) = Image(T) \ {b[k]} /\ b[k] \in Image(T)
      BY <3>1
    <3> HIDE DEF Image
    <3>4. Image(T) \in SUBSET R
      BY DEF Image
    <3>5. Total(f, Image(T)) = f[b[k]] + Total(f, Image(T) \ {b[k]})
      BY <3>3, <3>4, TotalRemove
    <3>6. g[k] = f[b[k]]
      BY <3>1
    <3> QED
      BY <3>1, <3>2, <3>3, <3>5, <3>6
  <2> QED
    BY <2>1, <2>2
<1> HIDE DEF P
<1>2. \A T \in SUBSET S : T \in P
  BY <1>1, BySize
<1>3. Image(S) = R
  OBVIOUS
<1> QED
  BY <1>2, <1>3 DEF P

\* A finite set of numbers that is not empty has a greatest member.
LEMMA GreatestMember ==
    ASSUME NEW S \in SUBSET Int, IsFiniteSet(S), S # {}
    PROVE  Max(S) \in S /\ \A x \in S : x <= Max(S)
<1> DEFINE P == {T \in SUBSET S : T # {} => \E x \in T : \A y \in T : y <= x}
<1>1. ASSUME NEW T \in SUBSET S, \A k \in T : T \ {k} \in P
      PROVE  T \in P
  <2>1. ASSUME NEW k \in T
        PROVE  \E x \in T : \A y \in T : y <= x
    <3>1. CASE T = {k}
      BY <3>1
    <3>2. CASE T # {k}
      <4>1. PICK x \in T \ {k} : \A y \in T \ {k} : y <= x
        BY <1>1, <3>2
      <4>2. CASE k <= x
        BY <4>1, <4>2
      <4>3. CASE x <= k
        <5>1. \A y \in T : y <= k
          BY <4>1, <4>3
        <5> QED
          BY <5>1
      <4> QED
        BY <4>1, <4>2, <4>3
    <3> QED
      BY <3>1, <3>2
  <2> QED
    BY <2>1
<1> HIDE DEF P
<1>2. \A T \in SUBSET S : T \in P
  BY <1>1, BySize
<1>3. \E x \in S : \A y \in S : x >= y
  BY <1>2 DEF P
<1> QED
  BY <1>3 DEF Max

\* A set of natural numbers that is not empty: its least member.
LEMMA LeastIsMin ==
    ASSUME NEW S \in SUBSET Nat, S # {}
    PROVE  Min(S) \in S /\ \A x \in S : Min(S) <= x
BY LeastMember DEF Min

\* Equal shares and the rest make up the amount.
LEMMA SharesAndRest ==
    ASSUME NEW n \in Nat \ {0}, NEW amount \in Nat
    PROVE  /\ amount \div n \in Nat /\ amount % n \in Nat
           /\ n * (amount \div n) + (amount % n) = amount
OBVIOUS

-----------------------------------------------------------------------------
(* The lists the contract makes of sets of numbers.                        *)

\* A function on 1 .. n is a sequence of length n of its values.
LEMMA Listed ==
    ASSUME NEW n \in Nat, NEW f, DOMAIN f = 1 .. n, f = [i \in 1 .. n |-> f[i]]
    PROVE  f \in Seq({f[i] : i \in 1 .. n}) /\ Len(f) = n
<1> DEFINE S == {f[i] : i \in 1 .. n}
<1>1. f \in [1 .. n -> S]
  OBVIOUS
<1>2. f \in Seq(S)
  BY <1>1, SeqDef
<1>3. DOMAIN f = 1 .. Len(f) /\ Len(f) \in Nat
  BY <1>2, LenProperties
<1>4. 1 .. n = 1 .. Len(f)
  BY <1>3
<1>5. Len(f) = n
  <2>1. CASE n = 0
    <3>1. 1 \notin 1 .. Len(f)
      BY <2>1, <1>4
    <3> QED
      BY <3>1, <2>1, <1>3
  <2>2. CASE n # 0
    <3>1. n \in 1 .. Len(f) /\ (Len(f) # 0 => Len(f) \in 1 .. n)
      BY <2>2, <1>3, <1>4
    <3> QED
      BY <3>1, <1>3
  <2> QED
    BY <2>1, <2>2
<1> HIDE DEF S
<1> QED
  BY <1>2, <1>5

\* The members of a finite set of numbers can be listed.
LEMMA AscendingLists ==
    ASSUME NEW S, IsFiniteSet(S)
    PROVE  /\ Cardinality(S) \in Nat
           /\ Ascending(S) \in Seq({Ascending(S)[i] : i \in 1 .. Cardinality(S)})
           /\ Len(Ascending(S)) = Cardinality(S)
           /\ DOMAIN Ascending(S) = 1 .. Cardinality(S)
<1> DEFINE n == Cardinality(S)
           f == Ascending(S)
<1>1. n \in Nat
  BY FS_CardinalityType
<1>2. DOMAIN f = 1 .. n /\ f = [i \in 1 .. n |-> f[i]]
  <2> DEFINE member(i) == CHOOSE x \in S : Cardinality({y \in S : y < x}) = i - 1
  <2>1. f = [i \in 1 .. n |-> member(i)]
    BY DEF Ascending
  <2> HIDE DEF f, member
  <2> QED
    BY <2>1
<1> HIDE DEF n, f
<1>3. f \in Seq({f[i] : i \in 1 .. n}) /\ Len(f) = n
  BY <1>1, <1>2, Listed
<1> QED
  BY <1>1, <1>2, <1>3 DEF n, f

\* The list of a finite set of numbers has each of them and nothing else.
LEMMA AscendingMembers ==
    ASSUME NEW S \in SUBSET Int, IsFiniteSet(S)
    PROVE  /\ \A i \in 1 .. Cardinality(S) : Ascending(S)[i] \in S
           /\ \A x \in S : \E i \in 1 .. Cardinality(S) : Ascending(S)[i] = x
<1> DEFINE below == [x \in S |-> {y \in S : y < x}]
           Place(x, i) == Cardinality({y \in S : y < x}) = i - 1
<1>1. /\ \A x, y \in S : Cardinality(below[x]) = Cardinality(below[y]) => x = y
      /\ \A x \in S : Cardinality(below[x]) \in 0 .. Cardinality(S) - 1
      /\ \A k \in 0 .. Cardinality(S) - 1 : \E x \in S : Cardinality(below[x]) = k
  <2>1. \A x \in S : below[x] \subseteq S /\ x \notin below[x]
    OBVIOUS
  <2>2. \A x, y \in S : x # y => x \in below[y] \/ y \in below[x]
    OBVIOUS
  <2>3. \A x, y \in S : x \in below[y] => below[x] \subseteq below[y]
    <3>1. \A x, y, z \in S : x < y /\ z < x => z < y
      OBVIOUS
    <3> QED
      BY <3>1
  <2> HIDE DEF below
  <2> QED
    BY <2>1, <2>2, <2>3, Ranking
<1>2. Cardinality(S) \in Nat
  BY FS_CardinalityType
<1>3. \A x \in S, i \in 1 .. Cardinality(S) :
         Place(x, i) <=> Cardinality(below[x]) = i - 1
  OBVIOUS
<1>4. \A i \in 1 .. Cardinality(S) : Ascending(S)[i] = CHOOSE x \in S : Place(x, i)
  BY DEF Ascending
<1> HIDE DEF below, Place
<1>5. \A i \in 1 .. Cardinality(S) : \E x \in S : Place(x, i)
  BY <1>1, <1>2, <1>3
<1>6. \A i \in 1 .. Cardinality(S) : Ascending(S)[i] \in S /\ Place(Ascending(S)[i], i)
  BY <1>4, <1>5
<1>7. ASSUME NEW x \in S
      PROVE  \E i \in 1 .. Cardinality(S) : Ascending(S)[i] = x
  <2> DEFINE i == Cardinality(below[x]) + 1
  <2>1. i \in 1 .. Cardinality(S) /\ Cardinality(below[x]) = i - 1
    BY <1>1, <1>2
  <2> HIDE DEF i
  <2>2. Cardinality(below[Ascending(S)[i]]) = i - 1 /\ Ascending(S)[i] \in S
    BY <1>3, <1>6, <2>1
  <2> QED
    BY <1>1, <2>1, <2>2
<1> QED
  BY <1>6, <1>7

\* The pots of a settlement are a sequence.
LEMMA LayersAreASequence ==
    ASSUME NEW bets, NEW folded, NEW allIn, IsFiniteSet(allIn)
    PROVE  \E S : Layers(bets, folded, allIn) \in Seq(S)
<1> DEFINE levels == AllInLevels(bets, allIn)
           n == Len(levels)
           low(i) == IF i = 1 THEN 0 ELSE levels[i - 1]
           top == Max({bets[s] : s \in DOMAIN bets} \cup {0})
           all == [i \in 1 .. n + 1 |->
                     Layer(bets, folded, low(i), IF i <= n THEN levels[i] ELSE top)]
           filled == Ascending({i \in DOMAIN all : all[i].amount > 0})
           pots == [k \in DOMAIN filled |-> all[filled[k]]]
<1>1. IsFiniteSet({bets[s] : s \in allIn} \ {0})
  <2>1. IsFiniteSet({bets[s] : s \in allIn})
    BY ImageFinite
  <2> QED
    BY <2>1, FS_Subset
<1>2. n \in Nat
  BY <1>1, AscendingLists DEF AllInLevels
<1>3. IsFiniteSet({i \in DOMAIN all : all[i].amount > 0})
  <2>1. IsFiniteSet(1 .. n + 1)
    BY <1>2, FS_Interval
  <2> HIDE DEF n
  <2> QED
    BY <2>1, FS_Subset
<1>4. Layers(bets, folded, allIn) = pots
  BY DEF Layers
<1> HIDE DEF all, filled
<1>5. \E m \in Nat : DOMAIN filled = 1 .. m
  BY <1>3, AscendingLists DEF filled
<1>6. pots \in Seq({pots[k] : k \in DOMAIN filled})
  BY <1>5
<1> QED
  BY <1>4, <1>6

\* The list of a finite set of numbers is in ascending order.
LEMMA AscendingOrder ==
    ASSUME NEW S \in SUBSET Int, IsFiniteSet(S)
    PROVE  \A i, j \in 1 .. Cardinality(S) : i < j => Ascending(S)[i] < Ascending(S)[j]
<1> DEFINE Place(x, i) == Cardinality({y \in S : y < x}) = i - 1
           n == Cardinality(S)
<1>1. n \in Nat
  BY FS_CardinalityType
<1>2. \A i \in 1 .. n : Ascending(S)[i] \in S /\ Place(Ascending(S)[i], i)
  <2>1. \A i \in 1 .. n : Ascending(S)[i] = CHOOSE x \in S : Place(x, i)
    BY DEF Ascending
  <2>2. ASSUME NEW i \in 1 .. n
        PROVE  \E x \in S : Place(x, i)
    <3> DEFINE below == [x \in S |-> {y \in S : y < x}]
    <3>1. \A k \in 0 .. Cardinality(S) - 1 : \E x \in S : Cardinality(below[x]) = k
      <4>1. \A x \in S : below[x] \subseteq S /\ x \notin below[x]
        OBVIOUS
      <4>2. \A x, y \in S : x # y => x \in below[y] \/ y \in below[x]
        OBVIOUS
      <4>3. \A x, y \in S : x \in below[y] => below[x] \subseteq below[y]
        <5>1. \A x, y, z \in S : x < y /\ z < x => z < y
          OBVIOUS
        <5> QED
          BY <5>1
      <4> HIDE DEF below
      <4> QED
        BY <4>1, <4>2, <4>3, Ranking
    <3>2. i - 1 \in 0 .. Cardinality(S) - 1
      BY <1>1
    <3>3. PICK x \in S : Cardinality(below[x]) = i - 1
      BY <3>1, <3>2
    <3>4. below[x] = {y \in S : y < x}
      OBVIOUS
    <3> QED
      BY <3>3, <3>4
  <2> HIDE DEF Place
  <2> QED
    BY <2>1, <2>2
<1>3. ASSUME NEW i \in 1 .. n, NEW j \in 1 .. n, i < j
      PROVE  Ascending(S)[i] < Ascending(S)[j]
  <2> DEFINE x == Ascending(S)[i]
             y == Ascending(S)[j]
             A == {z \in S : z < x}
             B == {z \in S : z < y}
  <2>1. x \in S /\ y \in S /\ Cardinality(A) = i - 1 /\ Cardinality(B) = j - 1
    BY <1>2
  <2>2. x \in Int /\ y \in Int
    BY <2>1
  <2>3. ASSUME y <= x PROVE FALSE
    <3> HIDE DEF x, y
    <3>1. \A z \in S : z < y => z < x
      BY <2>2, <2>3
    <3>2. B \in SUBSET A /\ IsFiniteSet(A)
      BY <3>1, FS_Subset
    <3> HIDE DEF A, B
    <3>3. Cardinality(B) <= Cardinality(A)
      BY <3>2, FS_Subset
    <3> QED
      BY <1>1, <1>3, <2>1, <3>3
  <2>4. x < y
    BY <2>2, <2>3
  <2> QED
    BY <2>4
<1> QED
  BY <1>3

\* Of the members of a set in ascending order, as many are in a subset as the
\* subset has.
LEMMA AscendingSelects ==
    ASSUME NEW S \in SUBSET Int, IsFiniteSet(S), NEW U, U \subseteq S
    PROVE  LET I == {i \in 1 .. Cardinality(S) : Ascending(S)[i] \in U}
           IN  IsFiniteSet(I) /\ Cardinality(I) = Cardinality(U)
<1> DEFINE n == Cardinality(S)
           f == Ascending(S)
           I == {i \in 1 .. n : f[i] \in U}
           g == [i \in I |-> f[i]]
<1>1. n \in Nat
  BY FS_CardinalityType
<1>2. IsFiniteSet(I)
  <2>1. IsFiniteSet(1 .. n)
    BY <1>1, FS_Interval
  <2>2. I \subseteq 1 .. n
    OBVIOUS
  <2> HIDE DEF I, n
  <2> QED
    BY <2>1, <2>2, FS_Subset
<1>3. \A x \in S : \E i \in 1 .. n : f[i] = x
  BY AscendingMembers
<1>4. \A i, j \in 1 .. n : f[i] \in S /\ (i < j => f[i] < f[j])
  BY AscendingMembers, AscendingOrder
<1> HIDE DEF f
<1>5. \A i, j \in 1 .. n : f[i] = f[j] => i = j
  <2> SUFFICES ASSUME NEW i \in 1 .. n, NEW j \in 1 .. n, f[i] = f[j]
               PROVE  i = j
    OBVIOUS
  <2>1. f[i] \in Int /\ f[j] \in Int /\ (i < j => f[i] < f[j]) /\ (j < i => f[j] < f[i])
    BY <1>4
  <2>2. ~(i < j) /\ ~(j < i)
    BY <2>1
  <2> QED
    BY <1>1, <2>2
<1> HIDE DEF n
<1>6. /\ g \in [I -> U]
      /\ \A i, j \in I : g[i] = g[j] => i = j
      /\ \A x \in U : \E i \in I : g[i] = x
  BY <1>3, <1>5
<1> HIDE DEF g, I
<1>7. g \in Bijection(I, U)
  BY <1>6 DEF Bijection, Injection, Surjection, IsInjective
<1>8. Cardinality(U) = Cardinality(I)
  BY <1>2, <1>7, FS_Bijection DEF ExistsBijection
<1> QED
  BY <1>2, <1>8 DEF I, f, n

-----------------------------------------------------------------------------
(* The pots add up to the bets.                                            *)

\* The chips in all the pots.
PotsTotal(pots) == MapThenSumSet(LAMBDA i : pots[i].amount, DOMAIN pots)

\* The amounts of the pots, and what of each bet is up to a level.
Amounts(pots) == [i \in DOMAIN pots |-> pots[i].amount]
UpToLevel(bets, level) ==
    [s \in DOMAIN bets |-> IF bets[s] < level THEN bets[s] ELSE level]

\* The amounts of pots, added up.
LEMMA AmountSum ==
    ASSUME NEW pots, NEW S, IsFiniteSet(S), DOMAIN pots = S
    PROVE  PotsTotal(pots) = Total(Amounts(pots), S)
<1> DEFINE f == Amounts(pots)
           Sum(g) == [T \in SUBSET S |->
                        IF T = {} THEN 0 ELSE pots[Pick(T)].amount + g[T \ {Pick(T)}]]
           g == CHOOSE g : g = Sum(g)
<1>1. \A T \in SUBSET S : T # {} => f[Pick(T)] = pots[Pick(T)].amount
  BY DEF Pick, Amounts
<1>2. PotsTotal(pots) = g[S]
  BY DEF PotsTotal, MapThenSumSet, MapThenFoldSet, Pick
<1> HIDE DEF f
<1>3. \A k : Adds(k, f, S) <=> k = Sum(k)
  BY <1>1 DEF Adds
<1>4. Adds(g, f, S)
  <2>1. PICK h : Adds(h, f, S)
    BY AddsExist
  <2>2. h = Sum(h)
    BY <1>3, <2>1
  <2>3. g = Sum(g)
    BY <2>2
  <2> HIDE DEF g
  <2> QED
    BY <1>3, <2>3
<1> HIDE DEF g
<1> QED
  BY <1>2, <1>4, AddsTotal DEF f

\* The sum of the bets as calculate_side_pots takes it.
LEMMA EveryoneSum ==
    ASSUME NEW bets, IsFiniteSet(DOMAIN bets)
    PROVE  MapThenSumSet(LAMBDA s : bets[s], DOMAIN bets) = Total(bets, DOMAIN bets)
BY DEF Total

\* A layer has of each bet what lies between its two levels.
LEMMA LayerSum ==
    ASSUME NEW S, IsFiniteSet(S), NEW bets \in [S -> Nat], NEW folded,
           NEW low \in Nat, NEW high \in Nat, low <= high
    PROVE  /\ Layer(bets, folded, low, high).amount \in Nat
           /\ Total(UpToLevel(bets, high), S)
                 = Total(UpToLevel(bets, low), S) + Layer(bets, folded, low, high).amount
<1> DEFINE in == {s \in DOMAIN bets : bets[s] > low}
           part(s) == (IF bets[s] < high THEN bets[s] ELSE high) - low
           f == [s \in S |-> part(s)]
           Sum(g) == [T \in SUBSET in |->
                        IF T = {} THEN 0 ELSE part(Pick(T)) + g[T \ {Pick(T)}]]
           g == CHOOSE g : g = Sum(g)
           amount == Layer(bets, folded, low, high).amount
           between == [s \in S |-> IF s \in in THEN f[s] ELSE 0]
<1>1. \A s \in S : f[s] = part(s)
  OBVIOUS
<1>2. amount = g[in]
  BY DEF Layer, Pot, MapThenSumSet, MapThenFoldSet, Pick
<1>3. in \in SUBSET S /\ IsFiniteSet(in) /\ DOMAIN bets = S
  BY FS_Subset
<1>4. /\ \A s \in in : f[s] \in Nat
      /\ \A s \in S : f[s] \in Int
  OBVIOUS
<1>5. \A s \in S : /\ UpToLevel(bets, low)[s] \in Int /\ between[s] \in Int
                   /\ UpToLevel(bets, high)[s] = UpToLevel(bets, low)[s] + between[s]
  BY DEF UpToLevel
<1>6. \A s \in S : between[s] = IF s \in in THEN f[s] ELSE 0
  OBVIOUS
<1> HIDE DEF in, f, part
<1>7. \A T \in SUBSET in : T # {} => f[Pick(T)] = part(Pick(T))
  BY <1>1, <1>3 DEF Pick
<1>8. \A k : Adds(k, f, in) <=> k = Sum(k)
  BY <1>7 DEF Adds
<1>9. Adds(g, f, in)
  BY <1>3, <1>8, AddsExist
<1> HIDE DEF g, between, amount
<1>10. amount = Total(f, in)
  BY <1>2, <1>3, <1>9, AddsTotal
<1>11. Total(between, S) = Total(f, in)
  BY <1>3, <1>4, <1>6, TotalPart
<1>12. Total(UpToLevel(bets, high), S)
          = Total(UpToLevel(bets, low), S) + Total(between, S)
  <2> DEFINE a == UpToLevel(bets, low)
             b == UpToLevel(bets, high)
  <2>1. \A s \in S : a[s] \in Int /\ between[s] \in Int /\ b[s] = a[s] + between[s]
    BY <1>5
  <2> HIDE DEF a, b
  <2>2. Total(b, S) = Total(a, S) + Total(between, S)
    BY <2>1, TotalPlus
  <2> QED
    BY <2>2 DEF a, b
<1>13. Total(f, in) \in Nat
  BY <1>3, <1>4, TotalNat
<1> QED
  BY <1>10, <1>11, <1>12, <1>13 DEF amount

\* The levels of a hand: 0, the bets of the all-in seats in ascending order,
\* and the highest bet.
LEMMA LevelsAscend ==
    ASSUME NEW S, IsFiniteSet(S), NEW bets \in [S -> Nat], NEW allIn \in SUBSET S
    PROVE  LET levels == AllInLevels(bets, allIn)
               top == Max({bets[s] : s \in DOMAIN bets} \cup {0})
           IN  /\ Len(levels) \in Nat
               /\ \A i \in 1 .. Len(levels) : levels[i] \in Nat /\ levels[i] <= top
               /\ \A i, j \in 1 .. Len(levels) : i < j => levels[i] < levels[j]
               /\ top \in Nat /\ \A s \in S : bets[s] <= top
<1> DEFINE V == {bets[s] : s \in allIn} \ {0}
           B == {bets[s] : s \in DOMAIN bets} \cup {0}
           levels == AllInLevels(bets, allIn)
           top == Max(B)
<1>1. DOMAIN bets = S
  OBVIOUS
<1>2. IsFiniteSet(V)
  <2>1. IsFiniteSet(allIn)
    BY FS_Subset
  <2>2. IsFiniteSet({bets[s] : s \in allIn})
    BY <2>1, ImageFinite
  <2> QED
    BY <2>2, FS_Subset
<1>3. IsFiniteSet(B)
  <2>1. IsFiniteSet({bets[s] : s \in DOMAIN bets})
    BY <1>1, ImageFinite
  <2> QED
    BY <2>1, FS_Singleton, FS_Union
<1>4. V \in SUBSET Int /\ V \subseteq B /\ B \in SUBSET Nat /\ 0 \in B
  OBVIOUS
<1>5. \A s \in S : bets[s] \in B
  BY <1>1
<1>6. levels = Ascending(V)
  BY DEF AllInLevels
<1> HIDE DEF V, B, levels
<1>7. B \in SUBSET Int /\ B # {}
  BY <1>4
<1>8. top \in B /\ \A x \in B : x <= top
  BY <1>3, <1>7, GreatestMember
<1> HIDE DEF top
<1>9. Len(levels) = Cardinality(V) /\ Len(levels) \in Nat
  BY <1>2, <1>6, AscendingLists
<1>10. \A i \in 1 .. Len(levels) : levels[i] \in V
  BY <1>2, <1>4, <1>6, <1>9, AscendingMembers
<1>11. \A i, j \in 1 .. Len(levels) : i < j => levels[i] < levels[j]
  BY <1>2, <1>4, <1>6, <1>9, AscendingOrder
<1>12. \A i \in 1 .. Len(levels) : levels[i] \in Nat /\ levels[i] <= top
  BY <1>4, <1>8, <1>10
<1>13. top \in Nat /\ \A s \in S : bets[s] <= top
  BY <1>4, <1>5, <1>8
<1> QED
  BY <1>9, <1>11, <1>12, <1>13 DEF levels, top, B

\* The layers of a hand are the bets, and none of them is empty.
LEMMA LayersAddUp ==
    ASSUME NEW S, IsFiniteSet(S), NEW bets \in [S -> Nat], NEW folded,
           NEW allIn \in SUBSET S
    PROVE  LET L == Layers(bets, folded, allIn)
           IN  \E m \in Nat :
                  /\ DOMAIN L = 1 .. m
                  /\ \A k \in 1 .. m : /\ DOMAIN L[k] = {"amount", "eligible"}
                                       /\ L[k].amount \in Nat
                  /\ Total(Amounts(L), 1 .. m) = Total(bets, S)
<1> DEFINE levels == AllInLevels(bets, allIn)
           n == Len(levels)
           low(i) == IF i = 1 THEN 0 ELSE levels[i - 1]
           top == Max({bets[s] : s \in DOMAIN bets} \cup {0})
           all == [i \in 1 .. n + 1 |->
                     Layer(bets, folded, low(i), IF i <= n THEN levels[i] ELSE top)]
           F == {i \in DOMAIN all : all[i].amount > 0}
           filled == Ascending(F)
           L == [k \in DOMAIN filled |-> all[filled[k]]]
           A == [i \in 1 .. n + 1 |-> all[i].amount]
           level(i) == IF i = 0 THEN 0 ELSE IF i <= n THEN levels[i] ELSE top
<1>1. L = Layers(bets, folded, allIn)
  BY DEF Layers
<1>2. /\ n \in Nat
      /\ \A i \in 1 .. n : levels[i] \in Nat /\ levels[i] <= top
      /\ \A i, j \in 1 .. n : i < j => levels[i] < levels[j]
      /\ top \in Nat /\ \A s \in S : bets[s] <= top
  BY LevelsAscend
<1> HIDE DEF levels, top, n
<1>3. ASSUME NEW i \in 1 .. n + 1
      PROVE  /\ level(i - 1) \in Nat /\ level(i) \in Nat /\ level(i - 1) <= level(i)
             /\ all[i] = Layer(bets, folded, level(i - 1), level(i))
  <2>1. low(i) = level(i - 1) /\ (IF i <= n THEN levels[i] ELSE top) = level(i)
    BY <1>2
  <2>2. /\ level(i - 1) \in Nat /\ level(i) \in Nat /\ level(i - 1) <= level(i)
    BY <1>2
  <2>3. all[i] = Layer(bets, folded, low(i), IF i <= n THEN levels[i] ELSE top)
    OBVIOUS
  <2> HIDE DEF level, low, all
  <2> QED
    BY <2>1, <2>2, <2>3
<1>4. level(0) = 0 /\ level(n + 1) = top
  BY <1>2
<1>5. DOMAIN all = 1 .. n + 1 /\ \A i \in 1 .. n + 1 : A[i] = all[i].amount
  OBVIOUS
<1> HIDE DEF level, low, all, A
<1>6. ASSUME NEW i \in 1 .. n + 1
      PROVE  /\ A[i] \in Nat /\ DOMAIN all[i] = {"amount", "eligible"}
             /\ Total(UpToLevel(bets, level(i)), S)
                   = Total(UpToLevel(bets, level(i - 1)), S) + A[i]
  <2>1. A[i] = Layer(bets, folded, level(i - 1), level(i)).amount
    BY <1>3, <1>5
  <2>2. DOMAIN all[i] = {"amount", "eligible"}
    <3>1. \E x, y : all[i] = [amount |-> x, eligible |-> y]
      BY <1>3 DEF Layer, Pot
    <3> QED
      BY <3>1
  <2>3. level(i - 1) \in Nat /\ level(i) \in Nat /\ level(i - 1) <= level(i)
    BY <1>3
  <2> QED
    BY <2>1, <2>2, <2>3, LayerSum
<1>7. Total(A, 1 .. n + 1) = Total(bets, S)
  <2> DEFINE Known == {k \in 0 .. n + 1 :
                          Total(A, 1 .. k) = Total(UpToLevel(bets, level(k)), S)}
  <2>1. 0 \in Known
    <3>1. \A s \in S : UpToLevel(bets, level(0))[s] = 0
      BY <1>4 DEF UpToLevel
    <3> DEFINE f == UpToLevel(bets, level(0))
    <3> HIDE DEF f
    <3>2. Total(f, S) = Cardinality(S) * 0
      BY <3>1, TotalSame DEF f
    <3>3. Cardinality(S) \in Nat
      BY FS_CardinalityType
    <3>4. 1 .. 0 = {}
      OBVIOUS
    <3>5. Total(A, 1 .. 0) = 0
      BY <3>4, TotalEmpty
    <3>6. Total(UpToLevel(bets, level(0)), S) = 0
      BY <3>2, <3>3 DEF f
    <3> QED
      BY <1>2, <3>5, <3>6
  <2>2. ASSUME NEW k \in 1 .. n + 1, k - 1 \in Known
        PROVE  k \in Known
    <3>1. IsFiniteSet(1 .. k) /\ \A i \in 1 .. k : A[i] \in Int
      <4>1. \A i \in 1 .. n + 1 : A[i] \in Int
        BY <1>6
      <4>2. (1 .. k) \subseteq (1 .. n + 1)
        BY <1>2
      <4>3. IsFiniteSet(1 .. k)
        BY <1>2, FS_Interval
      <4> QED
        BY <4>1, <4>2, <4>3
    <3>2. Total(A, 1 .. k) = A[k] + Total(A, (1 .. k) \ {k})
      <4> DEFINE T == 1 .. k
      <4>1. k \in T
        BY <1>2
      <4>2. IsFiniteSet(T) /\ \A i \in T : A[i] \in Int
        BY <3>1
      <4> HIDE DEF T
      <4>3. Total(A, T) = A[k] + Total(A, T \ {k})
        BY <4>1, <4>2, TotalWithout
      <4> QED
        BY <4>3 DEF T
    <3>3. (1 .. k) \ {k} = 1 .. k - 1
      BY <1>2
    <3>4. Total(A, 1 .. k - 1) = Total(UpToLevel(bets, level(k - 1)), S)
      BY <2>2
    <3>5. Total(UpToLevel(bets, level(k)), S)
             = Total(UpToLevel(bets, level(k - 1)), S) + A[k]
      BY <1>6
    <3>6. A[k] \in Int /\ Total(A, 1 .. k - 1) \in Int
      <4>1. (1 .. k - 1) \in SUBSET (1 .. k)
        BY <1>2
      <4> QED
        BY <3>1, <4>1, TotalInt
    <3> DEFINE rest == Total(A, 1 .. k - 1)
    <3>7. Total(A, 1 .. k) = Total(UpToLevel(bets, level(k)), S)
      <4>1. Total(A, 1 .. k) = A[k] + rest
        BY <3>2, <3>3
      <4>2. Total(UpToLevel(bets, level(k)), S) = rest + A[k]
        BY <3>4, <3>5
      <4>3. rest \in Int /\ A[k] \in Int
        BY <3>6
      <4> HIDE DEF rest
      <4>4. A[k] + rest = rest + A[k]
        BY <4>3
      <4> QED
        BY <4>1, <4>2, <4>4
    <3>8. k \in 0 .. n + 1
      BY <1>2
    <3> QED
      BY <3>7, <3>8
  <2> HIDE DEF Known
  <2>3. \A k \in 0 .. n + 1 : k \in Known
    BY <1>2, <2>1, <2>2, UpTo
  <2>4. Total(A, 1 .. n + 1) = Total(UpToLevel(bets, level(n + 1)), S)
    BY <1>2, <2>3 DEF Known
  <2>5. \A s \in S : UpToLevel(bets, level(n + 1))[s] = bets[s]
    BY <1>2, <1>4 DEF UpToLevel
  <2> QED
    BY <2>4, <2>5, TotalEqual
<1>8. IsFiniteSet(1 .. n + 1)
  BY <1>2, FS_Interval
<1>9. F \in SUBSET (1 .. n + 1) /\ F \in SUBSET Int /\ IsFiniteSet(F)
  <2>1. F \in SUBSET (1 .. n + 1)
    BY <1>5
  <2>2. (1 .. n + 1) \subseteq Int
    OBVIOUS
  <2> HIDE DEF F
  <2> QED
    BY <1>8, <2>1, <2>2, FS_Subset
<1>10. Total(A, 1 .. n + 1) = Total(A, F)
  <2>1. \A i \in 1 .. n + 1 : A[i] \in Nat
    BY <1>6
  <2>2. \A i \in 1 .. n + 1 : A[i] = IF i \in F THEN A[i] ELSE 0
    BY <1>5, <2>1
  <2>3. \A i \in 1 .. n + 1 : A[i] \in Int
    BY <2>1
  <2> DEFINE I == 1 .. n + 1
  <2>4. /\ \A i \in I : A[i] \in Int /\ A[i] = IF i \in F THEN A[i] ELSE 0
        /\ IsFiniteSet(I) /\ F \in SUBSET I
    BY <1>8, <1>9, <2>2, <2>3
  <2> HIDE DEF F, I
  <2>5. (\A i \in I : A[i] \in Int) /\ (\A i \in I : A[i] = IF i \in F THEN A[i] ELSE 0)
    BY <2>4
  <2>6. Total(A, I) = Total(A, F)
    BY <2>4, <2>5, TotalPart
  <2> QED
    BY <2>6 DEF I
<1> HIDE DEF F
<1> DEFINE m == Cardinality(F)
<1>11. m \in Nat /\ DOMAIN filled = 1 .. m
  BY <1>9, AscendingLists
<1>12. /\ \A k \in 1 .. m : filled[k] \in F
       /\ \A x \in F : \E k \in 1 .. m : filled[k] = x
       /\ \A j, k \in 1 .. m : filled[j] = filled[k] => j = k
  <2>1. \A j, k \in 1 .. m : j < k => filled[j] < filled[k]
    BY <1>9, AscendingOrder
  <2>2. /\ \A k \in 1 .. m : filled[k] \in F
        /\ \A x \in F : \E k \in 1 .. m : filled[k] = x
    BY <1>9, AscendingMembers
  <2>3. \A k \in 1 .. m : filled[k] \in Int
    BY <1>9, <2>2
  <2> HIDE DEF m, filled
  <2> QED
    BY <1>11, <2>1, <2>2, <2>3
<1> HIDE DEF m, filled
<1>13. DOMAIN L = 1 .. m /\ \A k \in 1 .. m : L[k] = all[filled[k]]
  BY <1>11
<1> HIDE DEF L
<1>14. \A k \in 1 .. m : /\ DOMAIN L[k] = {"amount", "eligible"}
                         /\ L[k].amount \in Nat
                         /\ Amounts(L)[k] = A[filled[k]]
  <2>1. ASSUME NEW k \in 1 .. m
        PROVE  /\ DOMAIN L[k] = {"amount", "eligible"}
               /\ L[k].amount \in Nat
               /\ Amounts(L)[k] = A[filled[k]]
    <3> DEFINE i == filled[k]
    <3>1. i \in 1 .. n + 1 /\ L[k] = all[i]
      BY <1>9, <1>12, <1>13
    <3> HIDE DEF i
    <3>2. DOMAIN L[k] = {"amount", "eligible"} /\ L[k].amount = A[i] /\ A[i] \in Nat
      BY <1>5, <1>6, <3>1
    <3>3. Amounts(L)[k] = L[k].amount
      BY <1>13 DEF Amounts
    <3> QED
      BY <3>2, <3>3 DEF i
  <2> QED
    BY <2>1
<1>15. Total(Amounts(L), 1 .. m) = Total(A, F)
  <2>1. IsFiniteSet(1 .. m)
    BY <1>11, FS_Interval
  <2>2. \A x \in F : A[x] \in Int
    BY <1>6, <1>9
  <2> DEFINE f == Amounts(L)
             I == 1 .. m
  <2>3. \A k \in I : filled[k] \in F /\ f[k] = A[filled[k]]
    BY <1>12, <1>14
  <2>4. /\ \A x \in F : \E k \in I : filled[k] = x
        /\ \A j, k \in I : filled[j] = filled[k] => j = k
        /\ IsFiniteSet(I) /\ IsFiniteSet(F)
    BY <1>9, <1>12, <2>1
  <2> HIDE DEF f, I
  <2>5. Total(f, I) = Total(A, F)
    BY <2>2, <2>3, <2>4, TotalReindex
  <2> QED
    BY <2>5 DEF f, I
<1> QED
  BY <1>1, <1>7, <1>10, <1>11, <1>13, <1>14, <1>15

\* Nobody who folded contests one of m layers, and somebody contests each but
\* the last.
Contended(L, m, S, folded) ==
    \A k \in 1 .. m : L[k].eligible \subseteq S \ folded /\ (k # m => L[k].eligible # {})

\* Everybody in the list of a layer has put in and not folded; below the top
\* one, each layer has the all-in player whose bet ends it.
LEMMA LayersContended ==
    ASSUME NEW S, IsFiniteSet(S), NEW bets \in [S -> Nat], NEW folded,
           NEW allIn \in SUBSET S, allIn \cap folded = {},
           NEW m \in Nat, DOMAIN Layers(bets, folded, allIn) = 1 .. m
    PROVE  Contended(Layers(bets, folded, allIn), m, S, folded)
<1> DEFINE levels == AllInLevels(bets, allIn)
           V == {bets[s] : s \in allIn} \ {0}
           n == Len(levels)
           low(i) == IF i = 1 THEN 0 ELSE levels[i - 1]
           top == Max({bets[s] : s \in DOMAIN bets} \cup {0})
           all == [i \in 1 .. n + 1 |->
                     Layer(bets, folded, low(i), IF i <= n THEN levels[i] ELSE top)]
           F == {i \in DOMAIN all : all[i].amount > 0}
           filled == Ascending(F)
           L == Layers(bets, folded, allIn)
<1>0. DOMAIN bets = S /\ allIn \in SUBSET S
  OBVIOUS
<1>1. L = [k \in DOMAIN filled |-> all[filled[k]]]
  BY DEF Layers
<1>2. /\ n \in Nat
      /\ \A i \in 1 .. n : levels[i] \in Nat
      /\ \A i, j \in 1 .. n : i < j => levels[i] < levels[j]
  BY <1>0, LevelsAscend
<1>3. \A i \in 1 .. n : \E s \in allIn : levels[i] = bets[s] /\ bets[s] # 0
  <2>1. V \in SUBSET Int /\ IsFiniteSet(V)
    <3>1. IsFiniteSet(allIn)
      BY <1>0, FS_Subset
    <3>2. IsFiniteSet({bets[s] : s \in allIn})
      BY <3>1, ImageFinite
    <3>3. V \in SUBSET Int
      BY <1>0
    <3> QED
      BY <3>2, <3>3, FS_Subset
  <2>2. levels = Ascending(V)
    BY DEF AllInLevels
  <2> HIDE DEF V, levels
  <2>3. \A i \in 1 .. n : levels[i] \in V
    BY <2>1, <2>2, AscendingLists, AscendingMembers
  <2> QED
    BY <2>3 DEF V
<1> HIDE DEF levels, top, n
<1>4. \A i \in 1 .. n + 1 : all[i].eligible = {s \in S : bets[s] > low(i)} \ folded
  BY <1>0 DEF Layer, Pot
<1>5. ASSUME NEW i \in 1 .. n + 1
      PROVE  /\ all[i].eligible \subseteq S \ folded
             /\ i # n + 1 => all[i].eligible # {}
  <2>1. ASSUME i # n + 1 PROVE all[i].eligible # {}
    <3>1. i \in 1 .. n
      BY <1>2, <2>1
    <3>2. PICK s \in allIn : levels[i] = bets[s] /\ bets[s] # 0
      BY <1>3, <3>1
    <3>3. bets[s] > low(i)
      <4>1. CASE i = 1
        BY <1>0, <3>2, <4>1
      <4>2. CASE i # 1
        <5>1. i - 1 \in 1 .. n /\ i - 1 < i
          BY <1>2, <3>1, <4>2
        <5>2. levels[i - 1] < levels[i] /\ levels[i - 1] \in Nat /\ levels[i] \in Nat
          BY <1>2, <3>1, <5>1
        <5> QED
          BY <3>2, <4>2, <5>2
      <4> QED
        BY <4>1, <4>2
    <3>4. s \in S \ folded
      OBVIOUS
    <3> HIDE DEF low, all
    <3> QED
      BY <1>4, <3>3, <3>4
  <2> HIDE DEF low, all
  <2> QED
    BY <1>4, <2>1
<1>6. F \in SUBSET (1 .. n + 1) /\ F \in SUBSET Int /\ IsFiniteSet(F)
  <2>1. F \in SUBSET (1 .. n + 1)
    OBVIOUS
  <2>2. (1 .. n + 1) \subseteq Int
    OBVIOUS
  <2>3. IsFiniteSet(1 .. n + 1)
    BY <1>2, FS_Interval
  <2> HIDE DEF F
  <2> QED
    BY <2>1, <2>2, <2>3, FS_Subset
<1> HIDE DEF F, all
<1>7. /\ DOMAIN filled = 1 .. Cardinality(F) /\ Cardinality(F) \in Nat
      /\ \A k \in 1 .. Cardinality(F) : filled[k] \in F
      /\ \A j, k \in 1 .. Cardinality(F) : j < k => filled[j] < filled[k]
  BY <1>6, AscendingLists, AscendingMembers, AscendingOrder
<1> HIDE DEF filled
<1>8. DOMAIN filled = 1 .. m /\ \A k \in 1 .. m : L[k] = all[filled[k]]
  BY <1>1
<1>9. ASSUME NEW k \in 1 .. m
      PROVE  /\ filled[k] \in 1 .. n + 1
             /\ k # m => filled[k] # n + 1
  <2>1. m = Cardinality(F)
    <3> DEFINE c == Cardinality(F)
    <3> HIDE DEF c
    <3>1. 1 .. m = 1 .. c /\ c \in Nat
      BY <1>7, <1>8 DEF c
    <3>2. m \in 1 .. m /\ m \in 1 .. c
      BY <3>1
    <3>3. c \in 1 .. m
      BY <3>1, <3>2
    <3> QED
      BY <3>1, <3>2, <3>3 DEF c
  <2>2. filled[k] \in 1 .. n + 1 /\ filled[m] \in 1 .. n + 1
    <3>1. k \in 1 .. Cardinality(F) /\ m \in 1 .. Cardinality(F)
      <4>1. m \in 1 .. m
        OBVIOUS
      <4> QED
        BY <2>1, <4>1
    <3>2. filled[k] \in F /\ filled[m] \in F
      BY <1>7, <3>1
    <3> QED
      BY <1>6, <3>2
  <2>3. ASSUME k # m PROVE filled[k] < filled[m]
    BY <1>7, <2>1, <2>3
  <2> QED
    BY <1>2, <2>2, <2>3
<1> QED
  BY <1>5, <1>8, <1>9 DEF Contended

\* g on T is f on S, except that the value of the member m that left S went
\* to k.
Moved(f, S, g, T, m, k) ==
    /\ IsFiniteSet(S) /\ m \in S /\ T = S \ {m} /\ k \in T
    /\ \A i \in S : f[i] \in Int
    /\ \A i \in T \ {k} : g[i] = f[i]
    /\ g[k] = f[k] + f[m]

\* A value that moves from one member to another leaves the sum what it was.
LEMMA TotalMoved ==
    ASSUME NEW S, NEW T, NEW m, NEW k, NEW f, NEW g, Moved(f, S, g, T, m, k)
    PROVE  Total(g, T) = Total(f, S)
<1>0. /\ IsFiniteSet(S) /\ m \in S /\ T = S \ {m} /\ k \in T
      /\ \A i \in S : f[i] \in Int
      /\ \A i \in T \ {k} : g[i] = f[i]
      /\ g[k] = f[k] + f[m]
  BY DEF Moved
<1>1. IsFiniteSet(T)
  BY <1>0, FS_Subset
<1>2. \A i \in T : f[i] \in Int
  BY <1>0
<1>3. g[k] \in Int /\ f[k] \in Int /\ f[m] \in Int
  BY <1>0
<1>4. Total(g, T) = Total(f, T) - f[k] + g[k]
  BY <1>0, <1>1, <1>2, <1>3, TotalExcept
<1>5. Total(f, S) = f[m] + Total(f, T)
  <2>1. \A x \in S : Total(f, S) = f[x] + Total(f, S \ {x})
    <3>1. S \in SUBSET S
      OBVIOUS
    <3> QED
      BY <1>0, <3>1, TotalRemove
  <2> QED
    BY <1>0, <2>1
<1>6. Total(f, T) \in Int
  BY <1>1, <1>2, TotalInt
<1> QED
  BY <1>0, <1>3, <1>4, <1>5, <1>6

\* The k pots M hold what m pots held, with the contenders these had; an outer
\* pot that stays has some, or is the only pot.
Merged(pots, m, M, k) ==
    /\ Len(M) = k /\ DOMAIN M = 1 .. k
    /\ \A i \in 1 .. k : /\ DOMAIN M[i] = {"amount", "eligible"}
                         /\ M[i].amount \in Nat
                         /\ M[i].eligible = pots[i].eligible
    /\ Total(Amounts(M), 1 .. k) = Total(Amounts(pots), 1 .. m)
    /\ k = m => m = 1 \/ pots[m].eligible # {}

\* Merging an outer pot nobody may win into another one loses no chips and
\* changes no list of contenders; an outer pot that stays has some, or is the
\* only pot.
LEMMA MergeKeepsTotal ==
    ASSUME NEW pots, NEW m \in Nat, DOMAIN pots = 1 .. m,
           pots \in Seq({pots[k] : k \in 1 .. m}), m > 0,
           \A k \in 1 .. m : /\ DOMAIN pots[k] = {"amount", "eligible"}
                             /\ pots[k].amount \in Nat
    PROVE  \E k \in 1 .. m : Merged(pots, m, MergeDeadOuterPot(pots), k)
<1> DEFINE last == pots[Len(pots)]
           rest == SubSeq(pots, 1, Len(pots) - 1)
           winnable == {i \in DOMAIN rest : rest[i].eligible # {}}
           into == IF winnable = {} THEN 1 ELSE Max(winnable)
           merged == [rest EXCEPT ![into].amount = @ + last.amount]
           M == MergeDeadOuterPot(pots)
           dead == pots # <<>> /\ last.eligible = {} /\ rest # <<>>
           X == {pots[k] : k \in 1 .. m}
<1>1. Len(pots) = m
  <2> HIDE DEF X
  <2>1. DOMAIN pots = 1 .. Len(pots) /\ Len(pots) \in Nat
    BY LenProperties DEF X
  <2>2. m \in 1 .. Len(pots) /\ Len(pots) \in 1 .. m
    BY <2>1
  <2> QED
    BY <2>1, <2>2
<1>2. \A k \in 1 .. m : Amounts(pots)[k] = pots[k].amount
  BY DEF Amounts
<1>2a. /\ rest \in Seq(X)
       /\ Len(rest) = m - 1 /\ DOMAIN rest = 1 .. m - 1
       /\ \A i \in 1 .. m - 1 : rest[i] = pots[i]
  <2>1. \A i \in 1 .. m - 1 : pots[i] \in X
    OBVIOUS
  <2> HIDE DEF X
  <2>2. /\ SubSeq(pots, 1, m - 1) \in Seq(X)
        /\ Len(SubSeq(pots, 1, m - 1)) = IF 1 <= m - 1 THEN (m - 1) - 1 + 1 ELSE 0
        /\ \A i \in 1 .. (m - 1) - 1 + 1 : SubSeq(pots, 1, m - 1)[i] = pots[1 + i - 1]
    BY <2>1, SubSeqProperties
  <2>3. rest = SubSeq(pots, 1, m - 1)
    BY <1>1
  <2> HIDE DEF rest
  <2>4. rest \in Seq(X) /\ Len(rest) = m - 1
    BY <2>2, <2>3
  <2>5. DOMAIN rest = 1 .. m - 1
    BY <2>4, LenProperties
  <2>6. \A i \in 1 .. m - 1 : rest[i] = pots[i]
    BY <2>2, <2>3
  <2> QED
    BY <2>4, <2>5, <2>6
<1>3. CASE ~dead
  <2>1. M = pots
    BY <1>3 DEF MergeDeadOuterPot
  <2>2. m = 1 \/ pots[m].eligible # {}
    <3>1. ASSUME rest = <<>> PROVE m = 1
      <4> HIDE DEF rest, X
      <4>1. Len(rest) = 0
        BY <3>1
      <4> QED
        BY <1>2a, <4>1
    <3>2. ASSUME pots = <<>> PROVE FALSE
      <4>1. Len(pots) = 0
        BY <3>2
      <4> QED
        BY <1>1, <4>1
    <3> QED
      BY <1>1, <1>3, <3>1, <3>2
  <2>3. /\ Len(M) = m /\ DOMAIN M = 1 .. m /\ m \in 1 .. m
        /\ \A i \in 1 .. m : /\ M[i].amount \in Nat /\ M[i].eligible = pots[i].eligible
                             /\ DOMAIN M[i] = {"amount", "eligible"}
        /\ Total(Amounts(M), 1 .. m) = Total(Amounts(pots), 1 .. m)
    BY <1>1, <2>1
  <2> HIDE DEF M
  <2>4. Merged(pots, m, M, m)
    BY <2>2, <2>3 DEF Merged
  <2> QED
    BY <2>3, <2>4 DEF M
<1>4. CASE dead
  <2>1. M = merged /\ rest # <<>>
    BY <1>4 DEF MergeDeadOuterPot
  <2>3. m - 1 \in Nat /\ m - 1 > 0
    <3>1. m # 1
      <4> HIDE DEF rest, X
      <4>1. ASSUME m = 1 PROVE FALSE
        <5>1. Len(rest) = 0
          BY <1>2a, <4>1
        <5> QED
          BY <2>1, <1>2a, <5>1, EmptySeq
      <4> QED
        BY <4>1
    <3> QED
      BY <3>1
  <2>4. last = pots[m]
    BY <1>1
  <2> HIDE DEF rest, last, X
  <2>5. into \in 1 .. m - 1
    <3>1. CASE winnable = {}
      BY <2>3, <3>1
    <3>2. CASE winnable # {}
      <4>1. winnable \subseteq 1 .. m - 1
        BY <1>2a
      <4>2. IsFiniteSet(1 .. m - 1)
        BY <2>3, FS_Interval
      <4> DEFINE I == 1 .. m - 1
      <4> HIDE DEF winnable
      <4>3. winnable \in SUBSET Int /\ IsFiniteSet(winnable)
        <5>1. I \subseteq Int
          OBVIOUS
        <5>2. IsFiniteSet(I) /\ winnable \in SUBSET I
          BY <4>1, <4>2
        <5> HIDE DEF I
        <5> QED
          BY <5>1, <5>2, FS_Subset
      <4>4. Max(winnable) \in winnable
        BY <3>2, <4>3, GreatestMember
      <4> QED
        BY <3>2, <4>1, <4>4
    <3> QED
      BY <3>1, <3>2
  <2> HIDE DEF into
  <2>6. /\ DOMAIN merged = 1 .. m - 1
        /\ \A i \in 1 .. m - 1 : merged[i].amount =
              IF i = into THEN pots[i].amount + pots[m].amount ELSE pots[i].amount
        /\ \A i \in 1 .. m - 1 : /\ DOMAIN merged[i] = {"amount", "eligible"}
                                 /\ merged[i].eligible = pots[i].eligible
    <3>1. /\ DOMAIN rest = 1 .. m - 1
          /\ \A i \in 1 .. m - 1 : rest[i] = pots[i]
      BY <1>2a
    <3>2. DOMAIN merged = 1 .. m - 1
      BY <3>1
    <3>3. ASSUME NEW i \in 1 .. m - 1
          PROVE  /\ merged[i].amount = IF i = into THEN pots[i].amount + pots[m].amount
                                                  ELSE pots[i].amount
                 /\ DOMAIN merged[i] = {"amount", "eligible"}
                 /\ merged[i].eligible = pots[i].eligible
      BY <1>1, <3>1, <2>4, <2>5
    <3> QED
      BY <3>2, <3>3
  <2>16. Len(merged) = m - 1
    <3>1. merged = [i \in 1 .. m - 1 |-> merged[i]]
      BY <1>2a
    <3> HIDE DEF merged
    <3> QED
      BY <2>3, <2>6, <3>1, Listed
  <2> HIDE DEF merged
  <2> DEFINE I == 1 .. m - 1
             f == Amounts(pots)
             g == Amounts(merged)
  <2>7. /\ \A i \in 1 .. m : f[i] \in Nat
        /\ \A i \in I : g[i] = IF i = into THEN f[i] + f[m] ELSE f[i]
    BY <1>2, <2>6 DEF Amounts
  <2>8. (1 .. m) \ {m} = I /\ m \in 1 .. m /\ I \subseteq 1 .. m
    BY <2>3
  <2>9. IsFiniteSet(I) /\ IsFiniteSet(1 .. m) /\ into \in I
    BY <2>3, <2>5, FS_Interval
  <2> HIDE DEF I, f, g
  <2>12. Total(g, I) = Total(f, 1 .. m)
    <3>1. \A i \in 1 .. m : f[i] \in Int
      BY <2>7
    <3>2. \A i \in I \ {into} : g[i] = f[i]
      BY <2>7
    <3>3. g[into] = f[into] + f[m]
      BY <2>7, <2>9
    <3>4. Moved(f, 1 .. m, g, I, m, into)
      BY <2>8, <2>9, <3>1, <3>2, <3>3 DEF Moved
    <3> QED
      BY <3>4, TotalMoved
  <2>13. \A i \in 1 .. m - 1 : merged[i].amount \in Nat
    <3> SUFFICES ASSUME NEW i \in 1 .. m - 1
                 PROVE  merged[i].amount \in Nat
      OBVIOUS
    <3>1. pots[m].amount \in Nat /\ pots[i].amount \in Nat
      BY <2>8 DEF I
    <3>2. merged[i].amount = IF i = into THEN pots[i].amount + pots[m].amount
                                         ELSE pots[i].amount
      BY <2>6
    <3>3. CASE i = into
      BY <3>1, <3>2, <3>3
    <3>4. CASE i # into
      BY <3>1, <3>2, <3>4
    <3> QED
      BY <3>3, <3>4
  <2>14. m - 1 \in 1 .. m /\ m - 1 # m
    BY <2>3
  <2>15. Total(Amounts(M), 1 .. m - 1) = Total(Amounts(pots), 1 .. m)
    BY <2>1, <2>12 DEF I, f, g
  <2>17. Merged(pots, m, M, m - 1)
    <3> HIDE DEF M
    <3> QED
      BY <2>1, <2>6, <2>13, <2>14, <2>15, <2>16 DEF Merged
  <2> QED
    BY <2>14, <2>17
<1> QED
  BY <1>3, <1>4

\* The layers of a hand are a list.
LEMMA LayersListed ==
    ASSUME NEW bets, NEW folded, NEW allIn, NEW m \in Nat,
           DOMAIN Layers(bets, folded, allIn) = 1 .. m
    PROVE  LET L == Layers(bets, folded, allIn) IN L \in Seq({L[k] : k \in 1 .. m})
<1> DEFINE L == Layers(bets, folded, allIn)
<1>0. DOMAIN L = 1 .. m
  OBVIOUS
<1>1. L = [k \in 1 .. m |-> L[k]]
  <2> DEFINE levels == AllInLevels(bets, allIn)
             n == Len(levels)
             low(i) == IF i = 1 THEN 0 ELSE levels[i - 1]
             top == Max({bets[s] : s \in DOMAIN bets} \cup {0})
             all == [i \in 1 .. n + 1 |->
                       Layer(bets, folded, low(i), IF i <= n THEN levels[i] ELSE top)]
             filled == Ascending({i \in DOMAIN all : all[i].amount > 0})
  <2>1. L = [k \in DOMAIN filled |-> all[filled[k]]]
    BY DEF Layers
  <2> HIDE DEF L, all, filled
  <2>2. DOMAIN L = DOMAIN filled /\ \A k \in DOMAIN filled : L[k] = all[filled[k]]
    BY <2>1
  <2> QED
    BY <1>0, <2>1, <2>2
<1> HIDE DEF L
<1> QED
  BY <1>1, Listed DEF L

\* Whatever was bet, whoever folded and whoever is all-in: the pots of
\* calculate_side_pots are a list, and together they hold exactly what was
\* put in.  No layer is paid twice and no chip is left out.
THEOREM PotsAddUp ==
    ASSUME NEW S, IsFiniteSet(S), NEW bets \in [S -> Nat], NEW folded,
           NEW allIn \in SUBSET S
    PROVE  LET pots == CalculateSidePots(bets, folded, allIn)
           IN  \E n \in Nat : /\ Len(pots) = n /\ DOMAIN pots = 1 .. n
                              /\ \A i \in 1 .. n : /\ DOMAIN pots[i] = {"amount", "eligible"}
                                                   /\ pots[i].amount \in Nat
                              /\ Total(Amounts(pots), 1 .. n) = Total(bets, S)
                              /\ PotsTotal(pots) = Total(bets, S)
<1> DEFINE L == Layers(bets, folded, allIn)
           M == MergeDeadOuterPot(L)
           sum == MapThenSumSet(LAMBDA s : bets[s], DOMAIN bets)
           everyone == Pot(sum, DOMAIN bets \ folded)
           pots == CalculateSidePots(bets, folded, allIn)
<1>1. /\ DOMAIN bets = S /\ sum = Total(bets, S) /\ Total(bets, S) \in Nat
  BY EveryoneSum, TotalNat
<1>2. PICK m \in Nat :
         /\ DOMAIN L = 1 .. m
         /\ \A k \in 1 .. m : DOMAIN L[k] = {"amount", "eligible"} /\ L[k].amount \in Nat
         /\ Total(Amounts(L), 1 .. m) = Total(bets, S)
  BY LayersAddUp
<1>3. L \in Seq({L[k] : k \in 1 .. m})
  BY <1>2, LayersListed DEF L
<1> HIDE DEF L
<1>4. CASE pots = <<everyone>>
  <2>1. /\ Len(pots) = 1 /\ DOMAIN pots = 1 .. 1 /\ pots[1].amount = Total(bets, S)
        /\ DOMAIN pots[1] = {"amount", "eligible"}
    BY <1>1, <1>4 DEF Pot
  <2> HIDE DEF pots
  <2>2. Total(Amounts(pots), 1 .. 1) = Cardinality(1 .. 1) * Total(bets, S)
    <3> DEFINE f == Amounts(pots)
               I == 1 .. 1
               x == Total(bets, S)
    <3>1. \A i \in I : f[i] = x
      BY <2>1 DEF Amounts
    <3>3. IsFiniteSet(I)
      <4>1. 1 \in Int
        OBVIOUS
      <4> QED
        BY <4>1, FS_Interval
    <3>4. x \in Int
      BY <1>1
    <3> HIDE DEF f, I, x
    <3>2. Total(f, I) = Cardinality(I) * x
      BY <3>1, <3>3, <3>4, TotalSame
    <3> QED
      BY <3>2 DEF f, I, x
  <2>3. Cardinality(1 .. 1) = 1 /\ IsFiniteSet(1 .. 1)
    <3>1. 1 .. 1 = {1}
      OBVIOUS
    <3> QED
      BY <3>1, FS_Singleton
  <2>4. Total(Amounts(pots), 1 .. 1) = Total(bets, S)
    BY <1>1, <2>2, <2>3
  <2>5. PotsTotal(pots) = Total(Amounts(pots), 1 .. 1)
    BY <2>1, <2>3, AmountSum
  <2>6. \A i \in 1 .. 1 : DOMAIN pots[i] = {"amount", "eligible"} /\ pots[i].amount \in Nat
    BY <1>1, <2>1
  <2> QED
    BY <2>1, <2>4, <2>5, <2>6 DEF pots
<1>5. CASE pots # <<everyone>>
  <2>1. pots = M /\ M # <<>>
    BY <1>5 DEF CalculateSidePots, L
  <2>2. m > 0
    <3>1. ASSUME m = 0 PROVE FALSE
      <4>1. Len(L) = 0
        BY <1>2, <1>3, <3>1, LenProperties
      <4>2. L = <<>>
        BY <1>3, <4>1, EmptySeq
      <4>3. M = <<>>
        BY <4>2 DEF MergeDeadOuterPot
      <4> QED
        BY <2>1, <4>3
    <3> QED
      BY <3>1
  <2>3. PICK k \in 1 .. m : Merged(L, m, M, k)
    BY <1>2, <1>3, <2>2, MergeKeepsTotal
  <2>4. k \in Nat /\ IsFiniteSet(1 .. k)
    BY FS_Interval
  <2> HIDE DEF pots, M
  <2>5. /\ Len(M) = k /\ DOMAIN M = 1 .. k
        /\ \A i \in 1 .. k : DOMAIN M[i] = {"amount", "eligible"} /\ M[i].amount \in Nat
        /\ Total(Amounts(M), 1 .. k) = Total(Amounts(L), 1 .. m)
    BY <2>3 DEF Merged
  <2>6. PotsTotal(M) = Total(Amounts(M), 1 .. k)
    BY <2>4, <2>5, AmountSum
  <2> QED
    BY <1>2, <2>1, <2>4, <2>5, <2>6 DEF pots
<1> QED
  BY <1>4, <1>5

\* Only players of S who have not folded contest a pot, and somebody contests
\* each of the pots above the main pot.
Contested(pots, S, folded) ==
    \A i \in DOMAIN pots : /\ pots[i].eligible \subseteq S \ folded
                           /\ i # 1 => pots[i].eligible # {}

\* Whoever folded, as long as somebody has not, and whoever of the others is
\* all-in: every pot above the main pot is contested, and only by players who
\* are still in.
THEOREM PotsAreContested ==
    ASSUME NEW S, IsFiniteSet(S), NEW bets \in [S -> Nat], NEW folded,
           NEW allIn \in SUBSET S, allIn \cap folded = {}
    PROVE  Contested(CalculateSidePots(bets, folded, allIn), S, folded)
<1> DEFINE L == Layers(bets, folded, allIn)
           M == MergeDeadOuterPot(L)
           sum == MapThenSumSet(LAMBDA s : bets[s], DOMAIN bets)
           everyone == Pot(sum, DOMAIN bets \ folded)
           pots == CalculateSidePots(bets, folded, allIn)
<1>1. DOMAIN bets = S /\ allIn \in SUBSET S
  OBVIOUS
<1>2. PICK m \in Nat :
         /\ DOMAIN L = 1 .. m
         /\ \A k \in 1 .. m : DOMAIN L[k] = {"amount", "eligible"} /\ L[k].amount \in Nat
  BY <1>1, LayersAddUp
<1>3. L \in Seq({L[k] : k \in 1 .. m})
  BY <1>2, LayersListed
<1>4. \A k \in 1 .. m : L[k].eligible \subseteq S \ folded /\ (k # m => L[k].eligible # {})
  <2> HIDE DEF M, everyone, pots
  <2>1. Contended(Layers(bets, folded, allIn), m, S, folded)
    BY <1>2, LayersContended
  <2> QED
    BY <2>1 DEF Contended
<1>5. pots = <<everyone>> \/ (pots = M /\ M # <<>>)
  BY DEF CalculateSidePots
<1>6. CASE pots = <<everyone>>
  <2>1. DOMAIN pots = {1} /\ pots[1].eligible = S \ folded
    <3>1. pots[1].eligible = S \ folded
      <4> HIDE DEF sum, pots
      <4>1. everyone.eligible = S \ folded
        BY <1>1 DEF Pot
      <4> HIDE DEF everyone
      <4> QED
        BY <1>6, <4>1
    <3>2. \A x : DOMAIN <<x>> = {1}
      OBVIOUS
    <3> HIDE DEF everyone, pots
    <3> QED
      BY <1>6, <3>1, <3>2
  <2> HIDE DEF pots
  <2>2. Contested(pots, S, folded)
    BY <2>1 DEF Contested
  <2> QED
    BY <2>2 DEF pots
<1> HIDE DEF L, pots
<1>7. CASE pots = M /\ M # <<>>
  <2>1. m > 0
    <3>1. ASSUME m = 0 PROVE FALSE
      <4>1. L = <<>>
        BY <1>2, <1>3, <3>1, LenProperties, EmptySeq
      <4> QED
        BY <1>7, <4>1 DEF MergeDeadOuterPot
    <3> QED
      BY <3>1
  <2>0. PICK k \in 1 .. m : Merged(L, m, M, k)
    BY <1>2, <1>3, <2>1, MergeKeepsTotal
  <2> HIDE DEF M
  <2>2. /\ DOMAIN M = 1 .. k
        /\ \A i \in 1 .. k : M[i].eligible = L[i].eligible
        /\ k = m => m = 1 \/ L[m].eligible # {}
    BY <2>0 DEF Merged
  <2>3. ASSUME NEW i \in 1 .. k
        PROVE  M[i].eligible \subseteq S \ folded /\ (i # 1 => M[i].eligible # {})
    <3>1. i \in 1 .. m /\ M[i].eligible = L[i].eligible
      BY <2>2
    <3>2. ASSUME i # 1 PROVE L[i].eligible # {}
      <4>1. CASE i = m
        BY <2>2, <3>2, <4>1
      <4>2. CASE i # m
        BY <1>4, <3>1, <4>2
      <4> QED
        BY <4>1, <4>2
    <3> QED
      BY <1>4, <3>1, <3>2
  <2> QED
    BY <1>7, <2>2, <2>3 DEF pots, Contested
<1> QED
  BY <1>5, <1>6, <1>7
=============================================================================
