---------------------------- MODULE ReportsProofs ----------------------------
(***************************************************************************)
(* Proofs about modules Gold and Reports, for any accounts, strategies,    *)
(* legs, market and bounds.  The properties are about what the last run    *)
(* made of the world; the invariant says what the world looks like, and    *)
(* that the tables are what a run makes of it.                             *)
(***************************************************************************)
EXTENDS Reports, FiniteSetTheorems, WellFoundedInduction, TLAPS

---------------------------------------------------------------------------
(* Sums over a finite set: they do not depend on the order the elements    *)
(* are taken in, can be extended by one, and regrouped by a key.           *)

\* Induction over the subsets of a finite set, in first-order form: a family that has each
\* set whose proper subsets it has, has them all.
LEMMA SubsetInduction ==
    ASSUME NEW S, IsFiniteSet(S), NEW B,
           \A T \in SUBSET S : (\A U \in SUBSET T : U # T => U \in B) => T \in B
    PROVE  S \in B
<1> DEFINE Bad == {T \in FiniteSubsetsOf(S) : T \notin B}
           R == StrictSubsetOrdering(S)
<1>1. SUFFICES ASSUME Bad # {} PROVE FALSE
    BY FS_Subset DEF FiniteSubsetsOf
<1>2. IsWellFoundedOn(R, FiniteSubsetsOf(S))
    BY FS_StrictSubsetOrderingWellFounded
<1>3. PICK T \in Bad : \A U \in Bad : ~ (<<U, T>> \in R)
    <2> HIDE DEF R
    <2>1. Bad \subseteq FiniteSubsetsOf(S)
        OBVIOUS
    <2> HIDE DEF Bad
    <2>2. QED
        BY <1>1, <1>2, <2>1, WFMin
<1>4. T \in SUBSET S /\ IsFiniteSet(T)
    BY DEF FiniteSubsetsOf
<1>5. ASSUME NEW U \in SUBSET T, U # T PROVE U \in B
    <2>1. U \in SUBSET S /\ IsFiniteSet(U)
        BY <1>4, FS_Subset
    <2>2. <<U, T>> \in R
        BY <1>4, <1>5, <2>1 DEF StrictSubsetOrdering
    <2>3. QED
        BY <1>3, <2>1, <2>2 DEF FiniteSubsetsOf
<1>6. QED
    BY <1>4, <1>5

\* The recursion behind the library's sums: from a chosen element on.
Chosen(T) == CHOOSE x \in T : TRUE
SumsTo(f, g, S) == g = [T \in SUBSET S |-> IF T = {} THEN 0 ELSE f[Chosen(T)] + g[T \ {Chosen(T)}]]
Sums(f, S) == CHOOSE g : SumsTo(f, g, S)

LEMMA ChosenIn == ASSUME NEW T, T # {} PROVE Chosen(T) \in T
BY DEF Chosen

\* the sum is the value at S of the recursion over its subsets
LEMMA SumIsSums ==
    ASSUME NEW f, NEW S
    PROVE  SumFunctionOnSet(f, S) = Sums(f, S)[S]
BY DEF SumFunctionOnSet, FoldFunctionOnSet, MapThenFoldSet, Sums, SumsTo, Chosen

LEMMA SumsToAt ==
    ASSUME NEW f, NEW g, NEW S, SumsTo(f, g, S), NEW T \in SUBSET S
    PROVE  g[T] = IF T = {} THEN 0 ELSE f[Chosen(T)] + g[T \ {Chosen(T)}]
BY DEF SumsTo

\* two recursions agree where both are defined
LEMMA SumsUnique ==
    ASSUME NEW f, NEW g, NEW h, NEW S, NEW T, SumsTo(f, g, S), SumsTo(f, h, T),
           NEW U, IsFiniteSet(U), U \subseteq S, U \subseteq T
    PROVE  g[U] = h[U]
<1> DEFINE B == {V \in SUBSET U : g[V] = h[V]}
<1>1. ASSUME NEW V \in SUBSET U, \A W \in SUBSET V : W # V => W \in B
      PROVE  V \in B
    <2>1. g[V] = IF V = {} THEN 0 ELSE f[Chosen(V)] + g[V \ {Chosen(V)}]
        BY SumsToAt
    <2>2. h[V] = IF V = {} THEN 0 ELSE f[Chosen(V)] + h[V \ {Chosen(V)}]
        BY SumsToAt
    <2>3. CASE V = {}
        BY <2>1, <2>2, <2>3
    <2>4. CASE V # {}
        <3>1. V \ {Chosen(V)} \in SUBSET V /\ V \ {Chosen(V)} # V
            BY <2>4, ChosenIn
        <3>2. QED
            BY <1>1, <2>1, <2>2, <2>4, <3>1
    <2>5. QED
        BY <2>3, <2>4
<1>2. U \in B
    <2> HIDE DEF B
    <2>1. QED
        BY <1>1, SubsetInduction
<1>3. QED
    BY <1>2

\* on a finite set there is one
LEMMA SumsExist ==
    ASSUME NEW f, NEW S, IsFiniteSet(S)
    PROVE  SumsTo(f, Sums(f, S), S)
<1> DEFINE B == {T \in SUBSET S : SumsTo(f, Sums(f, T), T)}
<1>1. ASSUME NEW T \in SUBSET S, \A U \in SUBSET T : U # T => U \in B
      PROVE  T \in B
    <2> DEFINE Value(U) == Sums(f, U)[U]
               Next1(U) == IF U = {} THEN 0 ELSE f[Chosen(U)] + Value(U \ {Chosen(U)})
               g == [U \in SUBSET T |-> Next1(U)]
    <2>1. ASSUME NEW U \in SUBSET T, U # T PROVE Value(U) = Next1(U)
        <3>1. SumsTo(f, Sums(f, U), U)
            BY <1>1, <2>1
        <3>2. CASE U = {}
            BY <3>1, <3>2, SumsToAt
        <3>3. CASE U # {}
            <4> DEFINE V == U \ {Chosen(U)}
            <4>1. V \in SUBSET T /\ V # T /\ V \in SUBSET U
                BY <3>3, ChosenIn
            <4>2. SumsTo(f, Sums(f, V), V)
                BY <1>1, <4>1
            <4>3. IsFiniteSet(V)
                BY <4>1, FS_Subset
            <4>4. Sums(f, U)[V] = Sums(f, V)[V]
                BY <3>1, <4>1, <4>2, <4>3, SumsUnique
            <4>5. QED
                BY <3>1, <3>3, <4>4, SumsToAt
        <3>4. QED
            BY <3>2, <3>3
    <2>2. ASSUME NEW U \in SUBSET T
          PROVE  g[U] = IF U = {} THEN 0 ELSE f[Chosen(U)] + g[U \ {Chosen(U)}]
        <3>1. CASE U = {}
            BY <3>1
        <3>2. CASE U # {}
            <4>1. U \ {Chosen(U)} \in SUBSET T /\ U \ {Chosen(U)} # T
                BY <3>2, ChosenIn
            <4>2. Value(U \ {Chosen(U)}) = Next1(U \ {Chosen(U)})
                BY <2>1, <4>1
            <4>3. g[U] = Next1(U) /\ g[U \ {Chosen(U)}] = Next1(U \ {Chosen(U)})
                BY <4>1
            <4>4. Next1(U) = f[Chosen(U)] + Value(U \ {Chosen(U)})
                BY <3>2
            <4> HIDE DEF Next1, Value, g
            <4>5. QED
                BY <3>2, <4>2, <4>3, <4>4
        <3>3. QED
            BY <3>1, <3>2
    <2>3. g = [U \in SUBSET T |-> g[U]]
        OBVIOUS
    <2> HIDE DEF g
    <2>4. SumsTo(f, g, T)
        BY <2>2, <2>3 DEF SumsTo
    <2>5. QED
        BY <2>4 DEF Sums
<1>2. S \in B
    <2> HIDE DEF B
    <2>1. QED
        BY <1>1, SubsetInduction
<1>3. QED
    BY <1>2

LEMMA SumEmpty == ASSUME NEW f PROVE SumFunctionOnSet(f, {}) = 0
BY SumIsSums, SumsExist, SumsToAt, FS_EmptySet

\* the library takes out the chosen element; 
LEMMA SumFromChosen ==
    ASSUME NEW f, NEW S, IsFiniteSet(S), S # {}
    PROVE  SumFunctionOnSet(f, S) = f[Chosen(S)] + SumFunctionOnSet(f, S \ {Chosen(S)})
<1> DEFINE T == S \ {Chosen(S)}
<1>1. IsFiniteSet(T) /\ T \in SUBSET S
    BY FS_Subset
<1>2. SumsTo(f, Sums(f, S), S) /\ SumsTo(f, Sums(f, T), T)
    BY <1>1, SumsExist
<1>3. Sums(f, S)[T] = Sums(f, T)[T]
    BY <1>1, <1>2, SumsUnique
<1>4. Sums(f, S)[S] = f[Chosen(S)] + Sums(f, S)[T]
    BY <1>2, SumsToAt
<1>5. QED
    BY <1>3, <1>4, SumIsSums

\* A sum of integers does not depend on what is chosen.
LEMMA SumStep ==
    ASSUME NEW f, NEW S, IsFiniteSet(S), \A x \in S : f[x] \in Int
    PROVE  /\ SumFunctionOnSet(f, S) \in Int
           /\ \A x \in S : SumFunctionOnSet(f, S) = f[x] + SumFunctionOnSet(f, S \ {x})
<1> DEFINE Sum(T) == SumFunctionOnSet(f, T)
           B == {T \in SUBSET S : Sum(T) \in Int /\ \A x \in T : Sum(T) = f[x] + Sum(T \ {x})}
<1>1. ASSUME NEW T \in SUBSET S, \A U \in SUBSET T : U # T => U \in B
      PROVE  T \in B
    <2>1. CASE T = {}
        BY <2>1, SumEmpty
    <2>2. CASE T # {}
        <3> DEFINE c == Chosen(T)
        <3>1. c \in T /\ IsFiniteSet(T)
            BY <2>2, ChosenIn, FS_Subset
        <3>2. Sum(T) = f[c] + Sum(T \ {c})
            BY <2>2, <3>1, SumFromChosen
        <3>3. Sum(T \ {c}) \in Int /\ f[c] \in Int
            BY <1>1, <3>1
        <3>4. ASSUME NEW x \in T PROVE Sum(T) = f[x] + Sum(T \ {x})
            <4>1. CASE x = c
                BY <3>2, <4>1
            <4>2. CASE x # c
                <5>0. T \ {c} \in B /\ T \ {x} \in B
                    BY <1>1, <3>1
                <5>1. Sum(T \ {c}) = f[x] + Sum((T \ {c}) \ {x})
                    BY <4>2, <5>0
                <5>2. Sum(T \ {x}) = f[c] + Sum((T \ {x}) \ {c})
                    BY <3>1, <4>2, <5>0
                <5>3. (T \ {c}) \ {x} = (T \ {x}) \ {c}
                    OBVIOUS
                <5>4. (T \ {c}) \ {x} \in B
                    BY <1>1, <3>1
                <5>5. Sum((T \ {c}) \ {x}) \in Int /\ f[x] \in Int
                    BY <5>4
                <5>6. Sum((T \ {c}) \ {x}) = Sum((T \ {x}) \ {c})
                    BY <5>3
                <5> HIDE DEF Sum, B, c
                <5>7. QED
                    BY <3>2, <3>3, <5>1, <5>2, <5>5, <5>6
            <4>3. QED
                BY <4>1, <4>2
        <3>5. Sum(T) \in Int
            <4> HIDE DEF Sum, c
            <4>1. QED
                BY <3>2, <3>3
        <3>6. QED
            BY <3>4, <3>5
    <2>3. QED
        BY <2>1, <2>2
<1>2. S \in B
    <2> HIDE DEF B
    <2>1. QED
        BY <1>1, SubsetInduction
<1>3. QED
    BY <1>2

LEMMA SumType ==
    ASSUME NEW f, NEW S, IsFiniteSet(S), \A x \in S : f[x] \in Int
    PROVE  SumFunctionOnSet(f, S) \in Int
BY SumStep

LEMMA SumSame ==
    ASSUME NEW f, NEW g, NEW S, IsFiniteSet(S), \A x \in S : f[x] = g[x]
    PROVE  SumFunctionOnSet(f, S) = SumFunctionOnSet(g, S)
<1> DEFINE B == {T \in SUBSET S : SumFunctionOnSet(f, T) = SumFunctionOnSet(g, T)}
<1>1. ASSUME NEW T \in SUBSET S, \A U \in SUBSET T : U # T => U \in B
      PROVE  T \in B
    <2>1. CASE T = {}
        BY <2>1, SumEmpty
    <2>2. CASE T # {}
        <3>1. Chosen(T) \in T /\ IsFiniteSet(T)
            BY <2>2, ChosenIn, FS_Subset
        <3>2. T \ {Chosen(T)} \in B
            BY <1>1, <3>1
        <3>3. f[Chosen(T)] = g[Chosen(T)]
            BY <3>1
        <3>4. QED
            BY <2>2, <3>1, <3>2, <3>3, SumFromChosen
    <2>3. QED
        BY <2>1, <2>2
<1>2. S \in B
    <2> HIDE DEF B
    <2>1. QED
        BY <1>1, SubsetInduction
<1>3. QED
    BY <1>2

LEMMA SumAdd ==
    ASSUME NEW f, NEW S, IsFiniteSet(S), NEW x, x \notin S, \A y \in S \cup {x} : f[y] \in Int
    PROVE  SumFunctionOnSet(f, S \cup {x}) = f[x] + SumFunctionOnSet(f, S)
<1>1. IsFiniteSet(S \cup {x})
    BY FS_AddElement
<1>2. (S \cup {x}) \ {x} = S
    OBVIOUS
<1>3. SumFunctionOnSet(f, S \cup {x}) = f[x] + SumFunctionOnSet(f, (S \cup {x}) \ {x})
    BY <1>1, SumStep
<1>4. QED
    BY <1>2, <1>3

\* Induction over a finite set, one element more at a time.
LEMMA AddInduction ==
    ASSUME NEW S, IsFiniteSet(S), NEW B, {} \in B,
           \A T \in SUBSET S : \A x \in S \ T : T \in B => T \cup {x} \in B
    PROVE  S \in B
<1>1. ASSUME NEW T \in SUBSET S, \A U \in SUBSET T : U # T => U \in B
      PROVE  T \in B
    <2>1. CASE T = {}
        BY <2>1
    <2>2. CASE T # {}
        <3>1. PICK x \in T : TRUE
            BY <2>2
        <3>2. T \ {x} \in B /\ T \ {x} \in SUBSET S /\ x \in S \ (T \ {x})
            BY <1>1, <3>1
        <3>3. (T \ {x}) \cup {x} = T
            BY <3>1
        <3>4. (T \ {x}) \cup {x} \in B
            BY <3>2
        <3>5. QED
            BY <3>3, <3>4
    <2>3. QED
        BY <2>1, <2>2
<1>2. QED
    BY <1>1, SubsetInduction

LEMMA SumZero ==
    ASSUME NEW f, NEW S, IsFiniteSet(S), \A x \in S : f[x] = 0
    PROVE  SumFunctionOnSet(f, S) = 0
<1> DEFINE B == {T \in SUBSET S : SumFunctionOnSet(f, T) = 0}
<1>1. {} \in B
    BY SumEmpty
<1>2. ASSUME NEW T \in SUBSET S, NEW x \in S \ T, T \in B PROVE T \cup {x} \in B
    <2>1. IsFiniteSet(T) /\ \A y \in T \cup {x} : f[y] \in Int
        BY FS_Subset
    <2>2. SumFunctionOnSet(f, T \cup {x}) = f[x] + SumFunctionOnSet(f, T)
        BY <2>1, SumAdd
    <2>3. QED
        BY <1>2, <2>2
<1>3. S \in B
    <2> HIDE DEF B
    <2>1. QED
        BY <1>1, <1>2, AddInduction
<1>4. QED
    BY <1>3

LEMMA SumOnes ==
    ASSUME NEW f, NEW S, IsFiniteSet(S), \A x \in S : f[x] = 1
    PROVE  SumFunctionOnSet(f, S) = Cardinality(S)
<1> DEFINE B == {T \in SUBSET S : SumFunctionOnSet(f, T) = Cardinality(T)}
<1>1. {} \in B
    BY SumEmpty, FS_EmptySet
<1>2. ASSUME NEW T \in SUBSET S, NEW x \in S \ T, T \in B PROVE T \cup {x} \in B
    <2>1. IsFiniteSet(T) /\ \A y \in T \cup {x} : f[y] \in Int
        BY FS_Subset
    <2>2. SumFunctionOnSet(f, T \cup {x}) = f[x] + SumFunctionOnSet(f, T)
        BY <2>1, SumAdd
    <2>3. Cardinality(T \cup {x}) = Cardinality(T) + 1 /\ Cardinality(T) \in Nat
        BY <2>1, FS_AddElement, FS_CardinalityType
    <2>4. QED
        BY <1>2, <2>2, <2>3
<1>3. S \in B
    <2> HIDE DEF B
    <2>1. QED
        BY <1>1, <1>2, AddInduction
<1>4. QED
    BY <1>3

LEMMA SumPlus ==
    ASSUME NEW f, NEW g, NEW h, NEW S, IsFiniteSet(S),
           \A x \in S : f[x] \in Int /\ g[x] \in Int /\ h[x] = f[x] + g[x]
    PROVE  SumFunctionOnSet(h, S) = SumFunctionOnSet(f, S) + SumFunctionOnSet(g, S)
<1> DEFINE B == {T \in SUBSET S : SumFunctionOnSet(h, T) =
                                  SumFunctionOnSet(f, T) + SumFunctionOnSet(g, T)}
<1>1. {} \in B
    BY SumEmpty
<1>2. ASSUME NEW T \in SUBSET S, NEW x \in S \ T, T \in B PROVE T \cup {x} \in B
    <2>1. IsFiniteSet(T) /\ \A y \in T \cup {x} : f[y] \in Int /\ g[y] \in Int /\ h[y] \in Int
        BY FS_Subset
    <2>2. /\ SumFunctionOnSet(f, T \cup {x}) = f[x] + SumFunctionOnSet(f, T)
          /\ SumFunctionOnSet(g, T \cup {x}) = g[x] + SumFunctionOnSet(g, T)
          /\ SumFunctionOnSet(h, T \cup {x}) = h[x] + SumFunctionOnSet(h, T)
        BY <2>1, SumAdd
    <2>3. SumFunctionOnSet(f, T) \in Int /\ SumFunctionOnSet(g, T) \in Int
        BY <2>1, SumType
    <2>4. QED
        BY <1>2, <2>1, <2>2, <2>3
<1>3. S \in B
    <2> HIDE DEF B
    <2>1. QED
        BY <1>1, <1>2, AddInduction
<1>4. QED
    BY <1>3

\* To change one term changes the sum by as much.
LEMMA SumChange ==
    ASSUME NEW f, NEW g, NEW S, IsFiniteSet(S), NEW x \in S, NEW d \in Int,
           \A y \in S : f[y] \in Int,
           \A y \in S \ {x} : g[y] = f[y], g[x] = f[x] + d
    PROVE  SumFunctionOnSet(g, S) = SumFunctionOnSet(f, S) + d
<1>1. IsFiniteSet(S \ {x})
    BY FS_Subset
<1>2. SumFunctionOnSet(g, S \ {x}) = SumFunctionOnSet(f, S \ {x})
    BY <1>1, SumSame
<1>3. SumFunctionOnSet(f, S) = f[x] + SumFunctionOnSet(f, S \ {x})
    BY SumStep
<1>4. \A y \in S : g[y] \in Int
    <2>1. g[x] \in Int
        OBVIOUS
    <2>2. QED
        BY <2>1
<1>5. SumFunctionOnSet(g, S) = g[x] + SumFunctionOnSet(g, S \ {x})
    BY <1>4, SumStep
<1>6. SumFunctionOnSet(f, S \ {x}) \in Int
    BY <1>1, SumType
<1>7. QED
    BY <1>2, <1>3, <1>5, <1>6

\* The sum over a set is that of the sums over its parts: those with one key each.
LEMMA SumByKey ==
    ASSUME NEW f, NEW S, IsFiniteSet(S), \A x \in S : f[x] \in Int,
           NEW K, IsFiniteSet(K), NEW key, \A x \in S : key[x] \in K,
           NEW g, \A k \in K : g[k] = SumFunctionOnSet(f, {x \in S : key[x] = k})
    PROVE  SumFunctionOnSet(f, S) = SumFunctionOnSet(g, K)
<1> DEFINE Part(T, k) == {x \in T : key[x] = k}
           Sub(T) == [k \in K |-> SumFunctionOnSet(f, Part(T, k))]
           B == {T \in SUBSET S : SumFunctionOnSet(f, T) = SumFunctionOnSet(Sub(T), K)}
<1>0. ASSUME NEW T \in SUBSET S, NEW k PROVE SumFunctionOnSet(f, Part(T, k)) \in Int
    <2>1. IsFiniteSet(Part(T, k)) /\ Part(T, k) \subseteq S
        BY FS_Subset
    <2> HIDE DEF Part
    <2>2. QED
        BY <2>1, SumType
<1>1. {} \in B
    <2>1. \A k \in K : Part({}, k) = {}
        OBVIOUS
    <2> HIDE DEF Part
    <2>2. \A k \in K : Sub({})[k] = 0
        BY <2>1, SumEmpty
    <2> HIDE DEF Sub
    <2>3. SumFunctionOnSet(Sub({}), K) = 0
        BY <2>2, SumZero
    <2>4. QED
        BY <2>3, SumEmpty
<1>2. ASSUME NEW T \in SUBSET S, NEW x \in S \ T, T \in B PROVE T \cup {x} \in B
    <2> DEFINE U == T \cup {x}
    <2>1. IsFiniteSet(T) /\ U \in SUBSET S
        BY FS_Subset
    <2>2. SumFunctionOnSet(f, U) = f[x] + SumFunctionOnSet(f, T)
        BY <2>1, SumAdd
    <2>3. ASSUME NEW k \in K, k # key[x] PROVE Sub(U)[k] = Sub(T)[k]
        <3>1. Part(U, k) = Part(T, k)
            BY <2>3
        <3> HIDE DEF Part
        <3>2. QED
            BY <3>1
    <2>4. Sub(U)[key[x]] = Sub(T)[key[x]] + f[x]
        <3>1. Part(U, key[x]) = Part(T, key[x]) \cup {x} /\ x \notin Part(T, key[x])
            OBVIOUS
        <3>2. IsFiniteSet(Part(T, key[x])) /\ \A y \in Part(T, key[x]) \cup {x} : f[y] \in Int
            BY <2>1, FS_Subset
        <3> DEFINE P == Part(T, key[x])
        <3>3. SumFunctionOnSet(f, P) \in Int /\ f[x] \in Int
            BY <1>0
        <3> HIDE DEF P
        <3>4. SumFunctionOnSet(f, P \cup {x}) = f[x] + SumFunctionOnSet(f, P)
            BY <3>1, <3>2, SumAdd DEF P
        <3>5. SumFunctionOnSet(f, Part(U, key[x])) = SumFunctionOnSet(f, P) + f[x]
            <4>1. Part(U, key[x]) = P \cup {x}
                BY <3>1 DEF P
            <4> HIDE DEF Part, U
            <4>2. SumFunctionOnSet(f, Part(U, key[x])) = SumFunctionOnSet(f, P \cup {x})
                BY <4>1
            <4>3. QED
                BY <3>3, <3>4, <4>2
        <3> HIDE DEF Part
        <3>6. QED
            BY <3>5 DEF P
    <2>5. \A k \in K : Sub(T)[k] \in Int
        BY <1>0
    <2> HIDE DEF Sub
    <2>6. SumFunctionOnSet(Sub(U), K) = SumFunctionOnSet(Sub(T), K) + f[x]
        <3>1. key[x] \in K /\ f[x] \in Int
            OBVIOUS
        <3>2. \A k \in K \ {key[x]} : Sub(U)[k] = Sub(T)[k]
            BY <2>3
        <3> HIDE DEF U
        <3>3. QED
            BY <2>4, <2>5, <3>1, <3>2, SumChange
    <2>7. SumFunctionOnSet(Sub(T), K) \in Int
        BY <2>5, SumType
    <2>8. SumFunctionOnSet(f, U) = SumFunctionOnSet(Sub(U), K)
        <3>1. SumFunctionOnSet(f, T) = SumFunctionOnSet(Sub(T), K)
            BY <1>2
        <3>2. f[x] \in Int
            OBVIOUS
        <3> HIDE DEF U
        <3>3. QED
            BY <2>2, <2>6, <2>7, <3>1, <3>2
    <2>9. QED
        BY <2>1, <2>8
<1>3. S \in B
    <2> HIDE DEF B
    <2>1. QED
        BY <1>1, <1>2, AddInduction
<1>4. \A k \in K : Sub(S)[k] = g[k]
    OBVIOUS
<1>5. SumFunctionOnSet(Sub(S), K) = SumFunctionOnSet(g, K)
    <2> HIDE DEF Sub
    <2>1. QED
        BY <1>4, SumSame
<1>6. QED
    BY <1>3, <1>5

\* The same terms under other names.
LEMMA SumRename ==
    ASSUME NEW f, NEW S, IsFiniteSet(S), \A x \in S : f[x] \in Int,
           NEW g, NEW T, IsFiniteSet(T), NEW h, \A x \in S : h[x] \in T /\ f[x] = g[h[x]],
           \A x, y \in S : h[x] = h[y] => x = y,
           \A z \in T : \E x \in S : h[x] = z
    PROVE  SumFunctionOnSet(f, S) = SumFunctionOnSet(g, T)
<1>1. ASSUME NEW z \in T
      PROVE  g[z] = SumFunctionOnSet(f, {x \in S : h[x] = z})
    <2>1. PICK x \in S : h[x] = z
        OBVIOUS
    <2>2. {y \in S : h[y] = z} = {} \cup {x}
        BY <2>1
    <2>3. SumFunctionOnSet(f, {} \cup {x}) = f[x] + 0
        BY SumAdd, SumEmpty, FS_EmptySet
    <2>4. f[x] = g[z] /\ f[x] \in Int
        BY <2>1
    <2>5. SumFunctionOnSet(f, {y \in S : h[y] = z}) = SumFunctionOnSet(f, {} \cup {x})
        BY <2>2
    <2>6. QED
        BY <2>3, <2>4, <2>5
<1>2. QED
    BY <1>1, SumByKey

---------------------------------------------------------------------------
(* Numbers.                                                                *)

\* a finite set of integers has a least and a greatest element
LEMMA MinMax ==
    ASSUME NEW S, IsFiniteSet(S), S \subseteq Int, S # {}
    PROVE  /\ Min(S) \in S /\ \A x \in S : Min(S) <= x
           /\ Max(S) \in S /\ \A x \in S : x <= Max(S)
<1> DEFINE Bounded(T) == /\ \E a \in T : \A x \in T : a <= x
                         /\ \E b \in T : \A x \in T : x <= b
           B == {T \in SUBSET S : T # {} => Bounded(T)}
<1>1. {} \in B
    OBVIOUS
<1>2. ASSUME NEW T \in SUBSET S, NEW y \in S \ T, T \in B PROVE T \cup {y} \in B
    <2>1. CASE T = {}
        <3>1. T \cup {y} = {y}
            BY <2>1
        <3>2. Bounded({y})
            OBVIOUS
        <3>3. QED
            BY <3>1, <3>2
    <2>2. CASE T # {}
        <3>1. PICK a \in T : \A x \in T : a <= x
            BY <1>2, <2>2
        <3>2. PICK b \in T : \A x \in T : x <= b
            BY <1>2, <2>2
        <3>3. \E c \in T \cup {y} : \A x \in T \cup {y} : c <= x
            <4>1. CASE a <= y
                BY <3>1, <4>1
            <4>2. CASE ~(a <= y)
                BY <3>1, <4>2
            <4>3. QED
                BY <4>1, <4>2
        <3>4. \E c \in T \cup {y} : \A x \in T \cup {y} : x <= c
            <4>1. CASE y <= b
                BY <3>2, <4>1
            <4>2. CASE ~(y <= b)
                BY <3>2, <4>2
            <4>3. QED
                BY <4>1, <4>2
        <3>5. QED
            BY <3>3, <3>4
    <2>3. QED
        BY <2>1, <2>2
<1>3. S \in B
    <2> HIDE DEF B
    <2>1. QED
        BY <1>1, <1>2, AddInduction
<1>4. QED
    BY <1>3 DEF Min, Max

\* a time is in the day it is mapped to, and later times are not on earlier days
LEMMA DayMonotone ==
    ASSUME NEW s \in Int, NEW t \in Int
    PROVE  /\ Day(s) \in Int
           /\ s <= t => Day(s) <= Day(t)
           /\ Day(s) * DayLength <= s /\ s < Day(s) * DayLength + DayLength
<1>1. DayLength \in Nat /\ DayLength > 0
    BY DomainAssumption
<1> DEFINE d == DayLength  p == s \div d  q == t \div d
<1>2. p \in Int /\ q \in Int /\ s = d * p + (s % d) /\ t = d * q + (t % d)
      /\ s % d \in 0..(d - 1) /\ t % d \in 0..(d - 1)
    BY <1>1
<1>3. d * p <= s /\ s < d * p + d /\ d * q <= t /\ t < d * q + d
    BY <1>1, <1>2
<1>4. ASSUME s <= t, p > q PROVE FALSE
    <2>1. p >= q + 1
        BY <1>2, <1>4
    <2>2. d * p >= d * (q + 1)
        BY <1>1, <1>2, <2>1
    <2>3. d * (q + 1) = d * q + d
        BY <1>1, <1>2
    <2>4. QED
        BY <1>1, <1>2, <1>3, <1>4, <2>2, <2>3
<1>5. p * d = d * p
    BY <1>1, <1>2
<1>6. QED
    BY <1>1, <1>2, <1>3, <1>4, <1>5 DEF Day

---------------------------------------------------------------------------
(* The invariant.  The world: times are in order, an instrument has one    *)
(* open leg at a time, a snapshot lies within the life of its legs.        *)
(* Silver, the rates and the tables are made of it; and the rates that are *)
(* kept are those of their own days.                                       *)

WorldOK ==
    /\ now \in 0..Horizon
    /\ opened \in [Legs -> {None} \cup 0..now] /\ closed \in [Legs -> {None} \cup 0..now]
    /\ collected \subseteq {l \in Legs : closed[l] # None}
    /\ box \in [Legs -> Strategies]

LegsOK ==
    /\ \A l \in Legs : /\ closed[l] # None => /\ opened[l] # None /\ opened[l] < closed[l]
                                             /\ closed[l] <= Expiry(l)
                       /\ IsOpen(l) => now <= Expiry(l)
                       /\ Owner[box[l]] = LegInfo[l].sub
    /\ \A l, m \in Legs : l # m /\ SameInstrument(l, m) /\ opened[l] # None => opened[l] # opened[m]

SnapshotsOK ==
    /\ IsFiniteSet(snapshots)
    /\ snapshots \subseteq [sub : Accounts, at : 0..now, legs : SUBSET Legs]
    /\ \A s \in snapshots : \A l \in s.legs :
          /\ LegInfo[l].sub = s.sub /\ opened[l] # None /\ opened[l] <= s.at /\ s.at <= Expiry(l)
          /\ closed[l] # None => s.at <= closed[l]
    /\ \A s, u \in snapshots : s.at = u.at => s = u

Made ==
    /\ stage \in {"rates", "gold", "totals", "done"}
    /\ silver = Silver
    /\ stage # "rates" => rates = CoinUsd
    /\ stage \in {"totals", "done"} => gold = Tables
    /\ stage = "done" => totals = Totals

RatesKept ==
    /\ DOMAIN rates \subseteq Accounts \X Coins \X Days
    /\ \A k \in DOMAIN rates :
          LET own == RateOfDay(k[1], k[2], k[3])
          IN  k[3] < Day(now) /\ own # None => rates[k] = own

IInv == WorldOK /\ LegsOK /\ SnapshotsOK /\ Made /\ RatesKept

\* the assumptions on one leg
LEMMA LegType ==
    ASSUME NEW l \in Legs
    PROVE  /\ LegInfo[l].sub \in Accounts /\ LegInfo[l].underlying # None
           /\ LegInfo[l].strike \in Int /\ LegInfo[l].size \in Int
           /\ LegInfo[l].pnl \in Int /\ LegInfo[l].fee \in Int /\ LegInfo[l].expiry \in Nat
           /\ CtVal[LegInfo[l].underlying] \in Int \cup {None}
           /\ l \in Nat /\ Owner[FirstBox[l]] = LegInfo[l].sub
           /\ LegInfo[l].coin \in Coins /\ LegInfo[l].underlying \in Underlyings
           /\ LegInfo[l].expiry \in Expiries
BY GoldAssumption DEF Coins, Underlyings, Expiries

LEMMA ExpiryType == ASSUME NEW l \in Legs PROVE Expiry(l) \in Nat /\ Expiry(l) # None
<1>1. LegInfo[l].expiry \in Nat /\ None \notin Int
    BY LegType, DomainAssumption
<1>2. Expiry(l) = LegInfo[l].expiry * DayLength + SettleAt
    BY <1>1 DEF Expiry, ExpiresAt
<1>3. DayLength \in Nat /\ SettleAt \in Nat
    BY DomainAssumption
<1>4. LegInfo[l].expiry * DayLength \in Nat
    BY <1>1, <1>3
<1>5. QED
    BY <1>1, <1>2, <1>3, <1>4

LEMMA HorizonType == Horizon \in Nat /\ MaxSnapshots \in Nat
BY GoldAssumption

LEMMA NoneIsNoTime == None \notin Int
BY DomainAssumption

---------------------------------------------------------------------------
(* The world.                                                              *)

World == WorldOK /\ LegsOK /\ SnapshotsOK

LEMMA WorldInit == Init => World
<1> SUFFICES ASSUME InitWorld PROVE World
    BY DEF Init
<1> USE DEF InitWorld
<1>1. WorldOK
    BY HorizonType, GoldAssumption DEF WorldOK
<1>2. LegsOK
    BY LegType DEF LegsOK, IsOpen
<1>3. SnapshotsOK
    BY FS_EmptySet DEF SnapshotsOK
<1>4. QED
    BY <1>1, <1>2, <1>3 DEF World

\* no leg is open past its expiry, because time waits for what expires
LEMMA TickWorld == World /\ Tick => World'
<1> SUFFICES ASSUME World, Tick PROVE World'
    OBVIOUS
<1> USE HorizonType, NoneIsNoTime, ExpiryType DEF Tick
<1>1. WorldOK /\ LegsOK /\ SnapshotsOK
    BY DEF World
<1>2. now \in Nat
    BY <1>1 DEF WorldOK
<1>3. WorldOK'
    <2>1. now' \in 0..Horizon
        BY <1>1, <1>2 DEF WorldOK
    <2>2. 0..now \subseteq 0..now'
        BY <1>2
    <2>3. opened' \in [Legs -> {None} \cup 0..now'] /\ closed' \in [Legs -> {None} \cup 0..now']
        BY <1>1, <2>2 DEF WorldOK
    <2>4. QED
        BY <1>1, <2>1, <2>3 DEF WorldOK
<1>4. LegsOK'
    <2>1. \A l \in Legs : IsOpen(l)' <=> IsOpen(l)
        BY DEF IsOpen
    <2>2. \A l \in Legs : IsOpen(l) => now < Expiry(l) /\ now' = now + 1
        OBVIOUS
    <2>3. \A l \in Legs : IsOpen(l)' => now' <= Expiry(l)
        BY <1>2, <2>1, <2>2
    <2>4. QED
        BY <1>1, <2>3 DEF LegsOK
<1>5. SnapshotsOK'
    <2>1. [sub : Accounts, at : 0..now, legs : SUBSET Legs]
            \subseteq [sub : Accounts, at : 0..now', legs : SUBSET Legs]
        <3>1. 0..now \subseteq 0..now'
            BY <1>2
        <3>2. QED
            BY <3>1
    <2>2. snapshots' \subseteq [sub : Accounts, at : 0..now', legs : SUBSET Legs]
        BY <1>1, <2>1 DEF SnapshotsOK
    <2>3. QED
        BY <1>1, <2>2 DEF SnapshotsOK
<1>6. QED
    BY <1>3, <1>4, <1>5 DEF World

\* an instrument has one open position, so no two of its legs open at the same time
LEMMA OpenWorld == ASSUME World, NEW l \in Legs, Open(l) PROVE World'
<1> USE HorizonType, NoneIsNoTime, ExpiryType DEF Open
<1>1. WorldOK /\ LegsOK /\ SnapshotsOK
    BY DEF World
<1>2. now \in Nat /\ opened \in [Legs -> {None} \cup 0..now]
          /\ closed \in [Legs -> {None} \cup 0..now]
    BY <1>1 DEF WorldOK
<1>3. closed[l] = None
    BY <1>1 DEF LegsOK
<1>4. /\ opened'[l] = now /\ \A m \in Legs \ {l} : opened'[m] = opened[m]
      /\ opened' \in [Legs -> {None} \cup 0..now]
    BY <1>2
<1>5. WorldOK'
    BY <1>1, <1>4 DEF WorldOK
<1>6. LegsOK'
    <2>1. \A m \in Legs : (m # l => (IsOpen(m)' <=> IsOpen(m))) /\ (IsOpen(l)' => now <= Expiry(l))
        <3>1. now < Expiry(l)
            OBVIOUS
        <3>2. QED
            BY <1>2, <1>4, <3>1 DEF IsOpen
    <2>2. \A m \in Legs : IsOpen(m)' => now' <= Expiry(m)
        BY <1>1, <2>1 DEF LegsOK
    <2>3. ASSUME NEW m \in Legs, m # l, SameInstrument(l, m) PROVE opened[m] # now
        <3>1. SUFFICES ASSUME opened[m] = now PROVE FALSE
            OBVIOUS
        <3>2. ~IsOpen(m)
            BY <2>3
        <3>3. closed[m] # None
            BY <1>2, <3>1, <3>2 DEF IsOpen
        <3>4. closed[m] \in 0..now /\ now < closed[m]
            BY <1>1, <1>2, <3>1, <3>3 DEF LegsOK
        <3>5. QED
            BY <1>2, <3>4
    <2>4. ASSUME NEW m \in Legs, NEW k \in Legs, m # k, SameInstrument(m, k), opened'[m] # None
          PROVE  opened'[m] # opened'[k]
        <3>1. SameInstrument(k, m)
            BY <2>4 DEF SameInstrument
        <3>2. CASE m = l
            BY <1>4, <2>3, <2>4, <3>2
        <3>3. CASE k = l
            BY <1>4, <2>3, <2>4, <3>1, <3>3
        <3>4. CASE m # l /\ k # l
            BY <1>1, <1>4, <2>4, <3>4 DEF LegsOK
        <3>5. QED
            BY <3>2, <3>3, <3>4
    <2>5. \A m \in Legs : closed'[m] # None => /\ opened'[m] # None /\ opened'[m] < closed'[m]
                                               /\ closed'[m] <= Expiry(m)
        BY <1>1, <1>3, <1>4 DEF LegsOK
    <2>6. QED
        BY <1>1, <2>2, <2>4, <2>5 DEF LegsOK
<1>7. SnapshotsOK'
    <2>1. \A s \in snapshots : l \notin s.legs
        BY <1>1 DEF SnapshotsOK
    <2>2. \A s \in snapshots : \A m \in s.legs : m \in Legs /\ opened'[m] = opened[m]
        BY <1>1, <1>4, <2>1 DEF SnapshotsOK
    <2>3. QED
        BY <1>1, <2>2 DEF SnapshotsOK
<1>8. QED
    BY <1>5, <1>6, <1>7 DEF World

LEMMA CloseWorld == ASSUME World, NEW l \in Legs, Close(l) PROVE World'
<1> USE HorizonType, NoneIsNoTime, ExpiryType DEF Close
<1>1. WorldOK /\ LegsOK /\ SnapshotsOK
    BY DEF World
<1>2. now \in Nat /\ opened \in [Legs -> {None} \cup 0..now]
          /\ closed \in [Legs -> {None} \cup 0..now]
    BY <1>1 DEF WorldOK
<1>3. closed[l] = None /\ opened[l] # None /\ opened[l] < now
    BY DEF IsOpen
<1>4. /\ closed'[l] = now /\ \A m \in Legs \ {l} : closed'[m] = closed[m]
      /\ closed' \in [Legs -> {None} \cup 0..now]
    BY <1>2
<1>5. l \notin collected
    BY <1>1, <1>3 DEF WorldOK
<1>6. WorldOK'
    BY <1>1, <1>4, <1>5 DEF WorldOK
<1>7. now <= Expiry(l)
    BY <1>1 DEF LegsOK
<1>8. LegsOK'
    <2>1. \A m \in Legs : IsOpen(m)' => IsOpen(m)
        BY <1>2, <1>4 DEF IsOpen
    <2>2. \A m \in Legs : closed'[m] # None => /\ opened'[m] # None /\ opened'[m] < closed'[m]
                                               /\ closed'[m] <= Expiry(m)
        BY <1>1, <1>3, <1>4, <1>7 DEF LegsOK
    <2>3. QED
        BY <1>1, <2>1, <2>2 DEF LegsOK
<1>9. SnapshotsOK'
    <2>1. \A s \in snapshots : s.at \in 0..now
        BY <1>1 DEF SnapshotsOK
    <2>2. \A s \in snapshots : \A m \in s.legs : m \in Legs
              /\ (closed'[m] # None => s.at <= closed'[m])
        BY <1>1, <1>2, <1>4, <2>1 DEF SnapshotsOK
    <2>3. QED
        BY <1>1, <2>2 DEF SnapshotsOK
<1>10. QED
    BY <1>6, <1>8, <1>9 DEF World

\* a snapshot lies within the life of each of its legs, and no other has its time
LEMMA SnapshotWorld == ASSUME World, NEW a \in Accounts, Snapshot(a) PROVE World'
<1> USE HorizonType, NoneIsNoTime, ExpiryType DEF Snapshot
<1>1. WorldOK /\ LegsOK /\ SnapshotsOK
    BY DEF World
<1>2. now \in Nat /\ opened \in [Legs -> {None} \cup 0..now]
          /\ closed \in [Legs -> {None} \cup 0..now]
    BY <1>1 DEF WorldOK
<1> DEFINE new == [sub |-> a, at |-> now, legs |-> {l \in Legs : LegInfo[l].sub = a /\ IsOpen(l)}]
<1>3. snapshots' = snapshots \cup {new} /\ \A s \in snapshots : s.at # now
    OBVIOUS
<1>4. new \in [sub : Accounts, at : 0..now, legs : SUBSET Legs] /\ new.at = now
    BY <1>2
<1>5. \A l \in new.legs : /\ LegInfo[l].sub = new.sub /\ opened[l] # None /\ opened[l] <= new.at
                          /\ new.at <= Expiry(l) /\ closed[l] = None
    BY <1>1, <1>2 DEF LegsOK, IsOpen
<1> HIDE DEF new
<1>6. IsFiniteSet(snapshots')
    <2>1. IsFiniteSet(snapshots)
        BY <1>1 DEF SnapshotsOK
    <2> HIDE DEF Snapshot
    <2>2. QED
        BY <1>3, <2>1, FS_AddElement
<1>7. SnapshotsOK'
    BY <1>1, <1>3, <1>4, <1>5, <1>6 DEF SnapshotsOK
<1>8. WorldOK' /\ LegsOK'
    BY <1>1 DEF WorldOK, LegsOK, IsOpen
<1>9. QED
    BY <1>7, <1>8 DEF World

LEMMA CollectWorld == World /\ Collect => World'
<1> SUFFICES ASSUME World, Collect PROVE World'
    OBVIOUS
<1>1. WorldOK /\ LegsOK /\ SnapshotsOK
    BY DEF World
<1>2. WorldOK' /\ LegsOK' /\ SnapshotsOK'
    BY <1>1 DEF WorldOK, LegsOK, SnapshotsOK, IsOpen, Collect
<1>3. QED
    BY <1>2 DEF World

\* a leg moves to a strategy of its own account
LEMMA MoveWorld == ASSUME World, NEW l \in Legs, NEW b \in Strategies, Move(l, b) PROVE World'
<1>1. WorldOK /\ LegsOK /\ SnapshotsOK
    BY DEF World
<1>2. box \in [Legs -> Strategies] /\ box' = [box EXCEPT ![l] = b] /\ Owner[b] = LegInfo[l].sub
    BY <1>1 DEF WorldOK, Move
<1>3. box' \in [Legs -> Strategies] /\ \A m \in Legs : Owner[box'[m]] = LegInfo[m].sub
    BY <1>1, <1>2 DEF LegsOK
<1>4. WorldOK' /\ SnapshotsOK'
    BY <1>1, <1>3 DEF WorldOK, SnapshotsOK, Move
<1>5. LegsOK'
    BY <1>1, <1>3 DEF LegsOK, IsOpen, Move
<1>6. QED
    BY <1>4, <1>5 DEF World

LEMMA WorldKept == World /\ UNCHANGED world => World'
BY DEF World, WorldOK, LegsOK, SnapshotsOK, IsOpen, world

LEMMA WorldStep == World /\ [Next]_vars => World'
<1> SUFFICES ASSUME World, [Next]_vars PROVE World'
    OBVIOUS
<1>1. CASE UNCHANGED world
    BY <1>1, WorldKept
<1>2. CASE Change
    BY <1>2, TickWorld, OpenWorld, CloseWorld, SnapshotWorld, CollectWorld, MoveWorld DEF Change
<1>3. QED
    BY <1>1, <1>2 DEF Next, vars, Convert, Fill, SumUp

---------------------------------------------------------------------------
(* What a step leaves alone.                                               *)

LEMMA SameSilver == ASSUME UNCHANGED world PROVE Silver' = Silver
BY DEF Silver, PositionRow, BalanceRow, world

LEMMA SameRateOfDay ==
    ASSUME UNCHANGED silver, NEW sub, NEW ccy, NEW d
    PROVE  RateOfDay(sub, ccy, d)' = RateOfDay(sub, ccy, d)
BY DEF RateOfDay

LEMMA SameCoinUsd == ASSUME UNCHANGED silver PROVE CoinUsd' = CoinUsd
<1>1. \A sub, ccy, d : RateOfDay(sub, ccy, d)' = RateOfDay(sub, ccy, d)
    BY SameRateOfDay
<1>2. \A sub, ccy, d : RateOf(sub, ccy, d)' = RateOf(sub, ccy, d)
    BY <1>1 DEF RateOf
<1>3. QED
    BY <1>2 DEF CoinUsd

LEMMA SamePnl ==
    ASSUME UNCHANGED <<world, rates>>
    PROVE  \A l : ClosedOn(l)' = ClosedOn(l) /\ PnlUsd(l)' = PnlUsd(l) /\ FeeUsd(l)' = FeeUsd(l)
BY DEF ClosedOn, PnlUsd, FeeUsd, Rate, world

LEMMA SameUpl == ASSUME UNCHANGED <<world, rates>> PROVE \A r : UplUsd(r)' = UplUsd(r)
BY DEF UplUsd, Rate, world

LEMMA SameDailyRow ==
    ASSUME UNCHANGED <<world, rates>>
    PROVE  \A deals, rows : DailyRow(deals, rows)' = DailyRow(deals, rows)
BY SamePnl, SameUpl DEF DailyRow
\* the tables only depend on the world, silver and the rates
LEMMA SameTables == ASSUME UNCHANGED <<world, silver, rates>> PROVE Tables' = Tables
<1> USE DEF world
<1>1. BalanceTimeseries' = BalanceTimeseries
    BY DEF BalanceTimeseries
<1>2. PnlDaily' = PnlDaily
    BY SameDailyRow, SamePnl DEF PnlDaily
<1>3. AssetPnlDaily' = AssetPnlDaily
    BY SameDailyRow, SamePnl DEF AssetPnlDaily
<1>4. DealLedger' = DealLedger
    BY SamePnl DEF DealLedger
<1>5. PositionCurrent' = PositionCurrent
    BY DEF PositionCurrent
<1>6. UnderlyingPrice' = UnderlyingPrice
    BY DEF UnderlyingPrice
<1>7. ExpirySettlement' = ExpirySettlement
    BY DEF ExpirySettlement
<1>8. {PositionLeg(l) : l \in KnownLegs}' = {PositionLeg(l) : l \in KnownLegs}
    <2>1. \A l : SeenIn(l)' = SeenIn(l)
        BY DEF SeenIn
    <2>2. KnownLegs' = KnownLegs
        BY <2>1 DEF KnownLegs
    <2>3. \A l : StatusOf(l)' = StatusOf(l)
        BY <2>1 DEF StatusOf, HasBalance
    <2>4. \A l : PositionLeg(l)' = PositionLeg(l)
        BY <2>1, <2>3, SamePnl DEF PositionLeg, Rate
    <2>5. QED
        BY <2>2, <2>4
<1>9. QED
    BY <1>1, <1>2, <1>3, <1>4, <1>5, <1>6, <1>7, <1>8 DEF Tables

\* the totals only depend on the world, silver, the rates and gold
LEMMA SameTotals == ASSUME UNCHANGED <<world, silver, rates, gold>> PROVE Totals' = Totals
<1> USE DEF world
<1>0. \A period : PeriodStart(period)' = PeriodStart(period)
    BY DEF PeriodStart
<1>a. PositionCurrent' = PositionCurrent
    BY DEF PositionCurrent
<1>1. GreeksByExpiry' = GreeksByExpiry
    BY <1>a DEF GreeksByExpiry
<1>2. StrategySummary' = StrategySummary
    <2> DEFINE Mtd(a, b) == {l \in collected : LegInfo[l].sub = a /\ box[l] = b
                                               /\ ClosedOn(l) >= PeriodStart("mtd")}
               Row(a, b) ==
                   LET rows == {r \in PositionCurrent : r.sub = a /\ r.strategy = b}
                   IN  [open |-> Cardinality(rows), delta |-> DeltaOf(rows), upl |-> UplOf(rows),
                        mtdPnl |-> PnlOf(Mtd(a, b)) + UplOf(rows)]
    <2>1. \A a, b : Mtd(a, b)' = Mtd(a, b)
        BY <1>0, SamePnl
    <2>2. /\ StrategySummary = [k \in Accounts \X Strategies |-> Row(k[1], k[2])]
          /\ StrategySummary' = [k \in Accounts \X Strategies |-> Row(k[1], k[2])']
        BY DEF StrategySummary
    <2> HIDE DEF Mtd
    <2>3. \A a, b : Row(a, b)' = Row(a, b)
        BY <1>a, <2>1
    <2> HIDE DEF Row
    <2>4. QED
        BY <2>2, <2>3
<1>3. \A sub, d : EodEquity(sub, d)' = EodEquity(sub, d)
    BY DEF EodEquity, Selected
<1>4. \A subs, d : EquityOf(subs, d)' = EquityOf(subs, d)
    BY <1>3 DEF EquityOf
<1>5. \A subs, start : EquitySeries(subs, start)' = EquitySeries(subs, start)
    BY <1>3, <1>4 DEF EquitySeries
<1>6. ClientPnlDaily' = ClientPnlDaily
    BY <1>3, <1>4 DEF ClientPnlDaily, Selected
<1>7. \A period, subs, deals : Performance(period, subs, deals)' = Performance(period, subs, deals)
    BY <1>0, <1>5, SamePnl DEF Performance
<1>8. ClientPerformance' = ClientPerformance
    BY <1>7 DEF ClientPerformance
<1>9. StrategyPerformance' = StrategyPerformance
    BY <1>7 DEF StrategyPerformance
<1>10. SymbolPerformance' = SymbolPerformance
    BY <1>7 DEF SymbolPerformance
<1>11. QED
    BY <1>1, <1>2, <1>6, <1>8, <1>9, <1>10 DEF Totals

---------------------------------------------------------------------------
(* Finite sets.                                                            *)

LEMMA FiniteImage ==
    ASSUME NEW S, IsFiniteSet(S), NEW f
    PROVE  IsFiniteSet({f[x] : x \in S})
<1> DEFINE T == {f[x] : x \in S}  g == [x \in S |-> f[x]]
<1>1. g \in Surjection(S, T)
    BY DEF Surjection
<1>2. QED
    BY <1>1, FS_Surjection

\* a set whose elements differ in a key is no larger than the set of the keys
LEMMA FiniteByKey ==
    ASSUME NEW S, NEW K, IsFiniteSet(K), NEW f, \A x \in S : f[x] \in K,
           \A x, y \in S : f[x] = f[y] => x = y
    PROVE  IsFiniteSet(S) /\ Cardinality(S) <= Cardinality(K)
<1> DEFINE g == [x \in S |-> f[x]]
<1>1. g \in Injection(S, K)
    BY DEF Injection, IsInjective
<1>2. QED
    BY <1>1, FS_Injection

LEMMA KeysFinite ==
    /\ IsFiniteSet(Accounts) /\ IsFiniteSet(Legs) /\ IsFiniteSet(Strategies)
    /\ IsFiniteSet(Coins) /\ IsFiniteSet(Underlyings) /\ IsFiniteSet(Expiries)
    /\ \A t \in Int : IsFiniteSet(0..t)
<1>1. IsFiniteSet(Accounts) /\ IsFiniteSet(Legs) /\ IsFiniteSet(Strategies)
    BY GoldAssumption
<1>2. IsFiniteSet({[l \in Legs |-> LegInfo[l].coin][m] : m \in Legs})
    BY <1>1, FiniteImage
<1>3. IsFiniteSet({[l \in Legs |-> LegInfo[l].underlying][m] : m \in Legs})
    BY <1>1, FiniteImage
<1>4. IsFiniteSet({[l \in Legs |-> LegInfo[l].expiry][m] : m \in Legs})
    BY <1>1, FiniteImage
<1>5. /\ {[l \in Legs |-> LegInfo[l].coin][m] : m \in Legs} = Coins
      /\ {[l \in Legs |-> LegInfo[l].underlying][m] : m \in Legs} = Underlyings
      /\ {[l \in Legs |-> LegInfo[l].expiry][m] : m \in Legs} = Expiries
    BY DEF Coins, Underlyings, Expiries
<1>6. \A t \in Int : IsFiniteSet(0..t)
    BY FS_Interval
<1>7. QED
    BY <1>1, <1>2, <1>3, <1>4, <1>5, <1>6

---------------------------------------------------------------------------
(* Silver: a row of each leg in each snapshot, and of each coin held.       *)

LEMMA PriceType ==
    ASSUME NEW l \in Legs, NEW t \in 0..Horizon
    PROVE  /\ Upl[<<l, t>>] \in Int /\ Price[<<LegInfo[l].coin, t>>] \in Int
           /\ \A a \in Accounts : Held[<<a, LegInfo[l].coin, t>>] \in Int
BY GoldAssumption

PositionOK(r) ==
    /\ r.leg \in Legs /\ r.at \in 0..now /\ r.sub = LegInfo[r.leg].sub
    /\ r.strategy = box[r.leg] /\ r.coin = LegInfo[r.leg].coin
    /\ r.upl = Upl[<<r.leg, r.at>>] /\ r.idx = Price[<<r.coin, r.at>>]
    /\ opened[r.leg] # None

SilverOK ==
    /\ \A r \in silver.positions : PositionOK(r)
    /\ \A r \in silver.positions : \E s \in snapshots : s.at = r.at /\ s.sub = r.sub
         /\ r.leg \in s.legs
    /\ \A s \in snapshots : \A l \in s.legs : PositionRow(s, l) \in silver.positions
    /\ \A r, q \in silver.positions : r.leg = q.leg /\ r.at = q.at => r = q
    /\ IsFiniteSet(silver.positions)
    /\ \A r \in silver.balances : 
          /\ r.sub \in Accounts /\ r.ccy \in Coins /\ r.at \in 0..now
          /\ r.total = Held[<<r.sub, r.ccy, r.at>>] /\ r.total > 0
          /\ r.usd = r.total * Price[<<r.ccy, r.at>>]
    /\ \A r, q \in silver.balances : r.at = q.at => r.sub = q.sub
    /\ \A r, q \in silver.balances : r.ccy = q.ccy /\ r.at = q.at => r = q
    /\ IsFiniteSet(silver.balances)

\* what silver has rows of
LEMMA SilverRows == World /\ silver = Silver => SilverOK
<1> SUFFICES ASSUME World, silver = Silver PROVE SilverOK
    OBVIOUS
<1>0. WorldOK /\ LegsOK /\ SnapshotsOK
    BY DEF World
<1>1. now \in Nat
    BY <1>0, HorizonType DEF WorldOK
<1>2. \A s \in snapshots : s.sub \in Accounts /\ s.at \in 0..now /\ s.legs \subseteq Legs
    BY <1>0 DEF SnapshotsOK
<1>3. \A s, u \in snapshots : s.at = u.at => s = u
    BY <1>0 DEF SnapshotsOK
<1>4. \A r \in silver.positions : \E s \in snapshots : \E l \in s.legs : r = PositionRow(s, l)
    BY DEF Silver
<1>5. \A s \in snapshots : \A l \in s.legs : PositionRow(s, l) \in silver.positions
    BY DEF Silver
<1>6. ASSUME NEW r \in silver.positions
      PROVE  PositionOK(r) /\ \E s \in snapshots : s.at = r.at /\ s.sub = r.sub /\ r.leg \in s.legs
    <2>0. PICK s \in snapshots : \E l \in s.legs : r = PositionRow(s, l)
        BY <1>4
    <2>1. PICK l \in s.legs : r = PositionRow(s, l)
        BY <2>0
    <2>2. l \in Legs /\ LegInfo[l].sub = s.sub /\ opened[l] # None
        BY <1>0 DEF SnapshotsOK
    <2>3. r.leg = l /\ r.at = s.at /\ r.sub = s.sub
        BY <2>1 DEF PositionRow
    <2>4. /\ r.strategy = box[r.leg] /\ r.coin = LegInfo[r.leg].coin
          /\ r.upl = Upl[<<r.leg, r.at>>] /\ r.idx = Price[<<r.coin, r.at>>]
        BY <2>1 DEF PositionRow
    <2>5. QED
        BY <1>2, <2>2, <2>3, <2>4 DEF PositionOK
<1>7. ASSUME NEW r \in silver.positions, NEW q \in silver.positions, r.leg = q.leg, r.at = q.at
      PROVE  r = q
    <2>0. PICK s \in snapshots : \E l \in s.legs : r = PositionRow(s, l)
        BY <1>4
    <2>1. PICK l \in s.legs : r = PositionRow(s, l)
        BY <2>0
    <2>6. PICK u \in snapshots : \E m \in u.legs : q = PositionRow(u, m)
        BY <1>4
    <2>2. PICK m \in u.legs : q = PositionRow(u, m)
        BY <2>6
    <2>3. r.leg = l /\ r.at = s.at /\ q.leg = m /\ q.at = u.at
        BY <2>1, <2>2 DEF PositionRow
    <2>4. s = u /\ l = m
        BY <1>3, <1>7, <2>3
    <2>5. QED
        BY <2>1, <2>2, <2>4
<1>8. IsFiniteSet(silver.positions)
    <2> DEFINE f == [r \in silver.positions |-> <<r.leg, r.at>>]
    <2>1. IsFiniteSet(Legs \X (0..now))
        <3>1. IsFiniteSet(Legs) /\ IsFiniteSet(0..now)
            BY <1>1, KeysFinite
        <3>2. QED
            BY <3>1, FS_Product
    <2>2. \A r \in silver.positions : f[r] \in Legs \X (0..now)
        BY <1>6 DEF PositionOK
    <2>3. \A r, q \in silver.positions : f[r] = f[q] => r = q
        BY <1>7
    <2> HIDE DEF f
    <2>4. QED
        BY <2>1, <2>2, <2>3, FiniteByKey
<1>9. \A r \in silver.balances : \E s \in snapshots : \E c \in Coins : r = BalanceRow(s, c)
          /\ r.total > 0
    BY DEF Silver
<1>10. ASSUME NEW r \in silver.balances
       PROVE  /\ r.sub \in Accounts /\ r.ccy \in Coins /\ r.at \in 0..now
              /\ r.total = Held[<<r.sub, r.ccy, r.at>>] /\ r.total > 0
              /\ r.usd = r.total * Price[<<r.ccy, r.at>>]
    <2>1. PICK s \in snapshots, c \in Coins : r = BalanceRow(s, c) /\ r.total > 0
        BY <1>9
    <2>2. r.sub = s.sub /\ r.ccy = c /\ r.at = s.at /\ r.total = Held[<<s.sub, c, s.at>>]
          /\ r.usd = r.total * Price[<<c, s.at>>]
        BY <2>1 DEF BalanceRow
    <2>3. QED
        BY <1>2, <2>1, <2>2
<1>11. ASSUME NEW r \in silver.balances, NEW q \in silver.balances, r.at = q.at
       PROVE  r.sub = q.sub /\ (r.ccy = q.ccy => r = q)
    <2>1. PICK s \in snapshots, c \in Coins : r = BalanceRow(s, c)
        BY <1>9
    <2>2. PICK u \in snapshots, d \in Coins : q = BalanceRow(u, d)
        BY <1>9
    <2>3. r.ccy = c /\ r.at = s.at /\ q.ccy = d /\ q.at = u.at /\ r.sub = s.sub /\ q.sub = u.sub
        BY <2>1, <2>2 DEF BalanceRow
    <2>4. s = u
        BY <1>3, <1>11, <2>3
    <2>5. QED
        BY <2>1, <2>2, <2>3, <2>4
<1>12. IsFiniteSet(silver.balances)
    <2> DEFINE f == [r \in silver.balances |-> <<r.ccy, r.at>>]
    <2>1. IsFiniteSet(Coins \X (0..now))
        <3>1. IsFiniteSet(Coins) /\ IsFiniteSet(0..now)
            BY <1>1, KeysFinite
        <3>2. QED
            BY <3>1, FS_Product
    <2>2. \A r \in silver.balances : f[r] \in Coins \X (0..now)
        BY <1>10
    <2>3. \A r, q \in silver.balances : f[r] = f[q] => r = q
        BY <1>11
    <2> HIDE DEF f
    <2>4. QED
        BY <2>1, <2>2, <2>3, FiniteByKey
<1>13. QED
    BY <1>5, <1>6, <1>7, <1>8, <1>10, <1>11, <1>12 DEF SilverOK

---------------------------------------------------------------------------
(* Rates.                                                                  *)

\* The rate of a day only depends on when the account had a balance or a position in the coin.
BalanceTimes(sub, ccy, d) ==
    {r.at : r \in {q \in silver.balances : q.sub = sub /\ q.ccy = ccy /\ Day(q.at) = d}}
PriceTimes(sub, ccy, d) ==
    {r.at : r \in {q \in silver.positions : q.sub = sub /\ q.coin = ccy /\ Day(q.at) = d}}
RateAt(sub, ccy, B, P) ==
    IF B # {}
    THEN (Held[<<sub, ccy, Max(B)>>] * Price[<<ccy, Max(B)>>]) \div Held[<<sub, ccy, Max(B)>>]
    ELSE IF P # {} THEN Price[<<ccy, Max(P)>>] ELSE None

\* of a finite set of rows, the newest ones are those at the last time
LEMMA NewestAt ==
    ASSUME NEW R, IsFiniteSet(R), R # {}, \A r \in R : r.at \in Int
    PROVE  LET T == {r.at : r \in R} IN
           /\ Newest(R) = {r \in R : r.at = Max(T)} /\ Newest(R) # {}
           /\ The(Newest(R)) \in R /\ The(Newest(R)).at = Max(T) /\ Max(T) \in T
<1> DEFINE T == {r.at : r \in R}
           f == [r \in R |-> r.at]
<1>1. IsFiniteSet({f[r] : r \in R})
    BY FiniteImage
<1>2. {f[r] : r \in R} = T
    OBVIOUS
<1>3. IsFiniteSet(T) /\ T # {} /\ T \subseteq Int
    BY <1>1, <1>2
<1>4. Max(T) \in T /\ \A t \in T : t <= Max(T)
    <2> HIDE DEF T
    <2>1. QED
        BY <1>3, MinMax
<1>5. PICK x \in R : x.at = Max(T)
    BY <1>4
<1>6. Newest(R) = {r \in R : r.at = Max(T)}
    <2>1. \A r \in R : r.at <= Max(T)
        BY <1>4
    <2>2. Max(T) \in Int
        BY <1>3, <1>4
    <2>3. \A r \in R : (\A q \in R : q.at <= r.at) <=> r.at = Max(T)
        <3> HIDE DEF T
        <3>1. QED
            BY <1>5, <2>1, <2>2
    <2>4. QED
        BY <2>3 DEF Newest
<1>7. x \in Newest(R)
    BY <1>5, <1>6
<1>8. The(Newest(R)) \in Newest(R)
    BY <1>7 DEF The
<1>9. QED
    BY <1>4, <1>6, <1>7, <1>8

RatesByTimes ==
    \A sub, ccy, d :
        RateOfDay(sub, ccy, d) =
            RateAt(sub, ccy, BalanceTimes(sub, ccy, d), PriceTimes(sub, ccy, d))

\* the rate only depends on the times of the balances and positions of the day
LEMMA RateByTimes == SilverOK => RatesByTimes
<1> SUFFICES ASSUME SilverOK, NEW sub, NEW ccy, NEW d
             PROVE  RateOfDay(sub, ccy, d) =
                        RateAt(sub, ccy, BalanceTimes(sub, ccy, d), PriceTimes(sub, ccy, d))
    BY DEF RatesByTimes
<1> DEFINE balances == {r \in silver.balances : r.sub = sub /\ r.ccy = ccy /\ Day(r.at) = d}
           prices == {r \in silver.positions : r.sub = sub /\ r.coin = ccy /\ Day(r.at) = d}
           B == {r.at : r \in balances}
           P == {r.at : r \in prices}
<1>1. RateOfDay(sub, ccy, d) =
        IF balances # {} THEN The(Newest(balances)).usd \div The(Newest(balances)).total
        ELSE IF prices # {} THEN The(Newest(prices)).idx ELSE None
    BY DEF RateOfDay
<1>2. BalanceTimes(sub, ccy, d) = B /\ PriceTimes(sub, ccy, d) = P
    BY DEF BalanceTimes, PriceTimes
<1>3. IsFiniteSet(balances) /\ IsFiniteSet(prices)
    BY FS_Subset DEF SilverOK
<1>4. (\A r \in balances : r.at \in Int) /\ (\A r \in prices : r.at \in Int)
    <2>1. (\A r \in silver.balances : r.at \in 0..now)
              /\ (\A r \in silver.positions : r.at \in 0..now)
        BY DEF SilverOK, PositionOK
    <2>2. QED
        BY <2>1
<1>5. (balances # {} <=> B # {}) /\ (prices # {} <=> P # {})
    OBVIOUS
<1>6. CASE balances # {}
    <2> DEFINE q == The(Newest(balances))
    <2>1. q \in balances /\ q.at = Max(B)
        <3> HIDE DEF balances
        <3>1. QED
            BY <1>3, <1>4, <1>6, NewestAt
    <2>2. q.total = Held[<<sub, ccy, Max(B)>>] /\ q.usd = q.total * Price[<<ccy, Max(B)>>]
        <3>1. q \in silver.balances /\ q.sub = sub /\ q.ccy = ccy
            BY <2>1
        <3> HIDE DEF B, q
        <3>2. QED
            BY <2>1, <3>1 DEF SilverOK
    <2> HIDE DEF q, B
    <2>3. RateOfDay(sub, ccy, d) = q.usd \div q.total
        BY <1>1, <1>6 DEF q
    <2>4. QED
        BY <1>2, <1>5, <1>6, <2>2, <2>3 DEF RateAt
<1>7. CASE balances = {} /\ prices # {}
    <2> DEFINE q == The(Newest(prices))
    <2>1. q \in prices /\ q.at = Max(P)
        <3> HIDE DEF prices
        <3>1. QED
            BY <1>3, <1>4, <1>7, NewestAt
    <2>2. q.idx = Price[<<ccy, Max(P)>>]
        <3>1. q \in silver.positions /\ q.coin = ccy
            BY <2>1
        <3> HIDE DEF P, q
        <3>2. QED
            BY <2>1, <3>1 DEF SilverOK, PositionOK
    <2> HIDE DEF q, P
    <2>3. RateOfDay(sub, ccy, d) = q.idx
        BY <1>1, <1>7 DEF q
    <2>4. QED
        BY <1>2, <1>5, <1>7, <2>2, <2>3 DEF RateAt
<1>8. CASE balances = {} /\ prices = {}
    <2> HIDE DEF B, P
    <2>1. QED
        BY <1>1, <1>2, <1>5, <1>8 DEF RateAt
<1>9. QED
    BY <1>6, <1>7, <1>8

\* both sets of times are those of snapshots
TimesHeld(sub, ccy, d) ==
    {s.at : s \in {u \in snapshots : /\ u.sub = sub /\ Day(u.at) = d /\ ccy \in Coins
                                     /\ Held[<<sub, ccy, u.at>>] > 0}}
TimesHad(sub, ccy, d) ==
    {s.at : s \in {u \in snapshots : /\ u.sub = sub /\ Day(u.at) = d
                                     /\ \E l \in u.legs : LegInfo[l].coin = ccy}}
TimesAreOfSnapshots ==
    \A sub, ccy, d : /\ BalanceTimes(sub, ccy, d) = TimesHeld(sub, ccy, d)
                     /\ PriceTimes(sub, ccy, d) = TimesHad(sub, ccy, d)

\* ... and those are the times of snapshots
LEMMA TimesOfSnapshots == silver = Silver => TimesAreOfSnapshots
<1> SUFFICES ASSUME silver = Silver, NEW sub, NEW ccy, NEW d
             PROVE  /\ BalanceTimes(sub, ccy, d) = TimesHeld(sub, ccy, d)
                    /\ PriceTimes(sub, ccy, d) = TimesHad(sub, ccy, d)
    BY DEF TimesAreOfSnapshots
<1> DEFINE held == {u \in snapshots : /\ u.sub = sub /\ Day(u.at) = d /\ ccy \in Coins
                                      /\ Held[<<sub, ccy, u.at>>] > 0}
           had == {u \in snapshots : /\ u.sub = sub /\ Day(u.at) = d
                                     /\ \E l \in u.legs : LegInfo[l].coin = ccy}
<1>1. ASSUME NEW t PROVE t \in BalanceTimes(sub, ccy, d) <=> t \in {s.at : s \in held}
    <2>1. ASSUME t \in BalanceTimes(sub, ccy, d) PROVE t \in {s.at : s \in held}
        <3>1. PICK r \in silver.balances : r.sub = sub /\ r.ccy = ccy /\ Day(r.at) = d /\ r.at = t
            BY <2>1 DEF BalanceTimes
        <3>2. PICK s \in snapshots, c \in Coins : r = BalanceRow(s, c) /\ r.total > 0
            BY <3>1 DEF Silver
        <3>3. r.sub = s.sub /\ r.ccy = c /\ r.at = s.at /\ r.total = Held[<<s.sub, c, s.at>>]
            BY <3>2 DEF BalanceRow
        <3>4. s \in held /\ s.at = t
            BY <3>1, <3>2, <3>3
        <3>5. QED
            BY <3>4
    <2>2. ASSUME t \in {s.at : s \in held} PROVE t \in BalanceTimes(sub, ccy, d)
        <3>1. PICK s \in held : s.at = t
            BY <2>2
        <3> DEFINE r == BalanceRow(s, ccy)
        <3>2. r.sub = sub /\ r.ccy = ccy /\ r.at = t /\ r.total = Held[<<sub, ccy, s.at>>]
            BY <3>1 DEF BalanceRow
        <3>3. r \in silver.balances
            BY <3>1, <3>2 DEF Silver
        <3> HIDE DEF r
        <3>4. QED
            BY <3>1, <3>2, <3>3 DEF BalanceTimes
    <2>3. QED
        BY <2>1, <2>2
<1>2. ASSUME NEW t PROVE t \in PriceTimes(sub, ccy, d) <=> t \in {s.at : s \in had}
    <2>1. ASSUME t \in PriceTimes(sub, ccy, d) PROVE t \in {s.at : s \in had}
        <3>1. PICK r \in silver.positions : r.sub = sub /\ r.coin = ccy /\ Day(r.at) = d /\ r.at = t
            BY <2>1 DEF PriceTimes
        <3>2. PICK s \in snapshots : \E l \in s.legs : r = PositionRow(s, l)
            BY <3>1 DEF Silver
        <3>3. PICK l \in s.legs : r = PositionRow(s, l)
            BY <3>2
        <3>4. r.sub = s.sub /\ r.coin = LegInfo[l].coin /\ r.at = s.at
            BY <3>3 DEF PositionRow
        <3>5. s \in had /\ s.at = t
            BY <3>1, <3>4
        <3>6. QED
            BY <3>5
    <2>2. ASSUME t \in {s.at : s \in had} PROVE t \in PriceTimes(sub, ccy, d)
        <3>1. PICK s \in had : s.at = t
            BY <2>2
        <3>2. PICK l \in s.legs : LegInfo[l].coin = ccy
            BY <3>1
        <3> DEFINE r == PositionRow(s, l)
        <3>3. r.sub = sub /\ r.coin = ccy /\ r.at = t
            BY <3>1, <3>2 DEF PositionRow
        <3>4. r \in silver.positions
            BY <3>1, <3>2 DEF Silver
        <3> HIDE DEF r
        <3>5. QED
            BY <3>1, <3>3, <3>4 DEF PriceTimes
    <2>3. QED
        BY <2>1, <2>2
<1>3. QED
    BY <1>1, <1>2 DEF TimesHeld, TimesHad

\* What happens from now on does not touch the days that are over.
LEMMA PastRatesStay ==
    ASSUME World, World', silver = Silver, silver' = Silver', Change
    PROVE  \A sub, ccy : \A d \in Int : d < Day(now)' =>
               RateOfDay(sub, ccy, d)' = RateOfDay(sub, ccy, d)
<1>1. SilverOK /\ SilverOK'
    <2>1. (World /\ silver = Silver => SilverOK)'
        BY SilverRows, PTL
    <2>2. QED
        BY <2>1, SilverRows
<1>2. snapshots' = snapshots \/ (now' = now /\ \E n : snapshots' = snapshots \cup {n} /\ n.at = now)
    <2>1. CASE \E a \in Accounts : Snapshot(a)
        <3>1. PICK a \in Accounts : Snapshot(a)
            BY <2>1
        <3> DEFINE new == [sub |-> a, at |-> now,
                           legs |-> {l \in Legs : LegInfo[l].sub = a /\ IsOpen(l)}]
        <3>2. now' = now /\ snapshots' = snapshots \cup {new}
            BY <3>1 DEF Snapshot
        <3>3. new.at = now
            OBVIOUS
        <3> HIDE DEF new
        <3>4. QED
            BY <3>2, <3>3
    <2>2. QED
        BY <2>1 DEF Change, Tick, Open, Close, Collect, Move
<1>3. Day(now)' \in Int
    <2>1. now' \in Int
        BY HorizonType DEF World, WorldOK
    <2>2. QED
        BY <2>1, DomainAssumption DEF Day
<1>4. ASSUME NEW u, Day(u.at) \in Int, Day(u.at) < Day(now)'
      PROVE  u \in snapshots' <=> u \in snapshots
    <2>1. CASE snapshots' = snapshots
        BY <2>1
    <2>2. CASE now' = now /\ \E n : snapshots' = snapshots \cup {n} /\ n.at = now
        <3>1. PICK n : snapshots' = snapshots \cup {n} /\ n.at = now
            BY <2>2
        <3>2. Day(n.at) = Day(now)'
            BY <2>2, <3>1 DEF Day
        <3>3. u # n
            BY <1>3, <1>4, <3>2
        <3>4. QED
            BY <3>1, <3>3
    <2>3. QED
        BY <1>2, <2>1, <2>2
<1>5. ASSUME NEW sub, NEW ccy, NEW d \in Int, d < Day(now)'
      PROVE  RateOfDay(sub, ccy, d)' = RateOfDay(sub, ccy, d)
    <2>1. /\ TimesHeld(sub, ccy, d)' = TimesHeld(sub, ccy, d)
          /\ TimesHad(sub, ccy, d)' = TimesHad(sub, ccy, d)
        <3>1. {u \in snapshots' : u.sub = sub /\ Day(u.at) = d /\ ccy \in Coins
                                  /\ Held[<<sub, ccy, u.at>>] > 0} =
              {u \in snapshots : u.sub = sub /\ Day(u.at) = d /\ ccy \in Coins
                                 /\ Held[<<sub, ccy, u.at>>] > 0}
            BY <1>4, <1>5
        <3>2. {u \in snapshots' : u.sub = sub /\ Day(u.at) = d
                                  /\ \E l \in u.legs : LegInfo[l].coin = ccy} =
              {u \in snapshots : u.sub = sub /\ Day(u.at) = d
                                 /\ \E l \in u.legs : LegInfo[l].coin = ccy}
            BY <1>4, <1>5
        <3>3. QED
            BY <3>1, <3>2 DEF TimesHeld, TimesHad
    <2>2. TimesAreOfSnapshots /\ TimesAreOfSnapshots'
        <3>1. (silver = Silver => TimesAreOfSnapshots)'
            BY TimesOfSnapshots, PTL
        <3>2. QED
            BY <3>1, TimesOfSnapshots
    <2>3. /\ BalanceTimes(sub, ccy, d)' = BalanceTimes(sub, ccy, d)
          /\ PriceTimes(sub, ccy, d)' = PriceTimes(sub, ccy, d)
        <3>1. /\ BalanceTimes(sub, ccy, d)' = TimesHeld(sub, ccy, d)'
              /\ PriceTimes(sub, ccy, d)' = TimesHad(sub, ccy, d)'
            BY <2>2 DEF TimesAreOfSnapshots
        <3>2. QED
            BY <2>1, <2>2, <3>1 DEF TimesAreOfSnapshots
    <2>4. RatesByTimes /\ RatesByTimes'
        <3>1. (SilverOK => RatesByTimes)'
            BY RateByTimes, PTL
        <3>2. QED
            BY <1>1, <3>1, RateByTimes
    <2>5. RateOfDay(sub, ccy, d)'
              = RateAt(sub, ccy, BalanceTimes(sub, ccy, d)', PriceTimes(sub, ccy, d)')
        BY <2>4 DEF RatesByTimes, RateAt
    <2>6. QED
        BY <2>3, <2>4, <2>5 DEF RatesByTimes
<1>6. QED
    BY <1>5

\* the nearest day with a rate is the day itself when it has one
LEMMA OwnRate ==
    ASSUME NEW sub, NEW ccy, NEW d \in Days, RateOfDay(sub, ccy, d) # None
    PROVE  RateOf(sub, ccy, d) = RateOfDay(sub, ccy, d)
<1> DEFINE known == {e \in Days : RateOfDay(sub, ccy, e) # None}
           nearest == {e \in known : \A f \in known : Distance(e, d) <= Distance(f, d)}
<1>1. d \in known /\ known \subseteq Int
    BY DEF Days
<1>2. \A f \in known : Distance(f, d) \in Int /\ 0 <= Distance(f, d) /\ (Distance(f, d) <= 0 => f = d)
      /\ Distance(d, d) = 0
    <2> HIDE DEF known
    <2>1. QED
        BY <1>1 DEF Distance
<1>3. nearest = {d}
    <2> HIDE DEF known
    <2>1. QED
        BY <1>1, <1>2
<1>4. Min({d}) = d
    <2>1. IsFiniteSet({d}) /\ {d} \subseteq Int /\ {d} # {}
        BY <1>1, FS_Singleton
    <2>2. QED
        BY <2>1, MinMax
<1>5. RateOf(sub, ccy, d) = IF known = {} THEN 1 ELSE RateOfDay(sub, ccy, Min(nearest))
    BY DEF RateOf
<1>6. Min(nearest) = Min({d})
    BY <1>3
<1> HIDE DEF nearest
<1>7. QED
    BY <1>1, <1>4, <1>5, <1>6

---------------------------------------------------------------------------
(* The invariant holds.                                                    *)

LEMMA ConvertedRates ==
    ASSUME NEW k \in DOMAIN CoinUsd, RateOfDay(k[1], k[2], k[3]) # None
    PROVE  CoinUsd[k] = RateOfDay(k[1], k[2], k[3])
<1>1. k \in Accounts \X Coins \X Days /\ CoinUsd[k] = RateOf(k[1], k[2], k[3])
    BY DEF CoinUsd
<1>2. k[3] \in Days
    BY <1>1
<1>3. QED
    BY <1>1, <1>2, OwnRate

LEMMA RatesKeptAfterConvert == rates = CoinUsd => RatesKept
<1> SUFFICES ASSUME rates = CoinUsd PROVE RatesKept
    OBVIOUS
<1>1. DOMAIN rates = Accounts \X Coins \X Days
    BY DEF CoinUsd
<1>2. \A k \in DOMAIN rates : RateOfDay(k[1], k[2], k[3]) # None
          => rates[k] = RateOfDay(k[1], k[2], k[3])
    BY ConvertedRates
<1>3. QED
    BY <1>1, <1>2 DEF RatesKept

LEMMA InitInv == Init => IInv
<1> SUFFICES ASSUME Init PROVE IInv
    OBVIOUS
<1>1. World
    BY WorldInit
<1>2. Made
    BY DEF Init, Made
<1>3. RatesKept
    <2>1. DOMAIN rates = {}
        BY DEF Init
    <2>2. QED
        BY <2>1 DEF RatesKept
<1>4. QED
    BY <1>1, <1>2, <1>3 DEF IInv, World

LEMMA SameRatesKept ==
    ASSUME RatesKept, UNCHANGED <<now, silver, rates>> PROVE RatesKept'
BY SameRateOfDay DEF RatesKept, Day

LEMMA StepInv == IInv /\ [Next]_vars => IInv'
<1> SUFFICES ASSUME IInv, [Next]_vars PROVE IInv'
    OBVIOUS
<1>1. World /\ Made /\ RatesKept
    BY DEF IInv, World
<1>2. World'
    BY <1>1, WorldStep
<1>3. ASSUME UNCHANGED vars PROVE Made' /\ RatesKept'
    <2>1. UNCHANGED world /\ UNCHANGED <<now, stage, silver, rates, gold, totals>>
        BY <1>3 DEF vars, world
    <2>2. Silver' = Silver /\ CoinUsd' = CoinUsd /\ Tables' = Tables /\ Totals' = Totals
        BY <2>1, SameSilver, SameCoinUsd, SameTables, SameTotals
    <2>3. QED
        BY <1>1, <2>1, <2>2, SameRatesKept DEF Made
<1>4. ASSUME Convert PROVE Made' /\ RatesKept'
    <2>1. UNCHANGED world /\ UNCHANGED <<silver, gold, totals>> /\ stage' = "gold" /\ rates' = CoinUsd
        BY <1>4 DEF Convert
    <2>2. Silver' = Silver /\ CoinUsd' = CoinUsd
        BY <2>1, SameSilver, SameCoinUsd
    <2>3. Made'
        BY <1>1, <2>1, <2>2 DEF Made
    <2>4. (rates = CoinUsd => RatesKept)'
        BY RatesKeptAfterConvert, PTL
    <2>5. QED
        BY <2>1, <2>2, <2>3, <2>4
<1>5. ASSUME Fill PROVE Made' /\ RatesKept'
    <2>1. UNCHANGED world /\ UNCHANGED <<now, silver, rates, totals>>
          /\ stage = "gold" /\ stage' = "totals" /\ gold' = Tables
        BY <1>5 DEF Fill, world
    <2>2. Silver' = Silver /\ CoinUsd' = CoinUsd /\ Tables' = Tables
        BY <2>1, SameSilver, SameCoinUsd, SameTables
    <2>3. QED
        BY <1>1, <2>1, <2>2, SameRatesKept DEF Made
<1>6. ASSUME SumUp PROVE Made' /\ RatesKept'
    <2>1. UNCHANGED world /\ UNCHANGED <<now, silver, rates, gold>>
          /\ stage = "totals" /\ stage' = "done" /\ totals' = Totals
        BY <1>6 DEF SumUp, world
    <2>2. Silver' = Silver /\ CoinUsd' = CoinUsd /\ Tables' = Tables /\ Totals' = Totals
        BY <2>1, SameSilver, SameCoinUsd, SameTables, SameTotals
    <2>3. QED
        BY <1>1, <2>1, <2>2, SameRatesKept DEF Made
<1>7. ASSUME stage = "done", Change, stage' = "rates", silver' = Silver', UNCHANGED rates
      PROVE  Made' /\ RatesKept'
    <2>1. Made'
        BY <1>7 DEF Made
    <2>2. rates = CoinUsd /\ silver = Silver
        BY <1>1, <1>7 DEF Made
    <2>3. \A sub, ccy : \A d \in Int : d < Day(now)'
              => RateOfDay(sub, ccy, d)' = RateOfDay(sub, ccy, d)
        BY <1>1, <1>2, <1>7, <2>2, PastRatesStay
    <2>4. ASSUME NEW k \in DOMAIN rates, k[3] < Day(now)', RateOfDay(k[1], k[2], k[3])' # None
          PROVE  rates[k] = RateOfDay(k[1], k[2], k[3])'
        <3>1. k \in DOMAIN CoinUsd /\ k[3] \in Int
            BY <1>1, <2>2 DEF RatesKept, Days
        <3>2. RateOfDay(k[1], k[2], k[3])' = RateOfDay(k[1], k[2], k[3])
            BY <2>3, <2>4, <3>1
        <3>3. QED
            BY <2>2, <2>4, <3>1, <3>2, ConvertedRates
    <2>5. RatesKept'
        BY <1>1, <1>7, <2>4 DEF RatesKept
    <2>6. QED
        BY <2>1, <2>5
<1>8. Made' /\ RatesKept'
    BY <1>3, <1>4, <1>5, <1>6, <1>7 DEF Next
<1>9. QED
    BY <1>2, <1>8 DEF IInv, World

\* Whatever has happened in the market and however often the tables were rebuilt, silver has the
\* rows of the snapshots taken, the tables are what the builders of silver_to_gold.py make of
\* them (with nothing to read in the tables of the same run), and the rates of days that are over
\* are those that their own balances or prices gave.
THEOREM Inductive == Spec => []IInv
BY InitInv, StepInv, PTL DEF Spec

\* For any market, accounts and snapshots: a rate that the balances or prices of its own day gave
\* does not change once the day is over, whatever the runs of silver_to_gold.py that follow see.
THEOREM SettledRates == Spec => SettledRatesStay
<1>1. ASSUME IInv, [Next]_vars
      PROVE  [\A k \in DOMAIN rates :
                k[3] < Day(now) /\ rates'[k] # rates[k] => RateOfDay(k[1], k[2], k[3]) = None]_vars
    <2>1. CASE UNCHANGED rates
        BY <2>1
    <2>2. CASE Convert
        <3>1. rates' = CoinUsd /\ RatesKept
            BY <1>1, <2>2 DEF Convert, IInv
        <3>2. ASSUME NEW k \in DOMAIN rates, k[3] < Day(now), RateOfDay(k[1], k[2], k[3]) # None
              PROVE  rates'[k] = rates[k]
            <4>1. k \in DOMAIN CoinUsd
                BY <3>1 DEF RatesKept, CoinUsd
            <4>2. rates[k] = RateOfDay(k[1], k[2], k[3])
                BY <3>1, <3>2 DEF RatesKept
            <4>3. QED
                BY <3>1, <3>2, <4>1, <4>2, ConvertedRates
        <3>3. QED
            BY <3>2
    <2>3. QED
        BY <1>1, <2>1, <2>2 DEF Next, Fill, SumUp, vars
<1>2. QED
    BY <1>1, Inductive, PTL DEF Spec, SettledRatesStay

---------------------------------------------------------------------------
(* Fills.                                                                  *)

\* silver knows when a leg was opened, and when it was closed if its close is collected
LEMMA KnownLegTimes ==
    ASSUME World
    PROVE  \A l \in KnownLegs : l \in Legs /\ opened[l] \in 0..now
<1>1. WorldOK /\ LegsOK /\ SnapshotsOK
    BY DEF World
<1>2. ASSUME NEW l \in KnownLegs PROVE l \in Legs /\ opened[l] # None
    <2>1. CASE l \in collected
        <3>1. l \in Legs /\ closed[l] # None
            BY <1>1, <2>1 DEF WorldOK
        <3>2. QED
            BY <1>1, <3>1 DEF LegsOK
    <2>2. CASE l \notin collected
        <3>1. l \in Legs /\ SeenIn(l) # {}
            BY <1>2, <2>2 DEF KnownLegs
        <3>2. PICK s \in snapshots : l \in s.legs
            BY <3>1 DEF SeenIn
        <3>3. QED
            BY <1>1, <3>1, <3>2 DEF SnapshotsOK
    <2>3. QED
        BY <2>1, <2>2
<1>3. opened \in [Legs -> {None} \cup 0..now]
    BY <1>1 DEF WorldOK
<1>4. QED
    BY <1>2, <1>3

LEMMA FillsLinked == IInv => FillsFindTheirLeg
<1> SUFFICES ASSUME IInv, NEW l \in KnownLegs, NEW at \in {opened[l], closed[l]} \ {None},
                    \A m \in KnownLegs \ {l} :
                        LegInfo[m].sub = LegInfo[l].sub /\ LegInfo[m].inst = LegInfo[l].inst =>
                            opened[m] <= opened[l] \/ opened[m] > at + Tolerance
             PROVE  FillLeg(l, at) = l
    BY DEF FillsFindTheirLeg
<1>1. World /\ WorldOK /\ LegsOK
    BY DEF IInv, World
<1>2. Tolerance \in Nat /\ None \notin Int
    BY DomainAssumption
<1>3. now \in Int
    BY <1>1, HorizonType DEF WorldOK
<1>4. \A m \in KnownLegs : m \in Legs /\ opened[m] \in 0..now
    BY <1>1, KnownLegTimes
<1>5. /\ closed \in [Legs -> {None} \cup 0..now]
      /\ \A m \in Legs : closed[m] # None => opened[m] < closed[m]
      /\ \A m, k \in Legs : m # k /\ SameInstrument(m, k) /\ opened[m] # None => opened[m] # opened[k]
    BY <1>1 DEF WorldOK, LegsOK
<1>6. at \in Int /\ opened[l] <= at /\ (closed[l] # None => at <= closed[l])
    BY <1>2, <1>3, <1>4, <1>5
<1> DEFINE windows == {Window(m) : m \in {k \in KnownLegs : SameInstrument(k, l)}}
           hits == {w \in windows : /\ w.from - Tolerance <= at
                                    /\ w.to = None \/ at <= w.to + Tolerance}
<1>7. \A m : Window(m).leg = m /\ Window(m).from = opened[m]
             /\ (Window(m).to = None \/ Window(m).to = closed[m])
    BY DEF Window
<1>8. Window(l) \in hits
    <2>1. Window(l) \in windows
        BY DEF SameInstrument
    <2>2. Window(l).from - Tolerance <= at
        BY <1>2, <1>3, <1>4, <1>6, <1>7
    <2>3. Window(l).to = None \/ at <= Window(l).to + Tolerance
        <3>1. CASE Window(l).to = None
            BY <3>1
        <3>2. CASE Window(l).to # None
            <4>1. Window(l).to = closed[l] /\ closed[l] # None
                BY <1>7, <3>2
            <4>2. closed[l] \in 0..now /\ at <= closed[l]
                BY <1>4, <1>5, <1>6, <4>1
            <4>3. QED
                BY <1>2, <1>3, <1>6, <4>1, <4>2
        <3>3. QED
            BY <3>1, <3>2
    <2> HIDE DEF windows
    <2>4. QED
        BY <2>1, <2>2, <2>3
<1>9. ASSUME NEW w \in hits, w # Window(l)
      PROVE  w.from \in Int /\ w.from < opened[l]
    <2>1. PICK m \in KnownLegs : SameInstrument(m, l) /\ w = Window(m)
        OBVIOUS
    <2>2. m # l
        BY <1>9, <2>1
    <2>3. w.from = opened[m] /\ opened[m] \in 0..now /\ opened[l] \in 0..now
        BY <1>4, <1>7, <2>1
    <2>4. opened[m] - Tolerance <= at
        BY <2>3
    <2>5. opened[m] <= opened[l]
        <3>1. opened[m] <= opened[l] \/ opened[m] > at + Tolerance
            BY <2>1, <2>2 DEF SameInstrument
        <3>2. QED
            BY <1>2, <1>3, <1>6, <2>3, <2>4, <3>1
    <2>6. opened[m] # opened[l]
        BY <1>2, <1>3, <1>4, <1>5, <2>1, <2>2, <2>3
    <2>7. QED
        BY <1>3, <2>3, <2>5, <2>6
<1>10. LastMatch(hits) = Window(l)
    <2>1. Window(l).from = opened[l] /\ opened[l] \in Int
        BY <1>3, <1>4, <1>7
    <2> HIDE DEF hits
    <2>2. \A w \in hits : (\A v \in hits : w.from >= v.from) <=> w = Window(l)
        BY <1>8, <1>9, <2>1
    <2>3. QED
        BY <1>8, <2>2 DEF LastMatch
<1>11. MatchFill(at, windows) = IF hits = {} THEN None ELSE LastMatch(hits).leg
    BY DEF MatchFill
<1>12. FillLeg(l, at) = MatchFill(at, windows)
    BY DEF FillLeg
<1> HIDE DEF hits, windows
<1>13. QED
    BY <1>7, <1>8, <1>10, <1>11, <1>12

\* A fill is linked to the leg it opened or closed (domain/fills) whatever other legs of the
\* instrument there are, unless one was opened in between or within the tolerance.
THEOREM FillsFound == Spec => []FillsFindTheirLeg
BY Inductive, FillsLinked, PTL

\* after a run the tables are what a run makes of the world
LEMMA AtDone ==
    ASSUME IInv, stage = "done"
    PROVE  /\ silver = Silver /\ rates = CoinUsd /\ gold = Tables /\ totals = Totals
           /\ World /\ WorldOK /\ LegsOK /\ SnapshotsOK /\ SilverOK /\ now \in Nat
<1>1. Made /\ World
    BY DEF IInv, World
<1>2. silver = Silver /\ rates = CoinUsd /\ gold = Tables /\ totals = Totals
    BY <1>1 DEF Made
<1>3. WorldOK /\ LegsOK /\ SnapshotsOK /\ SilverOK
    BY <1>1, <1>2, SilverRows DEF World
<1>4. QED
    BY <1>1, <1>2, <1>3, HorizonType DEF WorldOK

---------------------------------------------------------------------------
(* The pieces of the charts.                                               *)

\* the bounds are days, so a time is within them when its day is
LEMMA WithinDays ==
    ASSUME NEW t \in Int, NEW from \in {None} \cup Int, NEW till \in {None} \cup Int
    PROVE  Within(t, Lo(from), Hi(till)) <=> Within(Day(t), from, till)
<1>0. DayLength \in Nat /\ DayLength > 0 /\ None \notin Int
    BY DomainAssumption
<1>1. Day(t) \in Int /\ Day(t) * DayLength <= t /\ t < Day(t) * DayLength + DayLength
    BY DayMonotone
<1> DEFINE L == DayLength  D == Day(t)
<1> HIDE DEF L, D
<1>2. \A e \in Int : (t >= e * L <=> D >= e) /\ (t <= e * L + L - 1 <=> D <= e)
    <2>1. L \in Nat /\ L > 0 /\ D \in Int /\ D * L <= t /\ t < D * L + L
        BY <1>0, <1>1 DEF L, D
    <2>2. TAKE e \in Int
    <2>3. CASE D = e
        BY <2>1, <2>3
    <2>4. CASE D > e
        <3>1. D * L >= (e + 1) * L
            <4>1. D >= e + 1
                BY <2>1, <2>4
            <4>2. PICK n \in Nat : D = e + 1 + n
                <5>1. D - (e + 1) \in Nat /\ D = e + 1 + (D - (e + 1))
                    BY <2>1, <4>1
                <5>2. QED
                    BY <5>1
            <4>3. D * L = (e + 1) * L + n * L
                BY <2>1, <4>2
            <4>4. n * L \in Nat /\ (e + 1) * L \in Int
                BY <2>1
            <4>5. QED
                BY <4>3, <4>4
        <3>2. (e + 1) * L = e * L + L /\ e * L \in Int /\ D * L \in Int
            BY <2>1
        <3> DEFINE x == e * L  y == D * L
        <3>3. y >= x + L /\ x \in Int /\ y \in Int /\ y <= t
            BY <2>1, <3>1, <3>2
        <3>4. t >= x /\ ~(t <= x + L - 1)
            <4> HIDE DEF x, y
            <4>1. QED
                BY <2>1, <3>3
        <3>5. QED
            BY <2>1, <2>4, <3>4
    <2>5. CASE D < e
        <3>1. e * L >= (D + 1) * L
            <4>1. e >= D + 1
                BY <2>1, <2>5
            <4>2. PICK n \in Nat : e = D + 1 + n
                <5>1. e - (D + 1) \in Nat /\ e = D + 1 + (e - (D + 1))
                    BY <2>1, <4>1
                <5>2. QED
                    BY <5>1
            <4>3. e * L = (D + 1) * L + n * L
                BY <2>1, <4>2
            <4>4. n * L \in Nat /\ (D + 1) * L \in Int
                BY <2>1
            <4>5. QED
                BY <4>3, <4>4
        <3>2. (D + 1) * L = D * L + L /\ e * L \in Int /\ D * L \in Int
            BY <2>1
        <3> DEFINE x == e * L  y == D * L
        <3>3. x >= y + L /\ x \in Int /\ y \in Int /\ t < y + L
            BY <2>1, <3>1, <3>2
        <3>4. ~(t >= x) /\ t <= x + L - 1
            <4> HIDE DEF x, y
            <4>1. QED
                BY <2>1, <3>3
        <3>5. QED
            BY <2>1, <2>5, <3>4
    <2>6. QED
        BY <2>1, <2>3, <2>4, <2>5
<1>3. Lo(from) = (IF from = None THEN None ELSE from * L)
      /\ Hi(till) = (IF till = None THEN None ELSE till * L + L - 1)
    BY DEF Lo, Hi, L
<1>4. \A e \in Int : e * L # None /\ e * L + L - 1 # None
    <2>1. \A e \in Int : e * L \in Int
        BY <1>0 DEF L
    <2>2. QED
        BY <1>0, <2>1 DEF L
<1>5. (from = None => Lo(from) = None)
          /\ (from # None => from \in Int /\ Lo(from) = from * L /\ Lo(from) # None)
    BY <1>3, <1>4
<1>6. (till = None => Hi(till) = None)
          /\ (till # None => till \in Int /\ Hi(till) = till * L + L - 1 /\ Hi(till) # None)
    BY <1>3, <1>4
<1>7. QED
    BY <1>2, <1>5, <1>6 DEF Within, D

Adjoining(from, till, d) ==
    /\ from \in Bounds /\ till \in Bounds /\ d \in Days \ {Day(Horizon)}
    /\ Within(d, from, till) /\ Within(d + 1, from, till)

LEMMA DaysInt ==
    /\ Day(Horizon) \in Int /\ Days \subseteq Int /\ Bounds \subseteq {None} \cup Int
         /\ IsFiniteSet(Days)
    /\ \A d \in Days \ {Day(Horizon)} : d + 1 \in Days
    /\ None \notin Days
<1>1. Day(Horizon) \in Int
    BY HorizonType, DayMonotone
<1>2. IsFiniteSet(0..Day(Horizon))
    BY <1>1, KeysFinite
<1>3. QED
    BY <1>1, <1>2, NoneIsNoTime DEF Days, Bounds

\* a day of the whole is in exactly one of the two pieces
LEMMA DayInOnePiece ==
    ASSUME NEW from, NEW till, NEW d, Adjoining(from, till, d), NEW e \in Int
    PROVE  /\ Within(e, from, till) <=> Within(e, from, d) \/ Within(e, d + 1, till)
           /\ ~(Within(e, from, d) /\ Within(e, d + 1, till))
BY DaysInt, NoneIsNoTime DEF Adjoining, Within

LEMMA TimeInOnePiece ==
    ASSUME NEW from, NEW till, NEW d, Adjoining(from, till, d), NEW t \in Int
    PROVE  /\ Within(t, Lo(from), Hi(till)) <=>
                 Within(t, Lo(from), Hi(d)) \/ Within(t, Lo(d + 1), Hi(till))
           /\ ~(Within(t, Lo(from), Hi(d)) /\ Within(t, Lo(d + 1), Hi(till)))
           /\ Within(t, Lo(None), Hi(None))
<1>1. from \in {None} \cup Int /\ till \in {None} \cup Int /\ d \in {None} \cup Int
          /\ d + 1 \in {None} \cup Int
    BY DaysInt DEF Adjoining
<1>2. Day(t) \in Int
    BY DayMonotone
<1>3. /\ Within(t, Lo(from), Hi(till)) <=> Within(Day(t), from, till)
      /\ Within(t, Lo(from), Hi(d)) <=> Within(Day(t), from, d)
      /\ Within(t, Lo(d + 1), Hi(till)) <=> Within(Day(t), d + 1, till)
    BY <1>1, WithinDays
<1>4. Within(t, Lo(None), Hi(None))
    BY DEF Within, Lo, Hi
<1>5. QED
    BY <1>2, <1>3, <1>4, DayInOnePiece

LEMMA EquityPieces ==
    ASSUME NEW subs, NEW from, NEW till, NEW d, Adjoining(from, till, d),
           \A r \in gold.equity : r.at \in Int
    PROVE  LET one == EquityPoints(subs, from, d)
               other == EquityPoints(subs, d + 1, till)
           IN  /\ EquityPoints(subs, from, till) = one \cup other /\ one \cap other = {}
               /\ \A p \in one \cup other : p \in EquityPoints(subs, None, None)
<1> DEFINE mine == {r \in gold.equity : r.sub \in subs}
           Rows(a, b) == {r \in mine : Within(r.at, Lo(a), Hi(b))}
           Value(t) == SumFunction([q \in {x \in mine : x.at = t} |-> q.v])
           Point(t) == [t |-> t, v |-> Value(t)]
<1>1. ASSUME NEW a, NEW b
      PROVE  EquityPoints(subs, a, b) = {Point(r.at) : r \in Rows(a, b)}
    <2>1. EquityPoints(subs, a, b) =
            {[t |-> r.at, v |-> SumFunction([q \in {x \in Rows(a, b) : x.at = r.at} |-> q.v])]
                : r \in Rows(a, b)}
        <3>1. Rows(a, b) = {r \in gold.equity : r.sub \in subs /\ Within(r.at, Lo(a), Hi(b))}
            OBVIOUS
        <3> HIDE DEF Rows
        <3>2. QED
            BY <3>1 DEF EquityPoints
    <2>2. ASSUME NEW r \in Rows(a, b)
          PROVE  {x \in Rows(a, b) : x.at = r.at} = {x \in mine : x.at = r.at}
        OBVIOUS
    <2> HIDE DEF Rows, mine
    <2>3. \A r \in Rows(a, b) :
            [t |-> r.at, v |-> SumFunction([q \in {x \in Rows(a, b) : x.at = r.at} |-> q.v])]
                = Point(r.at)
        BY <2>2
    <2> HIDE DEF Point
    <2>4. QED
        BY <2>1, <2>3
<1>2. \A t : Point(t).t = t
    OBVIOUS
<1>3. /\ Rows(from, till) = Rows(from, d) \cup Rows(d + 1, till)
      /\ \A r \in Rows(from, d), q \in Rows(d + 1, till) : r.at # q.at
      /\ Rows(from, d) \cup Rows(d + 1, till) \subseteq Rows(None, None)
    <2>1. \A r \in mine : r.at \in Int
        OBVIOUS
    <2> HIDE DEF mine
    <2>2. QED
        BY <2>1, TimeInOnePiece
<1> HIDE DEF Rows, Point
<1>4. QED
    BY <1>1, <1>2, <1>3

LEMMA CoinPieces ==
    ASSUME NEW subs, NEW ccy, NEW from, NEW till, NEW d, Adjoining(from, till, d),
           \A r \in gold.coins : r.at \in Int
    PROVE  CoinPoints(subs, ccy, from, till) =
               CoinPoints(subs, ccy, from, d) \cup CoinPoints(subs, ccy, d + 1, till)
<1> DEFINE mine == {r \in gold.coins : r.sub \in subs /\ r.ccy = ccy}
           Rows(a, b) == {r \in mine : Within(r.at, Lo(a), Hi(b))}
           Value(t) == SumFunction([q \in {x \in mine : x.at = t} |-> q.total])
           Point(t) == [t |-> t, v |-> Value(t)]
<1>1. ASSUME NEW a, NEW b
      PROVE  CoinPoints(subs, ccy, a, b) = {Point(r.at) : r \in Rows(a, b)}
    <2>1. CoinPoints(subs, ccy, a, b) =
            {[t |-> r.at, v |-> SumFunction([q \in {x \in Rows(a, b) : x.at = r.at} |-> q.total])]
                : r \in Rows(a, b)}
        <3>1. Rows(a, b) = {r \in gold.coins : r.sub \in subs /\ r.ccy = ccy
                                               /\ Within(r.at, Lo(a), Hi(b))}
            OBVIOUS
        <3> HIDE DEF Rows
        <3>2. QED
            BY <3>1 DEF CoinPoints
    <2>2. ASSUME NEW r \in Rows(a, b)
          PROVE  {x \in Rows(a, b) : x.at = r.at} = {x \in mine : x.at = r.at}
        OBVIOUS
    <2> HIDE DEF Rows, mine
    <2>3. \A r \in Rows(a, b) :
            [t |-> r.at, v |-> SumFunction([q \in {x \in Rows(a, b) : x.at = r.at} |-> q.total])]
                = Point(r.at)
        BY <2>2
    <2> HIDE DEF Point
    <2>4. QED
        BY <2>1, <2>3
<1>2. Rows(from, till) = Rows(from, d) \cup Rows(d + 1, till)
    <2>1. \A r \in mine : r.at \in Int
        OBVIOUS
    <2> HIDE DEF mine
    <2>2. QED
        BY <2>1, TimeInOnePiece
<1> HIDE DEF Rows, Point
<1>3. QED
    BY <1>1, <1>2

LEMMA BarPieces ==
    ASSUME NEW table, NEW cells, NEW from, NEW till, NEW d, Adjoining(from, till, d)
    PROVE  Bars(table, cells, from, till) =
               Bars(table, cells, from, d) \cup Bars(table, cells, d + 1, till)
<1> DEFINE row(c, e) == table[<<c[1], c[2], e>>]
           Shown(e) == \E c \in cells : HasRow(row(c, e))
           Bar(e) == [day |-> e, net |-> SumFunction([c \in cells |-> row(c, e).netUsd]),
                      fees |-> SumFunction([c \in cells |-> row(c, e).feesUsd])]
<1>1. \A a, b : Bars(table, cells, a, b) = {Bar(e) : e \in {x \in Days : Within(x, a, b) /\ Shown(x)}}
    BY DEF Bars
<1> HIDE DEF Bar, Shown
<1>2. {x \in Days : Within(x, from, till) /\ Shown(x)} =
        {x \in Days : Within(x, from, d) /\ Shown(x)}
            \cup {x \in Days : Within(x, d + 1, till) /\ Shown(x)}
    BY DaysInt, DayInOnePiece
<1>3. QED
    BY <1>1, <1>2

LEMMA AvailableBounds ==
    ASSUME NEW points, NEW bars, IsFiniteSet(points), IsFiniteSet(bars),
           \A p \in points : p.t \in Int, \A b \in bars : b.day \in Int, NEW p \in points
    PROVE  Within(p.t, Available(points, bars)[1], Available(points, bars)[2])
<1> DEFINE T == {q.t : q \in points}
           A == {b.day * DayLength : b \in bars}
           B == {(b.day + 1) * DayLength : b \in bars}
           moments == T \cup UNION {{b.day * DayLength, (b.day + 1) * DayLength} : b \in bars}
<1>1. moments = T \cup (A \cup B)
    OBVIOUS
<1>2. IsFiniteSet(T) /\ IsFiniteSet(A) /\ IsFiniteSet(B)
    <2> DEFINE f == [q \in points |-> q.t]
               g == [b \in bars |-> b.day * DayLength]
               h == [b \in bars |-> (b.day + 1) * DayLength]
    <2>1. T = {f[q] : q \in points} /\ A = {g[b] : b \in bars} /\ B = {h[b] : b \in bars}
        OBVIOUS
    <2> HIDE DEF f, g, h
    <2>2. IsFiniteSet({f[q] : q \in points}) /\ IsFiniteSet({g[b] : b \in bars})
          /\ IsFiniteSet({h[b] : b \in bars})
        BY FiniteImage
    <2>3. QED
        BY <2>1, <2>2
<1>3. T \subseteq Int /\ A \subseteq Int /\ B \subseteq Int
    <2>1. DayLength \in Int
        BY DomainAssumption
    <2>2. \A e \in Int : e * DayLength \in Int /\ (e + 1) * DayLength \in Int
        BY <2>1
    <2>3. QED
        BY <2>2
<1>4. p.t \in moments
    OBVIOUS
<1> HIDE DEF T, A, B
<1>5. IsFiniteSet(moments) /\ moments \subseteq Int
    <2>1. IsFiniteSet(A \cup B)
        BY <1>2, FS_Union
    <2>2. IsFiniteSet(T \cup (A \cup B))
        BY <1>2, <2>1, FS_Union
    <2> HIDE DEF moments
    <2>3. QED
        BY <1>1, <1>3, <2>2
<1>6. Available(points, bars) = IF moments = {} THEN <<>> ELSE <<Min(moments), Max(moments)>>
    BY DEF Available, T
<1> HIDE DEF moments
<1>7. Available(points, bars) = <<Min(moments), Max(moments)>>
    BY <1>4, <1>6
<1>8. Min(moments) <= p.t /\ p.t <= Max(moments)
    BY <1>4, <1>5, MinMax
<1>9. QED
    BY <1>7, <1>8 DEF Within

\* gold has at most one row per balance, at its time
LEMMA EquityRows ==
    ASSUME IInv, stage = "done"
    PROVE  /\ IsFiniteSet(gold.equity) /\ \A r \in gold.equity : r.at \in 0..now
           /\ gold.coins = silver.balances
<1> DEFINE mine(sub, at) == {q \in silver.balances : q.sub = sub /\ q.at = at}
           Row(r) == [sub |-> r.sub, at |-> r.at,
                      v |-> SumFunction([q \in mine(r.sub, r.at) |-> q.usd])]
<1>0. gold = Tables /\ SilverOK
    BY AtDone
<1>1. gold.equity = {Row(r) : r \in silver.balances} /\ gold.coins = silver.balances
    BY <1>0 DEF Tables, BalanceTimeseries
<1>2. \A r : Row(r).at = r.at
    OBVIOUS
<1> HIDE DEF Row
<1>3. IsFiniteSet({[x \in silver.balances |-> Row(x)][r] : r \in silver.balances})
    <2>1. IsFiniteSet(silver.balances)
        BY <1>0 DEF SilverOK
    <2>2. QED
        BY <2>1, FiniteImage
<1>4. {[x \in silver.balances |-> Row(x)][r] : r \in silver.balances}
          = {Row(r) : r \in silver.balances}
    OBVIOUS
<1>5. \A r \in silver.balances : r.at \in 0..now
    BY <1>0 DEF SilverOK
<1>6. QED
    BY <1>1, <1>2, <1>3, <1>4, <1>5

LEMMA PointsFinite ==
    ASSUME NEW subs, IsFiniteSet(gold.equity), \A r \in gold.equity : r.at \in Int
    PROVE  /\ IsFiniteSet(EquityPoints(subs, None, None))
           /\ \A p \in EquityPoints(subs, None, None) : p.t \in Int
<1> DEFINE Rows == {r \in gold.equity : r.sub \in subs /\ Within(r.at, Lo(None), Hi(None))}
           Point(r) == [t |-> r.at, v |-> SumFunction([q \in {x \in Rows : x.at = r.at} |-> q.v])]
<1>1. EquityPoints(subs, None, None) = {Point(r) : r \in Rows}
    BY DEF EquityPoints
<1>2. \A r : Point(r).t = r.at
    OBVIOUS
<1>3. IsFiniteSet(Rows) /\ \A r \in Rows : r.at \in Int
    BY FS_Subset
<1> HIDE DEF Point, Rows
<1>4. IsFiniteSet({[x \in Rows |-> Point(x)][r] : r \in Rows})
    BY <1>3, FiniteImage
<1>5. {[x \in Rows |-> Point(x)][r] : r \in Rows} = {Point(r) : r \in Rows}
    OBVIOUS
<1>6. QED
    BY <1>1, <1>2, <1>3, <1>4, <1>5

LEMMA BarsFinite ==
    ASSUME NEW table, NEW cells, NEW from, NEW till
    PROVE  /\ IsFiniteSet(Bars(table, cells, from, till))
           /\ \A b \in Bars(table, cells, from, till) : b.day \in Int
<1> DEFINE row(c, e) == table[<<c[1], c[2], e>>]
           days == {d \in Days : Within(d, from, till) /\ \E c \in cells : HasRow(row(c, d))}
           Bar(e) == [day |-> e, net |-> SumFunction([c \in cells |-> row(c, e).netUsd]),
                      fees |-> SumFunction([c \in cells |-> row(c, e).feesUsd])]
<1>1. Bars(table, cells, from, till) = {Bar(e) : e \in days}
    BY DEF Bars
<1>2. \A e : Bar(e).day = e
    OBVIOUS
<1>3. IsFiniteSet(days) /\ days \subseteq Int
    BY DaysInt, FS_Subset
<1> HIDE DEF Bar, days
<1>4. IsFiniteSet({[x \in days |-> Bar(x)][e] : e \in days})
    BY <1>3, FiniteImage
<1>5. {[x \in days |-> Bar(x)][e] : e \in days} = {Bar(e) : e \in days}
    OBVIOUS
<1>6. QED
    BY <1>1, <1>2, <1>3, <1>4, <1>5

LEMMA PiecesMake == IInv => PiecesMakeTheWhole
<1> SUFFICES ASSUME IInv, stage = "done",
                    NEW u \in Users, NEW from \in Bounds, NEW till \in Bounds,
                    NEW d \in Days \ {Day(Horizon)},
                    Within(d, from, till), Within(d + 1, from, till)
             PROVE  LET subs == SubsOf(u)
                        one == EquityPoints(subs, from, d)
                        other == EquityPoints(subs, d + 1, till)
                        ends == Available(EquityPoints(subs, None, None), PnlBars(subs, None, None))
                    IN  /\ EquityPoints(subs, from, till) = one \cup other /\ one \cap other = {}
                        /\ PnlBars(subs, from, till) = PnlBars(subs, from, d)
                             \cup PnlBars(subs, d + 1, till)
                        /\ \A p \in one \cup other : Within(p.t, ends[1], ends[2])
                        /\ \A c \in Coins :
                              /\ CoinPoints(subs, c, from, till) =
                                     CoinPoints(subs, c, from, d)
                                         \cup CoinPoints(subs, c, d + 1, till)
                              /\ CoinBars(subs, c, from, till) =
                                     CoinBars(subs, c, from, d) \cup CoinBars(subs, c, d + 1, till)
    BY DEF PiecesMakeTheWhole
<1> DEFINE subs == SubsOf(u)
           all == EquityPoints(subs, None, None)
           bars == PnlBars(subs, None, None)
<1>1. Adjoining(from, till, d)
    BY DEF Adjoining
<1>2. /\ IsFiniteSet(gold.equity) /\ \A r \in gold.equity : r.at \in Int
      /\ \A r \in gold.coins : r.at \in Int
    <2>1. SilverOK /\ now \in Nat
        BY AtDone
    <2>2. \A r \in silver.balances : r.at \in 0..now
        BY <2>1 DEF SilverOK
    <2>3. QED
        BY <2>1, <2>2, EquityRows
<1> HIDE DEF subs
<1>3. /\ EquityPoints(subs, from, till) = EquityPoints(subs, from, d)
           \cup EquityPoints(subs, d + 1, till)
      /\ EquityPoints(subs, from, d) \cap EquityPoints(subs, d + 1, till) = {}
      /\ \A p \in EquityPoints(subs, from, d) \cup EquityPoints(subs, d + 1, till) : p \in all
    BY <1>1, <1>2, EquityPieces
<1>4. \A p \in all : Within(p.t, Available(all, bars)[1], Available(all, bars)[2])
    <2>1. IsFiniteSet(all) /\ \A p \in all : p.t \in Int
        BY <1>2, PointsFinite
    <2>2. IsFiniteSet(bars) /\ \A b \in bars : b.day \in Int
        BY BarsFinite DEF PnlBars
    <2> HIDE DEF all, bars
    <2>3. QED
        BY <2>1, <2>2, AvailableBounds
<1>5. PnlBars(subs, from, till) = PnlBars(subs, from, d) \cup PnlBars(subs, d + 1, till)
    BY <1>1, BarPieces DEF PnlBars
<1>6. \A c \in Coins :
        /\ CoinPoints(subs, c, from, till) = CoinPoints(subs, c, from, d)
             \cup CoinPoints(subs, c, d + 1, till)
        /\ CoinBars(subs, c, from, till) = CoinBars(subs, c, from, d)
             \cup CoinBars(subs, c, d + 1, till)
    BY <1>1, <1>2, CoinPieces, BarPieces DEF CoinBars
<1>7. QED
    BY <1>3, <1>4, <1>5, <1>6 DEF subs

\* The points and bars that the dashboard loads of two adjoining periods are those of the whole,
\* none twice, and within what it announces as available (web/reports.py).
THEOREM Pieces == Spec => []PiecesMakeTheWhole
BY Inductive, PiecesMake, PTL

---------------------------------------------------------------------------
(* The legs of gold.                                                       *)

LegRowOK(g) ==
    /\ g.id \in KnownLegs /\ g.sub = LegInfo[g.id].sub /\ g.strategy = box[g.id]
    /\ g.underlying = LegInfo[g.id].underlying
    /\ g.strike = LegInfo[g.id].strike /\ g.opened = opened[g.id] /\ g.expires = Expiry(g.id)
    /\ g.coin = SizeInCoin(LegInfo[g.id].underlying, LegInfo[g.id].size)
    /\ g.id \in collected => /\ g.status = "closed" /\ g.closed = closed[g.id]
                             /\ g.closeType
                                  = (IF Expiry(g.id) = closed[g.id] THEN "expiry" ELSE "close")
    /\ g.id \notin collected => g.status \in {"open", "stale"} /\ g.closed = None
    /\ g.seen = (IF SeenIn(g.id) = {} THEN None ELSE Max({s.at : s \in SeenIn(g.id)}))
    /\ g.id \in collected => g.pnl = PnlUsd(g.id)

\* a row of gold.legs is the leg of silver it was made of
LEMMA LegRows ==
    ASSUME IInv, stage = "done"
    PROVE  /\ gold.legs = {PositionLeg(l) : l \in KnownLegs}
           /\ \A g \in gold.legs : LegRowOK(g)
           /\ \A g, h \in gold.legs : g.id = h.id => g = h
           /\ IsFiniteSet(gold.legs)
<1>1. gold.legs = {PositionLeg(l) : l \in KnownLegs}
    BY AtDone DEF Tables
<1>2. ASSUME NEW l \in KnownLegs PROVE LegRowOK(PositionLeg(l)) /\ PositionLeg(l).id = l
    <2>1. PositionLeg(l).id = l
        BY DEF PositionLeg
    <2>2. StatusOf(l) = "closed" <=> l \in collected
        BY DEF StatusOf
    <2>3. StatusOf(l) \in {"closed", "open", "stale"}
        BY DEF StatusOf
    <2>4. QED
        BY <2>1, <2>2, <2>3 DEF PositionLeg, LegRowOK
<1>3. IsFiniteSet(KnownLegs)
    <2>1. KnownLegs \subseteq Legs /\ IsFiniteSet(Legs)
        <3>1. World
            BY DEF IInv, World
        <3>2. QED
            BY <3>1, KnownLegTimes, GoldAssumption
    <2>2. QED
        BY <2>1, FS_Subset
<1>4. IsFiniteSet({[l \in KnownLegs |-> PositionLeg(l)][m] : m \in KnownLegs})
    BY <1>3, FiniteImage
<1>5. {[l \in KnownLegs |-> PositionLeg(l)][m] : m \in KnownLegs} = {PositionLeg(l) : l \in KnownLegs}
    OBVIOUS
<1>6. \A g \in gold.legs : LegRowOK(g) /\ PositionLeg(g.id) = g
    BY <1>1, <1>2
<1>7. QED
    BY <1>1, <1>4, <1>5, <1>6

\* When the leg was seen, and until when it is taken to be open.
LegTimesOK(g) ==
    /\ g.id \in Legs /\ g.opened \in 0..now /\ g.expires \in Nat
    /\ g.strike \in Int /\ g.underlying # None /\ g.coin \in Int \cup {None}
    /\ g.status = "closed" => /\ g.closed \in 0..now /\ g.closed <= g.expires
                              /\ g.closed = closed[g.id] /\ g.opened < g.closed
                              /\ (g.closeType = "expiry" <=> g.closed = g.expires)
    /\ g.status # "closed" =>
          /\ g.seen \in 0..now /\ g.seen <= g.expires /\ g.opened <= g.seen
          /\ closed[g.id] # None => closed[g.id] \in 0..now /\ g.seen <= closed[g.id]

\* a leg was opened, seen and closed in this order, and not after its expiry
LEMMA LegTimes ==
    ASSUME IInv, stage = "done", NEW g \in gold.legs
    PROVE  LegTimesOK(g)
<1>1. World /\ WorldOK /\ LegsOK /\ SnapshotsOK /\ now \in Nat
    BY AtDone
<1>2. LegRowOK(g)
    BY LegRows
<1>3. g.id \in Legs /\ opened[g.id] \in 0..now
    BY <1>1, <1>2, KnownLegTimes DEF LegRowOK
<1>4. Expiry(g.id) \in Nat /\ LegInfo[g.id].strike \in Int /\ LegInfo[g.id].underlying # None
      /\ CtVal[LegInfo[g.id].underlying] \in Int \cup {None} /\ LegInfo[g.id].size \in Int
    BY <1>3, LegType, ExpiryType
<1>5. g.coin \in Int \cup {None}
    BY <1>2, <1>4 DEF LegRowOK, SizeInCoin
<1>6. ASSUME g.id \in collected
      PROVE  g.closed \in 0..now /\ g.closed <= g.expires /\ g.closed = closed[g.id]
                 /\ g.opened < g.closed
    <2>1. g.closed = closed[g.id] /\ g.expires = Expiry(g.id) /\ g.opened = opened[g.id]
        BY <1>2, <1>6 DEF LegRowOK
    <2>2. closed[g.id] # None /\ closed[g.id] \in {None} \cup 0..now
        BY <1>1, <1>3, <1>6 DEF WorldOK
    <2>3. opened[g.id] < closed[g.id] /\ closed[g.id] <= Expiry(g.id)
        BY <1>1, <1>3, <2>2 DEF LegsOK
    <2>4. QED
        BY <2>1, <2>2, <2>3
<1>7. ASSUME g.id \notin collected
      PROVE  /\ g.seen \in 0..now /\ g.seen <= g.expires /\ g.opened <= g.seen
             /\ closed[g.id] # None => closed[g.id] \in 0..now /\ g.seen <= closed[g.id]
    <2> DEFINE S == SeenIn(g.id)  T == {s.at : s \in S}
    <2>1. S # {} /\ S \subseteq snapshots /\ \A s \in S : g.id \in s.legs
        BY <1>2, <1>7 DEF LegRowOK, KnownLegs, SeenIn
    <2>2. \A s \in S : /\ s.at \in 0..now /\ opened[g.id] <= s.at /\ s.at <= Expiry(g.id)
                       /\ closed[g.id] # None => s.at <= closed[g.id]
        BY <1>1, <2>1 DEF SnapshotsOK
    <2>3. IsFiniteSet(T)
        <3>1. IsFiniteSet(S)
            BY <1>1, <2>1, FS_Subset DEF SnapshotsOK
        <3>2. IsFiniteSet({[s \in S |-> s.at][u] : u \in S})
            BY <3>1, FiniteImage
        <3>3. {[s \in S |-> s.at][u] : u \in S} = T
            OBVIOUS
        <3>4. QED
            BY <3>2, <3>3
    <2>4. g.seen = IF S = {} THEN None ELSE Max(T)
        BY <1>2 DEF LegRowOK
    <2>5. T # {} /\ T \subseteq Int
        BY <2>1, <2>2
    <2>6. Max(T) \in T
        <3> HIDE DEF T
        <3>1. QED
            BY <2>3, <2>5, MinMax
    <2>7. PICK s \in S : s.at = g.seen
        BY <2>1, <2>4, <2>6
    <2>8. closed[g.id] \in {None} \cup 0..now
        BY <1>1, <1>3 DEF WorldOK
    <2>9. g.expires = Expiry(g.id) /\ g.opened = opened[g.id]
        BY <1>2 DEF LegRowOK
    <2> HIDE DEF S, T
    <2>10. QED
        BY <2>2, <2>7, <2>8, <2>9
<1>8. g.id \in collected => (g.closeType = "expiry" <=> g.closed = g.expires)
    BY <1>2 DEF LegRowOK
<1>9. g.status = "closed" <=> g.id \in collected
    BY <1>2 DEF LegRowOK
<1>10. QED
    BY <1>2, <1>3, <1>4, <1>5, <1>6, <1>7, <1>8, <1>9 DEF LegRowOK, LegTimesOK

---------------------------------------------------------------------------
(* The boxes.                                                              *)

LEMMA Image ==
    ASSUME NEW S, IsFiniteSet(S), S # {}, NEW f, \A x \in S : f[x] \in Int,
           NEW T, T = {f[x] : x \in S}
    PROVE  /\ IsFiniteSet(T) /\ T # {} /\ T \subseteq Int
           /\ \A x \in S : Min(T) <= f[x] /\ f[x] <= Max(T)
           /\ Min(T) \in T /\ Max(T) \in T
<1>1. IsFiniteSet(T)
    BY FiniteImage
<1>2. T # {} /\ T \subseteq Int /\ \A x \in S : f[x] \in T
    OBVIOUS
<1>3. Min(T) \in T /\ Max(T) \in T /\ \A y \in T : Min(T) <= y /\ y <= Max(T)
    BY <1>1, <1>2, MinMax
<1>4. QED
    BY <1>1, <1>2, <1>3

\* the first of a tuple's known elements, when it is the first element
LEMMA FirstKnownIsFirst ==
    ASSUME NEW values, DOMAIN values = 1..Len(values), Len(values) \in Nat, 1 \in DOMAIN values,
           values[1] # None
    PROVE  FirstKnown(values) = values[1]
<1> DEFINE known == {n \in DOMAIN values : values[n] # None}
<1>1. 1 \in known /\ \A n \in known : n \in Int /\ 1 <= n /\ n <= Len(values)
    OBVIOUS
<1>2. IsFiniteSet(known)
    <2>1. IsFiniteSet(0..Len(values))
        BY KeysFinite
    <2>2. known \subseteq 0..Len(values)
        <3> HIDE DEF known
        <3>1. QED
            BY <1>1
    <2>3. QED
        BY <2>1, <2>2, FS_Subset
<1>3. FirstKnown(values) = values[Min(known)]
    BY DEF FirstKnown
<1> HIDE DEF known
<1>4. Min(known) \in known /\ \A n \in known : Min(known) <= n
    BY <1>1, <1>2, MinMax
<1>5. Min(known) \in Int /\ 1 <= Min(known) /\ Min(known) <= 1
    BY <1>1, <1>4
<1>6. Min(known) = 1
    BY <1>5
<1>7. QED
    BY <1>3, <1>6

\* the line of a leg ends at its expiry, which is known of every option
LEMMA LineEndIsExpiry ==
    ASSUME IInv, stage = "done", NEW g \in gold.legs
    PROVE  LineEnd(g) = g.expires /\ LineEnd(g) \in Int
<1> DEFINE values == <<g.expires, g.closed, g.seen, g.opened>>
<1>1. g.expires \in Nat /\ g.expires # None
    BY LegTimes, NoneIsNoTime DEF LegTimesOK
<1>2. /\ DOMAIN values = 1..Len(values) /\ Len(values) = 4 /\ 1 \in DOMAIN values
      /\ values[1] = g.expires /\ LineEnd(g) = FirstKnown(values)
    BY DEF LineEnd
<1> HIDE DEF values
<1>3. FirstKnown(values) = values[1]
    BY <1>1, <1>2, FirstKnownIsFirst
<1>4. QED
    BY <1>1, <1>2, <1>3

Group(legs, k) == {g \in legs : GroupKey(g) = k}

\* the box of the group is a frame of its legs
FrameOK(b, k, G) ==
    /\ b.sub = k[1] /\ b.strategy = k[2] /\ b.underlying = k[3] /\ b.legs = {g.id : g \in G}
    /\ b.open = Cardinality({g \in G : g.status = "open"})
    /\ \A g \in G : b.start <= g.opened /\ LineEnd(g) <= b.end /\ g.strike \in b.lo..b.hi
    /\ \E g \in G : b.start = g.opened
    /\ \E g \in G : b.end = LineEnd(g)

\* the frame of a group of legs contains their lines and strikes
LEMMA Frame ==
    ASSUME IInv, stage = "done", NEW G, G # {}, G \subseteq gold.legs, NEW k
    PROVE  FrameOK(BoxOfGroup(k, G), k, G)
<1>1. IsFiniteSet(G) /\ \A g \in G : LegTimesOK(g) /\ g.opened \in Int /\ g.strike \in Int
          /\ LineEnd(g) \in Int
    <2>1. IsFiniteSet(G)
        BY LegRows, FS_Subset
    <2>2. \A g \in G : LegTimesOK(g) /\ LineEnd(g) \in Int
        BY LegTimes, LineEndIsExpiry
    <2>3. now \in Nat
        BY AtDone
    <2>4. QED
        BY <2>1, <2>2, <2>3 DEF LegTimesOK
<1> DEFINE b == BoxOfGroup(k, G)
           f == [g \in G |-> g.opened]
           h == [g \in G |-> LineEnd(g)]
           s == [g \in G |-> g.strike]
           F == {g.opened : g \in G}
           H == {LineEnd(g) : g \in G}
           S == {g.strike : g \in G}
<1>2. F = {f[g] : g \in G} /\ H = {h[g] : g \in G} /\ S = {s[g] : g \in G}
    OBVIOUS
<1>3. \A g \in G : f[g] \in Int /\ h[g] \in Int /\ s[g] \in Int
                   /\ f[g] = g.opened /\ h[g] = LineEnd(g) /\ s[g] = g.strike
    BY <1>1
<1>4. /\ b.sub = k[1] /\ b.strategy = k[2] /\ b.underlying = k[3] /\ b.legs = {g.id : g \in G}
      /\ b.open = Cardinality({g \in G : g.status = "open"})
      /\ b.start = Min(F) /\ b.end = Max(H) /\ b.lo = Min(S) /\ b.hi = Max(S)
    BY DEF BoxOfGroup
<1> HIDE DEF b, f, h, s, F, H, S
<1>5. (\A g \in G : Min(F) <= f[g]) /\ Min(F) \in F
    <2>1. F = {f[g] : g \in G} /\ \A g \in G : f[g] \in Int
        BY <1>2, <1>3
    <2>2. QED
        BY <1>1, <2>1, Image
<1>6. (\A g \in G : h[g] <= Max(H)) /\ Max(H) \in H
    <2>1. H = {h[g] : g \in G} /\ \A g \in G : h[g] \in Int
        BY <1>2, <1>3
    <2>2. QED
        BY <1>1, <2>1, Image
<1>7. (\A g \in G : Min(S) <= s[g] /\ s[g] <= Max(S)) /\ Min(S) \in Int /\ Max(S) \in Int
    <2>1. S = {s[g] : g \in G} /\ \A g \in G : s[g] \in Int
        BY <1>2, <1>3
    <2>2. QED
        BY <1>1, <2>1, Image
<1>8. \A g \in G : b.start <= g.opened /\ LineEnd(g) <= b.end /\ g.strike \in b.lo..b.hi
    BY <1>1, <1>3, <1>4, <1>5, <1>6, <1>7
<1>9. (\E g \in G : b.start = g.opened) /\ (\E g \in G : b.end = LineEnd(g))
    BY <1>4, <1>5, <1>6 DEF F, H
<1>10. QED
    BY <1>4, <1>8, <1>9 DEF FrameOK, b

\* there is one frame for each strategy, account and underlying
LEMMA BoxesOf ==
    ASSUME IInv, stage = "done", NEW legs \in SUBSET gold.legs
    PROVE  /\ BuildBoxes(legs) =
                 {BoxOfGroup(k, Group(legs, k)) : k \in {GroupKey(g) : g \in legs}}
           /\ \A g \in legs : FrameOK(BoxOfGroup(GroupKey(g), Group(legs, GroupKey(g))),
                                      GroupKey(g), Group(legs, GroupKey(g)))
<1>1. Drawable(legs) = legs
    BY LegTimes, NoneIsNoTime DEF Drawable, LegTimesOK
<1>2. BuildBoxes(legs) = {BoxOfGroup(k, Group(legs, k)) : k \in {GroupKey(g) : g \in legs}}
    BY <1>1 DEF BuildBoxes, Group
<1>3. \A g \in legs : g \in Group(legs, GroupKey(g)) /\ Group(legs, GroupKey(g)) \subseteq gold.legs
    BY DEF Group
<1>4. QED
    BY <1>2, <1>3, Frame

\* The chart's boxes are those of the legs it shows, whether they are gold's or built anew.
Shown(subs, y, from, till) ==
    {g \in gold.legs : g.sub \in subs /\ g.underlying = y /\ InPeriod(g, Lo(from), Hi(till))}

LEMMA ChartParts ==
    ASSUME IInv, stage = "done", NEW subs, NEW y, NEW from \in Bounds, NEW till \in Bounds
    PROVE  LET chart == PriceBoxes(subs, y, from, till)
               shown == Shown(subs, y, from, till)
           IN  /\ chart.legs = shown /\ chart.boxes = BuildBoxes(shown)
               /\ chart.exposure = ExposureSegments(shown, now)
<1> DEFINE chart == PriceBoxes(subs, y, from, till)
           shown == Shown(subs, y, from, till)
           whole == {b \in totals.boxes : b.sub \in subs /\ b.underlying = y}
<1>1. /\ chart.legs = shown /\ chart.exposure = ExposureSegments(shown, now)
      /\ chart.boxes = IF from = None /\ till = None THEN whole ELSE BuildBoxes(shown)
    BY DEF PriceBoxes, Shown
<1>2. ASSUME from = None, till = None PROVE whole = BuildBoxes(shown)
    <2>1. shown = {g \in gold.legs : g.sub \in subs /\ g.underlying = y}
        BY <1>2 DEF Shown, InPeriod, Lo, Hi
    <2>2. totals.boxes = BuildBoxes(gold.legs)
        BY AtDone DEF Totals
    <2>3. \A g : GroupKey(g) = <<g.sub, g.strategy, g.underlying>>
        BY DEF GroupKey
    <2>4. \A g \in shown : Group(shown, GroupKey(g)) = Group(gold.legs, GroupKey(g))
        BY <2>1, <2>3 DEF Group
    <2>5. /\ BuildBoxes(shown) = {BoxOfGroup(k, Group(shown, k)) : k \in {GroupKey(g) : g \in shown}}
          /\ BuildBoxes(gold.legs) =
                {BoxOfGroup(k, Group(gold.legs, k)) : k \in {GroupKey(g) : g \in gold.legs}}
        <3>1. shown \in SUBSET gold.legs /\ gold.legs \in SUBSET gold.legs
            BY <2>1
        <3>2. QED
            BY <3>1, BoxesOf
    <2>6. \A g \in gold.legs :
            LET b == BoxOfGroup(GroupKey(g), Group(gold.legs, GroupKey(g)))
            IN  b.sub = g.sub /\ b.underlying = g.underlying
        <3>1. \A g \in gold.legs : FrameOK(BoxOfGroup(GroupKey(g), Group(gold.legs, GroupKey(g))),
                                          GroupKey(g), Group(gold.legs, GroupKey(g)))
            BY BoxesOf
        <3>2. QED
            BY <2>3, <3>1 DEF FrameOK
    <2> HIDE DEF shown
    <2>7. ASSUME NEW b PROVE b \in whole <=> b \in BuildBoxes(shown)
        <3>1. ASSUME b \in whole PROVE b \in BuildBoxes(shown)
            <4>1. PICK g \in gold.legs : b = BoxOfGroup(GroupKey(g), Group(gold.legs, GroupKey(g)))
                BY <2>2, <2>5, <3>1
            <4>2. g \in shown
                BY <2>1, <2>6, <3>1, <4>1
            <4>3. b = BoxOfGroup(GroupKey(g), Group(shown, GroupKey(g)))
                BY <2>4, <4>1, <4>2
            <4>4. QED
                BY <2>5, <4>2, <4>3
        <3>2. ASSUME b \in BuildBoxes(shown) PROVE b \in whole
            <4>1. PICK g \in shown : b = BoxOfGroup(GroupKey(g), Group(shown, GroupKey(g)))
                BY <2>5, <3>2
            <4>2. g \in gold.legs /\ g.sub \in subs /\ g.underlying = y
                BY <2>1
            <4>3. b = BoxOfGroup(GroupKey(g), Group(gold.legs, GroupKey(g)))
                BY <2>4, <4>1
            <4>4. b \in totals.boxes
                BY <2>2, <2>5, <4>2, <4>3
            <4>5. QED
                BY <2>6, <4>2, <4>3, <4>4
        <3>3. QED
            BY <3>1, <3>2
    <2> HIDE DEF whole
    <2>8. QED
        BY <2>7
<1>3. QED
    BY <1>1, <1>2

LEMMA DashedLine ==
    ASSUME IInv, stage = "done", NEW g \in gold.legs, g.status = "closed"
    PROVE  ClosedEarly(g) <=> OpenUntil(g, now) < LineEnd(g)
<1>1. LineEnd(g) = g.expires
    BY LineEndIsExpiry
<1>2. /\ g.closed \in 0..now /\ g.expires \in Nat /\ g.closed <= g.expires /\ now \in Nat
      /\ (g.closeType = "expiry" <=> g.closed = g.expires)
    BY LegTimes, AtDone DEF LegTimesOK
<1>3. g.closed # None /\ g.expires # None
    BY <1>2, NoneIsNoTime
<1>4. OpenUntil(g, now) = g.closed
    BY <1>2, <1>3 DEF OpenUntil, Earlier
<1>5. QED
    BY <1>1, <1>2, <1>3, <1>4 DEF ClosedEarly

FramesOK(chart) ==
    /\ \A g \in chart.legs : \E b \in chart.boxes :
          /\ BoxesOfLeg(chart, g) = {b} /\ g.id \in b.legs
          /\ b.start <= g.opened /\ LineEnd(g) <= b.end /\ g.strike \in b.lo..b.hi
    /\ UNION {b.legs : b \in chart.boxes} = {g.id : g \in chart.legs}
    /\ \A g \in chart.legs : g.status = "closed" =>
          (ClosedEarly(g) <=> OpenUntil(g, now) < LineEnd(g))
    /\ \A b \in chart.boxes : \E w \in totals.boxes :
          /\ w.sub = b.sub /\ w.strategy = b.strategy /\ b.legs \subseteq w.legs
          /\ w.start <= b.start /\ b.end <= w.end /\ w.open >= b.open

\* The boxes of a chart are frames of its legs, within those of the whole history.
LEMMA ChartBoxes ==
    ASSUME IInv, stage = "done", NEW subs, NEW y, NEW from \in Bounds, NEW till \in Bounds
    PROVE  FramesOK(PriceBoxes(subs, y, from, till))
<1> DEFINE chart == PriceBoxes(subs, y, from, till)
           shown == Shown(subs, y, from, till)
           Box(legs, g) == BoxOfGroup(GroupKey(g), Group(legs, GroupKey(g)))
<1>1. chart.legs = shown /\ chart.boxes = BuildBoxes(shown)
    BY ChartParts
<1>2. shown \in SUBSET gold.legs /\ \A g \in shown : g.underlying = y
    BY DEF Shown
<1>3. \A g : GroupKey(g) = <<g.sub, g.strategy, g.underlying>>
    BY DEF GroupKey
<1> HIDE DEF chart, shown, Box
<1>4. \A legs \in SUBSET gold.legs :
        /\ BuildBoxes(legs) = {Box(legs, g) : g \in legs}
        /\ \A g \in legs : FrameOK(Box(legs, g), GroupKey(g), Group(legs, GroupKey(g)))
    <2>1. TAKE legs \in SUBSET gold.legs
    <2>2. BuildBoxes(legs) = {BoxOfGroup(k, Group(legs, k)) : k \in {GroupKey(g) : g \in legs}}
        BY BoxesOf
    <2>3. BuildBoxes(legs) = {Box(legs, g) : g \in legs}
        BY <2>2 DEF Box
    <2>4. \A g \in legs : FrameOK(Box(legs, g), GroupKey(g), Group(legs, GroupKey(g)))
        BY BoxesOf DEF Box
    <2>5. QED
        BY <2>3, <2>4
<1>5. chart.boxes = {Box(shown, g) : g \in shown}
      /\ \A g \in shown : FrameOK(Box(shown, g), GroupKey(g), Group(shown, GroupKey(g)))
    BY <1>1, <1>2, <1>4
<1>6. \A g \in shown : /\ Box(shown, g).sub = g.sub /\ Box(shown, g).strategy = g.strategy
                       /\ Box(shown, g).legs = {h.id : h \in Group(shown, GroupKey(g))}
                       /\ g \in Group(shown, GroupKey(g)) /\ Group(shown, GroupKey(g)) \subseteq shown
    BY <1>3, <1>5 DEF FrameOK, Group
<1>7. \A g, h \in shown : g.sub = h.sub /\ g.strategy = h.strategy => Box(shown, g) = Box(shown, h)
    <2>1. \A g, h \in shown : g.sub = h.sub /\ g.strategy = h.strategy => GroupKey(g) = GroupKey(h)
        BY <1>2, <1>3
    <2>2. QED
        BY <2>1 DEF Box
<1>8. ASSUME NEW g \in chart.legs
      PROVE  \E b \in chart.boxes :
                 /\ BoxesOfLeg(chart, g) = {b} /\ g.id \in b.legs
                 /\ b.start <= g.opened /\ LineEnd(g) <= b.end /\ g.strike \in b.lo..b.hi
    <2> DEFINE b == Box(shown, g)
    <2>1. g \in shown /\ b \in chart.boxes
        BY <1>1, <1>5
    <2>2. BoxesOfLeg(chart, g) = {b}
        <3>1. \A c \in chart.boxes : c.sub = g.sub /\ c.strategy = g.strategy => c = b
            BY <1>5, <1>6, <1>7, <2>1
        <3>2. b.sub = g.sub /\ b.strategy = g.strategy
            BY <1>6, <2>1
        <3> HIDE DEF b
        <3>3. QED
            BY <2>1, <3>1, <3>2 DEF BoxesOfLeg
    <2>3. g.id \in b.legs /\ b.start <= g.opened /\ LineEnd(g) <= b.end /\ g.strike \in b.lo..b.hi
        BY <1>5, <1>6, <2>1 DEF FrameOK
    <2>4. QED
        BY <2>1, <2>2, <2>3
<1>9. UNION {b.legs : b \in chart.boxes} = {g.id : g \in chart.legs}
    <2>1. \A g \in shown : Box(shown, g).legs \subseteq {h.id : h \in shown}
              /\ g.id \in Box(shown, g).legs
        BY <1>6
    <2>2. QED
        BY <1>1, <1>5, <2>1
<1>10. \A g \in chart.legs : g.status = "closed"
           => (ClosedEarly(g) <=> OpenUntil(g, now) < LineEnd(g))
    BY <1>1, <1>2, DashedLine
<1>11. ASSUME NEW b \in chart.boxes
       PROVE  \E w \in totals.boxes :
                 /\ w.sub = b.sub /\ w.strategy = b.strategy /\ b.legs \subseteq w.legs
                 /\ w.start <= b.start /\ b.end <= w.end /\ w.open >= b.open
    <2>1. PICK g \in shown : b = Box(shown, g)
        BY <1>5
    <2> DEFINE w == Box(gold.legs, g)
               G == Group(shown, GroupKey(g))
               W == Group(gold.legs, GroupKey(g))
    <2>2. g \in gold.legs /\ G \subseteq W
        BY <1>2 DEF Group
    <2>3. w \in totals.boxes
        <3>1. totals.boxes = BuildBoxes(gold.legs)
            BY AtDone DEF Totals
        <3>2. QED
            BY <1>4, <2>2, <3>1
    <2>4. FrameOK(w, GroupKey(g), W) /\ FrameOK(b, GroupKey(g), G)
        BY <1>4, <1>5, <2>1, <2>2
    <2>5. Cardinality({h \in G : h.status = "open"}) <= Cardinality({h \in W : h.status = "open"})
          /\ Cardinality({h \in W : h.status = "open"}) \in Nat
          /\ Cardinality({h \in G : h.status = "open"}) \in Nat
        <3> DEFINE A == {h \in G : h.status = "open"}  B == {h \in W : h.status = "open"}
        <3>1. A \subseteq B /\ B \subseteq gold.legs
            BY <2>2 DEF Group
        <3>2. IsFiniteSet(gold.legs)
            BY LegRows
        <3> HIDE DEF A, B
        <3>3. IsFiniteSet(B)
            BY <3>1, <3>2, FS_Subset
        <3>4. IsFiniteSet(A) /\ Cardinality(A) <= Cardinality(B)
            BY <3>1, <3>3, FS_Subset
        <3>5. Cardinality(A) \in Nat /\ Cardinality(B) \in Nat
            BY <3>3, <3>4, FS_CardinalityType
        <3>6. QED
            BY <3>4, <3>5 DEF A, B
    <2> HIDE DEF w, G, W
    <2>6. QED
        <3>1. w.sub = b.sub /\ w.strategy = b.strategy /\ b.legs \subseteq w.legs
            BY <2>2, <2>4 DEF FrameOK
        <3>2. w.start <= b.start /\ b.end <= w.end
            BY <2>2, <2>4 DEF FrameOK
        <3>3. w.open >= b.open
            BY <2>4, <2>5 DEF FrameOK
        <3>4. QED
            BY <2>3, <3>1, <3>2, <3>3
<1>12. QED
    BY <1>8, <1>9, <1>10, <1>11 DEF FramesOK, chart

LEMMA BoxesFrame == IInv => BoxesFrameLegs
<1> SUFFICES ASSUME IInv, stage = "done", NEW chart \in Charts
             PROVE  FramesOK(chart)
    BY DEF BoxesFrameLegs, FramesOK
<1>1. PICK u \in Users, y \in Underlyings, from \in Bounds, till \in Bounds :
        chart = PriceBoxes(SubsOf(u), y, from, till)
    BY DEF Charts
<1>2. FramesOK(PriceBoxes(SubsOf(u), y, from, till))
    BY ChartBoxes
<1>3. QED
    BY <1>1, <1>2

---------------------------------------------------------------------------
(* The size open over time.                                                *)

LEMMA SumOf ==
    ASSUME NEW S, IsFiniteSet(S), NEW f, \A x \in S : f[x] \in Int
    PROVE  /\ SumFunction([x \in S |-> f[x]]) = SumFunctionOnSet(f, S)
           /\ SumFunctionOnSet(f, S) \in Int
<1> DEFINE g == [x \in S |-> f[x]]
<1>1. SumFunction(g) = SumFunctionOnSet(g, S)
    BY DEF SumFunction
<1>2. \A x \in S : g[x] = f[x]
    OBVIOUS
<1> HIDE DEF g
<1>3. SumFunctionOnSet(g, S) = SumFunctionOnSet(f, S)
    BY <1>2, SumSame
<1>4. SumFunctionOnSet(f, S) \in Int
    BY SumType
<1>5. QED
    BY <1>1, <1>3, <1>4 DEF g

\* the sum of a set is that of a subset and of the rest
LEMMA SumSplit ==
    ASSUME NEW f, NEW S, IsFiniteSet(S), \A x \in S : f[x] \in Int, NEW A \in SUBSET S
    PROVE  SumFunctionOnSet(f, S) = SumFunctionOnSet(f, A) + SumFunctionOnSet(f, S \ A)
<1> DEFINE B == {T \in SUBSET A : SumFunctionOnSet(f, (S \ A) \cup T) =
                                  SumFunctionOnSet(f, T) + SumFunctionOnSet(f, S \ A)}
<1>0. IsFiniteSet(A) /\ IsFiniteSet(S \ A)
    BY FS_Subset
<1>1. {} \in B
    <2>1. SumFunctionOnSet(f, S \ A) \in Int
        BY <1>0, SumType
    <2>2. (S \ A) \cup {} = S \ A
        OBVIOUS
    <2>3. QED
        BY <2>1, <2>2, SumEmpty
<1>2. ASSUME NEW T \in SUBSET A, NEW x \in A \ T, T \in B PROVE T \cup {x} \in B
    <2> DEFINE U == (S \ A) \cup T
    <2>1. IsFiniteSet(T) /\ IsFiniteSet(U)
        BY <1>0, FS_Subset
    <2>2. x \notin U /\ U \subseteq S /\ (S \ A) \cup (T \cup {x}) = U \cup {x}
        OBVIOUS
    <2>3. SumFunctionOnSet(f, T \cup {x}) = f[x] + SumFunctionOnSet(f, T)
        BY <2>1, SumAdd
    <2>4. SumFunctionOnSet(f, U \cup {x}) = f[x] + SumFunctionOnSet(f, U)
        <3> HIDE DEF U
        <3>1. \A y \in U \cup {x} : f[y] \in Int
            BY <2>2
        <3>2. QED
            BY <2>1, <2>2, <3>1, SumAdd
    <2>5. SumFunctionOnSet(f, T) \in Int /\ SumFunctionOnSet(f, S \ A) \in Int /\ f[x] \in Int
        BY <1>0, <2>1, SumType
    <2>6. SumFunctionOnSet(f, U) = SumFunctionOnSet(f, T) + SumFunctionOnSet(f, S \ A)
        BY <1>2
    <2>7. SumFunctionOnSet(f, (S \ A) \cup (T \cup {x})) = SumFunctionOnSet(f, U \cup {x})
        BY <2>2
    <2> HIDE DEF U
    <2>8. SumFunctionOnSet(f, U \cup {x})
              = SumFunctionOnSet(f, T \cup {x}) + SumFunctionOnSet(f, S \ A)
        BY <2>3, <2>4, <2>5, <2>6
    <2>9. QED
        BY <2>7, <2>8
<1>3. A \in B
    <2> HIDE DEF B
    <2>1. QED
        BY <1>0, <1>1, <1>2, AddInduction
<1>4. (S \ A) \cup A = S
    OBVIOUS
<1>5. QED
    BY <1>3, <1>4

LEMMA SumByParts ==
    ASSUME NEW f, NEW S, IsFiniteSet(S), \A x \in S : f[x] \in Int,
           NEW K, IsFiniteSet(K), NEW key, \A x \in S : key[x] \in K,
           NEW g, NEW part, \A k \in K : g[k] = SumFunctionOnSet(f, part[k]),
           \A k \in K : part[k] \in SUBSET S /\ \A x \in S : x \in part[k] <=> key[x] = k
    PROVE  SumFunctionOnSet(f, S) = SumFunctionOnSet(g, K)
<1>1. ASSUME NEW k \in K PROVE g[k] = SumFunctionOnSet(f, {x \in S : key[x] = k})
    <2>1. part[k] = {x \in S : key[x] = k}
        OBVIOUS
    <2>2. QED
        BY <2>1
<1>2. QED
    BY <1>1, SumByKey

\* trimming leaves the totals at every time
LEMMA TrimmedTotal ==
    ASSUME NEW S, NEW t, \A s \in S : s.from \in Int, NEW x \in S,
           {s \in S : s.from <= t /\ t < s.to} = {x}
    PROVE  TotalAt(Trimmed(S), t) = x.total
<1> DEFINE hit == {s \in Trimmed(S) : s.from <= t /\ t < s.to}
<1>1. Trimmed(S) \subseteq S /\ (x.total # 0 => x \in Trimmed(S))
    BY DEF Trimmed
<1>2. hit \subseteq {x} /\ (x.total # 0 => hit = {x})
    BY <1>1
<1>3. The({x}) = x
    BY DEF The
<1>4. TotalAt(Trimmed(S), t) = IF hit = {} THEN 0 ELSE The(hit).total
    BY DEF TotalAt
<1> HIDE DEF hit
<1>5. hit = {} \/ hit = {x}
    BY <1>2
<1>6. QED
    BY <1>2, <1>3, <1>4, <1>5

LEMMA TrimmedNone ==
    ASSUME NEW S, NEW t, {s \in S : s.from <= t /\ t < s.to} = {}
    PROVE  TotalAt(Trimmed(S), t) = 0
<1>1. {s \in Trimmed(S) : s.from <= t /\ t < s.to} = {}
    BY DEF Trimmed
<1>2. QED
    BY <1>1 DEF TotalAt

CoinsOf(some) == SumFunction([g \in some |-> g.coin])

\* legs whose size is counted from a time to a later one
SizesOK(legs) ==
    /\ IsFiniteSet(legs)
    /\ \A g \in legs : g.opened \in Int /\ OpenUntil(g, now) \in Int /\ g.coin \in Int \cup {None}

LEMMA ChangesType ==
    ASSUME NEW legs, SizesOK(legs), now \in Int
    PROVE  /\ IsFiniteSet(Sized(legs, now)) /\ IsFiniteSet(Changes(legs, now))
           /\ Changes(legs, now) \subseteq Int
           /\ \A g \in Sized(legs, now) :
                 /\ g.coin \in Int /\ g.opened \in Changes(legs, now)
                 /\ OpenUntil(g, now) \in Changes(legs, now) /\ g.opened < OpenUntil(g, now)
<1> DEFINE S == Sized(legs, now)
           F == {g.opened : g \in S}
           H == {OpenUntil(g, now) : g \in S}
<1>1. S \subseteq legs /\ \A g \in S : /\ g.coin \in Int /\ g.opened < OpenUntil(g, now)
                                       /\ g.opened \in Int /\ OpenUntil(g, now) \in Int
    BY DEF Sized, SizesOK
<1>2. IsFiniteSet(S)
    BY <1>1, FS_Subset DEF SizesOK
<1> HIDE DEF S
<1>3. IsFiniteSet(F) /\ IsFiniteSet(H)
    <2>1. IsFiniteSet({[g \in S |-> g.opened][x] : x \in S})
          /\ IsFiniteSet({[g \in S |-> OpenUntil(g, now)][x] : x \in S})
        BY <1>2, FiniteImage
    <2>2. {[g \in S |-> g.opened][x] : x \in S} = F
          /\ {[g \in S |-> OpenUntil(g, now)][x] : x \in S} = H
        OBVIOUS
    <2>3. QED
        BY <2>1, <2>2
<1>4. Changes(legs, now) = F \cup H
    BY DEF Changes, S
<1>5. F \subseteq Int /\ H \subseteq Int
    BY <1>1
<1>6. \A g \in S : g.opened \in F /\ OpenUntil(g, now) \in H
    OBVIOUS
<1> HIDE DEF F, H
<1>7. IsFiniteSet(F \cup H)
    BY <1>3, FS_Union
<1>8. QED
    BY <1>1, <1>2, <1>4, <1>5, <1>6, <1>7 DEF S

\* The running total is the size of what is open.
LEMMA RunningTotal ==
    ASSUME NEW legs, SizesOK(legs), now \in Int, NEW t \in Int
    PROVE  TotalFrom(legs, now, t) =
               CoinsOf({g \in Sized(legs, now) : g.opened <= t /\ t < OpenUntil(g, now)})
<1> DEFINE S == Sized(legs, now)
           coin == [g \in S |-> g.coin]
           K == {v \in Changes(legs, now) : v <= t}
           A == {g \in S : g.opened <= t}
           B == {g \in S : OpenUntil(g, now) <= t}
           a == [k \in K |-> SumFunctionOnSet(coin, {g \in S : g.opened = k})]
           b == [k \in K |-> SumFunctionOnSet(coin, {g \in S : OpenUntil(g, now) = k})]
           c == [k \in K |-> ChangeAt(legs, now, k)]
           start == [g \in S |-> g.opened]
           stop == [g \in S |-> OpenUntil(g, now)]
<1>1. IsFiniteSet(S) /\ IsFiniteSet(K) /\ K \subseteq Int
      /\ \A g \in S : /\ g.coin \in Int /\ g.opened \in Int /\ OpenUntil(g, now) \in Int
                      /\ g.opened < OpenUntil(g, now)
                      /\ g.opened \in Changes(legs, now) /\ OpenUntil(g, now) \in Changes(legs, now)
    <2>1. IsFiniteSet(K)
        BY ChangesType, FS_Subset
    <2>2. QED
        BY <2>1, ChangesType
<1>2. \A g \in S : coin[g] \in Int /\ coin[g] = g.coin /\ start[g] = g.opened
          /\ stop[g] = OpenUntil(g, now)
    BY <1>1
<1> HIDE DEF S, coin, start, stop
<1>3. \A some \in SUBSET S : /\ CoinsOf(some) = SumFunctionOnSet(coin, some)
                             /\ IsFiniteSet(some) /\ SumFunctionOnSet(coin, some) \in Int
    <2>1. TAKE some \in SUBSET S
    <2>2. IsFiniteSet(some)
        BY <1>1, FS_Subset
    <2>3. [g \in some |-> g.coin] = [g \in some |-> coin[g]]
        BY <1>2
    <2>4. /\ SumFunction([g \in some |-> coin[g]]) = SumFunctionOnSet(coin, some)
          /\ SumFunctionOnSet(coin, some) \in Int
        BY <1>2, <2>2, SumOf
    <2>5. QED
        BY <2>2, <2>3, <2>4 DEF CoinsOf
<1>4. A \subseteq S /\ B \subseteq A
    BY <1>1
<1>5. SumFunctionOnSet(coin, A) = SumFunctionOnSet(a, K)
    <2>1. \A g \in A : coin[g] \in Int /\ start[g] \in K
        BY <1>1, <1>2
    <2> DEFINE part == [k \in K |-> {g \in S : g.opened = k}]
    <2>2. \A k \in K : part[k] \in SUBSET A /\ \A g \in A : g \in part[k] <=> start[g] = k
        BY <1>1, <1>2
    <2>3. \A k \in K : a[k] = SumFunctionOnSet(coin, part[k])
        OBVIOUS
    <2>4. IsFiniteSet(A)
        BY <1>3, <1>4
    <2>5. IsFiniteSet(K)
        BY <1>1
    <2> HIDE DEF A, K, a, part
    <2>6. QED
        BY <2>1, <2>2, <2>3, <2>4, <2>5, SumByParts
<1>6. SumFunctionOnSet(coin, B) = SumFunctionOnSet(b, K)
    <2>1. \A g \in B : coin[g] \in Int /\ stop[g] \in K
        BY <1>1, <1>2
    <2> DEFINE part == [k \in K |-> {g \in S : OpenUntil(g, now) = k}]
    <2>2. \A k \in K : part[k] \in SUBSET B /\ \A g \in B : g \in part[k] <=> stop[g] = k
        BY <1>1, <1>2
    <2>3. \A k \in K : b[k] = SumFunctionOnSet(coin, part[k])
        OBVIOUS
    <2>4. IsFiniteSet(B)
        BY <1>3, <1>4
    <2>5. IsFiniteSet(K)
        BY <1>1
    <2> HIDE DEF B, K, b, part
    <2>6. QED
        BY <2>1, <2>2, <2>3, <2>4, <2>5, SumByParts
<1>7. \A k \in K : a[k] \in Int /\ b[k] \in Int /\ c[k] \in Int /\ a[k] = c[k] + b[k]
    <2>1. TAKE k \in K
    <2>2. a[k] = CoinsOf({g \in S : g.opened = k})
              /\ b[k] = CoinsOf({g \in S : OpenUntil(g, now) = k})
          /\ a[k] \in Int /\ b[k] \in Int
        BY <1>3
    <2>3. c[k] = CoinsOf({g \in S : g.opened = k}) - CoinsOf({g \in S : OpenUntil(g, now) = k})
        BY DEF ChangeAt, S, CoinsOf
    <2> HIDE DEF a, b, c
    <2>4. QED
        BY <2>2, <2>3
<1>8. SumFunctionOnSet(a, K) = SumFunctionOnSet(c, K) + SumFunctionOnSet(b, K)
    <2>1. IsFiniteSet(K) /\ \A k \in K : c[k] \in Int /\ b[k] \in Int /\ a[k] = c[k] + b[k]
        BY <1>1, <1>7
    <2> HIDE DEF a, b, c, K
    <2>2. QED
        BY <2>1, SumPlus
<1>9. SumFunctionOnSet(coin, A) = SumFunctionOnSet(coin, B) + SumFunctionOnSet(coin, A \ B)
    <2>1. IsFiniteSet(A) /\ \A g \in A : coin[g] \in Int
        BY <1>2, <1>3, <1>4
    <2> HIDE DEF A, B
    <2>2. QED
        BY <1>4, <2>1, SumSplit
<1>10. TotalFrom(legs, now, t) = SumFunctionOnSet(c, K) /\ SumFunctionOnSet(c, K) \in Int
    <2>1. TotalFrom(legs, now, t) = SumFunctionOnSet(c, DOMAIN c) /\ DOMAIN c = K
        BY DEF TotalFrom, SumFunction
    <2> HIDE DEF c, K
    <2>2. SumFunctionOnSet(c, K) \in Int
        BY <1>1, <1>7, SumType
    <2>3. QED
        BY <2>1, <2>2
<1>11. A \ B = {g \in S : g.opened <= t /\ t < OpenUntil(g, now)}
    BY <1>1
<1>12. CoinsOf(A \ B) = SumFunctionOnSet(coin, A \ B) /\ SumFunctionOnSet(coin, A \ B) \in Int
       /\ SumFunctionOnSet(coin, B) \in Int
    BY <1>3, <1>4
<1>13. CoinsOf(A \ B) = CoinsOf({g \in S : g.opened <= t /\ t < OpenUntil(g, now)})
    BY <1>11
<1> HIDE DEF A, B, K, a, b, c
<1>14. TotalFrom(legs, now, t) = CoinsOf(A \ B)
    <2> DEFINE x == SumFunctionOnSet(c, K)  y == SumFunctionOnSet(coin, B)
               z == SumFunctionOnSet(coin, A \ B)
    <2>1. y + z = x + y
        BY <1>5, <1>6, <1>8, <1>9
    <2>2. x \in Int /\ y \in Int /\ z \in Int
        BY <1>10, <1>12
    <2>3. TotalFrom(legs, now, t) = x /\ CoinsOf(A \ B) = z
        BY <1>10, <1>12
    <2> HIDE DEF x, y, z
    <2>4. QED
        BY <2>1, <2>2, <2>3
<1>15. QED
    BY <1>13, <1>14 DEF S

\* The segment of a time has the total of that time: it begins at the last change of the
\* total, and whatever is trimmed has total 0.
LEMMA SegmentTotal ==
    ASSUME NEW legs, SizesOK(legs), now \in Int, NEW t \in Int
    PROVE  TotalAt(ExposureSegments(legs, now), t) = TotalFrom(legs, now, t)
<1> DEFINE times == Changes(legs, now)
           total(u) == TotalFrom(legs, now, u)
           before(u) == {v \in times : v < u}
           starts == {u \in times : before(u) = {} \/ total(Max(before(u))) # total(u)}
           last == {u \in times : \A v \in times : v <= u}
           later(u) == {v \in starts \cup last : v > u}
           end(u) == Min(later(u))
           Seg(u) == [from |-> u, to |-> end(u), total |-> total(u)]
           S == {Seg(u) : u \in starts \ last}
<1>1. ExposureSegments(legs, now) = Trimmed(S)
    BY DEF ExposureSegments
<1>2. IsFiniteSet(times) /\ times \subseteq Int
    BY ChangesType
<1>2a. \A u \in times : u \in Int
    BY <1>2
<1>3. starts \subseteq times /\ last \subseteq times
    OBVIOUS
<1>4. \A u : Seg(u).from = u /\ Seg(u).to = end(u) /\ Seg(u).total = total(u)
    OBVIOUS
<1>5. \A u \in starts \ last : later(u) # {} /\ end(u) \in later(u) /\ \A v \in later(u) : end(u) <= v
    <2>1. TAKE u \in starts \ last
    <2>2. PICK m \in times : \A v \in times : v <= m
        <3>1. times # {}
            BY <1>3
        <3> HIDE DEF times
        <3>2. QED
            BY <1>2, <3>1, MinMax
    <2>3. m \in later(u)
        <3>1. m \in last /\ u \in times /\ u <= m /\ u # m
            BY <1>3, <2>2
        <3> HIDE DEF times, last, starts
        <3>2. QED
            BY <1>2, <1>3, <3>1
    <2>4. later(u) \subseteq times
        BY <1>3
    <2> HIDE DEF times, later
    <2>5. IsFiniteSet(later(u)) /\ later(u) \subseteq Int /\ later(u) # {}
        BY <1>2, <2>3, <2>4, FS_Subset
    <2>6. QED
        BY <2>5, MinMax
<1>6. \A s \in S : s.from \in Int /\ s.from \in starts \ last
                   /\ s.to = end(s.from) /\ s = Seg(s.from)
    <2>1. \A u \in starts \ last : u \in Int
        BY <1>2, <1>3
    <2> HIDE DEF Seg, starts, last, end
    <2>2. QED
        BY <1>4, <2>1
<1>7. CASE \A u \in times : u > t
    <2>1. {s \in S : s.from <= t /\ t < s.to} = {}
        <3>1. \A s \in S : s.from \in times
            BY <1>3, <1>6
        <3> HIDE DEF S, times
        <3>2. QED
            BY <1>2a, <1>7, <3>1
    <2>2. TotalAt(Trimmed(S), t) = 0
        <3> HIDE DEF S
        <3>1. QED
            BY <2>1, TrimmedNone
    <2>3. {v \in times : v <= t} = {}
        <3> HIDE DEF times
        <3>1. QED
            BY <1>2a, <1>7
    <2>4. total(t) = 0
        <3> DEFINE f == [u \in {v \in times : v <= t} |-> ChangeAt(legs, now, u)]
        <3>1. total(t) = SumFunctionOnSet(f, DOMAIN f) /\ DOMAIN f = {}
            BY <2>3 DEF TotalFrom, SumFunction
        <3> HIDE DEF f, total
        <3>2. QED
            BY <3>1, SumEmpty
    <2>5. QED
        BY <1>1, <2>2, <2>4
<1>8. CASE times # {} /\ \A u \in times : u <= t
    <2>1. {s \in S : s.from <= t /\ t < s.to} = {}
        <3>1. \A s \in S : s.to \in times
            BY <1>3, <1>5, <1>6
        <3> HIDE DEF S, times
        <3>2. QED
            BY <1>2a, <1>8, <3>1
    <2>2. TotalAt(Trimmed(S), t) = 0
        <3> HIDE DEF S
        <3>1. QED
            BY <2>1, TrimmedNone
    <2>3. {g \in Sized(legs, now) : g.opened <= t /\ t < OpenUntil(g, now)} = {}
        <3>1. \A g \in Sized(legs, now) : OpenUntil(g, now) \in times
            BY ChangesType
        <3> HIDE DEF times
        <3>2. QED
            BY <1>2a, <1>8, <3>1
    <2>4. total(t) = 0
        <3> DEFINE some == {g \in Sized(legs, now) : g.opened <= t /\ t < OpenUntil(g, now)}
                   f == [g \in some |-> g.coin]
        <3>1. total(t) = CoinsOf(some)
            BY RunningTotal
        <3>2. CoinsOf(some) = SumFunctionOnSet(f, DOMAIN f) /\ DOMAIN f = {}
            BY <2>3 DEF CoinsOf, SumFunction
        <3> HIDE DEF f, total, some
        <3>3. QED
            BY <3>1, <3>2, SumEmpty
    <2>5. QED
        BY <1>1, <2>2, <2>4
<1>9. CASE (\E u \in times : u <= t) /\ (\E u \in times : u > t)
    <2> DEFINE upto == {u \in times : u <= t}
               begun == {u \in starts : u <= t}
    <2>1. IsFiniteSet(upto) /\ upto \subseteq Int /\ upto # {} /\ begun \subseteq upto
        <3>1. upto \subseteq times /\ upto # {} /\ begun \subseteq upto
            BY <1>3, <1>9
        <3> HIDE DEF upto, times
        <3>2. QED
            BY <1>2, <3>1, FS_Subset
    <2>2. begun # {}
        <3> DEFINE m == Min(upto)
        <3>1. m \in upto /\ \A u \in upto : m <= u
            <4> HIDE DEF upto
            <4>1. QED
                BY <2>1, MinMax
        <3>2. before(m) = {}
            <4> HIDE DEF m
            <4>1. \A v \in times : ~(v < m)
                <5>1. m \in Int /\ m <= t /\ \A v \in times : v <= t => m <= v
                    BY <1>2, <3>1
                <5> HIDE DEF times
                <5>2. QED
                    BY <1>2, <5>1
            <4>2. QED
                BY <4>1
        <3>3. m \in times /\ m <= t
            BY <3>1
        <3>4. m \in begun
            <4> HIDE DEF m, times
            <4>1. QED
                BY <3>2, <3>3
        <3>5. QED
            BY <3>4
    <2> DEFINE s == Max(begun)
               p == Max(upto)
    <2>3. IsFiniteSet(begun) /\ begun \subseteq Int
        <3> HIDE DEF begun, upto
        <3>1. QED
            BY <2>1, FS_Subset
    <2>4. s \in begun /\ (\A u \in begun : u <= s) /\ p \in upto /\ (\A u \in upto : u <= p)
        <3> HIDE DEF begun, upto
        <3>1. QED
            BY <2>1, <2>2, <2>3, MinMax
    <2> HIDE DEF s, p
    <2>5. s \in starts /\ s \in times /\ s <= t /\ s \in Int /\ p \in times /\ p \in Int /\ p <= t
        BY <1>2, <1>3, <2>4
    <2>6. s \notin last
        <3>1. PICK u \in times : u > t
            BY <1>9
        <3>2. u \in Int /\ ~(u <= s)
            BY <1>2, <2>5, <3>1
        <3>3. QED
            BY <3>2
    <2>7. t < end(s)
        <3>1. end(s) \in later(s)
            BY <1>5, <2>5, <2>6
        <3>2. end(s) \in starts \cup last /\ end(s) > s /\ end(s) \in times
            BY <1>3, <3>1
        <3> DEFINE e == end(s)
        <3>3. e \in Int
            BY <1>2, <3>2
        <3>4. SUFFICES ASSUME e <= t PROVE FALSE
            <4>1. (t < e) => t < end(s)
                OBVIOUS
            <4> HIDE DEF e
            <4>2. QED
                BY <3>3, <4>1
        <3>5. e \notin starts
            <4>1. e \in starts => e \in begun
                BY <3>4
            <4> HIDE DEF e, begun
            <4>2. QED
                BY <2>4, <2>5, <3>2, <3>3, <4>1 DEF e
        <3>6. e \in last
            BY <3>2, <3>5
        <3>7. PICK u \in times : u > t
            BY <1>9
        <3>8. u <= e /\ u \in Int
            BY <1>2, <3>6, <3>7
        <3> HIDE DEF e
        <3>9. QED
            BY <3>3, <3>4, <3>7, <3>8
    <2>8. {x \in S : x.from <= t /\ t < x.to} = {Seg(s)}
        <3>1. Seg(s) \in S /\ Seg(s).from <= t /\ t < Seg(s).to
            BY <1>4, <2>5, <2>6, <2>7
        <3>2. ASSUME NEW x \in S, x.from <= t, t < x.to PROVE x = Seg(s)
            <4>1. x.from \in starts \ last /\ x.from \in begun /\ x.from <= s /\ x.to = end(x.from)
                BY <1>6, <2>4, <3>2
            <4>2. x.from = s
                <5>1. SUFFICES ASSUME x.from # s PROVE FALSE
                    OBVIOUS
                <5>2. x.from \in Int /\ s > x.from
                    <6>1. x.from \in Int /\ x.from <= s
                        BY <1>6, <4>1
                    <6> HIDE DEF S, begun
                    <6>2. QED
                        BY <2>5, <5>1, <6>1
                <5>3. s \in later(x.from)
                    BY <2>5, <5>2
                <5>4. end(x.from) \in later(x.from) /\ end(x.from) <= s
                    BY <1>5, <4>1, <5>3
                <5>5. x.to \in Int
                    BY <1>2, <1>3, <4>1, <5>4
                <5> HIDE DEF end, S, later
                <5>6. QED
                    BY <2>5, <3>2, <4>1, <5>4, <5>5
            <4>3. x = Seg(x.from)
                BY <1>6
            <4> HIDE DEF Seg
            <4>4. QED
                BY <4>2, <4>3
        <3> HIDE DEF S, Seg
        <3>3. QED
            BY <3>1, <3>2
    <2>9. TotalAt(Trimmed(S), t) = total(s)
        <3>1. \A x \in S : x.from \in Int
            BY <1>6
        <3>2. Seg(s) \in S
            BY <2>5, <2>6
        <3> HIDE DEF S, Seg
        <3>3. TotalAt(Trimmed(S), t) = Seg(s).total
            BY <2>8, <3>1, <3>2, TrimmedTotal
        <3>4. QED
            BY <1>4, <3>3
    <2>10. total(t) = total(p)
        <3>1. {v \in times : v <= t} = {v \in times : v <= p}
            <4>1. \A v \in times : v <= t <=> v <= p
                <5>1. \A v \in times : v <= t => v <= p
                    BY <2>4
                <5> HIDE DEF times
                <5>2. QED
                    BY <1>2, <2>5, <5>1
            <4> HIDE DEF times
            <4>2. QED
                BY <4>1
        <3>2. QED
            BY <3>1 DEF TotalFrom
    <2>11. total(p) = total(s)
        <3> DEFINE other == {u \in times : s <= u /\ u <= p /\ total(u) # total(s)}
        <3>1. SUFFICES ASSUME total(p) # total(s) PROVE FALSE
            OBVIOUS
        <3>2. s <= p
            BY <2>4, <2>5
        <3>3. other # {} /\ other \subseteq Int /\ IsFiniteSet(other)
            <4>1. p \in other /\ other \subseteq times
                BY <2>5, <3>1, <3>2
            <4> HIDE DEF other, times
            <4>2. QED
                BY <1>2, <4>1, FS_Subset
        <3> DEFINE n == Min(other)
        <3>4. n \in other /\ \A u \in other : n <= u
            <4> HIDE DEF other
            <4>1. QED
                BY <3>3, MinMax
        <3> HIDE DEF n
        <3>5. n \in times /\ n \in Int /\ s <= n /\ n <= p /\ total(n) # total(s) /\ s < n
            <4>1. n \in times /\ n \in Int /\ s <= n /\ n <= p /\ total(n) # total(s)
                BY <1>2, <3>4
            <4>2. s # n
                BY <4>1
            <4> HIDE DEF total, times
            <4>3. QED
                BY <2>5, <4>1, <4>2
        <3> DEFINE q == Max(before(n))
        <3>6. q \in before(n) /\ \A v \in before(n) : v <= q
            <4>1. s \in before(n) /\ before(n) \subseteq times
                BY <2>5, <3>5
            <4> HIDE DEF before, times
            <4>2. IsFiniteSet(before(n)) /\ before(n) \subseteq Int /\ before(n) # {}
                BY <1>2, <4>1, FS_Subset
            <4>3. QED
                BY <4>2, MinMax
        <3>7. q \in times /\ q < n /\ q \in Int /\ s <= q
            <4>1. s \in before(n)
                BY <2>5, <3>5
            <4>2. QED
                BY <1>2, <3>6, <4>1
        <3> HIDE DEF q
        <3>8. total(q) = total(s)
            <4>1. q \notin other
                BY <3>4, <3>5, <3>7
            <4>2. q <= p
                BY <2>5, <3>5, <3>7
            <4>3. QED
                BY <3>7, <4>1, <4>2
        <3>9. n \in starts
            <4>1. total(Max(before(n))) # total(n)
                BY <3>5, <3>8 DEF q
            <4>2. QED
                BY <3>5, <4>1
        <3>10. n \in begun
            <4>1. n <= t
                BY <2>5, <3>5
            <4>2. QED
                BY <3>9, <4>1
        <3>11. n <= s
            BY <2>4, <3>10
        <3> HIDE DEF total, times, begun, other
        <3>12. QED
            BY <2>5, <3>5, <3>11
    <2>12. QED
        BY <1>1, <2>9, <2>10, <2>11
<1>10. (\A u \in times : u > t) \/ (times # {} /\ \A u \in times : u <= t)
       \/ ((\E u \in times : u <= t) /\ (\E u \in times : u > t))
    <2> HIDE DEF times
    <2>1. \A u \in times : u <= t \/ u > t
        BY <1>2
    <2>2. QED
        BY <2>1
<1>11. QED
    BY <1>7, <1>8, <1>9, <1>10

LEMMA OpenUntilType ==
    ASSUME IInv, stage = "done", NEW g \in gold.legs
    PROVE  /\ OpenUntil(g, now) \in Int
           /\ g.status = "closed" => OpenUntil(g, now) = closed[g.id]
           /\ g.status = "open" => OpenUntil(g, now) = Earlier(now, g.expires)
           /\ g.status = "stale" => OpenUntil(g, now) = g.seen
           /\ g.status \in {"closed", "open", "stale"}
<1>1. LegTimesOK(g) /\ LegRowOK(g) /\ now \in Nat /\ None \notin Int
    BY LegTimes, LegRows, AtDone, NoneIsNoTime
<1>2. CASE g.status = "closed"
    <2>1. g.closed \in 0..now /\ g.closed = closed[g.id] /\ g.closed # None
        BY <1>1, <1>2 DEF LegTimesOK
    <2>2. OpenUntil(g, now) = Earlier(now, g.closed)
        BY <1>2, <2>1 DEF OpenUntil
    <2>3. QED
        BY <1>1, <1>2, <2>1, <2>2 DEF Earlier
<1>3. CASE g.status = "open"
    <2>1. g.expires \in Nat /\ g.expires # None
        BY <1>1 DEF LegTimesOK
    <2>2. OpenUntil(g, now) = Earlier(now, g.expires)
        BY <1>3, <2>1 DEF OpenUntil
    <2>3. QED
        BY <1>1, <1>3, <2>1, <2>2 DEF Earlier
<1>4. CASE g.status = "stale"
    <2>1. g.seen \in 0..now /\ g.seen # None
        BY <1>1, <1>4 DEF LegTimesOK
    <2> DEFINE values == <<g.seen, g.closed, g.opened>>
    <2>2. DOMAIN values = 1..Len(values) /\ Len(values) \in Nat /\ 1 \in DOMAIN values
          /\ values[1] = g.seen
        OBVIOUS
    <2>3. OpenUntil(g, now) = Earlier(now, FirstKnown(values))
        BY <1>4 DEF OpenUntil
    <2> HIDE DEF values
    <2>4. FirstKnown(values) = g.seen
        BY <2>1, <2>2, FirstKnownIsFirst
    <2>5. QED
        BY <1>1, <1>4, <2>1, <2>3, <2>4 DEF Earlier
<1>5. g.status \in {"closed", "open", "stale"}
    BY <1>1 DEF LegRowOK
<1>6. QED
    BY <1>2, <1>3, <1>4, <1>5

\* Where it is known whether a leg was open, it counts exactly then.
LEMMA CountsWhileOpen ==
    ASSUME IInv, stage = "done", NEW g \in gold.legs, NEW t \in 0..now,
           g.status = "closed" \/ t < g.seen \/ t >= g.expires
    PROVE  g.opened <= t /\ t < OpenUntil(g, now) <=>
               /\ opened[g.id] <= t /\ t < g.expires
               /\ closed[g.id] = None \/ t < closed[g.id]
<1>1. LegTimesOK(g) /\ g.opened = opened[g.id] /\ now \in Nat /\ None \notin Int
    BY LegTimes, LegRows, AtDone, NoneIsNoTime DEF LegRowOK
<1>2. t \in Int /\ t <= now
    BY <1>1
<1>3. CASE g.status = "closed"
    <2>1. OpenUntil(g, now) = closed[g.id]
        BY <1>3, OpenUntilType
    <2>2. closed[g.id] \in Int /\ closed[g.id] # None /\ closed[g.id] <= g.expires
              /\ g.expires \in Int
        BY <1>1, <1>3 DEF LegTimesOK
    <2>3. QED
        BY <1>1, <1>2, <2>1, <2>2
<1>4. CASE g.status # "closed"
    <2>1. /\ g.seen \in Int /\ g.seen <= now /\ g.seen <= g.expires /\ g.expires \in Int
          /\ closed[g.id] # None => closed[g.id] \in Int /\ g.seen <= closed[g.id]
        BY <1>1, <1>4 DEF LegTimesOK
    <2>2. OpenUntil(g, now) = g.seen \/ OpenUntil(g, now) = Earlier(now, g.expires)
        BY <1>4, OpenUntilType
    <2>3. CASE t < g.seen
        <3>1. t < OpenUntil(g, now) /\ t < g.expires
            BY <1>1, <1>2, <2>1, <2>2, <2>3 DEF Earlier
        <3>2. closed[g.id] = None \/ t < closed[g.id]
            BY <1>2, <2>1, <2>3
        <3>3. QED
            BY <1>1, <3>1, <3>2
    <2>4. CASE ~(t < g.seen)
        <3>1. t >= g.expires
            BY <1>4, <2>4
        <3>2. ~(t < OpenUntil(g, now)) /\ ~(t < g.expires)
            BY <1>1, <1>2, <2>1, <2>2, <3>1 DEF Earlier
        <3>3. QED
            BY <3>2
    <2>5. QED
        BY <2>3, <2>4
<1>5. QED
    BY <1>3, <1>4

LEMMA ExposureIs == IInv => ExposureIsOpenSize
<1> SUFFICES ASSUME IInv, stage = "done", NEW chart \in Charts, NEW t \in 0..now,
                    \A g \in {g \in chart.legs : g.coin # None} :
                        g.status = "closed" \/ t < g.seen \/ t >= g.expires
             PROVE  TotalAt(chart.exposure, t) = SumFunction([g \in
                        {g \in {g \in chart.legs : g.coin # None} :
                            /\ opened[g.id] <= t /\ t < g.expires
                            /\ (closed[g.id] = None \/ t < closed[g.id])} |-> g.coin])
    BY DEF ExposureIsOpenSize
<1> DEFINE real == {g \in {g \in chart.legs : g.coin # None} :
                       /\ opened[g.id] <= t /\ t < g.expires
                       /\ (closed[g.id] = None \/ t < closed[g.id])}
<1>0. now \in Nat
    BY AtDone
<1>1. PICK u \in Users, y \in Underlyings, from \in Bounds, till \in Bounds :
        chart = PriceBoxes(SubsOf(u), y, from, till)
    BY DEF Charts
<1> DEFINE legs == Shown(SubsOf(u), y, from, till)
<1>2. chart.legs = legs /\ chart.exposure = ExposureSegments(legs, now)
    BY <1>1, ChartParts
<1>3. legs \subseteq gold.legs
    BY DEF Shown
<1> HIDE DEF legs
<1>4. SizesOK(legs)
    <2>1. IsFiniteSet(legs)
        BY <1>3, LegRows, FS_Subset
    <2>2. \A g \in legs : g.opened \in Int /\ OpenUntil(g, now) \in Int /\ g.coin \in Int \cup {None}
        <3>1. TAKE g \in legs
        <3>2. LegTimesOK(g) /\ OpenUntil(g, now) \in Int
            BY <1>3, LegTimes, OpenUntilType
        <3>3. QED
            BY <1>0, <3>2 DEF LegTimesOK
    <2>3. QED
        BY <2>1, <2>2 DEF SizesOK
<1>5. TotalAt(chart.exposure, t) = TotalFrom(legs, now, t)
    <2>1. t \in Int /\ now \in Int
        BY <1>0
    <2>2. QED
        BY <1>2, <1>4, <2>1, SegmentTotal
<1>6. TotalFrom(legs, now, t) =
        CoinsOf({g \in Sized(legs, now) : g.opened <= t /\ t < OpenUntil(g, now)})
    <2>1. t \in Int /\ now \in Int
        BY <1>0
    <2>2. QED
        BY <1>4, <2>1, RunningTotal
<1>7. {g \in Sized(legs, now) : g.opened <= t /\ t < OpenUntil(g, now)} = real
    <2>1. \A g \in legs : g.coin # None =>
            (g.opened <= t /\ t < OpenUntil(g, now) <=>
               /\ opened[g.id] <= t /\ t < g.expires
               /\ closed[g.id] = None \/ t < closed[g.id])
        <3>1. TAKE g \in legs
        <3>2. HAVE g.coin # None
        <3>3. g.status = "closed" \/ t < g.seen \/ t >= g.expires
            BY <1>2, <3>2
        <3>4. QED
            BY <1>3, <3>3, CountsWhileOpen
    <2>2. \A g \in legs : g.opened <= t /\ t < OpenUntil(g, now) => OpenUntil(g, now) > g.opened
        BY <1>0, <1>4 DEF SizesOK
    <2>3. Sized(legs, now) = {g \in legs : g.coin # None /\ OpenUntil(g, now) > g.opened}
        BY DEF Sized
    <2>4. QED
        BY <1>2, <2>1, <2>2, <2>3
<1>8. CoinsOf({g \in Sized(legs, now) : g.opened <= t /\ t < OpenUntil(g, now)}) = CoinsOf(real)
    BY <1>7
<1>9. CoinsOf(real) = SumFunction([g \in real |-> g.coin])
    BY DEF CoinsOf
<1> HIDE DEF real
<1>10. TotalAt(chart.exposure, t) = SumFunction([g \in real |-> g.coin])
    BY <1>5, <1>6, <1>8, <1>9
<1>11. QED
    BY <1>10 DEF real

\* The frames of the price chart contain the lines of their legs, each of one box, and the exposure
\* is the size open at each time, where that is known (domain/boxes.py, web/reports.py).
THEOREM Chart == Spec => []ChartIsRight
<1>1. IInv => ChartIsRight
    BY BoxesFrame, ExposureIs DEF ChartIsRight
<1>2. QED
    BY <1>1, Inductive, PTL

---------------------------------------------------------------------------
(* Sums by key.                                                            *)

\* every element of S is in the part of exactly one key
Parts(part, K, S) ==
    /\ IsFiniteSet(S) /\ IsFiniteSet(K)
    /\ \A k \in K : part[k] \subseteq S
    /\ \A x \in S : \E k \in K : x \in part[k] /\ \A j \in K : x \in part[j] => j = k

\* by a function that tells the part of each element
LEMMA PartsByKey ==
    ASSUME NEW S, IsFiniteSet(S), NEW K, IsFiniteSet(K), NEW of, \A x \in S : of[x] \in K,
           NEW part, \A k \in K : part[k] \in SUBSET S /\ \A x \in S : x \in part[k] <=> of[x] = k
    PROVE  Parts(part, K, S)
BY DEF Parts

LEMMA SumOfParts ==
    ASSUME NEW S, NEW K, NEW part, Parts(part, K, S), NEW v, \A x \in S : v[x] \in Int,
           NEW g, DOMAIN g = K, \A k \in K : g[k] = SumFunctionOnSet(v, part[k])
    PROVE  SumFunction(g) = SumFunctionOnSet(v, S)
<1> DEFINE key == [x \in S |-> CHOOSE k \in K : x \in part[k]]
<1>1. IsFiniteSet(S) /\ IsFiniteSet(K) /\ \A k \in K : part[k] \in SUBSET S
    BY DEF Parts
<1>2. \A x \in S : key[x] \in K /\ \A k \in K : x \in part[k] <=> key[x] = k
    BY DEF Parts
<1> HIDE DEF key
<1>3. SumFunctionOnSet(v, S) = SumFunctionOnSet(g, K)
    <2>1. \A x \in S : key[x] \in K
        BY <1>2
    <2>2. \A k \in K : part[k] \in SUBSET S /\ \A x \in S : x \in part[k] <=> key[x] = k
        BY <1>1, <1>2
    <2>3. QED
        BY <1>1, <2>1, <2>2, SumByParts
<1>4. QED
    BY <1>3 DEF SumFunction

LEMMA CountOfParts ==
    ASSUME NEW S, NEW K, NEW part, Parts(part, K, S),
           NEW g, DOMAIN g = K, \A k \in K : g[k] = Cardinality(part[k])
    PROVE  SumFunction(g) = Cardinality(S)
<1> DEFINE one == [x \in S |-> 1]
<1>1. \A x \in S : one[x] = 1
    OBVIOUS
<1> HIDE DEF one
<1>2. IsFiniteSet(S) /\ SumFunctionOnSet(one, S) = Cardinality(S)
    <2>1. IsFiniteSet(S)
        BY DEF Parts
    <2>2. QED
        BY <1>1, <2>1, SumOnes
<1>3. \A k \in K : g[k] = SumFunctionOnSet(one, part[k])
    <2>1. TAKE k \in K
    <2>2. part[k] \subseteq S
        BY DEF Parts
    <2>3. IsFiniteSet(part[k]) /\ \A x \in part[k] : one[x] = 1
        BY <1>1, <1>2, <2>2, FS_Subset
    <2>4. SumFunctionOnSet(one, part[k]) = Cardinality(part[k])
        BY <2>3, SumOnes
    <2>5. QED
        BY <2>4
<1>4. \A x \in S : one[x] \in Int
    BY <1>1
<1>5. QED
    BY <1>2, <1>3, <1>4, SumOfParts

---------------------------------------------------------------------------
(* The rates are integers.                                                 *)

LEMMA RateOfDayType ==
    ASSUME SilverOK, World, NEW sub, NEW ccy, NEW d
    PROVE  RateOfDay(sub, ccy, d) \in Int \cup {None}
<1> DEFINE balances == {r \in silver.balances : r.sub = sub /\ r.ccy = ccy /\ Day(r.at) = d}
           prices == {r \in silver.positions : r.sub = sub /\ r.coin = ccy /\ Day(r.at) = d}
<1>1. RateOfDay(sub, ccy, d) =
        IF balances # {} THEN The(Newest(balances)).usd \div The(Newest(balances)).total
        ELSE IF prices # {} THEN The(Newest(prices)).idx ELSE None
    BY DEF RateOfDay
<1>2. IsFiniteSet(balances) /\ IsFiniteSet(prices)
    BY FS_Subset DEF SilverOK
<1>3. (\A r \in balances : r.at \in Int) /\ (\A r \in prices : r.at \in Int)
    <2>1. (\A r \in silver.balances : r.at \in 0..now)
              /\ (\A r \in silver.positions : r.at \in 0..now)
        BY DEF SilverOK, PositionOK
    <2>2. QED
        BY <2>1
<1>4. 0..now \subseteq 0..Horizon /\ now \in Nat
    BY HorizonType DEF World, WorldOK
<1>5. ASSUME balances # {}
      PROVE  The(Newest(balances)).usd \div The(Newest(balances)).total \in Int
    <2> DEFINE q == The(Newest(balances))
    <2>1. q \in balances
        <3> HIDE DEF balances
        <3>1. QED
            BY <1>2, <1>3, <1>5, NewestAt
    <2>2. q \in silver.balances
        BY <2>1
    <2> HIDE DEF q
    <2>3. /\ q.sub \in Accounts /\ q.ccy \in Coins /\ q.at \in 0..Horizon
          /\ q.total = Held[<<q.sub, q.ccy, q.at>>] /\ q.total > 0
          /\ q.usd = q.total * Price[<<q.ccy, q.at>>]
        BY <1>4, <2>2 DEF SilverOK
    <2>4. PICK l \in Legs : q.ccy = LegInfo[l].coin
        BY <2>3 DEF Coins
    <2>5. q.total \in Int /\ Price[<<q.ccy, q.at>>] \in Int
        BY <2>3, <2>4, PriceType
    <2>6. q.usd \in Int
        BY <2>3, <2>5
    <2>7. q.usd \div q.total \in Int
        BY <2>3, <2>5, <2>6
    <2>8. QED
        BY <2>7 DEF q
<1>6. ASSUME prices # {}
      PROVE  The(Newest(prices)).idx \in Int
    <2> DEFINE q == The(Newest(prices))
    <2>1. q \in prices
        <3> HIDE DEF prices
        <3>1. QED
            BY <1>2, <1>3, <1>6, NewestAt
    <2>2. q \in silver.positions
        BY <2>1
    <2> HIDE DEF q
    <2>3. q.leg \in Legs /\ q.at \in 0..Horizon /\ q.coin = LegInfo[q.leg].coin
          /\ q.idx = Price[<<q.coin, q.at>>]
        BY <1>4, <2>2 DEF SilverOK, PositionOK
    <2>4. q.idx \in Int
        BY <2>3, PriceType
    <2>5. QED
        BY <2>4 DEF q
<1> HIDE DEF balances, prices
<1>7. QED
    BY <1>1, <1>5, <1>6

\* of some days there is a nearest one
LEMMA NearestExists ==
    ASSUME NEW known, known # {}, known \subseteq Days, NEW d \in Days
    PROVE  LET nearest == {e \in known : \A f \in known : Distance(e, d) <= Distance(f, d)}
           IN  Min(nearest) \in known
<1> DEFINE nearest == {e \in known : \A f \in known : Distance(e, d) <= Distance(f, d)}
           dist == [e \in known |-> Distance(e, d)]
           T == {dist[e] : e \in known}
<1>1. IsFiniteSet(known) /\ known \subseteq Int /\ d \in Int
    BY DaysInt, FS_Subset
<1>2. \A e \in known : dist[e] \in Int /\ dist[e] = Distance(e, d)
    BY <1>1 DEF Distance
<1> HIDE DEF dist
<1>3. Min(T) \in T /\ \A e \in known : Min(T) <= dist[e]
    <2> HIDE DEF T
    <2>1. QED
        BY <1>1, <1>2, Image DEF T
<1>4. PICK e \in known : dist[e] = Min(T)
    BY <1>3
<1> HIDE DEF T
<1>5. e \in nearest
    BY <1>2, <1>3, <1>4
<1>6. nearest \subseteq known
    OBVIOUS
<1> HIDE DEF nearest
<1>7. IsFiniteSet(nearest) /\ nearest \subseteq Int /\ nearest # {}
    BY <1>1, <1>5, <1>6, FS_Subset
<1>8. QED
    BY <1>6, <1>7, MinMax DEF nearest

LEMMA RatesInt ==
    ASSUME IInv, stage = "done", NEW l \in Legs, NEW d \in Days
    PROVE  Rate(l, d) \in Int
<1> DEFINE a == LegInfo[l].sub  c == LegInfo[l].coin
           known == {e \in Days : RateOfDay(a, c, e) # None}
           nearest == {e \in known : \A f \in known : Distance(e, d) <= Distance(f, d)}
<1>1. rates = CoinUsd /\ SilverOK /\ World
    BY AtDone
<1>2. <<a, c, d>> \in Accounts \X Coins \X Days
    BY LegType
<1>3. Rate(l, d) = RateOf(a, c, d)
    <2> HIDE DEF a, c
    <2>1. CoinUsd[<<a, c, d>>] = RateOf(a, c, d)
        BY <1>2 DEF CoinUsd
    <2>2. QED
        BY <1>1, <2>1 DEF Rate, a, c
<1>4. RateOf(a, c, d) = IF known = {} THEN 1 ELSE RateOfDay(a, c, Min(nearest))
    BY DEF RateOf
<1>5. known # {} => Min(nearest) \in known
    <2> HIDE DEF a, c
    <2>1. known \subseteq Days
        OBVIOUS
    <2> HIDE DEF known
    <2>2. QED
        BY <2>1, NearestExists
<1> HIDE DEF nearest, a, c
<1>6. known # {} => RateOfDay(a, c, Min(nearest)) # None
    BY <1>5
<1>7. known # {} => RateOfDay(a, c, Min(nearest)) \in Int
    BY <1>1, <1>6, RateOfDayType
<1> HIDE DEF known
<1>8. QED
    BY <1>3, <1>4, <1>7

---------------------------------------------------------------------------
(* The deals.                                                              *)

DealRow(l) ==
    [leg |-> l, sub |-> LegInfo[l].sub, strategy |-> box[l], underlying |-> LegInfo[l].underlying,
     at |-> closed[l], day |-> ClosedOn(l), pnl |-> Pnl(l), pnlUsd |-> PnlUsd(l),
     holdDays |-> (closed[l] - opened[l]) \div DayLength]

DealOK(x) ==
    /\ x.leg \in collected /\ x.sub = LegInfo[x.leg].sub /\ x.strategy = box[x.leg]
    /\ x.underlying = LegInfo[x.leg].underlying /\ x.at = closed[x.leg] /\ x.day = ClosedOn(x.leg)
    /\ x.pnl = Pnl(x.leg) /\ x.pnlUsd = PnlUsd(x.leg)

\* of a collected leg silver has all its times and its P&L
LEMMA Collected ==
    ASSUME IInv, stage = "done"
    PROVE  /\ collected \subseteq Legs /\ IsFiniteSet(collected)
           /\ \A l \in collected : /\ closed[l] \in 0..now /\ opened[l] \in 0..now
                                   /\ ClosedOn(l) \in Days
                                   /\ Pnl(l) \in Int /\ PnlUsd(l) \in Int
                                   /\ box[l] \in Strategies /\ Owner[box[l]] = LegInfo[l].sub
<1>1. WorldOK /\ LegsOK /\ World /\ now \in Nat
    BY AtDone
<1>2. collected \subseteq Legs /\ collected \subseteq {l \in Legs : closed[l] # None}
    BY <1>1 DEF WorldOK
<1>3. IsFiniteSet(collected)
    <2>1. IsFiniteSet(Legs)
        BY GoldAssumption
    <2>2. QED
        BY <1>2, <2>1, FS_Subset
<1>4. ASSUME NEW l \in collected
      PROVE  /\ closed[l] \in 0..now /\ opened[l] \in 0..now /\ ClosedOn(l) \in Days
             /\ Pnl(l) \in Int /\ PnlUsd(l) \in Int
             /\ box[l] \in Strategies /\ Owner[box[l]] = LegInfo[l].sub
    <2>1. l \in Legs /\ closed[l] # None /\ box[l] \in Strategies /\ Owner[box[l]] = LegInfo[l].sub
        BY <1>1, <1>2 DEF WorldOK, LegsOK
    <2>2. closed[l] \in 0..now
        BY <1>1, <2>1 DEF WorldOK
    <2>3. opened[l] \in 0..now
        BY <1>1, KnownLegTimes DEF KnownLegs
    <2>4. ClosedOn(l) \in Days
        <3> DEFINE t == closed[l]
        <3>1. t \in Int /\ 0 <= t /\ t <= Horizon /\ Horizon \in Int
            BY <1>1, <2>2, HorizonType DEF WorldOK
        <3> HIDE DEF t
        <3>2. Day(0) <= Day(t) /\ Day(t) <= Day(Horizon) /\ Day(t) \in Int /\ Day(Horizon) \in Int
            BY <3>1, DayMonotone
        <3>3. Day(0) = 0
            BY DomainAssumption DEF Day
        <3>4. Day(t) \in Days
            BY <3>2, <3>3 DEF Days
        <3>5. QED
            BY <3>4 DEF ClosedOn, t
    <2>5. Pnl(l) \in Int
        BY <2>1, LegType DEF Pnl
    <2>6. Rate(l, ClosedOn(l)) \in Int
        BY <2>1, <2>4, RatesInt
    <2>7. PnlUsd(l) \in Int
        BY <2>5, <2>6 DEF PnlUsd
    <2>8. QED
        BY <2>1, <2>2, <2>3, <2>4, <2>5, <2>7
<1>5. QED
    BY <1>2, <1>3, <1>4

\* the ledger has one row of each collected leg
LEMMA DealRows ==
    ASSUME IInv, stage = "done"
    PROVE  /\ gold.deals = {DealRow(l) : l \in collected}
           /\ \A x \in gold.deals : DealOK(x)
           /\ \A x, y \in gold.deals : x.leg = y.leg => x = y
           /\ \A l \in collected : \E x \in gold.deals : x.leg = l
           /\ IsFiniteSet(gold.deals)
<1>1. gold.deals = {DealRow(l) : l \in collected}
    BY AtDone DEF Tables, DealLedger, DealRow
<1>2. \A l \in collected : DealOK(DealRow(l)) /\ DealRow(l).leg = l
    BY DEF DealOK, DealRow
<1> HIDE DEF DealRow
<1>3. \A x \in gold.deals : DealOK(x) /\ x = DealRow(x.leg)
    BY <1>1, <1>2
<1>4. \A x, y \in gold.deals : x.leg = y.leg => x = y
    BY <1>3
<1>5. \A l \in collected : \E x \in gold.deals : x.leg = l
    BY <1>1, <1>2
<1>6. IsFiniteSet(gold.deals)
    <2>1. IsFiniteSet(collected)
        BY Collected
    <2>2. IsFiniteSet({[l \in collected |-> DealRow(l)][m] : m \in collected})
        BY <2>1, FiniteImage
    <2>3. {[l \in collected |-> DealRow(l)][m] : m \in collected} = {DealRow(l) : l \in collected}
        OBVIOUS
    <2>4. QED
        BY <1>1, <2>2, <2>3
<1>7. QED
    BY <1>1, <1>3, <1>4, <1>5, <1>6

\* a set of deals sums up to what its legs do
LEMMA DealsSum ==
    ASSUME IInv, stage = "done", NEW D \in SUBSET gold.deals, NEW M \in SUBSET collected,
           \A x \in gold.deals : x \in D <=> x.leg \in M
    PROVE  /\ SumFunction([x \in D |-> x.pnl]) = PnlOf(M)
           /\ SumFunction([x \in D |-> x.pnlUsd]) = SumFunction([l \in M |-> PnlUsd(l)])
<1> DEFINE h == [x \in D |-> x.leg]
           f == [x \in D |-> x.pnl]
           g == [l \in M |-> Pnl(l)]
           fUsd == [x \in D |-> x.pnlUsd]
           gUsd == [l \in M |-> PnlUsd(l)]
<1>1. IsFiniteSet(D) /\ IsFiniteSet(M)
    BY Collected, DealRows, FS_Subset
<1>2. \A x \in D : DealOK(x) /\ x.leg \in M
    BY DealRows
<1>3. \A l \in M : Pnl(l) \in Int /\ PnlUsd(l) \in Int
    BY Collected
<1>4. \A x \in D : /\ h[x] \in M /\ f[x] = g[h[x]] /\ fUsd[x] = gUsd[h[x]]
                   /\ f[x] \in Int /\ fUsd[x] \in Int
    BY <1>2, <1>3 DEF DealOK
<1>5. \A x, y \in D : h[x] = h[y] => x = y
    BY DealRows
<1>6. \A l \in M : \E x \in D : h[x] = l
    <2>1. TAKE l \in M
    <2>2. PICK x \in gold.deals : x.leg = l
        BY DealRows
    <2>3. x \in D /\ h[x] = l
        BY <2>2
    <2>4. QED
        BY <2>3
<1>7. DOMAIN f = D /\ DOMAIN fUsd = D /\ DOMAIN g = M /\ DOMAIN gUsd = M
    OBVIOUS
<1>8. PnlOf(M) = SumFunction(g)
    BY DEF PnlOf
<1> HIDE DEF h, f, g, fUsd, gUsd
<1>9. SumFunctionOnSet(f, D) = SumFunctionOnSet(g, M)
    BY <1>1, <1>4, <1>5, <1>6, SumRename
<1>10. SumFunctionOnSet(fUsd, D) = SumFunctionOnSet(gUsd, M)
    BY <1>1, <1>4, <1>5, <1>6, SumRename
<1>11. SumFunction(f) = SumFunction(g) /\ SumFunction(fUsd) = SumFunction(gUsd)
    BY <1>7, <1>9, <1>10 DEF SumFunction
<1>12. QED
    BY <1>8, <1>11 DEF f, fUsd, gUsd

\* the sums over the parts of a set of legs
LEMMA LegValues ==
    ASSUME IInv, stage = "done"
    PROVE  LET v == [l \in collected |-> Pnl(l)]
               w == [l \in collected |-> PnlUsd(l)]
           IN  /\ \A l \in collected : v[l] \in Int /\ w[l] \in Int
               /\ \A T \in SUBSET collected :
                     /\ PnlOf(T) = SumFunctionOnSet(v, T)
                     /\ SumFunction([l \in T |-> PnlUsd(l)]) = SumFunctionOnSet(w, T)
<1> DEFINE v == [l \in collected |-> Pnl(l)]
           w == [l \in collected |-> PnlUsd(l)]
<1>1. \A l \in collected : v[l] = Pnl(l) /\ w[l] = PnlUsd(l) /\ v[l] \in Int /\ w[l] \in Int
    BY Collected
<1> HIDE DEF v, w
<1>2. \A T \in SUBSET collected :
        /\ PnlOf(T) = SumFunctionOnSet(v, T)
        /\ SumFunction([l \in T |-> PnlUsd(l)]) = SumFunctionOnSet(w, T)
    <2>1. TAKE T \in SUBSET collected
    <2>2. IsFiniteSet(T) /\ \A l \in T : v[l] \in Int /\ w[l] \in Int
        BY <1>1, Collected, FS_Subset
    <2>3. SumFunction([l \in T |-> v[l]]) = SumFunctionOnSet(v, T)
          /\ SumFunction([l \in T |-> w[l]]) = SumFunctionOnSet(w, T)
        BY <2>2, SumOf
    <2>4. [l \in T |-> v[l]] = [l \in T |-> Pnl(l)] /\ [l \in T |-> w[l]] = [l \in T |-> PnlUsd(l)]
        BY <1>1
    <2>5. QED
        BY <2>3, <2>4 DEF PnlOf
<1>3. QED
    BY <1>1, <1>2 DEF v, w

LEMMA LegsByPart ==
    ASSUME IInv, stage = "done", NEW M \in SUBSET collected, NEW K, NEW part, Parts(part, K, M),
           NEW g, DOMAIN g = K, \A k \in K : g[k] = PnlOf(part[k])
    PROVE  SumFunction(g) = PnlOf(M)
<1> DEFINE v == [l \in collected |-> Pnl(l)]
<1>1. /\ \A l \in collected : v[l] \in Int
      /\ \A T \in SUBSET collected : PnlOf(T) = SumFunctionOnSet(v, T)
    BY LegValues
<1> HIDE DEF v
<1>2. \A k \in K : g[k] = SumFunctionOnSet(v, part[k])
    <2>1. \A k \in K : part[k] \in SUBSET collected
        BY DEF Parts
    <2>2. QED
        BY <1>1, <2>1
<1>3. SumFunction(g) = SumFunctionOnSet(v, M)
    <2>1. \A l \in M : v[l] \in Int
        BY <1>1
    <2>2. QED
        BY <1>2, <2>1, SumOfParts
<1>4. PnlOf(M) = SumFunctionOnSet(v, M)
    BY <1>1
<1>5. QED
    BY <1>3, <1>4

LEMMA LegsByPartUsd ==
    ASSUME IInv, stage = "done", NEW M \in SUBSET collected, NEW K, NEW part, Parts(part, K, M),
           NEW g, DOMAIN g = K, \A k \in K : g[k] = SumFunction([l \in part[k] |-> PnlUsd(l)])
    PROVE  SumFunction(g) = SumFunction([l \in M |-> PnlUsd(l)])
<1> DEFINE v == [l \in collected |-> PnlUsd(l)]
<1>1. /\ \A l \in collected : v[l] \in Int
      /\ \A T \in SUBSET collected : SumFunction([l \in T |-> PnlUsd(l)]) = SumFunctionOnSet(v, T)
    BY LegValues
<1> HIDE DEF v
<1>2. \A k \in K : g[k] = SumFunctionOnSet(v, part[k])
    <2>1. \A k \in K : part[k] \in SUBSET collected
        BY DEF Parts
    <2>2. QED
        BY <1>1, <2>1
<1>3. SumFunction(g) = SumFunctionOnSet(v, M)
    <2>1. \A l \in M : v[l] \in Int
        BY <1>1
    <2>2. QED
        BY <1>2, <2>1, SumOfParts
<1>4. SumFunction([l \in M |-> PnlUsd(l)]) = SumFunctionOnSet(v, M)
    BY <1>1
<1>5. QED
    BY <1>3, <1>4

\* the tables have what their keys select
LEMMA DailyCells ==
    ASSUME IInv, stage = "done"
    PROVE  /\ \A a \in Accounts, b \in Strategies, d \in Days :
                LET M == {l \in collected : LegInfo[l].sub = a /\ box[l] = b /\ ClosedOn(l) = d}
                IN  /\ gold.daily[<<a, b, d>>].net = PnlOf(M)
                    /\ gold.daily[<<a, b, d>>].netUsd = SumFunction([l \in M |-> PnlUsd(l)])
           /\ \A a \in Accounts, c \in Coins, d \in Days :
                LET M == {l \in collected : LegInfo[l].sub = a /\ LegInfo[l].coin = c
                                            /\ ClosedOn(l) = d}
                IN  /\ gold.assets[<<a, c, d>>].net = PnlOf(M)
                    /\ gold.assets[<<a, c, d>>].netUsd = SumFunction([l \in M |-> PnlUsd(l)])
<1>1. gold.daily = PnlDaily /\ gold.assets = AssetPnlDaily
    BY AtDone DEF Tables
<1>2. \A deals, rows : /\ DailyRow(deals, rows).net = PnlOf(deals)
                       /\ DailyRow(deals, rows).netUsd = SumFunction([l \in deals |-> PnlUsd(l)])
    BY DEF DailyRow
<1>3. ASSUME NEW a \in Accounts, NEW b \in Strategies, NEW d \in Days
      PROVE  LET M == {l \in collected : LegInfo[l].sub = a /\ box[l] = b /\ ClosedOn(l) = d}
             IN  /\ gold.daily[<<a, b, d>>].net = PnlOf(M)
                 /\ gold.daily[<<a, b, d>>].netUsd = SumFunction([l \in M |-> PnlUsd(l)])
    <2> DEFINE M == {l \in collected : LegInfo[l].sub = a /\ box[l] = b /\ ClosedOn(l) = d}
               R == {r \in silver.positions : r.sub = a /\ r.strategy = b /\ Day(r.at) = d}
    <2>1. PnlDaily[<<a, b, d>>] = DailyRow(M, R)
        BY DEF PnlDaily
    <2> HIDE DEF M, R
    <2>2. QED
        BY <1>1, <1>2, <2>1 DEF M
<1>4. ASSUME NEW a \in Accounts, NEW c \in Coins, NEW d \in Days
      PROVE  LET M == {l \in collected : LegInfo[l].sub = a /\ LegInfo[l].coin = c /\ ClosedOn(l) = d}
             IN  /\ gold.assets[<<a, c, d>>].net = PnlOf(M)
                 /\ gold.assets[<<a, c, d>>].netUsd = SumFunction([l \in M |-> PnlUsd(l)])
    <2> DEFINE M == {l \in collected : LegInfo[l].sub = a /\ LegInfo[l].coin = c /\ ClosedOn(l) = d}
               R == {r \in silver.positions : r.sub = a /\ r.coin = c /\ Day(r.at) = d}
    <2>1. AssetPnlDaily[<<a, c, d>>] = DailyRow(M, R)
        BY DEF AssetPnlDaily
    <2> HIDE DEF M, R
    <2>2. QED
        BY <1>1, <1>2, <2>1 DEF M
<1>5. QED
    BY <1>3, <1>4

\* the legs of one day, by strategy and by coin
LEMMA DayParts ==
    ASSUME IInv, stage = "done", NEW a \in Accounts, NEW d \in Days
    PROVE  LET M == {l \in collected : LegInfo[l].sub = a /\ ClosedOn(l) = d} IN
           /\ Parts([b \in Strategies |-> {l \in collected : LegInfo[l].sub = a /\ box[l] = b
                                                             /\ ClosedOn(l) = d}], Strategies, M)
           /\ Parts([c \in Coins |-> {l \in collected : LegInfo[l].sub = a /\ LegInfo[l].coin = c
                                                        /\ ClosedOn(l) = d}], Coins, M)
<1> DEFINE M == {l \in collected : LegInfo[l].sub = a /\ ClosedOn(l) = d}
<1>1. IsFiniteSet(M) /\ IsFiniteSet(Strategies) /\ IsFiniteSet(Coins)
    BY Collected, KeysFinite, FS_Subset
<1>2. \A l \in M : box[l] \in Strategies /\ LegInfo[l].coin \in Coins
    BY Collected, LegType
<1>3. Parts([b \in Strategies |-> {l \in collected : LegInfo[l].sub = a /\ box[l] = b
                                                     /\ ClosedOn(l) = d}], Strategies, M)
    BY <1>1, <1>2 DEF Parts
<1>4. Parts([c \in Coins |-> {l \in collected : LegInfo[l].sub = a /\ LegInfo[l].coin = c
                                                /\ ClosedOn(l) = d}], Coins, M)
    BY <1>1, <1>2 DEF Parts
<1>5. QED
    BY <1>3, <1>4

DayAgrees(a, d) ==
    LET deals == {x \in gold.deals : x.sub = a /\ x.day = d}
        pnl == SumFunction([x \in deals |-> x.pnl])
        usd == SumFunction([x \in deals |-> x.pnlUsd])
    IN  /\ SumFunction([b \in Strategies |-> gold.daily[<<a, b, d>>].net]) = pnl
        /\ SumFunction([c \in Coins |-> gold.assets[<<a, c, d>>].net]) = pnl
        /\ SumFunction([b \in Strategies |-> gold.daily[<<a, b, d>>].netUsd]) = usd
        /\ SumFunction([c \in Coins |-> gold.assets[<<a, c, d>>].netUsd]) = usd

LEMMA DaysAgree ==
    ASSUME IInv, stage = "done", NEW a \in Accounts, NEW d \in Days
    PROVE  DayAgrees(a, d)
<1> DEFINE M == {l \in collected : LegInfo[l].sub = a /\ ClosedOn(l) = d}
           D == {x \in gold.deals : x.sub = a /\ x.day = d}
           boxes == [b \in Strategies |-> {l \in collected : LegInfo[l].sub = a /\ box[l] = b
                                                             /\ ClosedOn(l) = d}]
           coins == [c \in Coins |-> {l \in collected : LegInfo[l].sub = a /\ LegInfo[l].coin = c
                                                        /\ ClosedOn(l) = d}]
           f1 == [b \in Strategies |-> gold.daily[<<a, b, d>>].net]
           f2 == [c \in Coins |-> gold.assets[<<a, c, d>>].net]
           f3 == [b \in Strategies |-> gold.daily[<<a, b, d>>].netUsd]
           f4 == [c \in Coins |-> gold.assets[<<a, c, d>>].netUsd]
           Usd(T) == SumFunction([l \in T |-> PnlUsd(l)])
<1>1. M \in SUBSET collected /\ D \in SUBSET gold.deals
    OBVIOUS
<1>2. \A x \in gold.deals : x \in D <=> x.leg \in M
    BY DealRows DEF DealOK
<1>3. SumFunction([x \in D |-> x.pnl]) = PnlOf(M) /\ SumFunction([x \in D |-> x.pnlUsd]) = Usd(M)
    <2> HIDE DEF D, M
    <2>1. QED
        BY <1>1, <1>2, DealsSum
<1>4. Parts(boxes, Strategies, M) /\ Parts(coins, Coins, M)
    BY DayParts
<1>5. /\ \A b \in Strategies : f1[b] = PnlOf(boxes[b]) /\ f3[b] = Usd(boxes[b])
      /\ \A c \in Coins : f2[c] = PnlOf(coins[c]) /\ f4[c] = Usd(coins[c])
    BY DailyCells
<1>6. DOMAIN f1 = Strategies /\ DOMAIN f2 = Coins /\ DOMAIN f3 = Strategies /\ DOMAIN f4 = Coins
    OBVIOUS
<1>7. DayAgrees(a, d) <=> /\ SumFunction(f1) = SumFunction([x \in D |-> x.pnl])
                          /\ SumFunction(f2) = SumFunction([x \in D |-> x.pnl])
                          /\ SumFunction(f3) = SumFunction([x \in D |-> x.pnlUsd])
                          /\ SumFunction(f4) = SumFunction([x \in D |-> x.pnlUsd])
    BY DEF DayAgrees
<1> HIDE DEF f1, f2, f3, f4, M, D, boxes, coins
<1>8. SumFunction(f1) = PnlOf(M) /\ SumFunction(f2) = PnlOf(M)
    <2>1. (\A b \in Strategies : f1[b] = PnlOf(boxes[b]))
              /\ (\A c \in Coins : f2[c] = PnlOf(coins[c]))
        BY <1>5
    <2>2. QED
        BY <1>1, <1>4, <1>6, <2>1, LegsByPart
<1>9. SumFunction(f3) = Usd(M)
    <2>1. \A b \in Strategies : f3[b] = Usd(boxes[b])
        BY <1>5
    <2>2. QED
        BY <1>1, <1>4, <1>6, <2>1, LegsByPartUsd
<1>10. SumFunction(f4) = Usd(M)
    <2>1. \A c \in Coins : f4[c] = Usd(coins[c])
        BY <1>5
    <2>2. QED
        BY <1>1, <1>4, <1>6, <2>1, LegsByPartUsd
<1> HIDE DEF Usd
<1>11. QED
    BY <1>3, <1>7, <1>8, <1>9, <1>10

\* the accounts of a client
LEMMA SubsFinite ==
    ASSUME NEW u
    PROVE  SubsOf(u) \subseteq Accounts /\ IsFiniteSet(SubsOf(u))
               /\ IsFiniteSet(SubsOf(u) \X Strategies)
<1>1. SubsOf(u) \subseteq Accounts
    BY DEF SubsOf
<1>2. IsFiniteSet(SubsOf(u)) /\ IsFiniteSet(Strategies)
    BY <1>1, KeysFinite, FS_Subset
<1>3. QED
    BY <1>1, <1>2, FS_Product

LEMMA DailyAgree == IInv => DailyAgrees
<1> SUFFICES ASSUME IInv, stage = "done" PROVE DailyAgrees
    BY DEF DailyAgrees
<1>1. \A a \in Accounts, d \in Days : DayAgrees(a, d)
    BY DaysAgree
<1>2. ASSUME NEW g \in gold.legs, g.status = "closed"
      PROVE  \E x \in gold.deals : x.leg = g.id /\ x.pnlUsd = g.pnl /\ x.strategy = g.strategy
    <2>1. LegRowOK(g)
        BY LegRows
    <2>2. g.id \in collected
        BY <1>2, <2>1 DEF LegRowOK
    <2>3. PICK x \in gold.deals : x.leg = g.id
        BY <2>2, DealRows
    <2>4. DealOK(x)
        BY DealRows
    <2>5. x.pnlUsd = g.pnl /\ x.strategy = g.strategy
        BY <2>1, <2>2, <2>3, <2>4 DEF LegRowOK, DealOK
    <2>6. QED
        BY <2>3, <2>5
<1>3. QED
    BY <1>1, <1>2 DEF DailyAgrees, DayAgrees

---------------------------------------------------------------------------
(* Statistics do not depend on what the deals are called.                  *)

LEMMA RenamePart ==
    ASSUME NEW f, NEW S, IsFiniteSet(S), \A x \in S : f[x] \in Int,
           NEW g, NEW T, IsFiniteSet(T), NEW h, \A x \in S : h[x] \in T /\ f[x] = g[h[x]],
           \A x, y \in S : h[x] = h[y] => x = y,
           \A z \in T : \E x \in S : h[x] = z,
           NEW A \in SUBSET S, NEW B \in SUBSET T, \A x \in S : x \in A <=> h[x] \in B
    PROVE  /\ SumFunctionOnSet(f, A) = SumFunctionOnSet(g, B)
           /\ Cardinality(A) = Cardinality(B) /\ (A = {} <=> B = {})
<1>1. IsFiniteSet(A) /\ IsFiniteSet(B)
    BY FS_Subset
<1>2. \A x \in A : h[x] \in B /\ f[x] = g[h[x]] /\ f[x] \in Int
    OBVIOUS
<1>3. \A x, y \in A : h[x] = h[y] => x = y
    OBVIOUS
<1>4. \A z \in B : \E x \in A : h[x] = z
    OBVIOUS
<1>5. SumFunctionOnSet(f, A) = SumFunctionOnSet(g, B)
    BY <1>1, <1>2, <1>3, <1>4, SumRename
<1>6. Cardinality(A) = Cardinality(B)
    <2> DEFINE k == [x \in A |-> h[x]]
    <2>1. k \in Bijection(A, B)
        BY <1>2, <1>3, <1>4 DEF Bijection, Injection, Surjection, IsInjective
    <2>2. QED
        BY <1>1, <2>1, FS_Bijection DEF ExistsBijection
<1>7. A = {} <=> B = {}
    BY <1>2, <1>4
<1>8. QED
    BY <1>5, <1>6, <1>7

LEMMA MetricsRename ==
    ASSUME NEW f, NEW S, IsFiniteSet(S), \A x \in S : f[x] \in Int,
           NEW g, NEW T, IsFiniteSet(T), NEW h, \A x \in S : h[x] \in T /\ f[x] = g[h[x]],
           \A x, y \in S : h[x] = h[y] => x = y,
           \A z \in T : \E x \in S : h[x] = z,
           DOMAIN f = S, DOMAIN g = T
    PROVE  DealMetrics(f) = DealMetrics(g)
<1> DEFINE winsF == {x \in S : f[x] > 0}  winsG == {z \in T : g[z] > 0}
           lossesF == {x \in S : f[x] < 0}  lossesG == {z \in T : g[z] < 0}
<1>1. winsF \in SUBSET S /\ lossesF \in SUBSET S /\ winsG \in SUBSET T /\ lossesG \in SUBSET T
    OBVIOUS
<1>2. (\A x \in S : x \in winsF <=> h[x] \in winsG)
          /\ (\A x \in S : x \in lossesF <=> h[x] \in lossesG)
    OBVIOUS
<1> HIDE DEF winsF, winsG, lossesF, lossesG
<1>3. /\ SumFunctionOnSet(f, winsF) = SumFunctionOnSet(g, winsG)
      /\ Cardinality(winsF) = Cardinality(winsG) /\ (winsF = {} <=> winsG = {})
    <2>1. \A x \in S : x \in winsF <=> h[x] \in winsG
        BY <1>2
    <2>2. QED
        BY <1>1, <2>1, RenamePart
<1>4. /\ SumFunctionOnSet(f, lossesF) = SumFunctionOnSet(g, lossesG)
      /\ Cardinality(lossesF) = Cardinality(lossesG) /\ (lossesF = {} <=> lossesG = {})
    <2>1. \A x \in S : x \in lossesF <=> h[x] \in lossesG
        BY <1>2
    <2>2. QED
        BY <1>1, <2>1, RenamePart
<1>5. /\ SumFunctionOnSet(f, S) = SumFunctionOnSet(g, T)
      /\ Cardinality(S) = Cardinality(T) /\ (S = {} <=> T = {})
    <2>1. S \in SUBSET S /\ T \in SUBSET T /\ \A x \in S : x \in S <=> h[x] \in T
        OBVIOUS
    <2>2. QED
        BY <2>1, RenamePart
<1>6. SumFunction(f) = SumFunction(g)
    BY <1>5 DEF SumFunction
<1> DEFINE P(sum, U) == IF U = {} THEN None ELSE <<sum, Cardinality(U)>>
           wonF == SumFunctionOnSet(f, winsF)  lostF == SumFunctionOnSet(f, lossesF)
           wonG == SumFunctionOnSet(g, winsG)  lostG == SumFunctionOnSet(g, lossesG)
<1>7. DealMetrics(f) =
        [net |-> SumFunction(f), n |-> Cardinality(S), winRate |-> P(Cardinality(winsF), S),
         avgWin |-> P(wonF, winsF), avgLoss |-> P(lostF, lossesF), avgPnl |-> P(SumFunction(f), S),
         profitFactor |-> IF lostF < 0 THEN <<wonF, -lostF>> ELSE None]
    BY DEF DealMetrics, winsF, lossesF
<1>8. DealMetrics(g) =
        [net |-> SumFunction(g), n |-> Cardinality(T), winRate |-> P(Cardinality(winsG), T),
         avgWin |-> P(wonG, winsG), avgLoss |-> P(lostG, lossesG), avgPnl |-> P(SumFunction(g), T),
         profitFactor |-> IF lostG < 0 THEN <<wonG, -lostG>> ELSE None]
    BY DEF DealMetrics, winsG, lossesG
<1>9. /\ P(Cardinality(winsF), S) = P(Cardinality(winsG), T)
      /\ P(wonF, winsF) = P(wonG, winsG) /\ P(lostF, lossesF) = P(lostG, lossesG)
      /\ P(SumFunction(f), S) = P(SumFunction(g), T)
    BY <1>3, <1>4, <1>5, <1>6
<1>10. wonF = wonG /\ lostF = lostG
    BY <1>3, <1>4
<1> HIDE DEF P, wonF, lostF, wonG, lostG
<1>11. QED
    BY <1>5, <1>6, <1>7, <1>8, <1>9, <1>10

\* what the other totals need of it
LEMMA MetricsAre ==
    ASSUME NEW S
    PROVE  LET m == DealMetrics([l \in S |-> Pnl(l)]) IN m.n = Cardinality(S) /\ m.net = PnlOf(S)
<1> DEFINE f == [l \in S |-> Pnl(l)]
<1>1. DOMAIN f = S /\ PnlOf(S) = SumFunction(f)
    BY DEF PnlOf
<1> HIDE DEF f
<1>2. DealMetrics(f).n = Cardinality(DOMAIN f) /\ DealMetrics(f).net = SumFunction(f)
    BY DEF DealMetrics
<1>3. QED
    BY <1>1, <1>2 DEF f

---------------------------------------------------------------------------
(* The current positions.                                                  *)

\* current positions are rows of silver
LEMMA CurrentRows ==
    ASSUME IInv, stage = "done"
    PROVE  /\ gold.current \subseteq silver.positions /\ IsFiniteSet(gold.current)
           /\ \A r \in silver.positions : /\ PositionOK(r) /\ r.upl \in Int
                                          /\ r.strategy \in Strategies /\ r.at \in Int
                                          /\ LegInfo[r.leg].size \in Int
<1>1. gold.current = PositionCurrent /\ SilverOK /\ World /\ WorldOK
    BY AtDone DEF Tables
<1>2. gold.current \subseteq silver.positions
    BY <1>1 DEF PositionCurrent, Newest
<1>3. IsFiniteSet(silver.positions) /\ \A r \in silver.positions : PositionOK(r)
    BY <1>1 DEF SilverOK
<1>4. 0..now \subseteq 0..Horizon
    BY <1>1, HorizonType DEF WorldOK
<1>5. \A r \in silver.positions : r.upl \in Int
    <2>1. TAKE r \in silver.positions
    <2>2. r.leg \in Legs /\ r.at \in 0..Horizon /\ r.upl = Upl[<<r.leg, r.at>>]
        BY <1>3, <1>4 DEF PositionOK
    <2>3. QED
        BY <2>2, PriceType
<1>6. \A r \in silver.positions : r.strategy \in Strategies /\ r.at \in Int /\ r.leg \in Legs
    <2>1. TAKE r \in silver.positions
    <2>2. r.leg \in Legs /\ r.at \in 0..now /\ r.strategy = box[r.leg]
        BY <1>3 DEF PositionOK
    <2>3. box \in [Legs -> Strategies] /\ now \in Int
        BY <1>1, AtDone DEF WorldOK
    <2>4. QED
        BY <2>2, <2>3
<1>7. \A r \in silver.positions : LegInfo[r.leg].size \in Int
    BY <1>6, LegType
<1>8. IsFiniteSet(gold.current)
    BY <1>2, <1>3, FS_Subset
<1>9. QED
    BY <1>2, <1>3, <1>5, <1>6, <1>7, <1>8

\* the sums over the parts of a set of rows
LEMMA RowValues ==
    ASSUME IInv, stage = "done"
    PROVE  LET v == [r \in silver.positions |-> r.upl]
               w == [r \in silver.positions |-> LegInfo[r.leg].size]
           IN  /\ \A r \in silver.positions : v[r] \in Int /\ w[r] \in Int
               /\ \A R \in SUBSET silver.positions :
                     /\ UplOf(R) = SumFunctionOnSet(v, R) /\ DeltaOf(R) = SumFunctionOnSet(w, R)
                     /\ UplOf(R) \in Int /\ DeltaOf(R) \in Int
<1> DEFINE v == [r \in silver.positions |-> r.upl]
           w == [r \in silver.positions |-> LegInfo[r.leg].size]
<1>1. \A r \in silver.positions : v[r] = r.upl /\ w[r] = LegInfo[r.leg].size /\ v[r] \in Int
          /\ w[r] \in Int
    BY CurrentRows
<1> HIDE DEF v, w
<1>2. ASSUME NEW R \in SUBSET silver.positions
      PROVE  /\ UplOf(R) = SumFunctionOnSet(v, R) /\ DeltaOf(R) = SumFunctionOnSet(w, R)
             /\ UplOf(R) \in Int /\ DeltaOf(R) \in Int
    <2>1. IsFiniteSet(R)
        <3>1. IsFiniteSet(silver.positions)
            BY AtDone DEF SilverOK
        <3>2. QED
            BY <3>1, FS_Subset
    <2>2. \A r \in R : v[r] \in Int /\ w[r] \in Int
        BY <1>1
    <2>3. SumFunction([r \in R |-> v[r]]) = SumFunctionOnSet(v, R)
          /\ SumFunction([r \in R |-> w[r]]) = SumFunctionOnSet(w, R)
          /\ SumFunctionOnSet(v, R) \in Int /\ SumFunctionOnSet(w, R) \in Int
        BY <2>1, <2>2, SumOf
    <2>4. [r \in R |-> v[r]] = [r \in R |-> r.upl]
              /\ [r \in R |-> w[r]] = [r \in R |-> LegInfo[r.leg].size]
        BY <1>1
    <2>5. QED
        BY <2>3, <2>4 DEF UplOf, DeltaOf
<1>3. QED
    BY <1>1, <1>2 DEF v, w

LEMMA RowsByPart ==
    ASSUME IInv, stage = "done", NEW R \in SUBSET silver.positions, NEW K, NEW part,
        Parts(part, K, R),
           NEW g, DOMAIN g = K
    PROVE  /\ (\A k \in K : g[k] = UplOf(part[k])) => SumFunction(g) = UplOf(R)
           /\ (\A k \in K : g[k] = DeltaOf(part[k])) => SumFunction(g) = DeltaOf(R)
<1> DEFINE v == [r \in silver.positions |-> r.upl]
           w == [r \in silver.positions |-> LegInfo[r.leg].size]
<1>1. /\ \A r \in silver.positions : v[r] \in Int /\ w[r] \in Int
      /\ \A Q \in SUBSET silver.positions :
            UplOf(Q) = SumFunctionOnSet(v, Q) /\ DeltaOf(Q) = SumFunctionOnSet(w, Q)
    BY RowValues
<1> HIDE DEF v, w
<1>2. \A r \in R : v[r] \in Int /\ w[r] \in Int
    BY <1>1
<1>3. \A k \in K : part[k] \in SUBSET silver.positions
    BY DEF Parts
<1>4. ASSUME \A k \in K : g[k] = UplOf(part[k])
      PROVE  SumFunction(g) = UplOf(R)
    <2>1. \A k \in K : g[k] = SumFunctionOnSet(v, part[k])
        BY <1>1, <1>3, <1>4
    <2>2. \A r \in R : v[r] \in Int
        BY <1>2
    <2>3. SumFunction(g) = SumFunctionOnSet(v, R)
        BY <2>1, <2>2, SumOfParts
    <2>4. QED
        BY <1>1, <2>3
<1>5. ASSUME \A k \in K : g[k] = DeltaOf(part[k])
      PROVE  SumFunction(g) = DeltaOf(R)
    <2>1. \A k \in K : g[k] = SumFunctionOnSet(w, part[k])
        BY <1>1, <1>3, <1>5
    <2>2. \A r \in R : w[r] \in Int
        BY <1>2
    <2>3. SumFunction(g) = SumFunctionOnSet(w, R)
        BY <2>1, <2>2, SumOfParts
    <2>4. QED
        BY <1>1, <2>3
<1>6. QED
    BY <1>4, <1>5

---------------------------------------------------------------------------
(* The statistics of a period.                                             *)

ClosedSince(p) == {l \in collected : ClosedOn(l) >= PeriodStart(p)}
InBox(p, a, b) == {l \in ClosedSince(p) : LegInfo[l].sub = a /\ box[l] = b}
InSymbol(p, a, y) == {l \in ClosedSince(p) : LegInfo[l].sub = a /\ LegInfo[l].underlying = y}
OfClient(p, u) == {l \in ClosedSince(p) : LegInfo[l].sub \in SubsOf(u)}
StatsOf(S) == DealMetrics([l \in S |-> Pnl(l)])

\* gold's tables, by the legs each row is about
LEMMA PerfRows ==
    ASSUME IInv, stage = "done", NEW p \in Periods
    PROVE  /\ \A u \in Users : totals.clientPerf[<<u, p>>].deals = StatsOf(OfClient(p, u))
           /\ \A a \in Accounts, b \in Strategies :
                 totals.strategyPerf[<<a, b, p>>].deals = StatsOf(InBox(p, a, b))
           /\ \A a \in Accounts, y \in Underlyings :
                 totals.symbolPerf[<<a, y, p>>].deals = StatsOf(InSymbol(p, a, y))
<1>1. /\ totals.clientPerf = ClientPerformance /\ totals.strategyPerf = StrategyPerformance
      /\ totals.symbolPerf = SymbolPerformance
    BY AtDone DEF Totals
<1>2. \A subs, deals :
        Performance(p, subs, deals).deals =
            StatsOf({d \in deals : LegInfo[d].sub \in subs /\ ClosedOn(d) >= PeriodStart(p)})
    BY DEF Performance, StatsOf
<1>3. ASSUME NEW u \in Users
      PROVE  totals.clientPerf[<<u, p>>].deals = StatsOf(OfClient(p, u))
    <2>1. ClientPerformance[<<u, p>>] = Performance(p, SubsOf(u), collected)
        BY DEF ClientPerformance
    <2>2. {d \in collected : LegInfo[d].sub \in SubsOf(u) /\ ClosedOn(d) >= PeriodStart(p)}
              = OfClient(p, u)
        BY DEF OfClient, ClosedSince
    <2>3. QED
        BY <1>1, <1>2, <2>1, <2>2
<1>4. ASSUME NEW a \in Accounts, NEW b \in Strategies
      PROVE  totals.strategyPerf[<<a, b, p>>].deals = StatsOf(InBox(p, a, b))
    <2> DEFINE D == {l \in collected : box[l] = b}
    <2>1. StrategyPerformance[<<a, b, p>>] = Performance(p, {a}, D)
        BY DEF StrategyPerformance
    <2>2. {d \in D : LegInfo[d].sub \in {a} /\ ClosedOn(d) >= PeriodStart(p)} = InBox(p, a, b)
        BY DEF InBox, ClosedSince
    <2> HIDE DEF D
    <2>3. QED
        BY <1>1, <1>2, <2>1, <2>2
<1>5. ASSUME NEW a \in Accounts, NEW y \in Underlyings
      PROVE  totals.symbolPerf[<<a, y, p>>].deals = StatsOf(InSymbol(p, a, y))
    <2> DEFINE D == {l \in collected : LegInfo[l].underlying = y}
    <2>1. SymbolPerformance[<<a, y, p>>] = Performance(p, {a}, D)
        BY DEF SymbolPerformance
    <2>2. {d \in D : LegInfo[d].sub \in {a} /\ ClosedOn(d) >= PeriodStart(p)} = InSymbol(p, a, y)
        BY DEF InSymbol, ClosedSince
    <2> HIDE DEF D
    <2>3. QED
        BY <1>1, <1>2, <2>1, <2>2
<1>6. QED
    BY <1>3, <1>4, <1>5

ShownDeals(u, p) == {d \in Deals(SubsOf(u), None, None) : d.day >= Since(p)}

LEMMA SinceStart == ASSUME NEW p PROVE Since(p) = PeriodStart(p)
BY DEF Since, PeriodStart

LEMMA DealsOfClient ==
    ASSUME IInv, stage = "done", NEW u
    PROVE  Deals(SubsOf(u), None, None) = {d \in gold.deals : d.sub \in SubsOf(u)}
BY DEF Deals

\* the live statistics of a client are gold's
LEMMA LiveStats ==
    ASSUME IInv, stage = "done", NEW u \in Users, NEW p \in Periods
    PROVE  DealMetrics([d \in ShownDeals(u, p) |-> d.pnl]) = StatsOf(OfClient(p, u))
<1> DEFINE S == ShownDeals(u, p)
           T == OfClient(p, u)
           f == [d \in S |-> d.pnl]
           g == [l \in T |-> Pnl(l)]
           h == [d \in S |-> d.leg]
<1>1. S = {d \in gold.deals : d.sub \in SubsOf(u) /\ d.day >= PeriodStart(p)}
    BY SinceStart, DealsOfClient DEF ShownDeals
<1>2. T = {l \in collected : ClosedOn(l) >= PeriodStart(p) /\ LegInfo[l].sub \in SubsOf(u)}
    BY DEF OfClient, ClosedSince
<1>3. IsFiniteSet(S) /\ IsFiniteSet(T)
    BY <1>1, <1>2, Collected, DealRows, FS_Subset
<1>4. \A d \in S : DealOK(d) /\ h[d] = d.leg /\ f[d] = d.pnl
    BY <1>1, DealRows
<1>5. \A l \in T : g[l] = Pnl(l) /\ Pnl(l) \in Int
    BY <1>2, Collected
<1>6. \A d \in S : h[d] \in T
    BY <1>1, <1>2, <1>4 DEF DealOK
<1>7. \A d \in S : h[d] \in T /\ f[d] = g[h[d]] /\ f[d] \in Int
    BY <1>4, <1>5, <1>6 DEF DealOK
<1>8. \A d, e \in S : h[d] = h[e] => d = e
    BY <1>1, <1>4, DealRows
<1>9. \A l \in T : \E d \in S : h[d] = l
    <2>1. TAKE l \in T
    <2>2. PICK d \in gold.deals : d.leg = l
        BY <1>2, DealRows
    <2>3. DealOK(d)
        BY DealRows
    <2>4. d \in S
        BY <1>1, <1>2, <2>2, <2>3 DEF DealOK
    <2>5. QED
        BY <1>4, <2>2, <2>4
<1>10. DOMAIN f = S /\ DOMAIN g = T /\ StatsOf(T) = DealMetrics(g)
    BY DEF StatsOf
<1> HIDE DEF S, T, f, g, h
<1>11. DealMetrics(f) = DealMetrics(g)
    BY <1>3, <1>7, <1>8, <1>9, <1>10, MetricsRename
<1>12. QED
    BY <1>10, <1>11 DEF f, S, T

\* there are no more deals than legs, so the list shows all of them
LEMMA ListShowsAll ==
    ASSUME IInv, stage = "done", NEW u \in Users, NEW p \in Periods
    PROVE  DealList(SubsOf(u), None, None, p, Cardinality(Legs)) = ShownDeals(u, p)
<1> DEFINE D == Deals(SubsOf(u), None, None)
           later(d) == {e \in D : e.at > d.at}
<1>1. D \subseteq gold.deals
    BY DEF Deals
<1>2. Cardinality(D) <= Cardinality(Legs) /\ IsFiniteSet(D)
    <2> DEFINE f == [d \in D |-> d.leg]
    <2>1. \A d \in D : f[d] \in Legs
        BY <1>1, Collected, DealRows DEF DealOK
    <2>2. \A d, e \in D : f[d] = f[e] => d = e
        BY <1>1, DealRows
    <2>3. IsFiniteSet(Legs)
        BY GoldAssumption
    <2> HIDE DEF f, D
    <2>4. QED
        BY <2>1, <2>2, <2>3, FiniteByKey
<1>3. \A d \in D : d.at \in Int
    <2>1. TAKE d \in D
    <2>2. DealOK(d) /\ d.leg \in collected
        BY <1>1, DealRows DEF DealOK
    <2>3. closed[d.leg] \in 0..now /\ now \in Nat
        BY <2>2, Collected, AtDone
    <2>4. QED
        BY <2>2, <2>3 DEF DealOK
<1>4. ASSUME NEW d \in D
      PROVE  Cardinality(later(d)) < Cardinality(Legs)
    <2>1. d \notin later(d) /\ later(d) \in SUBSET D
        BY <1>3
    <2>2. later(d) # D
        BY <2>1
    <2> HIDE DEF later, D
    <2>3. /\ IsFiniteSet(later(d)) /\ Cardinality(later(d)) <= Cardinality(D)
          /\ Cardinality(D) = Cardinality(later(d)) => D = later(d)
        BY <1>2, <2>1, FS_Subset
    <2>4. Cardinality(later(d)) \in Nat /\ Cardinality(D) \in Nat /\ Cardinality(Legs) \in Nat
        BY <1>2, <2>3, KeysFinite, FS_CardinalityType
    <2>5. QED
        BY <1>2, <2>2, <2>3, <2>4
<1>5. DealList(SubsOf(u), None, None, p, Cardinality(Legs)) =
        {d \in D : Cardinality(later(d)) < Cardinality(Legs) /\ d.day >= Since(p)}
    BY DEF DealList
<1>6. ShownDeals(u, p) = {d \in D : d.day >= Since(p)}
    BY DEF ShownDeals
<1> HIDE DEF later, D
<1>7. QED
    BY <1>4, <1>5, <1>6

\* each deal of a client's period is of one of its strategies and of one of its underlyings
LEMMA PeriodParts ==
    ASSUME IInv, stage = "done", NEW u \in Users, NEW p \in Periods
    PROVE  /\ Parts([k \in SubsOf(u) \X Strategies |-> InBox(p, k[1], k[2])],
                    SubsOf(u) \X Strategies, OfClient(p, u))
           /\ Parts([k \in SubsOf(u) \X Underlyings |-> InSymbol(p, k[1], k[2])],
                    SubsOf(u) \X Underlyings, OfClient(p, u))
           /\ OfClient(p, u) \in SUBSET collected
<1> DEFINE M == OfClient(p, u)
<1>1. M \in SUBSET collected /\ IsFiniteSet(M)
    <2>1. M \in SUBSET collected
        BY DEF OfClient, ClosedSince
    <2>2. QED
        BY <2>1, Collected, FS_Subset
<1>2. ASSUME NEW V, IsFiniteSet(V), NEW of, NEW part, \A l \in M : of[l] \in V,
             \A k \in SubsOf(u) \X V : \A l : 
                 l \in part[k] <=> l \in ClosedSince(p) /\ LegInfo[l].sub = k[1] /\ of[l] = k[2]
      PROVE  Parts(part, SubsOf(u) \X V, M)
    <2> DEFINE K == SubsOf(u) \X V
    <2>1. IsFiniteSet(K)
        BY <1>2, SubsFinite, FS_Product
    <2>2. \A k \in K : k = <<k[1], k[2]>> /\ k[1] \in SubsOf(u) /\ k[2] \in V
        OBVIOUS
    <2>3. \A l : l \in M <=> l \in ClosedSince(p) /\ LegInfo[l].sub \in SubsOf(u)
        BY DEF OfClient
    <2>4. \A k \in K : part[k] \subseteq M
        BY <1>2, <2>2, <2>3
    <2>5. ASSUME NEW l \in M
          PROVE  \E k \in K : l \in part[k] /\ \A j \in K : l \in part[j] => j = k
        <3> DEFINE k == <<LegInfo[l].sub, of[l]>>
        <3>1. k \in K
            BY <1>2, <2>3
        <3>2. l \in part[k]
            BY <1>2, <2>3, <3>1
        <3>3. \A j \in K : l \in part[j] => j = k
            BY <1>2, <2>2
        <3>4. QED
            BY <3>1, <3>2, <3>3
    <2> HIDE DEF K, M
    <2>6. QED
        BY <1>1, <2>1, <2>4, <2>5 DEF Parts, K
<1>3. Parts([k \in SubsOf(u) \X Strategies |-> InBox(p, k[1], k[2])], SubsOf(u) \X Strategies, M)
    <2> DEFINE part == [k \in SubsOf(u) \X Strategies |-> InBox(p, k[1], k[2])]
    <2>1. \A k \in SubsOf(u) \X Strategies : \A l :
              l \in part[k] <=> l \in ClosedSince(p) /\ LegInfo[l].sub = k[1] /\ box[l] = k[2]
        BY DEF InBox
    <2>2. \A l \in M : box[l] \in Strategies
        BY <1>1, Collected
    <2> HIDE DEF part, M
    <2>3. QED
        BY <1>2, <2>1, <2>2, KeysFinite DEF part
<1>4. Parts([k \in SubsOf(u) \X Underlyings |-> InSymbol(p, k[1], k[2])], SubsOf(u) \X Underlyings, M)
    <2> DEFINE part == [k \in SubsOf(u) \X Underlyings |-> InSymbol(p, k[1], k[2])]
               of == [l \in M |-> LegInfo[l].underlying]
    <2>1. \A k \in SubsOf(u) \X Underlyings : part[k] \subseteq M
        BY DEF InSymbol, OfClient
    <2>2. \A k \in SubsOf(u) \X Underlyings : \A l :
              l \in part[k] <=> l \in ClosedSince(p) /\ LegInfo[l].sub = k[1] /\ of[l] = k[2]
        <3>1. \A k \in SubsOf(u) \X Underlyings : k[1] \in SubsOf(u)
            OBVIOUS
        <3>2. \A k \in SubsOf(u) \X Underlyings : \A l :
                 l \in part[k] <=> l \in M /\ LegInfo[l].sub = k[1] /\ LegInfo[l].underlying = k[2]
            BY <3>1 DEF InSymbol, OfClient
        <3>3. QED
            BY <3>1, <3>2 DEF OfClient
    <2>3. \A l \in M : of[l] \in Underlyings
        BY <1>1, Collected, LegType
    <2> HIDE DEF part, M, of
    <2>4. QED
        BY <1>2, <2>2, <2>3, KeysFinite DEF part
<1>5. QED
    BY <1>1, <1>3, <1>4

\* the return of all time is the growth of the whole curve
LEMMA AllTimeReturn ==
    ASSUME IInv, stage = "done", NEW subs
    PROVE  LET all == EquityPoints(subs, None, None)
               points == {q \in all : Day(q.t) >= Since("all")}
               m == EquityMetrics(Series(points))
           IN  m.return # None => m.return = Header(all).pct
<1> DEFINE all == EquityPoints(subs, None, None)
           points == {q \in all : Day(q.t) >= Since("all")}
           m == EquityMetrics(Series(points))
<1>1. \A q \in all : q.t \in Int /\ q.t >= 0
    <2>1. \A r \in gold.equity : r.at \in 0..now
        BY EquityRows
    <2>2. now \in Nat
        BY AtDone
    <2>3. \A r \in gold.equity : r.at \in Int /\ r.at >= 0
        BY <2>1, <2>2
    <2>4. \A q \in all : \E r \in gold.equity : q.t = r.at
        <3> DEFINE rows == {r \in gold.equity : r.sub \in subs /\ Within(r.at, Lo(None), Hi(None))}
                   Point(r) == [t |-> r.at,
                                v |-> SumFunction([x \in {y \in rows : y.at = r.at} |-> x.v])]
        <3>1. all = {Point(r) : r \in rows}
            BY DEF EquityPoints
        <3>2. \A r : Point(r).t = r.at
            OBVIOUS
        <3>3. rows \subseteq gold.equity
            OBVIOUS
        <3> HIDE DEF all, rows, Point
        <3>4. QED
            BY <3>1, <3>2, <3>3
    <2>5. QED
        BY <2>3, <2>4
<1>2. Since("all") = 0
    BY DEF Since
<1>3. points = all
    <2>1. Day(0) = 0
        BY DomainAssumption DEF Day
    <2>2. \A q \in all : Day(q.t) >= 0
        BY <1>1, <2>1, DayMonotone
    <2> HIDE DEF all
    <2>3. QED
        BY <1>2, <2>2
<1> DEFINE s == Series(all)
<1>4. SUFFICES ASSUME EquityMetrics(s).return # None
      PROVE  EquityMetrics(s).return = Header(all).pct
    BY <1>3
<1>5. DOMAIN s = {q.t : q \in all}
    BY DEF Series
<1> HIDE DEF s, all
<1>6. EquityMetrics(s).return =
        IF ~(Cardinality(DOMAIN s) >= 2) \/ First(s) = 0 THEN None
        ELSE <<Final(s) - First(s), First(s)>>
    BY DEF EquityMetrics
<1>7. Cardinality(DOMAIN s) >= 2 /\ First(s) # 0
    BY <1>4, <1>6
<1>8. all # {}
    <2>1. SUFFICES ASSUME all = {} PROVE FALSE
        OBVIOUS
    <2>2. DOMAIN s = {}
        BY <1>5, <2>1
    <2>3. Cardinality(DOMAIN s) = 0
        BY <2>2, FS_EmptySet
    <2>4. QED
        BY <1>7, <2>3
<1>9. Header(all).pct = <<Final(s) - First(s), First(s)>>
    BY <1>7, <1>8 DEF Header, s
<1>10. QED
    BY <1>6, <1>7, <1>9

\* the profit of the month to date is in the summary of the strategy
LEMMA MonthToDate ==
    ASSUME IInv, stage = "done", NEW a \in Accounts, NEW b \in Strategies
    PROVE  PnlOf(InBox("mtd", a, b)) = totals.summary[<<a, b>>].mtdPnl - totals.summary[<<a, b>>].upl
<1> DEFINE rows == {r \in gold.current : r.sub = a /\ r.strategy = b}
           mtd == {l \in collected : /\ LegInfo[l].sub = a /\ box[l] = b
                                     /\ ClosedOn(l) >= PeriodStart("mtd")}
<1>1. totals.summary = StrategySummary /\ gold.current = PositionCurrent
    BY AtDone DEF Totals, Tables
<1>2. StrategySummary[<<a, b>>].upl = UplOf(rows)
      /\ StrategySummary[<<a, b>>].mtdPnl = PnlOf(mtd) + UplOf(rows)
    BY <1>1 DEF StrategySummary
<1>3. mtd = InBox("mtd", a, b)
    BY DEF InBox, ClosedSince
<1>4. UplOf(rows) \in Int
    <2>1. rows \in SUBSET silver.positions
        BY CurrentRows
    <2> HIDE DEF rows
    <2>2. QED
        BY <2>1, RowValues
<1>5. PnlOf(mtd) \in Int
    <2>1. mtd \in SUBSET collected
        OBVIOUS
    <2> HIDE DEF mtd
    <2>2. IsFiniteSet(mtd) /\ \A l \in mtd : Pnl(l) \in Int
        BY <2>1, Collected, FS_Subset
    <2> DEFINE v == [l \in mtd |-> Pnl(l)]
    <2>3. \A l \in mtd : v[l] \in Int
        BY <2>2
    <2>4. PnlOf(mtd) = SumFunctionOnSet(v, mtd)
        BY DEF PnlOf, SumFunction
    <2> HIDE DEF v
    <2>5. QED
        BY <2>2, <2>3, <2>4, SumType
<1> HIDE DEF rows, mtd
<1>6. QED
    BY <1>1, <1>2, <1>3, <1>4, <1>5

PeriodAgrees(u, p) ==
    LET subs == SubsOf(u)
        byBox == [k \in subs \X Strategies |-> totals.strategyPerf[<<k[1], k[2], p>>].deals]
        bySymbol == [k \in subs \X Underlyings |-> totals.symbolPerf[<<k[1], k[2], p>>].deals]
        shown == Analyze(subs, None, None, p)
        live == shown.kpis
    IN  /\ live = totals.clientPerf[<<u, p>>].deals
        /\ live.n = Cardinality(DealList(subs, None, None, p, Cardinality(Legs)))
        /\ p = "all" /\ shown.equity.return # None =>
               shown.equity.return = Header(EquityPoints(subs, None, None)).pct
        /\ \A byKey \in {byBox, bySymbol} :
              /\ live.n = SumFunction([k \in DOMAIN byKey |-> byKey[k].n])
              /\ live.net = SumFunction([k \in DOMAIN byKey |-> byKey[k].net])
        /\ p = "mtd" => \A k \in subs \X Strategies :
               byBox[k].net = totals.summary[k].mtdPnl - totals.summary[k].upl

LEMMA OnePeriodAgrees ==
    ASSUME IInv, stage = "done", NEW u \in Users, NEW p \in Periods
    PROVE  PeriodAgrees(u, p)
<1> DEFINE subs == SubsOf(u)
           byBox == [k \in subs \X Strategies |-> totals.strategyPerf[<<k[1], k[2], p>>].deals]
           bySymbol == [k \in subs \X Underlyings |-> totals.symbolPerf[<<k[1], k[2], p>>].deals]
           shown == Analyze(subs, None, None, p)
           live == shown.kpis
           M == OfClient(p, u)
<1>1. live = DealMetrics([d \in ShownDeals(u, p) |-> d.pnl])
    BY DEF Analyze, ShownDeals
<1>2. live = StatsOf(M)
    BY <1>1, LiveStats
<1>3. live.n = Cardinality(M) /\ live.net = PnlOf(M)
    BY <1>2, MetricsAre DEF StatsOf
<1>4. live = totals.clientPerf[<<u, p>>].deals
    BY <1>2, PerfRows
<1>5. live.n = Cardinality(ShownDeals(u, p))
    <2> DEFINE f == [d \in ShownDeals(u, p) |-> d.pnl]
    <2>1. DOMAIN f = ShownDeals(u, p)
        OBVIOUS
    <2> HIDE DEF f
    <2>2. DealMetrics(f).n = Cardinality(DOMAIN f)
        BY DEF DealMetrics
    <2>3. QED
        BY <1>1, <2>1, <2>2 DEF f
<1>6. live.n = Cardinality(DealList(subs, None, None, p, Cardinality(Legs)))
    BY <1>5, ListShowsAll
<1>7. p = "all" /\ shown.equity.return # None =>
           shown.equity.return = Header(EquityPoints(subs, None, None)).pct
    <2> DEFINE points == {q \in EquityPoints(subs, None, None) : Day(q.t) >= Since(p)}
    <2>1. shown.equity = EquityMetrics(Series(points))
        BY DEF Analyze
    <2>2. QED
        BY <2>1, AllTimeReturn
<1>8. /\ SumFunction([k \in DOMAIN byBox |-> byBox[k].n]) = Cardinality(M)
      /\ SumFunction([k \in DOMAIN byBox |-> byBox[k].net]) = PnlOf(M)
    <2> DEFINE K == subs \X Strategies
               part == [k \in K |-> InBox(p, k[1], k[2])]
               n == [k \in DOMAIN byBox |-> byBox[k].n]
               net == [k \in DOMAIN byBox |-> byBox[k].net]
    <2>1. DOMAIN n = K /\ DOMAIN net = K
        OBVIOUS
    <2>2. ASSUME NEW k \in K PROVE n[k] = Cardinality(part[k]) /\ net[k] = PnlOf(part[k])
        <3>1. k[1] \in Accounts /\ k[2] \in Strategies
            BY SubsFinite
        <3>2. byBox[k] = StatsOf(InBox(p, k[1], k[2])) /\ part[k] = InBox(p, k[1], k[2])
            BY <3>1, PerfRows
        <3>3. n[k] = byBox[k].n /\ net[k] = byBox[k].net
            OBVIOUS
        <3> HIDE DEF byBox, n, net, part
        <3>4. QED
            BY <3>2, <3>3, MetricsAre DEF StatsOf
    <2>3. Parts(part, K, M) /\ M \in SUBSET collected
        BY PeriodParts
    <2> HIDE DEF K, part, n, net, M
    <2>4. \A k \in K : n[k] = Cardinality(part[k])
        BY <2>2
    <2>5. \A k \in K : net[k] = PnlOf(part[k])
        BY <2>2
    <2>6. SumFunction(n) = Cardinality(M)
        BY <2>1, <2>3, <2>4, CountOfParts
    <2>7. SumFunction(net) = PnlOf(M)
        BY <2>1, <2>3, <2>5, LegsByPart
    <2>8. QED
        BY <2>6, <2>7 DEF n, net
<1>9. /\ SumFunction([k \in DOMAIN bySymbol |-> bySymbol[k].n]) = Cardinality(M)
      /\ SumFunction([k \in DOMAIN bySymbol |-> bySymbol[k].net]) = PnlOf(M)
    <2> DEFINE K == subs \X Underlyings
               part == [k \in K |-> InSymbol(p, k[1], k[2])]
               n == [k \in DOMAIN bySymbol |-> bySymbol[k].n]
               net == [k \in DOMAIN bySymbol |-> bySymbol[k].net]
    <2>1. DOMAIN n = K /\ DOMAIN net = K
        OBVIOUS
    <2>2. ASSUME NEW k \in K PROVE n[k] = Cardinality(part[k]) /\ net[k] = PnlOf(part[k])
        <3>1. k[1] \in Accounts /\ k[2] \in Underlyings
            BY SubsFinite
        <3>2. bySymbol[k] = StatsOf(InSymbol(p, k[1], k[2])) /\ part[k] = InSymbol(p, k[1], k[2])
            BY <3>1, PerfRows
        <3>3. n[k] = bySymbol[k].n /\ net[k] = bySymbol[k].net
            OBVIOUS
        <3> HIDE DEF bySymbol, n, net, part
        <3>4. QED
            BY <3>2, <3>3, MetricsAre DEF StatsOf
    <2>3. Parts(part, K, M) /\ M \in SUBSET collected
        BY PeriodParts
    <2> HIDE DEF K, part, n, net, M
    <2>4. \A k \in K : n[k] = Cardinality(part[k])
        BY <2>2
    <2>5. \A k \in K : net[k] = PnlOf(part[k])
        BY <2>2
    <2>6. SumFunction(n) = Cardinality(M)
        BY <2>1, <2>3, <2>4, CountOfParts
    <2>7. SumFunction(net) = PnlOf(M)
        BY <2>1, <2>3, <2>5, LegsByPart
    <2>8. QED
        BY <2>6, <2>7 DEF n, net
<1>10. p = "mtd" => \A k \in subs \X Strategies :
               byBox[k].net = totals.summary[k].mtdPnl - totals.summary[k].upl
    <2>1. SUFFICES ASSUME p = "mtd", NEW k \in subs \X Strategies
          PROVE  byBox[k].net = totals.summary[k].mtdPnl - totals.summary[k].upl
        OBVIOUS
    <2>2. k = <<k[1], k[2]>> /\ k[1] \in Accounts /\ k[2] \in Strategies
        <3>1. k = <<k[1], k[2]>> /\ k[1] \in SubsOf(u) /\ k[2] \in Strategies
            BY <2>1
        <3>2. QED
            BY <3>1, SubsFinite
    <2>3. byBox[k] = StatsOf(InBox(p, k[1], k[2]))
        BY <2>2, PerfRows
    <2> HIDE DEF byBox
    <2>4. byBox[k].net = PnlOf(InBox("mtd", k[1], k[2]))
        BY <2>1, <2>3, MetricsAre DEF StatsOf
    <2>5. QED
        BY <2>2, <2>4, MonthToDate
<1>11. PeriodAgrees(u, p) <=>
         /\ live = totals.clientPerf[<<u, p>>].deals
         /\ live.n = Cardinality(DealList(subs, None, None, p, Cardinality(Legs)))
         /\ p = "all" /\ shown.equity.return # None =>
                shown.equity.return = Header(EquityPoints(subs, None, None)).pct
         /\ \A byKey \in {byBox, bySymbol} :
               /\ live.n = SumFunction([k \in DOMAIN byKey |-> byKey[k].n])
               /\ live.net = SumFunction([k \in DOMAIN byKey |-> byKey[k].net])
         /\ p = "mtd" => \A k \in subs \X Strategies :
                byBox[k].net = totals.summary[k].mtdPnl - totals.summary[k].upl
    BY DEF PeriodAgrees
<1> HIDE DEF subs, byBox, bySymbol, shown, M
<1>12. QED
    BY <1>3, <1>4, <1>6, <1>7, <1>8, <1>9, <1>10, <1>11

LEMMA PeriodsDo == IInv => PeriodsAgree
<1>1. IInv /\ stage = "done" => \A u \in Users, p \in Periods : PeriodAgrees(u, p)
    BY OnePeriodAgrees
<1>2. QED
    BY <1>1 DEF PeriodsAgree, PeriodAgrees

---------------------------------------------------------------------------
(* The unrealized P&L of a day.                                            *)

\* the newest rows of a part are the part's newest rows when it has some
LEMMA NewestOfPart ==
    ASSUME NEW R, \A r \in R : r.at \in Int, NEW P \in SUBSET R, NEW q \in Newest(R), q \in P
    PROVE  Newest(P) = {r \in Newest(R) : r \in P}
<1>1. \A r \in R : r \in Newest(R) <=> r.at >= q.at
    BY DEF Newest
<1>2. \A r \in P : r \in Newest(P) <=> r.at >= q.at
    BY DEF Newest
<1>3. Newest(R) \subseteq R /\ Newest(P) \subseteq P
    BY DEF Newest
<1>4. QED
    BY <1>1, <1>2, <1>3

LEMMA EodOfPart ==
    ASSUME IInv, stage = "done", NEW R \in SUBSET silver.positions, NEW P \in SUBSET R,
           P # {} => \E q \in Newest(R) : q \in P
    PROVE  Known(EodUpl(P)) = UplOf({r \in Newest(R) : r \in P})
<1> DEFINE N == {r \in Newest(R) : r \in P}
<1>1. CASE P = {}
    <2>1. N = {}
        BY <1>1
    <2>2. UplOf({}) = 0
        <3> DEFINE f == [r \in {} |-> r.upl]
        <3>1. DOMAIN f = {}
            OBVIOUS
        <3>2. UplOf({}) = SumFunction(f)
            BY DEF UplOf
        <3> HIDE DEF f
        <3>3. QED
            BY <3>1, <3>2, SumEmpty DEF SumFunction
    <2>3. Known(EodUpl(P)) = 0
        BY <1>1 DEF Known, EodUpl
    <2> HIDE DEF N
    <2>4. QED
        BY <2>1, <2>2, <2>3 DEF N
<1>2. CASE P # {}
    <2>1. PICK q \in Newest(R) : q \in P
        BY <1>2
    <2>2. \A r \in R : r.at \in Int
        BY CurrentRows
    <2>3. Newest(P) = N
        BY <2>1, <2>2, NewestOfPart
    <2>4. N \in SUBSET silver.positions
        OBVIOUS
    <2> HIDE DEF N
    <2>5. UplOf(N) \in Int
        BY <2>4, RowValues
    <2>6. EodUpl(P) = UplOf(N) /\ UplOf(N) # None
        BY <1>2, <2>3, <2>5, NoneIsNoTime DEF EodUpl
    <2>7. QED
        BY <2>6 DEF Known, N
<1>3. QED
    BY <1>1, <1>2

LEMMA EodCells ==
    ASSUME IInv, stage = "done", NEW a \in Accounts, NEW d \in Days
    PROVE  /\ \A b \in Strategies : gold.daily[<<a, b, d>>].upl =
                 EodUpl({r \in silver.positions : r.sub = a /\ r.strategy = b /\ Day(r.at) = d})
           /\ \A c \in Coins : gold.assets[<<a, c, d>>].upl =
                 EodUpl({r \in silver.positions : r.sub = a /\ r.coin = c /\ Day(r.at) = d})
<1>1. gold.daily = PnlDaily /\ gold.assets = AssetPnlDaily
    BY AtDone DEF Tables
<1>2. \A deals, rows : DailyRow(deals, rows).upl = EodUpl(rows)
    BY DEF DailyRow
<1>3. ASSUME NEW b \in Strategies
      PROVE  gold.daily[<<a, b, d>>].upl =
                 EodUpl({r \in silver.positions : r.sub = a /\ r.strategy = b /\ Day(r.at) = d})
    <2> DEFINE M == {l \in collected : LegInfo[l].sub = a /\ box[l] = b /\ ClosedOn(l) = d}
               R == {r \in silver.positions : r.sub = a /\ r.strategy = b /\ Day(r.at) = d}
    <2>1. PnlDaily[<<a, b, d>>] = DailyRow(M, R)
        BY DEF PnlDaily
    <2> HIDE DEF M, R
    <2>2. QED
        BY <1>1, <1>2, <2>1 DEF R
<1>4. ASSUME NEW c \in Coins
      PROVE  gold.assets[<<a, c, d>>].upl =
                 EodUpl({r \in silver.positions : r.sub = a /\ r.coin = c /\ Day(r.at) = d})
    <2> DEFINE M == {l \in collected : LegInfo[l].sub = a /\ LegInfo[l].coin = c /\ ClosedOn(l) = d}
               R == {r \in silver.positions : r.sub = a /\ r.coin = c /\ Day(r.at) = d}
    <2>1. AssetPnlDaily[<<a, c, d>>] = DailyRow(M, R)
        BY DEF AssetPnlDaily
    <2> HIDE DEF M, R
    <2>2. QED
        BY <1>1, <1>2, <2>1 DEF R
<1>5. QED
    BY <1>3, <1>4

\* by a field of the rows, which is `of` of each: its values are K
LEMMA UplByKey ==
    ASSUME IInv, stage = "done", NEW R \in SUBSET silver.positions, NEW K, IsFiniteSet(K),
           NEW of, \A r \in R : of[r] \in K,
           \A r \in R : \E q \in Newest(R) : of[q] = of[r],
           NEW part, \A k \in K : part[k] \in SUBSET R /\ \A r \in R : r \in part[k] <=> of[r] = k,
           NEW g, DOMAIN g = K, \A k \in K : g[k] = Known(EodUpl(part[k]))
    PROVE  SumFunction(g) = UplOf(Newest(R))
<1> DEFINE newest == [k \in K |-> {r \in Newest(R) : r \in part[k]}]
<1>1. Newest(R) \subseteq R
    BY DEF Newest
<1>2. ASSUME NEW k \in K PROVE g[k] = UplOf(newest[k])
    <2>1. part[k] \in SUBSET R /\ (part[k] # {} => \E q \in Newest(R) : q \in part[k])
        BY <1>1
    <2>2. Known(EodUpl(part[k])) = UplOf({r \in Newest(R) : r \in part[k]})
        BY <2>1, EodOfPart
    <2>3. QED
        BY <2>2
<1>3. Parts(newest, K, Newest(R))
    <2>1. IsFiniteSet(Newest(R))
        <3>1. IsFiniteSet(silver.positions) /\ Newest(R) \in SUBSET silver.positions
            BY <1>1, AtDone DEF SilverOK
        <3>2. QED
            BY <3>1, FS_Subset
    <2>2. \A k \in K : newest[k] \subseteq Newest(R)
        OBVIOUS
    <2>3. \A r \in Newest(R) : of[r] \in K /\ \A k \in K : r \in newest[k] <=> of[r] = k
        BY <1>1
    <2> HIDE DEF newest
    <2>4. QED
        BY <2>1, <2>2, <2>3 DEF Parts
<1> HIDE DEF newest
<1>4. Newest(R) \in SUBSET silver.positions
    BY <1>1
<1>5. QED
    BY <1>2, <1>3, <1>4, RowsByPart

LEMMA UnrealizedDo == IInv => UnrealizedAgrees
<1> SUFFICES ASSUME IInv, stage = "done", NEW a \in Accounts, NEW d \in Days
    PROVE  LET rows == {r \in silver.positions : r.sub = a /\ Day(r.at) = d}
               upl == UplOf(Newest(rows))
               whole == /\ {r.strategy : r \in rows} = {r.strategy : r \in Newest(rows)}
                        /\ {r.coin : r \in rows} = {r.coin : r \in Newest(rows)}
           IN  whole =>
               /\ SumFunction([b \in Strategies |-> Known(gold.daily[<<a, b, d>>].upl)]) = upl
                        /\ SumFunction([c \in Coins |-> Known(gold.assets[<<a, c, d>>].upl)]) = upl
    BY DEF UnrealizedAgrees
<1> DEFINE rows == {r \in silver.positions : r.sub = a /\ Day(r.at) = d}
           byBox == [b \in Strategies |-> Known(gold.daily[<<a, b, d>>].upl)]
           byCoin == [c \in Coins |-> Known(gold.assets[<<a, c, d>>].upl)]
           box1 == [r \in silver.positions |-> r.strategy]
           coin1 == [r \in silver.positions |-> r.coin]
           boxes == [b \in Strategies |->
                        {r \in silver.positions : r.sub = a /\ r.strategy = b /\ Day(r.at) = d}]
           coins == [c \in Coins |->
                        {r \in silver.positions : r.sub = a /\ r.coin = c /\ Day(r.at) = d}]
<1> SUFFICES ASSUME {r.strategy : r \in rows} = {r.strategy : r \in Newest(rows)},
                    {r.coin : r \in rows} = {r.coin : r \in Newest(rows)}
    PROVE  SumFunction(byBox) = UplOf(Newest(rows)) /\ SumFunction(byCoin) = UplOf(Newest(rows))
    OBVIOUS
<1>1. rows \in SUBSET silver.positions /\ Newest(rows) \subseteq rows
    BY DEF Newest
<1>2. \A r \in silver.positions : r.strategy \in Strategies /\ r.coin \in Coins
    <2>1. TAKE r \in silver.positions
    <2>2. r.strategy \in Strategies /\ PositionOK(r)
        BY CurrentRows
    <2>3. r.leg \in Legs /\ r.coin = LegInfo[r.leg].coin
        BY <2>2 DEF PositionOK
    <2>4. QED
        BY <2>2, <2>3, LegType
<1>3. \A r \in rows : \E q \in Newest(rows) : q.strategy = r.strategy
    OBVIOUS
<1>4. \A r \in rows : \E q \in Newest(rows) : q.coin = r.coin
    OBVIOUS
<1>5. \A b \in Strategies : boxes[b] \in SUBSET rows
          /\ \A r \in rows : r \in boxes[b] <=> r.strategy = b
    OBVIOUS
<1>6. \A c \in Coins : coins[c] \in SUBSET rows /\ \A r \in rows : r \in coins[c] <=> r.coin = c
    OBVIOUS
<1>7. /\ \A b \in Strategies : byBox[b] = Known(EodUpl(boxes[b]))
      /\ \A c \in Coins : byCoin[c] = Known(EodUpl(coins[c]))
    BY EodCells
<1>8. DOMAIN byBox = Strategies /\ DOMAIN byCoin = Coins
    OBVIOUS
<1>9. \A r \in silver.positions : box1[r] = r.strategy /\ coin1[r] = r.coin
    OBVIOUS
<1> HIDE DEF rows, byBox, byCoin, box1, coin1, boxes, coins
<1>10. SumFunction(byBox) = UplOf(Newest(rows))
    <2>1. \A r \in rows : box1[r] \in Strategies
        BY <1>1, <1>2, <1>9
    <2>2. \A r \in rows : \E q \in Newest(rows) : box1[q] = box1[r]
        BY <1>1, <1>3, <1>9
    <2>3. \A b \in Strategies : boxes[b] \in SUBSET rows
              /\ \A r \in rows : r \in boxes[b] <=> box1[r] = b
        BY <1>1, <1>5, <1>9
    <2>4. IsFiniteSet(Strategies) /\ \A b \in Strategies : byBox[b] = Known(EodUpl(boxes[b]))
        BY <1>7, KeysFinite
    <2>5. QED
        BY <1>1, <1>8, <2>1, <2>2, <2>3, <2>4, UplByKey
<1>11. SumFunction(byCoin) = UplOf(Newest(rows))
    <2>1. \A r \in rows : coin1[r] \in Coins
        BY <1>1, <1>2, <1>9
    <2>2. \A r \in rows : \E q \in Newest(rows) : coin1[q] = coin1[r]
        BY <1>1, <1>4, <1>9
    <2>3. \A c \in Coins : coins[c] \in SUBSET rows /\ \A r \in rows : r \in coins[c] <=> coin1[r] = c
        BY <1>1, <1>6, <1>9
    <2>4. IsFiniteSet(Coins) /\ \A c \in Coins : byCoin[c] = Known(EodUpl(coins[c]))
        BY <1>7, KeysFinite
    <2>5. QED
        BY <1>1, <1>8, <2>1, <2>2, <2>3, <2>4, UplByKey
<1>12. QED
    BY <1>10, <1>11

---------------------------------------------------------------------------
(* The current positions, counted in several ways.                         *)

LEMMA PositionRows ==
    ASSUME IInv, stage = "done", NEW u, NEW y
    PROVE  LET rows == Positions(SubsOf(u), y) IN
           /\ rows \in SUBSET silver.positions /\ rows \subseteq gold.current /\ IsFiniteSet(rows)
           /\ \A r \in gold.current : r \in rows <=>
                 r.sub \in SubsOf(u) /\ y \in {None, LegInfo[r.leg].underlying}
           /\ \A r \in rows : /\ r.sub \in SubsOf(u) /\ r.sub \in Accounts
                              /\ r.leg \in Legs /\ r.strategy \in Strategies
                              /\ LegInfo[r.leg].underlying \in Underlyings
                              /\ LegInfo[r.leg].expiry \in Expiries
<1> DEFINE rows == Positions(SubsOf(u), y)
<1>1. /\ rows \subseteq gold.current
      /\ \A r \in gold.current : r \in rows <=>
            r.sub \in SubsOf(u) /\ y \in {None, LegInfo[r.leg].underlying}
    BY DEF Positions
<1> HIDE DEF rows
<1>2. gold.current \subseteq silver.positions /\ IsFiniteSet(gold.current)
    BY CurrentRows
<1>3. rows \in SUBSET silver.positions /\ IsFiniteSet(rows)
    BY <1>1, <1>2, FS_Subset
<1>4. ASSUME NEW r \in rows
      PROVE  /\ r.sub \in SubsOf(u) /\ r.sub \in Accounts /\ r.leg \in Legs
                  /\ r.strategy \in Strategies
             /\ LegInfo[r.leg].underlying \in Underlyings /\ LegInfo[r.leg].expiry \in Expiries
    <2>1. PositionOK(r) /\ r.strategy \in Strategies /\ r.sub \in SubsOf(u)
        BY <1>1, <1>3, CurrentRows
    <2>2. r.leg \in Legs
        BY <2>1 DEF PositionOK
    <2>3. r.sub \in Accounts
        BY <2>1, SubsFinite
    <2>4. QED
        BY <2>1, <2>2, <2>3, LegType
<1>5. QED
    BY <1>1, <1>3, <1>4 DEF rows

LEMMA MapCounts ==
    ASSUME IInv, stage = "done", NEW u, NEW y
    PROVE  SumFunction(PositionMap(SubsOf(u), y)) = DeltaOf(Positions(SubsOf(u), y))
<1> DEFINE rows == Positions(SubsOf(u), y)
           cell(r) == <<LegInfo[r.leg].strike, LegInfo[r.leg].expiry>>
           of == [r \in rows |-> cell(r)]
           K == {of[r] : r \in rows}
           part == [c \in K |-> {r \in rows : cell(r) = c}]
           map == PositionMap(SubsOf(u), y)
<1>1. rows \in SUBSET silver.positions /\ IsFiniteSet(rows)
    BY PositionRows
<1>2. K = {cell(r) : r \in rows}
    OBVIOUS
<1>3. map = [c \in K |-> DeltaOf(part[c])]
    <2>1. map = [c \in {cell(r) : r \in rows} |-> DeltaOf({r \in rows : cell(r) = c})]
        BY DEF PositionMap
    <2> HIDE DEF map, rows, of, cell
    <2>2. QED
        BY <1>2, <2>1
<1>4. \A r \in rows : of[r] \in K
    OBVIOUS
<1>5. \A c \in K : part[c] \in SUBSET rows /\ \A r \in rows : r \in part[c] <=> of[r] = c
    OBVIOUS
<1>6. IsFiniteSet(K)
    <2> HIDE DEF rows, of
    <2>1. QED
        BY <1>1, FiniteImage
<1> HIDE DEF rows, cell, of, K, part, map
<1>7. Parts(part, K, rows)
    BY <1>1, <1>4, <1>5, <1>6, PartsByKey
<1>8. DOMAIN map = K /\ \A c \in K : map[c] = DeltaOf(part[c])
    BY <1>3
<1>9. SumFunction(map) = DeltaOf(rows)
    BY <1>1, <1>7, <1>8, RowsByPart
<1>10. QED
    BY <1>9 DEF map, rows

\* the rows of one cell of the greeks
GreeksOf(a, b, x, e) ==
    {r \in gold.current : /\ r.sub = a /\ CountsFor(b, r)
                          /\ LegInfo[r.leg].underlying = x /\ LegInfo[r.leg].expiry = e}

LEMMA GreeksRows ==
    ASSUME IInv, stage = "done"
    PROVE  /\ DOMAIN totals.greeks = Accounts \X (Strategies \cup {None}) \X Underlyings \X Expiries
           /\ \A k \in DOMAIN totals.greeks :
                 /\ totals.greeks[k].open = Cardinality(GreeksOf(k[1], k[2], k[3], k[4]))
                 /\ totals.greeks[k].delta = DeltaOf(GreeksOf(k[1], k[2], k[3], k[4]))
<1>1. totals.greeks = GreeksByExpiry /\ gold.current = PositionCurrent
    BY AtDone DEF Totals, Tables
<1>2. DOMAIN GreeksByExpiry = Accounts \X (Strategies \cup {None}) \X Underlyings \X Expiries
    BY DEF GreeksByExpiry
<1>3. ASSUME NEW k \in Accounts \X (Strategies \cup {None}) \X Underlyings \X Expiries
      PROVE  /\ GreeksByExpiry[k].open = Cardinality(GreeksOf(k[1], k[2], k[3], k[4]))
             /\ GreeksByExpiry[k].delta = DeltaOf(GreeksOf(k[1], k[2], k[3], k[4]))
    BY <1>1 DEF GreeksByExpiry, GreeksOf
<1>4. QED
    BY <1>1, <1>2, <1>3

OfExpiry(rows, e) == {r \in rows : LegInfo[r.leg].expiry = e}

\* the greeks of an expiry are over its positions
LEMMA GreeksOfExpiry ==
    ASSUME IInv, stage = "done", NEW u, NEW y, NEW e \in Expiries
    PROVE  Greeks(SubsOf(u), y)[e].delta = DeltaOf(OfExpiry(Positions(SubsOf(u), y), e))
<1> DEFINE rows == Positions(SubsOf(u), y)
           R == OfExpiry(rows, e)
           V == {x \in Underlyings : y \in {None, x}}
           K == SubsOf(u) \X V
           of == [r \in R |-> <<r.sub, LegInfo[r.leg].underlying>>]
           part == [c \in K |-> GreeksOf(c[1], None, c[2], e)]
           g == [c \in K |-> totals.greeks[<<c[1], None, c[2], e>>].delta]
<1>1. Greeks(SubsOf(u), y)[e].delta = SumFunction(g)
    BY DEF Greeks
<1>2. R \in SUBSET silver.positions /\ IsFiniteSet(R)
    <2>1. rows \in SUBSET silver.positions /\ IsFiniteSet(rows)
        BY PositionRows
    <2>2. QED
        BY <2>1, FS_Subset DEF OfExpiry
<1>3. IsFiniteSet(K)
    <2>1. IsFiniteSet(V) /\ IsFiniteSet(SubsOf(u))
        BY SubsFinite, KeysFinite, FS_Subset
    <2> HIDE DEF V
    <2>2. QED
        BY <2>1, FS_Product
<1>4. \A c \in K : /\ c = <<c[1], c[2]>> /\ c[1] \in SubsOf(u) /\ c[1] \in Accounts
                   /\ c[2] \in Underlyings /\ y \in {None, c[2]}
    <2>1. \A c \in K : c = <<c[1], c[2]>> /\ c[1] \in SubsOf(u) /\ c[2] \in Underlyings
              /\ y \in {None, c[2]}
        OBVIOUS
    <2>2. QED
        BY <2>1, SubsFinite
<1>5. \A r \in R : of[r] \in K
    <2>1. TAKE r \in R
    <2>2. r \in rows
        BY DEF OfExpiry
    <2>3. /\ r.sub \in SubsOf(u) /\ LegInfo[r.leg].underlying \in Underlyings
          /\ y \in {None, LegInfo[r.leg].underlying}
        BY <2>2, PositionRows
    <2>4. QED
        BY <2>3
<1>6. ASSUME NEW c \in K
      PROVE  /\ part[c] \in SUBSET R /\ \A r \in R : r \in part[c] <=> of[r] = c
             /\ g[c] = DeltaOf(part[c])
    <2>1. c = <<c[1], c[2]>> /\ c[1] \in SubsOf(u) /\ y \in {None, c[2]}
          /\ c[1] \in Accounts /\ c[2] \in Underlyings
        BY <1>4
    <2>2. \A r : r \in part[c] <=> /\ r \in gold.current /\ r.sub = c[1]
                                  /\ LegInfo[r.leg].underlying = c[2] /\ LegInfo[r.leg].expiry = e
        BY DEF GreeksOf, CountsFor
    <2>3. \A r : r \in R <=> r \in rows /\ LegInfo[r.leg].expiry = e
        BY DEF OfExpiry
    <2>4. \A r \in R : of[r] = <<r.sub, LegInfo[r.leg].underlying>>
        OBVIOUS
    <2>5. <<c[1], None, c[2], e>> \in DOMAIN totals.greeks
        BY <2>1, GreeksRows
    <2>6. g[c] = DeltaOf(part[c])
        BY <2>5, GreeksRows
    <2> HIDE DEF part, rows, R, of, g, K
    <2>7. rows \subseteq gold.current
          /\ \A r \in gold.current : r \in rows <=>
                r.sub \in SubsOf(u) /\ y \in {None, LegInfo[r.leg].underlying}
        BY PositionRows DEF rows
    <2>8. \A r \in part[c] : r \in R
        BY <2>1, <2>2, <2>3, <2>7
    <2>9. \A r \in R : r \in part[c] <=> of[r] = c
        BY <2>1, <2>2, <2>3, <2>4, <2>7
    <2>10. QED
        BY <2>6, <2>8, <2>9
<1>7. DOMAIN g = K
    OBVIOUS
<1> HIDE DEF R, V, K, of, part, g
<1>8. \A c \in K : part[c] \in SUBSET R /\ \A r \in R : r \in part[c] <=> of[r] = c
    BY <1>6
<1>9. Parts(part, K, R)
    BY <1>2, <1>3, <1>5, <1>8, PartsByKey
<1>10. \A c \in K : g[c] = DeltaOf(part[c])
    BY <1>6
<1>11. SumFunction(g) = DeltaOf(R)
    BY <1>2, <1>7, <1>9, <1>10, RowsByPart
<1>12. QED
    BY <1>1, <1>11 DEF R

\* each position is of one expiry
LEMMA ExpiryParts ==
    ASSUME NEW rows, IsFiniteSet(rows), \A r \in rows : LegInfo[r.leg].expiry \in Expiries
    PROVE  Parts([e \in Expiries |-> OfExpiry(rows, e)], Expiries, rows)
<1> DEFINE part == [e \in Expiries |-> OfExpiry(rows, e)]
           of == [r \in rows |-> LegInfo[r.leg].expiry]
<1>1. \A e \in Expiries : part[e] \in SUBSET rows /\ \A r \in rows : r \in part[e] <=> of[r] = e
    BY DEF OfExpiry
<1>2. \A r \in rows : of[r] \in Expiries
    OBVIOUS
<1>3. IsFiniteSet(Expiries)
    BY KeysFinite
<1> HIDE DEF part, of
<1>4. Parts(part, Expiries, rows)
    BY <1>1, <1>2, <1>3, PartsByKey
<1>5. QED
    BY <1>4 DEF part

LEMMA GreeksCount ==
    ASSUME IInv, stage = "done", NEW u, NEW y
    PROVE  SumFunction([e \in Expiries |-> Greeks(SubsOf(u), y)[e].delta])
               = DeltaOf(Positions(SubsOf(u), y))
<1> DEFINE rows == Positions(SubsOf(u), y)
           part == [e \in Expiries |-> OfExpiry(rows, e)]
           g == [e \in Expiries |-> Greeks(SubsOf(u), y)[e].delta]
<1>1. rows \in SUBSET silver.positions /\ IsFiniteSet(rows)
      /\ \A r \in rows : LegInfo[r.leg].expiry \in Expiries
    BY PositionRows
<1>2. Parts(part, Expiries, rows)
    <2> HIDE DEF rows
    <2>1. QED
        BY <1>1, ExpiryParts
<1>3. \A e \in Expiries : g[e] = DeltaOf(part[e])
    BY GreeksOfExpiry
<1>4. DOMAIN g = Expiries
    OBVIOUS
<1> HIDE DEF rows, part, g
<1>5. SumFunction(g) = DeltaOf(rows)
    BY <1>1, <1>2, <1>3, <1>4, RowsByPart
<1>6. QED
    BY <1>5 DEF g, rows

\* the cells of the greeks that are of one strategy
CellsOf(u, y) ==
    {k \in DOMAIN totals.greeks : k[1] \in SubsOf(u) /\ k[2] # None /\ y \in {None, k[3]}}

LEMMA CellsCount ==
    ASSUME IInv, stage = "done", NEW u, NEW y
    PROVE  SumFunction([k \in CellsOf(u, y) |-> totals.greeks[k].open])
               = Cardinality(Positions(SubsOf(u), y))
<1> DEFINE K == CellsOf(u, y)
           rows == Positions(SubsOf(u), y)
           of == [r \in rows |->
                     <<r.sub, r.strategy, LegInfo[r.leg].underlying, LegInfo[r.leg].expiry>>]
           part == [k \in K |-> GreeksOf(k[1], k[2], k[3], k[4])]
           g == [k \in K |-> totals.greeks[k].open]
           All == Accounts \X (Strategies \cup {None}) \X Underlyings \X Expiries
<1>1. /\ IsFiniteSet(rows) /\ rows \subseteq gold.current
      /\ \A r \in gold.current : r \in rows <=>
            r.sub \in SubsOf(u) /\ y \in {None, LegInfo[r.leg].underlying}
      /\ \A r \in rows : /\ r.sub \in SubsOf(u) /\ r.sub \in Accounts /\ r.strategy \in Strategies
                         /\ LegInfo[r.leg].underlying \in Underlyings
                         /\ LegInfo[r.leg].expiry \in Expiries
    BY PositionRows
<1>2. DOMAIN totals.greeks = All /\ None \notin Strategies
    BY GreeksRows, GoldAssumption
<1>3. \A k \in K : /\ k = <<k[1], k[2], k[3], k[4]>>
                   /\ k[1] \in Accounts /\ k[2] \in Strategies \cup {None}
                   /\ k[3] \in Underlyings /\ k[4] \in Expiries
                   /\ k[1] \in SubsOf(u) /\ k[2] # None /\ y \in {None, k[3]}
    BY <1>2 DEF CellsOf
<1>4. IsFiniteSet(K)
    <2> DEFINE S2 == Strategies \cup {None}
               B == (Accounts \X S2) \X (Underlyings \X Expiries)
               f == [k \in K |-> <<<<k[1], k[2]>>, <<k[3], k[4]>>>>]
    <2>1. IsFiniteSet(S2)
        BY KeysFinite, FS_AddElement
    <2> HIDE DEF S2
    <2>2. IsFiniteSet(Accounts \X S2) /\ IsFiniteSet(Underlyings \X Expiries)
        BY <2>1, KeysFinite, FS_Product
    <2>3. IsFiniteSet(B)
        BY <2>2, FS_Product
    <2>4. \A k \in K : f[k] \in B
        BY <1>3 DEF S2
    <2>5. \A j, k \in K : f[j] = f[k] => j = k
        <3>1. \A j, k \in K : f[j] = f[k] => j[1] = k[1] /\ j[2] = k[2] /\ j[3] = k[3] /\ j[4] = k[4]
            OBVIOUS
        <3> HIDE DEF f
        <3>2. QED
            BY <1>3, <3>1
    <2> HIDE DEF B, f
    <2>6. QED
        BY <2>3, <2>4, <2>5, FiniteByKey
<1>5. \A r \in rows : of[r] \in K
    <2>1. TAKE r \in rows
    <2>2. r.strategy # None /\ y \in {None, LegInfo[r.leg].underlying}
        BY <1>1, <1>2
    <2>3. of[r] \in All
        BY <1>1
    <2>4. of[r][1] = r.sub /\ of[r][2] = r.strategy /\ of[r][3] = LegInfo[r.leg].underlying
        OBVIOUS
    <2> HIDE DEF of, All, rows
    <2>5. QED
        BY <1>1, <1>2, <2>2, <2>3, <2>4 DEF CellsOf
<1>6. ASSUME NEW k \in K
      PROVE  /\ part[k] \in SUBSET rows /\ \A r \in rows : r \in part[k] <=> of[r] = k
             /\ g[k] = Cardinality(part[k])
    <2>1. /\ k = <<k[1], k[2], k[3], k[4]>> /\ k[1] \in SubsOf(u) /\ k[2] # None /\ y \in {None, k[3]}
        BY <1>3
    <2>2. \A r : r \in part[k] <=> /\ r \in gold.current /\ r.sub = k[1] /\ r.strategy = k[2]
                                  /\ LegInfo[r.leg].underlying = k[3] /\ LegInfo[r.leg].expiry = k[4]
        BY <2>1 DEF GreeksOf, CountsFor
    <2>3. \A r \in rows : of[r]
              = <<r.sub, r.strategy, LegInfo[r.leg].underlying, LegInfo[r.leg].expiry>>
        OBVIOUS
    <2>4. g[k] = Cardinality(part[k])
        BY GreeksRows DEF CellsOf
    <2> HIDE DEF part, rows, of, g
    <2>5. part[k] \in SUBSET rows
        BY <1>1, <2>1, <2>2
    <2>6. \A r \in rows : r \in part[k] <=> of[r] = k
        <3>1. TAKE r \in rows
        <3>2. r \in part[k] <=> /\ r.sub = k[1] /\ r.strategy = k[2]
                                /\ LegInfo[r.leg].underlying = k[3] /\ LegInfo[r.leg].expiry = k[4]
            BY <1>1, <2>2
        <3>3. QED
            BY <2>1, <2>3, <3>2
    <2>7. QED
        BY <2>4, <2>5, <2>6
<1>7. DOMAIN g = K
    OBVIOUS
<1> HIDE DEF K, rows, of, part, g, All
<1>8. \A k \in K : part[k] \in SUBSET rows /\ \A r \in rows : r \in part[k] <=> of[r] = k
    BY <1>6
<1>9. Parts(part, K, rows)
    <2>1. IsFiniteSet(rows)
        BY <1>1
    <2>2. QED
        BY <1>4, <1>5, <1>8, <2>1, PartsByKey
<1>10. \A k \in K : g[k] = Cardinality(part[k])
    BY <1>6
<1>11. SumFunction(g) = Cardinality(rows)
    BY <1>7, <1>9, <1>10, CountOfParts
<1>12. QED
    BY <1>11 DEF g, K, rows

\* calls and puts
LEMMA LadderCounts ==
    ASSUME IInv, stage = "done", NEW u, NEW y
    PROVE  SumFunction(Ladder(SubsOf(u), y, "C")) + SumFunction(Ladder(SubsOf(u), y, "P"))
               = Cardinality(Positions(SubsOf(u), y))
<1> DEFINE rows == Positions(SubsOf(u), y)
           Typed(type) == {r \in rows : LegInfo[r.leg].type = type}
<1>1. /\ IsFiniteSet(rows)
      /\ \A r \in rows : r.leg \in Legs /\ LegInfo[r.leg].expiry \in Expiries
    BY PositionRows
<1>2. ASSUME NEW type
      PROVE  IsFiniteSet(Typed(type))
             /\ SumFunction(Ladder(SubsOf(u), y, type)) = Cardinality(Typed(type))
    <2> DEFINE T == Typed(type)
               part == [e \in Expiries |-> OfExpiry(T, e)]
               g == Ladder(SubsOf(u), y, type)
    <2>1. IsFiniteSet(T) /\ T \subseteq rows
        BY <1>1, FS_Subset
    <2>2. g = [e \in Expiries |-> Cardinality({r \in rows : LegInfo[r.leg].expiry = e
                                                             /\ LegInfo[r.leg].type = type})]
        BY DEF Ladder
    <2>3. \A e \in Expiries : part[e] = {r \in rows : LegInfo[r.leg].expiry = e
                                                       /\ LegInfo[r.leg].type = type}
        BY DEF OfExpiry
    <2> HIDE DEF g, rows
    <2>4. DOMAIN g = Expiries /\ \A e \in Expiries : g[e] = Cardinality(part[e])
        BY <2>2, <2>3
    <2>5. \A r \in T : LegInfo[r.leg].expiry \in Expiries
        BY <1>1, <2>1
    <2> HIDE DEF T
    <2>6. Parts(part, Expiries, T)
        BY <2>1, <2>5, ExpiryParts
    <2> HIDE DEF part
    <2>7. SumFunction(g) = Cardinality(T)
        BY <2>4, <2>6, CountOfParts
    <2>8. QED
        BY <2>1, <2>7 DEF g, T
<1>3. Typed("C") \cup Typed("P") = rows /\ Typed("C") \cap Typed("P") = {}
    BY <1>1, ReportsAssumption
<1> HIDE DEF rows, Typed
<1>4. /\ IsFiniteSet(Typed("C")) /\ IsFiniteSet(Typed("P"))
      /\ SumFunction(Ladder(SubsOf(u), y, "C")) = Cardinality(Typed("C"))
      /\ SumFunction(Ladder(SubsOf(u), y, "P")) = Cardinality(Typed("P"))
    BY <1>2
<1>5. Cardinality(rows) = Cardinality(Typed("C")) + Cardinality(Typed("P")) - Cardinality({})
    BY <1>3, <1>4, FS_Union
<1>6. Cardinality({}) = 0 /\ Cardinality(Typed("C")) \in Nat /\ Cardinality(Typed("P")) \in Nat
    BY <1>4, FS_EmptySet, FS_CardinalityType
<1>7. QED
    BY <1>4, <1>5, <1>6 DEF rows

\* the positions of a client are those of its strategies
LEMMA SummaryCounts ==
    ASSUME IInv, stage = "done", NEW u
    PROVE  Cardinality(Positions(SubsOf(u), None)) =
               SumFunction([k \in SubsOf(u) \X Strategies |-> totals.summary[k].open])
<1> DEFINE rows == Positions(SubsOf(u), None)
           K == SubsOf(u) \X Strategies
           part == [k \in K |-> {r \in gold.current : r.sub = k[1] /\ r.strategy = k[2]}]
           of == [r \in rows |-> <<r.sub, r.strategy>>]
           g == [k \in K |-> totals.summary[k].open]
<1>1. /\ IsFiniteSet(rows) /\ \A r : r \in rows <=> r \in gold.current /\ r.sub \in SubsOf(u)
      /\ \A r \in rows : r.sub \in SubsOf(u) /\ r.strategy \in Strategies
    BY PositionRows DEF Positions
<1>2. IsFiniteSet(K) /\ \A k \in K : /\ k = <<k[1], k[2]>> /\ k[1] \in SubsOf(u) /\ k[1] \in Accounts
                                     /\ k[2] \in Strategies
    <2>1. \A k \in K : k = <<k[1], k[2]>> /\ k[1] \in SubsOf(u) /\ k[2] \in Strategies
        OBVIOUS
    <2>2. QED
        BY <2>1, SubsFinite
<1>3. \A r \in rows : of[r] \in K
    BY <1>1
<1>4. \A k \in K : \A r : r \in part[k] <=> r \in gold.current /\ r.sub = k[1] /\ r.strategy = k[2]
    OBVIOUS
<1>5. \A r \in rows : of[r] = <<r.sub, r.strategy>>
    OBVIOUS
<1>6. \A k \in K : g[k] = Cardinality(part[k])
    <2>1. TAKE k \in K
    <2>2. k \in Accounts \X Strategies
        BY <1>2
    <2>3. totals.summary = StrategySummary /\ gold.current = PositionCurrent
        BY AtDone DEF Totals, Tables
    <2>4. StrategySummary[k].open = Cardinality(part[k])
        BY <2>2, <2>3 DEF StrategySummary
    <2>5. QED
        BY <2>3, <2>4
<1>7. DOMAIN g = K
    OBVIOUS
<1> HIDE DEF rows, K, part, of, g
<1>8. \A k \in K : part[k] \in SUBSET rows /\ \A r \in rows : r \in part[k] <=> of[r] = k
    <2>1. TAKE k \in K
    <2>2. k = <<k[1], k[2]>> /\ k[1] \in SubsOf(u)
        BY <1>2
    <2>3. part[k] \in SUBSET rows
        BY <1>1, <1>4, <2>2
    <2>4. \A r \in rows : r \in part[k] <=> of[r] = k
        BY <1>1, <1>4, <1>5, <2>2
    <2>5. QED
        BY <2>3, <2>4
<1>9. Parts(part, K, rows)
    BY <1>1, <1>2, <1>3, <1>8, PartsByKey
<1>10. SumFunction(g) = Cardinality(rows)
    BY <1>6, <1>7, <1>9, CountOfParts
<1>11. QED
    BY <1>10 DEF g, K, rows

LEMMA PositionsDo == IInv => PositionsCountedOnce
<1> SUFFICES ASSUME IInv, stage = "done", NEW u \in Users, NEW y \in Underlyings \cup {None}
    PROVE  LET subs == SubsOf(u)
               rows == Positions(subs, y)
               map == PositionMap(subs, y)
               greeks == Greeks(subs, y)
               ladder(type) == SumFunction(Ladder(subs, y, type))
               keys == {k \in DOMAIN totals.greeks :
                            k[1] \in subs /\ k[2] # None /\ y \in {None, k[3]}}
           IN  /\ SumFunction(map) = DeltaOf(rows)
               /\ SumFunction([e \in Expiries |-> greeks[e].delta]) = DeltaOf(rows)
               /\ SumFunction([k \in keys |-> totals.greeks[k].open]) = Cardinality(rows)
               /\ ladder("C") + ladder("P") = Cardinality(rows)
               /\ y = None => Cardinality(rows) =
                      SumFunction([k \in subs \X Strategies |-> totals.summary[k].open])
    BY DEF PositionsCountedOnce
<1>1. SumFunction(PositionMap(SubsOf(u), y)) = DeltaOf(Positions(SubsOf(u), y))
    BY MapCounts
<1>2. SumFunction([e \in Expiries |-> Greeks(SubsOf(u), y)[e].delta])
          = DeltaOf(Positions(SubsOf(u), y))
    BY GreeksCount
<1>3. SumFunction([k \in CellsOf(u, y) |-> totals.greeks[k].open])
          = Cardinality(Positions(SubsOf(u), y))
    BY CellsCount
<1>4. SumFunction(Ladder(SubsOf(u), y, "C")) + SumFunction(Ladder(SubsOf(u), y, "P"))
          = Cardinality(Positions(SubsOf(u), y))
    BY LadderCounts
<1>5. y = None => Cardinality(Positions(SubsOf(u), y)) =
          SumFunction([k \in SubsOf(u) \X Strategies |-> totals.summary[k].open])
    BY SummaryCounts
<1>6. QED
    BY <1>1, <1>2, <1>3, <1>4, <1>5 DEF CellsOf

---------------------------------------------------------------------------
(* The payoff.                                                             *)

OpenLegs(u, y, e) ==
    {r.leg : r \in {x \in Positions(SubsOf(u), y) : LegInfo[x.leg].expiry = e}}
DoneLegs(u, y, e) ==
    {d.leg : d \in {x \in Deals(SubsOf(u), None, y) : LegInfo[x.leg].expiry = e}}

LEMMA PayoffCases ==
    ASSUME NEW u, NEW y, NEW e
    PROVE  LET open == OpenLegs(u, y, e)
               done == DoneLegs(u, y, e)
               payoff == Payoff(SubsOf(u), y, e)
           IN  /\ Expired(e) /\ done # {} => payoff.mode = "expired" /\ payoff.legs = done
               /\ Expired(e) /\ done = {} /\ open # {} => payoff.mode = "expired"
                    /\ payoff.legs = open
               /\ Expired(e) /\ done = {} /\ open = {} => payoff.mode = "empty" /\ payoff.legs = {}
               /\ ~Expired(e) /\ open # {} => payoff.mode = "open"
               /\ ~Expired(e) /\ open = {} /\ done # {} => payoff.mode = "expired"
<1> DEFINE open == OpenLegs(u, y, e)
           done == DoneLegs(u, y, e)
           E == Expired(e)
<1>1. Payoff(SubsOf(u), y, e) =
        CASE ~E /\ open # {} -> [mode |-> "open", legs |-> open]
          [] (E \/ open = {}) /\ done # {} -> [mode |-> "expired", legs |-> done]
          [] E /\ done = {} /\ open # {} -> [mode |-> "expired", legs |-> open]
          [] OTHER -> [mode |-> "empty", legs |-> {}]
    BY DEF Payoff, OpenLegs, DoneLegs
<1> HIDE DEF open, done, E
<1>2. CASE E /\ done # {}
    BY <1>1, <1>2 DEF E, open, done
<1>3. CASE E /\ done = {} /\ open # {}
    BY <1>1, <1>3 DEF E, open, done
<1>4. CASE E /\ done = {} /\ open = {}
    BY <1>1, <1>4 DEF E, open, done
<1>5. CASE ~E /\ open # {}
    BY <1>1, <1>5 DEF E, open, done
<1>6. CASE ~E /\ open = {} /\ done # {}
    BY <1>1, <1>6 DEF E, open, done
<1>7. CASE ~E /\ open = {} /\ done = {}
    BY <1>7 DEF E, open, done
<1>8. QED
    BY <1>2, <1>3, <1>4, <1>5, <1>6, <1>7

LEMMA PayoffDoes == IInv => PayoffIsWhole
<1> SUFFICES ASSUME IInv, stage = "done",
                    NEW u \in Users, NEW y \in Underlyings \cup {None}, NEW e \in Expiries
    PROVE  LET legs == {l \in Legs : /\ LegInfo[l].sub \in SubsOf(u) /\ LegInfo[l].expiry = e
                                     /\ y \in {None, LegInfo[l].underlying} /\ opened[l] # None}
           IN  /\ Expired(e) /\ legs \subseteq collected => Payoff(SubsOf(u), y, e).legs = legs
               /\ Payoff(SubsOf(u), y, e).mode = "open" => ~Expired(e)
               /\ DefaultExpiry(SubsOf(u), y) = e => Payoff(SubsOf(u), y, e).mode # "empty"
    BY DEF PayoffIsWhole
<1> DEFINE legs == {l \in Legs : /\ LegInfo[l].sub \in SubsOf(u) /\ LegInfo[l].expiry = e
                                 /\ y \in {None, LegInfo[l].underlying} /\ opened[l] # None}
           open == OpenLegs(u, y, e)
           done == DoneLegs(u, y, e)
<1>1. open \subseteq legs
    <2>1. SUFFICES ASSUME NEW r \in Positions(SubsOf(u), y), LegInfo[r.leg].expiry = e
          PROVE  r.leg \in legs
        BY DEF OpenLegs
    <2>2. /\ r \in silver.positions /\ r \in gold.current
          /\ r.sub \in SubsOf(u) /\ y \in {None, LegInfo[r.leg].underlying}
        BY PositionRows
    <2>3. r.leg \in Legs /\ r.sub = LegInfo[r.leg].sub /\ opened[r.leg] # None
        BY <2>2, CurrentRows DEF PositionOK
    <2>4. QED
        BY <2>1, <2>2, <2>3
<1>2. done = {l \in legs : l \in collected}
    <2>1. \A d \in gold.deals : DealOK(d)
        BY DealRows
    <2>2. \A d : d \in Deals(SubsOf(u), None, y) <=>
              d \in gold.deals /\ d.sub \in SubsOf(u) /\ y \in {None, d.underlying}
        BY DEF Deals
    <2>3. ASSUME NEW d \in Deals(SubsOf(u), None, y), LegInfo[d.leg].expiry = e
          PROVE  d.leg \in legs /\ d.leg \in collected
        <3>1. /\ d.leg \in collected /\ LegInfo[d.leg].sub \in SubsOf(u)
              /\ y \in {None, LegInfo[d.leg].underlying}
            BY <2>1, <2>2 DEF DealOK
        <3>2. d.leg \in Legs
            BY <3>1, Collected
        <3>3. opened[d.leg] # None
            <4>1. opened[d.leg] \in 0..now /\ now \in Nat
                BY <3>1, Collected, AtDone
            <4>2. QED
                BY <4>1, NoneIsNoTime
        <3>4. QED
            BY <2>3, <3>1, <3>2, <3>3
    <2>4. ASSUME NEW l \in legs, l \in collected
          PROVE  \E d \in Deals(SubsOf(u), None, y) : LegInfo[d.leg].expiry = e /\ d.leg = l
        <3>1. PICK d \in gold.deals : d.leg = l
            BY <2>4, DealRows
        <3>2. d.sub \in SubsOf(u) /\ y \in {None, d.underlying}
            BY <2>1, <3>1 DEF DealOK
        <3>3. d \in Deals(SubsOf(u), None, y)
            BY <2>2, <3>1, <3>2
        <3>4. QED
            BY <3>1, <3>3
    <2> HIDE DEF legs
    <2>5. QED
        BY <2>3, <2>4 DEF DoneLegs
<1>3. ASSUME Expired(e), legs \subseteq collected
      PROVE  Payoff(SubsOf(u), y, e).legs = legs
    <2>1. done = legs
        BY <1>2, <1>3
    <2> HIDE DEF legs, open, done
    <2>2. CASE legs # {}
        BY <1>3, <2>1, <2>2, PayoffCases DEF done
    <2>3. CASE legs = {}
        <3>1. open = {}
            BY <1>1, <2>3
        <3>2. QED
            BY <1>3, <2>1, <2>3, <3>1, PayoffCases DEF open, done
    <2>4. QED
        BY <2>2, <2>3
<1>4. Payoff(SubsOf(u), y, e).mode = "open" => ~Expired(e)
    <2>1. Expired(e) => Payoff(SubsOf(u), y, e).mode \in {"expired", "empty"}
        BY PayoffCases
    <2>2. QED
        BY <2>1
<1>5. ASSUME DefaultExpiry(SubsOf(u), y) = e
      PROVE  Payoff(SubsOf(u), y, e).mode # "empty"
    <2> DEFINE known == {LegInfo[r.leg].expiry : r \in Positions(SubsOf(u), y)}
                        \cup {LegInfo[d.leg].expiry : d \in Deals(SubsOf(u), None, y)}
    <2>1. DefaultExpiry(SubsOf(u), y) = IF known = {} THEN None ELSE Max(known)
        BY DEF DefaultExpiry
    <2>2. e # None
        BY NoneIsNoTime, LegType DEF Expiries
    <2>3. known \subseteq Expiries
        <3>1. \A r \in Positions(SubsOf(u), y) : LegInfo[r.leg].expiry \in Expiries
            BY PositionRows
        <3>2. \A d \in Deals(SubsOf(u), None, y) : LegInfo[d.leg].expiry \in Expiries
            <4>1. \A d \in Deals(SubsOf(u), None, y) : d.leg \in Legs
                BY DealRows, Collected DEF Deals, DealOK
            <4>2. QED
                BY <4>1, LegType
        <3>3. QED
            BY <3>1, <3>2
    <2>4. e \in known
        <3> HIDE DEF known
        <3>1. known # {} /\ e = Max(known)
            BY <1>5, <2>1, <2>2
        <3>2. Expiries \subseteq Int
            BY LegType DEF Expiries
        <3>3. IsFiniteSet(known) /\ known \subseteq Int
            BY <2>3, <3>2, KeysFinite, FS_Subset
        <3>4. QED
            BY <3>1, <3>3, MinMax
    <2>5. open # {} \/ done # {}
        BY <2>4 DEF OpenLegs, DoneLegs
    <2>6. Payoff(SubsOf(u), y, e).mode \in {"open", "expired"}
        <3> HIDE DEF open, done
        <3>1. QED
            BY <2>5, PayoffCases DEF open, done
    <2>7. QED
        BY <2>6
<1>6. QED
    BY <1>3, <1>4, <1>5

\* Gold's tables and the reports agree: each deal, each position and the unrealized P&L of a day is
\* counted once by strategy, by coin, in the ledger, by period, in greeks and summary and in the
\* reports made of them, for any legs, strategies, accounts and moves (silver_to_gold.py,
\* web/reports.py).  client_pnl_daily and the equity statistics are not among them.
THEOREM Books == Spec => []BooksAgree
<1>1. IInv => BooksAgree
    BY DailyAgree, PeriodsDo, UnrealizedDo, PositionsDo, PayoffDoes DEF BooksAgree
<1>2. QED
    BY <1>1, Inductive, PTL
=============================================================================
