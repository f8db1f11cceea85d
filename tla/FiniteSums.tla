----------------------------- MODULE FiniteSums -----------------------------
(***************************************************************************)
(* Sums of a function over a finite set, for the amounts the models add    *)
(* up: SumFunctionOnSet of the community modules.  Its definition chooses  *)
(* the recursive function of a fold; IterExists and IterAgree show that    *)
(* such a function exists and that any two agree, SumFirst is the          *)
(* recursion that follows, and SumRemove that the order of the elements    *)
(* does not matter.                                                        *)
(*                                                                         *)
(* Induction is used in its set form: a set G that holds every subset of   *)
(* S it holds the smaller ones of, holds S.  It follows from the           *)
(* well-foundedness of strict inclusion, with no operator as parameter.    *)
(***************************************************************************)
EXTENDS Integers, FiniteSets, Functions, FiniteSetTheorems, WellFoundedInduction, TLAPS

\* The element a fold takes first from a nonempty set.
First(s) == CHOOSE x \in s : TRUE

\* A nonempty set has the element its fold takes first.
LEMMA FirstIn ==
    ASSUME NEW s, s # {}
    PROVE  First(s) \in s
  BY DEF First

\* Induction over the subsets of a finite set.
LEMMA SetInduction ==
    ASSUME NEW S, IsFiniteSet(S), NEW G,
           \A T \in SUBSET S : (\A x \in T : T \ {x} \in G) => T \in G
    PROVE  S \in G
<1> SUFFICES ASSUME S \notin G PROVE FALSE
  OBVIOUS
<1>1. PICK bad : bad = {T \in SUBSET S : T \notin G}
  OBVIOUS
<1>2. IsWellFoundedOn(StrictSubsetOrdering(S), SUBSET S)
  <2>1. FiniteSubsetsOf(S) = SUBSET S
    BY FS_FiniteSubsetsOfFinite
  <2>2. IsWellFoundedOn(StrictSubsetOrdering(S), FiniteSubsetsOf(S))
    BY FS_StrictSubsetOrderingWellFounded
  <2> QED BY <2>1, <2>2, Zenon
<1>3. bad \subseteq SUBSET S /\ bad # {}
  BY <1>1
<1>4. PICK T \in bad : \A U \in bad : ~ (<<U, T>> \in StrictSubsetOrdering(S))
  BY <1>2, <1>3, WFMin
<1>5. \A x \in T : T \ {x} \in G
  <2> SUFFICES ASSUME NEW x \in T, T \ {x} \notin G PROVE FALSE
    OBVIOUS
  <2>1. T \in SUBSET S /\ T \ {x} \in SUBSET S /\ T \ {x} \in bad
    BY <1>1, <1>4
  <2>2. <<T \ {x}, T>> \in StrictSubsetOrdering(S)
    BY <2>1 DEF StrictSubsetOrdering
  <2> QED BY <1>4, <2>1, <2>2
<1> QED BY <1>1, <1>4, <1>5

\* Induction over the natural numbers.
LEMMA CountInduction ==
    ASSUME NEW G, 0 \in G, \A n \in Nat : n \in G => n + 1 \in G
    PROVE  \A n \in Nat : n \in G
<1> SUFFICES ASSUME NEW k \in Nat, k \notin G PROVE FALSE
  OBVIOUS
<1>1. PICK bad : bad = {n \in Nat : n \notin G}
  OBVIOUS
<1>2. PICK n \in bad : \A m \in bad : ~ (<<m, n>> \in OpToRel(<, Nat))
  BY <1>1, NatLessThanWellFounded, WFMin
<1>3. \A m \in bad : ~ (m < n)
  <2> SUFFICES ASSUME NEW m \in bad, m < n PROVE FALSE
    OBVIOUS
  <2>1. m \in Nat /\ n \in Nat
    BY <1>1
  <2>2. <<m, n>> \in OpToRel(<, Nat)
    BY <2>1, Zenon DEF OpToRel
  <2> QED BY <1>2, <2>2
<1>4. n \in Nat /\ n # 0 /\ n - 1 \in Nat
  BY <1>1
<1>5. n - 1 \notin bad
  BY <1>3, <1>4
<1> QED BY <1>1, <1>4, <1>5

\* iter is the function whose value at S the sum of f over S is.
IsIter(g, f, D) ==
    g = [s \in D |-> IF s = {} THEN 0 ELSE f[First(s)] + g[s \ {First(s)}]]

\* A sum is the value of the recursive function its definition chooses.
LEMMA SumIsIter ==
    ASSUME NEW S, NEW f
    PROVE  SumFunctionOnSet(f, S) = (CHOOSE g : IsIter(g, f, SUBSET S))[S]
  BY Zenon DEF SumFunctionOnSet, FoldFunctionOnSet, MapThenFoldSet, IsIter, First

UpTo(S, n) == {s \in SUBSET S : Cardinality(s) <= n}

\* That recursive function exists: it is built up by the size of the subsets.
LEMMA IterExists ==
    ASSUME NEW S, IsFiniteSet(S), NEW f
    PROVE  \E g : IsIter(g, f, SUBSET S)
<1>1. PICK G : G = {n \in Nat : \E g : IsIter(g, f, UpTo(S, n))}
  OBVIOUS
<1>2. \A s \in SUBSET S : IsFiniteSet(s) /\ Cardinality(s) \in Nat
  BY FS_Subset, FS_CardinalityType
<1>3. 0 \in G
  <2>1. UpTo(S, 0) = {{}}
    BY <1>2, FS_EmptySet DEF UpTo
  <2>2. IsIter([s \in {{}} |-> 0], f, {{}})
    BY DEF IsIter
  <2> QED BY <1>1, <2>1, <2>2
<1>4. ASSUME NEW n \in Nat, n \in G
      PROVE  n + 1 \in G
  <2>1. PICK g : IsIter(g, f, UpTo(S, n))
    BY <1>1, <1>4
  <2>2. PICK h : h = [s \in UpTo(S, n + 1) |->
                        IF s = {} THEN 0 ELSE f[First(s)] + g[s \ {First(s)}]]
    OBVIOUS
  <2>3. ASSUME NEW s \in UpTo(S, n + 1), s # {}
        PROVE  s \ {First(s)} \in UpTo(S, n) /\ s \ {First(s)} \in UpTo(S, n + 1)
    <3>1. First(s) \in s /\ s \in SUBSET S /\ Cardinality(s) <= n + 1
      BY <2>3, FirstIn DEF UpTo
    <3>2. Cardinality(s \ {First(s)}) = Cardinality(s) - 1
      BY <3>1, <1>2, FS_RemoveElement
    <3> QED BY <3>1, <3>2, <1>2 DEF UpTo
  <2>4. ASSUME NEW t \in UpTo(S, n), t \in UpTo(S, n + 1)
        PROVE  h[t] = g[t]
    BY <2>1, <2>2, <2>4 DEF IsIter
  <2>5. ASSUME NEW s \in UpTo(S, n + 1)
        PROVE  h[s] = IF s = {} THEN 0 ELSE f[First(s)] + h[s \ {First(s)}]
    <3>1. CASE s = {}
      BY <3>1, <2>2
    <3>2. CASE s # {}
      <4>1. h[s \ {First(s)}] = g[s \ {First(s)}]
        BY <2>3, <2>4, <3>2
      <4> QED BY <4>1, <2>2, <3>2
    <3> QED BY <3>1, <3>2
  <2>6. IsIter(h, f, UpTo(S, n + 1))
    <3>1. h = [s \in UpTo(S, n + 1) |-> h[s]]
      BY <2>2
    <3> QED BY <2>5, <3>1 DEF IsIter
  <2> QED BY <1>1, <2>6
<1>5. \A n \in Nat : n \in G
  BY <1>3, <1>4, CountInduction
<1>6. SUBSET S = UpTo(S, Cardinality(S))
  BY <1>2, FS_Subset DEF UpTo
<1>7. Cardinality(S) \in G
  BY <1>5, FS_CardinalityType
<1> QED BY <1>1, <1>6, <1>7

\* Two of them, over different sets, agree on the subsets they share.
LEMMA IterAgree ==
    ASSUME NEW U, NEW S \in SUBSET U, IsFiniteSet(S), NEW f
    PROVE  \A g, h : IsIter(g, f, SUBSET S) /\ IsIter(h, f, SUBSET U) => g[S] = h[S]
<1> SUFFICES ASSUME NEW g, IsIter(g, f, SUBSET S), NEW h, IsIter(h, f, SUBSET U)
             PROVE  g[S] = h[S]
  OBVIOUS
<1>1. PICK G : G = {T \in SUBSET S : g[T] = h[T]}
  OBVIOUS
<1>2. ASSUME NEW T \in SUBSET S, \A x \in T : T \ {x} \in G
      PROVE  T \in G
  <2>1. T \in SUBSET U
    OBVIOUS
  <2>2. /\ g[T] = IF T = {} THEN 0 ELSE f[First(T)] + g[T \ {First(T)}]
        /\ h[T] = IF T = {} THEN 0 ELSE f[First(T)] + h[T \ {First(T)}]
    BY <2>1 DEF IsIter
  <2>3. T # {} => g[T \ {First(T)}] = h[T \ {First(T)}]
    BY <1>1, <1>2, FirstIn
  <2> QED BY <1>1, <2>2, <2>3
<1>3. S \in G
  BY <1>2, SetInduction
<1> QED BY <1>1, <1>3

\* The sum over no elements is zero.
LEMMA SumEmpty ==
    ASSUME NEW f
    PROVE  SumFunctionOnSet(f, {}) = 0
<1>1. \E g : IsIter(g, f, SUBSET {})
  BY IterExists, FS_EmptySet
<1>2. PICK g : g = (CHOOSE h : IsIter(h, f, SUBSET {}))
  OBVIOUS
<1>3. IsIter(g, f, SUBSET {})
  BY <1>1, <1>2
<1>4. SumFunctionOnSet(f, {}) = g[{}]
  BY <1>2, SumIsIter, Zenon
<1> QED BY <1>3, <1>4 DEF IsIter

\* The recursion: the first element, and the sum of the others.
LEMMA SumFirst ==
    ASSUME NEW S, IsFiniteSet(S), NEW f, S # {}
    PROVE  SumFunctionOnSet(f, S) =
             f[First(S)] + SumFunctionOnSet(f, S \ {First(S)})
<1>1. PICK R : R = S \ {First(S)}
  OBVIOUS
<1>2. IsFiniteSet(R) /\ R \subseteq S
  BY <1>1, FS_RemoveElement
<1>3. PICK g : g = (CHOOSE h : IsIter(h, f, SUBSET S))
  OBVIOUS
<1>4. PICK k : k = (CHOOSE h : IsIter(h, f, SUBSET R))
  OBVIOUS
<1>5. IsIter(g, f, SUBSET S)
  BY <1>3, IterExists
<1>6. IsIter(k, f, SUBSET R)
  BY <1>2, <1>4, IterExists
<1>7. SumFunctionOnSet(f, S) = g[S] /\ SumFunctionOnSet(f, R) = k[R]
  BY <1>3, <1>4, SumIsIter, Zenon
<1>8. k[R] = g[R]
  <2>1. \A p, q : IsIter(p, f, SUBSET R) /\ IsIter(q, f, SUBSET S) => p[R] = q[R]
    BY <1>2, IterAgree
  <2> QED BY <2>1, <1>5, <1>6, Zenon
<1>9. g[S] = f[First(S)] + g[R]
  BY <1>1, <1>5 DEF IsIter
<1> QED BY <1>1, <1>7, <1>8, <1>9
-----------------------------------------------------------------------------
\* A sum of integers is an integer.
LEMMA SumInt ==
    ASSUME NEW S, IsFiniteSet(S), NEW f, \A x \in S : f[x] \in Int
    PROVE  SumFunctionOnSet(f, S) \in Int
<1>1. PICK G : G = {T \in SUBSET S : SumFunctionOnSet(f, T) \in Int}
  OBVIOUS
<1>2. ASSUME NEW T \in SUBSET S, \A x \in T : T \ {x} \in G
      PROVE  T \in G
  <2>1. CASE T = {}
    BY <1>1, <2>1, SumEmpty
  <2>2. CASE T # {}
    <3>1. IsFiniteSet(T) /\ First(T) \in T
      BY <2>2, FS_Subset, FirstIn
    <3>2. SumFunctionOnSet(f, T) =
            f[First(T)] + SumFunctionOnSet(f, T \ {First(T)})
      BY <2>2, <3>1, SumFirst
    <3>3. f[First(T)] \in Int /\ SumFunctionOnSet(f, T \ {First(T)}) \in Int
      BY <1>1, <1>2, <3>1
    <3> QED BY <1>1, <3>2, <3>3
  <2> QED BY <2>1, <2>2
<1>3. S \in G
  BY <1>2, SetInduction
<1> QED BY <1>1, <1>3

\* Any element can be taken out first.
LEMMA SumRemove ==
    ASSUME NEW S, IsFiniteSet(S), NEW f, \A x \in S : f[x] \in Int,
           NEW y \in S
    PROVE  SumFunctionOnSet(f, S) = f[y] + SumFunctionOnSet(f, S \ {y})
<1>1. PICK G : G = {T \in SUBSET S : \A x \in T :
                      SumFunctionOnSet(f, T) = f[x] + SumFunctionOnSet(f, T \ {x})}
  OBVIOUS
<1>2. ASSUME NEW T \in SUBSET S, \A x \in T : T \ {x} \in G
      PROVE  T \in G
  <2> SUFFICES ASSUME NEW x \in T
               PROVE  SumFunctionOnSet(f, T) = f[x] + SumFunctionOnSet(f, T \ {x})
    BY <1>1
  <2>1. PICK c : c = First(T)
    OBVIOUS
  <2>2. IsFiniteSet(T) /\ c \in T
    BY <2>1, FS_Subset, FirstIn
  <2>3. SumFunctionOnSet(f, T) = f[c] + SumFunctionOnSet(f, T \ {c})
    BY <2>1, <2>2, SumFirst
  <2>4. CASE x = c
    BY <2>3, <2>4
  <2>5. CASE x # c
    <3>1. x \in T \ {c} /\ c \in T \ {x} /\ (T \ {c}) \ {x} = (T \ {x}) \ {c}
      BY <2>2, <2>5
    <3>2. PICK R : R = (T \ {c}) \ {x}
      OBVIOUS
    <3>3. SumFunctionOnSet(f, T \ {c}) = f[x] + SumFunctionOnSet(f, R)
      BY <1>1, <1>2, <2>2, <3>1, <3>2
    <3>4. SumFunctionOnSet(f, T \ {x}) = f[c] + SumFunctionOnSet(f, R)
      BY <1>1, <1>2, <3>1, <3>2
    <3>5. IsFiniteSet(R) /\ R \subseteq S
      BY <3>2, FS_Subset
    <3>6. SumFunctionOnSet(f, R) \in Int
      BY <3>5, SumInt
    <3>7. f[x] \in Int /\ f[c] \in Int
      BY <2>2
    <3> QED BY <2>3, <3>3, <3>4, <3>6, <3>7
  <2> QED BY <2>4, <2>5
<1>3. S \in G
  BY <1>2, SetInduction
<1> QED BY <1>1, <1>3

\* A new element adds its value.
LEMMA SumAdd ==
    ASSUME NEW S, IsFiniteSet(S), NEW f, NEW y, y \notin S,
           \A x \in S \cup {y} : f[x] \in Int
    PROVE  SumFunctionOnSet(f, S \cup {y}) = f[y] + SumFunctionOnSet(f, S)
<1>1. PICK U : U = S \cup {y}
  OBVIOUS
<1>2. IsFiniteSet(U) /\ y \in U /\ U \ {y} = S /\ \A x \in U : f[x] \in Int
  BY <1>1, FS_AddElement
<1>3. SumFunctionOnSet(f, U) = f[y] + SumFunctionOnSet(f, U \ {y})
  BY <1>2, SumRemove
<1> QED BY <1>1, <1>2, <1>3

\* A sum depends on the values over its set only.
LEMMA SumCongruence ==
    ASSUME NEW S, IsFiniteSet(S), NEW f, NEW g, \A x \in S : f[x] = g[x]
    PROVE  SumFunctionOnSet(f, S) = SumFunctionOnSet(g, S)
<1>1. PICK G : G = {T \in SUBSET S : SumFunctionOnSet(f, T) = SumFunctionOnSet(g, T)}
  OBVIOUS
<1>2. ASSUME NEW T \in SUBSET S, \A x \in T : T \ {x} \in G
      PROVE  T \in G
  <2>1. CASE T = {}
    BY <1>1, <2>1, SumEmpty
  <2>2. CASE T # {}
    <3>1. IsFiniteSet(T) /\ First(T) \in T
      BY <2>2, FS_Subset, FirstIn
    <3>2. /\ SumFunctionOnSet(f, T) =
               f[First(T)] + SumFunctionOnSet(f, T \ {First(T)})
          /\ SumFunctionOnSet(g, T) =
               g[First(T)] + SumFunctionOnSet(g, T \ {First(T)})
      BY <2>2, <3>1, SumFirst
    <3>3. SumFunctionOnSet(f, T \ {First(T)}) = SumFunctionOnSet(g, T \ {First(T)})
      BY <1>1, <1>2, <3>1
    <3>4. f[First(T)] = g[First(T)]
      BY <3>1
    <3> QED BY <1>1, <3>2, <3>3, <3>4
  <2> QED BY <2>1, <2>2
<1>3. S \in G
  BY <1>2, SetInduction
<1> QED BY <1>1, <1>3

\* One changed value changes the sum by the difference.
LEMMA SumUpdate ==
    ASSUME NEW S, IsFiniteSet(S), NEW f, NEW g, NEW y \in S,
           \A x \in S : f[x] \in Int /\ g[x] \in Int,
           \A x \in S \ {y} : f[x] = g[x]
    PROVE  SumFunctionOnSet(g, S) = SumFunctionOnSet(f, S) - f[y] + g[y]
<1>1. PICK R : R = S \ {y}
  OBVIOUS
<1>2. IsFiniteSet(R) /\ R \subseteq S
  BY <1>1, FS_RemoveElement
<1>3. /\ SumFunctionOnSet(f, S) = f[y] + SumFunctionOnSet(f, R)
      /\ SumFunctionOnSet(g, S) = g[y] + SumFunctionOnSet(g, R)
  BY <1>1, SumRemove
<1>4. SumFunctionOnSet(f, R) = SumFunctionOnSet(g, R)
  BY <1>1, <1>2, SumCongruence
<1>5. SumFunctionOnSet(f, R) \in Int
  BY <1>2, SumInt
<1> QED BY <1>3, <1>4, <1>5

\* A sum of natural numbers is one.
LEMMA SumNat ==
    ASSUME NEW S, IsFiniteSet(S), NEW f, \A x \in S : f[x] \in Nat
    PROVE  SumFunctionOnSet(f, S) \in Nat
<1>1. PICK G : G = {T \in SUBSET S : SumFunctionOnSet(f, T) \in Nat}
  OBVIOUS
<1>2. ASSUME NEW T \in SUBSET S, \A x \in T : T \ {x} \in G
      PROVE  T \in G
  <2>1. CASE T = {}
    BY <1>1, <2>1, SumEmpty
  <2>2. CASE T # {}
    <3>1. IsFiniteSet(T) /\ First(T) \in T
      BY <2>2, FS_Subset, FirstIn
    <3>2. SumFunctionOnSet(f, T) =
            f[First(T)] + SumFunctionOnSet(f, T \ {First(T)})
      BY <2>2, <3>1, SumFirst
    <3>3. f[First(T)] \in Nat /\ SumFunctionOnSet(f, T \ {First(T)}) \in Nat
      BY <1>1, <1>2, <3>1
    <3> QED BY <1>1, <3>2, <3>3
  <2> QED BY <2>1, <2>2
<1>3. S \in G
  BY <1>2, SetInduction
<1> QED BY <1>1, <1>3

\* The sum over two disjoint sets.
LEMMA SumDisjoint ==
    ASSUME NEW S, IsFiniteSet(S), NEW T, IsFiniteSet(T), S \cap T = {}, NEW f,
           \A x \in S \cup T : f[x] \in Int
    PROVE  SumFunctionOnSet(f, S \cup T) =
             SumFunctionOnSet(f, S) + SumFunctionOnSet(f, T)
<1>1. PICK G : G = {U \in SUBSET T : SumFunctionOnSet(f, S \cup U) =
                      SumFunctionOnSet(f, S) + SumFunctionOnSet(f, U)}
  OBVIOUS
<1>2. ASSUME NEW U \in SUBSET T, \A x \in U : U \ {x} \in G
      PROVE  U \in G
  <2>0. SumFunctionOnSet(f, S) \in Int
    BY SumInt
  <2>1. CASE U = {}
    <3>1. S \cup U = S
      BY <2>1
    <3> QED BY <1>1, <2>0, <2>1, <3>1, SumEmpty
  <2>2. CASE U # {}
    <3>1. PICK c \in U : TRUE
      BY <2>2
    <3>2. PICK R : R = U \ {c}
      OBVIOUS
    <3>3. PICK Q : Q = S \cup R
      OBVIOUS
    <3>4. /\ IsFiniteSet(U) /\ IsFiniteSet(R) /\ IsFiniteSet(Q)
          /\ c \notin R /\ c \notin Q /\ S \cup U = Q \cup {c} /\ U = R \cup {c}
      <4>1. IsFiniteSet(U) /\ IsFiniteSet(R)
        BY <3>2, FS_Subset
      <4>2. IsFiniteSet(Q)
        BY <3>3, <4>1, FS_Union
      <4> QED BY <3>1, <3>2, <3>3, <4>1, <4>2
    <3>5. /\ SumFunctionOnSet(f, S \cup U) = f[c] + SumFunctionOnSet(f, Q)
          /\ SumFunctionOnSet(f, U) = f[c] + SumFunctionOnSet(f, R)
      <4>1. (\A x \in Q \cup {c} : f[x] \in Int) /\ (\A x \in R \cup {c} : f[x] \in Int)
        BY <3>1, <3>2, <3>3
      <4>2. SumFunctionOnSet(f, Q \cup {c}) = f[c] + SumFunctionOnSet(f, Q)
        BY <3>4, <4>1, SumAdd
      <4>3. SumFunctionOnSet(f, R \cup {c}) = f[c] + SumFunctionOnSet(f, R)
        BY <3>4, <4>1, SumAdd
      <4> QED BY <3>4, <4>2, <4>3
    <3>6. SumFunctionOnSet(f, Q) = SumFunctionOnSet(f, S) + SumFunctionOnSet(f, R)
      BY <1>1, <1>2, <3>1, <3>2, <3>3
    <3>7. f[c] \in Int /\ SumFunctionOnSet(f, R) \in Int
      BY <3>1, <3>2, <3>4, SumInt
    <3> QED BY <1>1, <2>0, <3>5, <3>6, <3>7
  <2> QED BY <2>1, <2>2
<1>3. T \in G
  BY <1>2, SetInduction
<1> QED BY <1>1, <1>3

\* Fewer elements, none negative, sum to no more.
LEMMA SumMonotone ==
    ASSUME NEW T, IsFiniteSet(T), NEW S, S \subseteq T, NEW f, \A x \in T : f[x] \in Nat
    PROVE  SumFunctionOnSet(f, S) <= SumFunctionOnSet(f, T)
<1>1. PICK R : R = T \ S
  OBVIOUS
<1>2. IsFiniteSet(S) /\ IsFiniteSet(R) /\ S \cap R = {} /\ T = S \cup R
  BY <1>1, FS_Subset
<1>3. SumFunctionOnSet(f, S) \in Nat /\ SumFunctionOnSet(f, R) \in Nat
  BY <1>1, <1>2, SumNat
<1>4. SumFunctionOnSet(f, S \cup R) = SumFunctionOnSet(f, S) + SumFunctionOnSet(f, R)
  <2>1. \A x \in S \cup R : f[x] \in Int
    BY <1>2
  <2> QED BY <1>2, <2>1, SumDisjoint
<1> QED BY <1>2, <1>3, <1>4
=============================================================================
