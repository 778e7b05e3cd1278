--------------------------- MODULE BillingProofs ----------------------------
(***************************************************************************)
(* Proofs about Billing and Documents, for any orders, discounts, rates    *)
(* and circumstances: a coupon is shared out to the last cent, and the     *)
(* invoice of an order and the note that annuls it add up, on paper too.   *)
(*                                                                         *)
(* Total folds over a set of indices, and no induction theorem can be used *)
(* for it: those take an operator.  What is wrong of some part of a finite *)
(* set is wrong of a smallest one (Smallest, by well-foundedness), and from *)
(* that come the equations of sums, whichever index is taken first.        *)
(***************************************************************************)
EXTENDS Documents, FiniteSetTheorems, WellFoundedInduction, TLAPS

Sum(f, S) == SumFunctionOnSet(f, S)

\* Among sets of elements of a finite set there is a smallest one, so that what is
\* wrong of some of them is wrong of one and of none of its parts.
LEMMA Smallest ==
    ASSUME NEW S, IsFiniteSet(S), NEW B, B \subseteq SUBSET S, B # {}
    PROVE  \E T \in B : \A U \in B : U \subseteq T => U = T
<1> DEFINE R == StrictSubsetOrdering(S)
<1>1. IsWellFoundedOn(R, SUBSET S)
  BY FS_StrictSubsetOrderingWellFounded, FS_FiniteSubsetsOfFinite
<1> HIDE DEF R
<1>2. PICK T \in B : \A U \in B : <<U, T>> \notin R
  BY <1>1, WFMin
<1>3. ASSUME NEW U \in B, U \subseteq T, U # T PROVE FALSE
  <2>1. <<U, T>> \in R
    BY <1>3 DEF R, StrictSubsetOrdering
  <2> QED
    BY <1>2, <2>1
<1> QED
  BY <1>3

-----------------------------------------------------------------------------
(* Sums.  SumFunction is a recursive function on the sets of indices.       *)

First(s) == CHOOSE x \in s : TRUE

\* What the function is at a set, from what it is at smaller ones.
Summed(f, it, s) == IF s = {} THEN 0 ELSE f[First(s)] + it[s \ {First(s)}]

Iterates(f, it, S) == it = [s \in SUBSET S |-> Summed(f, it, s)]

Iter(f, S) == CHOOSE it : Iterates(f, it, S)

\* The sum is what the recursive function gives at the whole set.
LEMMA SumIsIter ==
    ASSUME NEW f, NEW S
    PROVE  Sum(f, S) = Iter(f, S)[S]
  BY DEF Sum, SumFunctionOnSet, FoldFunctionOnSet, MapThenFoldSet, Iter, Iterates, Summed, First

\* A set is larger by the index that is taken first.
LEMMA FirstIsLess ==
    ASSUME NEW s, s # {}
    PROVE  First(s) \in s /\ s \ {First(s)} \subseteq s /\ s \ {First(s)} # s
  BY DEF First

\* The functions for a set and for a part of it agree on the part.
LEMMA IterAgrees ==
    ASSUME NEW f, NEW S, IsFiniteSet(S), NEW T, T \subseteq S,
           NEW g, Iterates(f, g, S), NEW h, Iterates(f, h, T)
    PROVE  \A s \in SUBSET T : g[s] = h[s]
<1> DEFINE B == {s \in SUBSET T : g[s] # h[s]}
<1>1. SUFFICES ASSUME B # {} PROVE FALSE
  OBVIOUS
<1>2. IsFiniteSet(T) /\ B \subseteq SUBSET T
  BY FS_Subset
<1> HIDE DEF B
<1>3. PICK s \in B : \A U \in B : U \subseteq s => U = s
  BY <1>1, <1>2, Smallest
<1>4. g[s] = Summed(f, g, s) /\ h[s] = Summed(f, h, s)
  BY <1>2 DEF Iterates
<1>5. s # {}
  BY <1>4 DEF Summed, B
<1>6. g[s \ {First(s)}] = h[s \ {First(s)}]
  BY <1>2, <1>3, <1>5, FirstIsLess DEF B
<1> QED
  BY <1>4, <1>5, <1>6 DEF Summed, B

\* There is such a function, so that CHOOSE finds it.
LEMMA IterExists ==
    ASSUME NEW f, NEW S, IsFiniteSet(S)
    PROVE  Iterates(f, Iter(f, S), S)
<1> DEFINE B == {T \in SUBSET S : ~Iterates(f, Iter(f, T), T)}
<1>1. SUFFICES ASSUME B # {} PROVE FALSE
  OBVIOUS
<1>0. B \subseteq SUBSET S
  OBVIOUS
<1> HIDE DEF B
<1>2. PICK T \in B : \A U \in B : U \subseteq T => U = T
  BY <1>0, <1>1, Smallest
<1>3. ASSUME NEW U, U \subseteq T, U # T PROVE Iterates(f, Iter(f, U), U)
  BY <1>0, <1>2, <1>3 DEF B
<1> DEFINE it == [s \in SUBSET T |-> IF s = {} THEN 0
                                     ELSE f[First(s)] + Sum(f, s \ {First(s)})]
<1>4. ASSUME NEW s \in SUBSET T, s # {}
      PROVE  it[s \ {First(s)}] = Sum(f, s \ {First(s)})
  <2> DEFINE u == s \ {First(s)}
  <2>1. u \subseteq T /\ u # T /\ T \subseteq S
    BY <1>0, <1>4, FirstIsLess
  <2>2. Iterates(f, Iter(f, u), u)
    BY <1>3, <2>1
  <2>3. Sum(f, u) = Summed(f, Iter(f, u), u)
    BY <2>2, SumIsIter DEF Iterates
  <2>4. CASE u = {}
    BY <2>1, <2>3, <2>4 DEF Summed
  <2>5. CASE u # {}
    <3> DEFINE v == u \ {First(u)}
    <3>1. v \subseteq u /\ v # T
      BY <2>1, <2>5, FirstIsLess
    <3>2. Iterates(f, Iter(f, v), v)
      BY <1>3, <2>1, <3>1
    <3>3. IsFiniteSet(u)
      BY <2>1, FS_Subset
    <3> HIDE DEF u, v
    <3>4. Iter(f, u)[v] = Iter(f, v)[v]
      BY <2>2, <3>1, <3>2, <3>3, IterAgrees
    <3>5. Sum(f, u) = f[First(u)] + Sum(f, v)
      BY <2>3, <2>5, <3>4, SumIsIter DEF Summed, v
    <3>6. it[u] = f[First(u)] + Sum(f, v)
      BY <2>1, <2>5 DEF v
    <3> QED
      BY <3>5, <3>6 DEF u
  <2> QED
    BY <2>4, <2>5
<1>5. Iterates(f, it, T)
  BY <1>4 DEF Iterates, Summed
<1>6. Iterates(f, Iter(f, T), T)
  BY <1>5 DEF Iter
<1> QED
  BY <1>6 DEF B

\* Nothing sums up to 0.
LEMMA SumEmpty ==
    ASSUME NEW f
    PROVE  Sum(f, {}) = 0
<1>1. IsFiniteSet({})
  BY FS_EmptySet
<1>2. Iterates(f, Iter(f, {}), {})
  BY <1>1, IterExists
<1> QED
  BY <1>2, SumIsIter DEF Iterates, Summed

\* The equation of the sum.
LEMMA SumFirst ==
    ASSUME NEW f, NEW S, IsFiniteSet(S), S # {}
    PROVE  Sum(f, S) = f[First(S)] + Sum(f, S \ {First(S)})
<1> DEFINE T == S \ {First(S)}
<1>1. T \subseteq S /\ IsFiniteSet(T)
  BY FS_Subset
<1>2. Iterates(f, Iter(f, S), S) /\ Iterates(f, Iter(f, T), T)
  BY <1>1, IterExists
<1> HIDE DEF T
<1>3. Iter(f, S)[T] = Iter(f, T)[T]
  BY <1>1, <1>2, IterAgrees
<1>4. Iter(f, S)[S] = f[First(S)] + Iter(f, S)[T]
  BY <1>2 DEF Iterates, Summed, T
<1> QED
  BY <1>3, <1>4, SumIsIter DEF T

\* Integers sum up to an integer.
LEMMA SumInt ==
    ASSUME NEW f, NEW S, IsFiniteSet(S), \A i \in S : f[i] \in Int
    PROVE  Sum(f, S) \in Int
<1> DEFINE B == {T \in SUBSET S : Sum(f, T) \notin Int}
<1>1. SUFFICES ASSUME B # {} PROVE FALSE
  OBVIOUS
<1>0. B \subseteq SUBSET S
  OBVIOUS
<1> HIDE DEF B
<1>2. PICK T \in B : \A U \in B : U \subseteq T => U = T
  BY <1>0, <1>1, Smallest
<1>3. T # {} /\ IsFiniteSet(T)
  <2>1. Sum(f, T) \notin Int /\ T \subseteq S
    BY <1>0 DEF B
  <2>2. Sum(f, {}) \in Int
    BY SumEmpty
  <2> QED
    BY <2>1, <2>2, FS_Subset
<1>4. Sum(f, T \ {First(T)}) \in Int /\ First(T) \in S
  <2>1. First(T) \in T /\ T \ {First(T)} \notin B
    BY <1>2, <1>3, FirstIsLess
  <2> QED
    BY <1>0, <2>1 DEF B
<1> QED
  BY <1>3, <1>4, SumFirst DEF B

\* Any index may be taken first.
LEMMA SumPick ==
    ASSUME NEW f, NEW S, IsFiniteSet(S), \A i \in S : f[i] \in Int, NEW x \in S
    PROVE  Sum(f, S) = f[x] + Sum(f, S \ {x})
<1> DEFINE B == {T \in SUBSET S : \E y \in T : Sum(f, T) # f[y] + Sum(f, T \ {y})}
<1>1. SUFFICES ASSUME B # {} PROVE FALSE
  OBVIOUS
<1>0. B \subseteq SUBSET S
  OBVIOUS
<1> HIDE DEF B
<1>2. PICK T \in B : \A U \in B : U \subseteq T => U = T
  BY <1>0, <1>1, Smallest
<1>3. PICK y \in T : Sum(f, T) # f[y] + Sum(f, T \ {y})
  BY DEF B
<1> DEFINE c == First(T)
           D == T \ {y, c}
<1>4. IsFiniteSet(T) /\ IsFiniteSet(D) /\ T \subseteq S
  <2>1. D \subseteq S /\ T \subseteq S
    BY <1>0
  <2> QED
    BY <2>1, FS_Subset
<1>5. Sum(f, T) = f[c] + Sum(f, T \ {c}) /\ c \in T
  BY <1>3, <1>4, SumFirst, FirstIsLess
<1> HIDE DEF c
<1>6. c # y
  BY <1>3, <1>5
<1>7. Sum(f, T \ {c}) = f[y] + Sum(f, D)
  <2>1. T \ {c} \notin B /\ y \in T \ {c} /\ (T \ {c}) \ {y} = D
    BY <1>2, <1>3, <1>5, <1>6
  <2> QED
    BY <1>4, <2>1 DEF B
<1>8. Sum(f, T \ {y}) = f[c] + Sum(f, D)
  <2>1. T \ {y} \notin B /\ c \in T \ {y} /\ (T \ {y}) \ {c} = D
    BY <1>2, <1>3, <1>5, <1>6
  <2> QED
    BY <1>4, <2>1 DEF B
<1>9. Sum(f, D) \in Int /\ f[c] \in Int /\ f[y] \in Int
  BY <1>3, <1>4, <1>5, SumInt
<1> QED
  BY <1>3, <1>5, <1>7, <1>8, <1>9

-----------------------------------------------------------------------------
(* Induction over finite sets, and how sums go together.                    *)

\* What holds of nothing, and of a set if it does of the set without one of its
\* members, holds of a finite set.
LEMMA OneByOne ==
    ASSUME NEW S, IsFiniteSet(S), NEW P, {} \in P,
           \A T \in SUBSET S : \A x \in T : T \ {x} \in P => T \in P
    PROVE  S \in P
<1> DEFINE B == (SUBSET S) \ P
<1>1. SUFFICES ASSUME B # {} PROVE FALSE
  OBVIOUS
<1>2. B \subseteq SUBSET S
  OBVIOUS
<1> HIDE DEF B
<1>3. PICK T \in B : \A U \in B : U \subseteq T => U = T
  BY <1>1, <1>2, Smallest
<1>4. PICK x \in T : TRUE
  <2>1. T # {}
    BY DEF B
  <2> QED
    BY <2>1
<1>5. T \ {x} \notin B
  BY <1>3
<1> QED
  BY <1>2, <1>5 DEF B

\* Only the values at the indices count.
LEMMA SumSame ==
    ASSUME NEW f, NEW g, NEW S, IsFiniteSet(S), \A i \in S : f[i] \in Int /\ g[i] = f[i]
    PROVE  Sum(g, S) = Sum(f, S)
<1> DEFINE P == {T \in SUBSET S : Sum(g, T) = Sum(f, T)}
<1>1. {} \in P
  BY SumEmpty
<1>2. ASSUME NEW T \in SUBSET S, NEW x \in T, T \ {x} \in P PROVE T \in P
  <2>1. IsFiniteSet(T)
    BY FS_Subset
  <2>2. Sum(f, T) = f[x] + Sum(f, T \ {x}) /\ Sum(g, T) = g[x] + Sum(g, T \ {x})
    BY <2>1, SumPick
  <2> QED
    BY <1>2, <2>2
<1> HIDE DEF P
<1>3. S \in P
  BY <1>1, <1>2, OneByOne
<1> QED
  BY <1>3 DEF P

\* A sum of sums.
LEMMA SumPlus ==
    ASSUME NEW f, NEW g, NEW h, NEW S, IsFiniteSet(S),
           \A i \in S : f[i] \in Int /\ g[i] \in Int /\ h[i] = f[i] + g[i]
    PROVE  Sum(h, S) = Sum(f, S) + Sum(g, S)
<1> DEFINE P == {T \in SUBSET S : Sum(h, T) = Sum(f, T) + Sum(g, T)}
<1>1. {} \in P
  BY SumEmpty
<1>2. ASSUME NEW T \in SUBSET S, NEW x \in T, T \ {x} \in P PROVE T \in P
  <2>1. IsFiniteSet(T) /\ IsFiniteSet(T \ {x})
    BY FS_Subset
  <2>2. h[x] = f[x] + g[x] /\ \A i \in T : h[i] \in Int
    OBVIOUS
  <2>3. /\ Sum(f, T) = f[x] + Sum(f, T \ {x}) /\ Sum(g, T) = g[x] + Sum(g, T \ {x})
        /\ Sum(h, T) = h[x] + Sum(h, T \ {x})
    BY <2>1, <2>2, SumPick
  <2>4. Sum(f, T \ {x}) \in Int /\ Sum(g, T \ {x}) \in Int
    BY <2>1, SumInt
  <2>5. Sum(h, T \ {x}) = Sum(f, T \ {x}) + Sum(g, T \ {x})
    BY <1>2
  <2>6. Sum(h, T) = Sum(f, T) + Sum(g, T)
    BY <2>2, <2>3, <2>4, <2>5
  <2> QED
    BY <2>6
<1> HIDE DEF P
<1>3. S \in P
  BY <1>1, <1>2, OneByOne
<1> QED
  BY <1>3 DEF P

\* A factor may be taken out.
LEMMA SumTimes ==
    ASSUME NEW f, NEW h, NEW k \in Int, NEW S, IsFiniteSet(S),
           \A i \in S : f[i] \in Int /\ h[i] = k * f[i]
    PROVE  Sum(h, S) = k * Sum(f, S)
<1> DEFINE P == {T \in SUBSET S : Sum(h, T) = k * Sum(f, T)}
<1>1. {} \in P
  BY SumEmpty
<1>2. ASSUME NEW T \in SUBSET S, NEW x \in T, T \ {x} \in P PROVE T \in P
  <2>1. IsFiniteSet(T) /\ IsFiniteSet(T \ {x})
    BY FS_Subset
  <2>2. h[x] = k * f[x] /\ f[x] \in Int /\ \A i \in T : h[i] \in Int
    OBVIOUS
  <2>3. /\ Sum(f, T) = f[x] + Sum(f, T \ {x})
        /\ Sum(h, T) = h[x] + Sum(h, T \ {x})
    BY <2>1, <2>2, SumPick
  <2>4. Sum(f, T \ {x}) \in Int
    BY <2>1, SumInt
  <2>5. Sum(h, T \ {x}) = k * Sum(f, T \ {x})
    BY <1>2
  <2>6. k * (f[x] + Sum(f, T \ {x})) = k * f[x] + k * Sum(f, T \ {x})
    BY <2>2, <2>4
  <2>7. Sum(h, T) = k * Sum(f, T)
    BY <2>2, <2>3, <2>5, <2>6
  <2> QED
    BY <2>7
<1> HIDE DEF P
<1>3. S \in P
  BY <1>1, <1>2, OneByOne
<1> QED
  BY <1>3 DEF P

\* The sum grows with what is summed.
LEMMA SumLeq ==
    ASSUME NEW f, NEW g, NEW S, IsFiniteSet(S),
           \A i \in S : f[i] \in Int /\ g[i] \in Int /\ f[i] <= g[i]
    PROVE  Sum(f, S) <= Sum(g, S)
<1> DEFINE P == {T \in SUBSET S : Sum(f, T) <= Sum(g, T)}
<1>1. {} \in P
  BY SumEmpty
<1>2. ASSUME NEW T \in SUBSET S, NEW x \in T, T \ {x} \in P PROVE T \in P
  <2>1. IsFiniteSet(T) /\ IsFiniteSet(T \ {x})
    BY FS_Subset
  <2>2. Sum(f, T) = f[x] + Sum(f, T \ {x}) /\ Sum(g, T) = g[x] + Sum(g, T \ {x})
    BY <2>1, SumPick
  <2>3. Sum(f, T \ {x}) \in Int /\ Sum(g, T \ {x}) \in Int
    BY <2>1, SumInt
  <2>4. f[x] \in Int /\ g[x] \in Int /\ f[x] <= g[x] /\ Sum(f, T \ {x}) <= Sum(g, T \ {x})
    BY <1>2
  <2>5. Sum(f, T) <= Sum(g, T)
    BY <2>2, <2>3, <2>4
  <2> QED
    BY <2>5
<1> HIDE DEF P
<1>3. S \in P
  BY <1>1, <1>2, OneByOne
<1> QED
  BY <1>3 DEF P

\* A single index.
LEMMA SumOne ==
    ASSUME NEW f, NEW x, f[x] \in Int
    PROVE  Sum(f, {x}) = f[x]
<1>1. IsFiniteSet({x}) /\ {x} \ {x} = {}
  BY FS_Singleton
<1>2. Sum(f, {x}) = f[x] + Sum(f, {x} \ {x})
  BY <1>1, SumPick
<1> QED
  BY <1>1, <1>2, SumEmpty

\* Two parts.
LEMMA SumParts ==
    ASSUME NEW f, NEW S, IsFiniteSet(S), NEW R, IsFiniteSet(R), S \cap R = {},
           \A i \in S \cup R : f[i] \in Int
    PROVE  Sum(f, S \cup R) = Sum(f, S) + Sum(f, R)
<1> DEFINE P == {T \in SUBSET S : Sum(f, T \cup R) = Sum(f, T) + Sum(f, R)}
<1>0. Sum(f, R) \in Int
  BY SumInt
<1>1. {} \in P
  <2>1. {} \cup R = R
    OBVIOUS
  <2> QED
    BY <1>0, <2>1, SumEmpty
<1>2. ASSUME NEW T \in SUBSET S, NEW x \in T, T \ {x} \in P PROVE T \in P
  <2>1. IsFiniteSet(T) /\ IsFiniteSet(T \ {x}) /\ IsFiniteSet(T \cup R)
    BY FS_Subset, FS_Union
  <2>2. (T \cup R) \ {x} = (T \ {x}) \cup R
    OBVIOUS
  <2>3. /\ Sum(f, T) = f[x] + Sum(f, T \ {x})
        /\ Sum(f, T \cup R) = f[x] + Sum(f, (T \ {x}) \cup R)
    BY <2>1, <2>2, SumPick
  <2>4. Sum(f, T \ {x}) \in Int /\ f[x] \in Int
    BY <2>1, SumInt
  <2>5. Sum(f, (T \ {x}) \cup R) = Sum(f, T \ {x}) + Sum(f, R)
    BY <1>2
  <2>6. Sum(f, T \cup R) = Sum(f, T) + Sum(f, R)
    BY <1>0, <2>3, <2>4, <2>5
  <2> QED
    BY <2>6
<1> HIDE DEF P
<1>3. S \in P
  BY <1>1, <1>2, OneByOne
<1> QED
  BY <1>3 DEF P

Group(g, S, r) == {i \in S : g[i] = r}

\* Sums of parts, one for each value of g, make up the sum.
LEMMA SumGroups ==
    ASSUME NEW f, NEW g, NEW S, IsFiniteSet(S), NEW R, IsFiniteSet(R),
           \A i \in S : f[i] \in Int /\ g[i] \in R,
           NEW h, \A r \in R : h[r] = Sum(f, Group(g, S, r))
    PROVE  Sum(h, R) = Sum(f, S)
<1> DEFINE In(T) == {i \in S : g[i] \in T}
           P == {T \in SUBSET R : Sum(h, T) = Sum(f, In(T))}
<1>1. {} \in P
  <2>1. In({}) = {}
    OBVIOUS
  <2> QED
    BY <2>1, SumEmpty
<1>2. ASSUME NEW T \in SUBSET R, NEW x \in T, T \ {x} \in P PROVE T \in P
  <2> DEFINE X == Group(g, S, x)
             Y == In(T \ {x})
  <2>1. /\ IsFiniteSet(T) /\ IsFiniteSet(X) /\ IsFiniteSet(Y) /\ X \cap Y = {}
        /\ X \cup Y = In(T) /\ \A i \in X \cup Y : f[i] \in Int
    BY FS_Subset DEF Group
  <2>2. Sum(h, T \ {x}) = Sum(f, Y)
    BY <1>2
  <2>3. h[x] = Sum(f, X)
    OBVIOUS
  <2>4. \A r \in T : h[r] \in Int
    <3> SUFFICES ASSUME NEW r \in T PROVE h[r] \in Int
      OBVIOUS
    <3> DEFINE Z == Group(g, S, r)
    <3>1. IsFiniteSet(Z) /\ \A i \in Z : f[i] \in Int
      BY FS_Subset DEF Group
    <3>2. h[r] = Sum(f, Z)
      OBVIOUS
    <3> HIDE DEF Z
    <3> QED
      BY <3>1, <3>2, SumInt
  <2>5. Sum(h, T) = h[x] + Sum(h, T \ {x})
    BY <2>1, <2>4, SumPick
  <2> HIDE DEF X, Y
  <2>6. Sum(f, X \cup Y) = Sum(f, X) + Sum(f, Y)
    BY <2>1, SumParts
  <2> QED
    BY <2>1, <2>2, <2>3, <2>5, <2>6
<1> HIDE DEF P
<1>3. R \in P
  BY <1>1, <1>2, OneByOne
<1>4. In(R) = S
  OBVIOUS
<1> QED
  BY <1>3, <1>4 DEF P

\* The same values in other places: g takes each index of S to one of R.
LEMMA SumMoved ==
    ASSUME NEW f, NEW S, IsFiniteSet(S), NEW R, IsFiniteSet(R), NEW g \in Bijection(S, R),
           \A i \in S : f[i] \in Int,
           NEW h, \A i \in S : h[g[i]] = f[i]
    PROVE  Sum(h, R) = Sum(f, S)
<1>1. /\ \A i \in S : g[i] \in R
      /\ \A r \in R : \E i \in S : g[i] = r
      /\ \A i, j \in S : g[i] = g[j] => i = j
  BY DEF Bijection, Injection, Surjection, IsInjective
<1>2. ASSUME NEW r \in R PROVE h[r] = Sum(f, Group(g, S, r))
  <2>1. PICK i \in S : g[i] = r
    BY <1>1
  <2>2. Group(g, S, r) = {i}
    BY <1>1, <2>1 DEF Group
  <2> QED
    BY <2>1, <2>2, SumOne
<1>3. \A i \in S : f[i] \in Int /\ g[i] \in R
  BY <1>1
<1>4. \A r \in R : h[r] = Sum(f, Group(g, S, r))
  BY <1>2
<1> QED
  BY <1>3, <1>4, SumGroups

\* Ones count.
LEMMA SumCount ==
    ASSUME NEW S, IsFiniteSet(S), NEW A \in SUBSET S,
           NEW h, \A i \in S : h[i] = IF i \in A THEN 1 ELSE 0
    PROVE  Sum(h, S) = Cardinality(A)
<1> DEFINE P == {T \in SUBSET S : Sum(h, T) = Cardinality(A \cap T)}
<1>1. {} \in P
  <2>1. A \cap {} = {}
    OBVIOUS
  <2> QED
    BY <2>1, SumEmpty, FS_EmptySet
<1>2. ASSUME NEW T \in SUBSET S, NEW x \in T, T \ {x} \in P PROVE T \in P
  <2> DEFINE D == A \cap (T \ {x})
  <2>1. IsFiniteSet(T) /\ IsFiniteSet(A \cap T)
    BY FS_Subset
  <2>2. \A i \in T : h[i] \in Int
    OBVIOUS
  <2>3. Sum(h, T) = h[x] + Sum(h, T \ {x})
    BY <2>1, <2>2, SumPick
  <2>4. Sum(h, T \ {x}) = Cardinality(D)
    BY <1>2
  <2>5. CASE x \in A
    <3>1. D = (A \cap T) \ {x} /\ x \in A \cap T
      BY <2>5
    <3>2. Cardinality(D) = Cardinality(A \cap T) - 1
      BY <2>1, <3>1, FS_RemoveElement
    <3>3. Cardinality(A \cap T) \in Nat
      BY <2>1, FS_CardinalityType
    <3>4. h[x] = 1
      BY <2>5
    <3>5. Sum(h, T) = Cardinality(A \cap T)
      BY <2>3, <2>4, <3>2, <3>3, <3>4
    <3> QED
      BY <3>5
  <2>6. CASE x \notin A
    <3>1. D = A \cap T
      BY <2>6
    <3>2. Cardinality(A \cap T) \in Nat
      BY <2>1, FS_CardinalityType
    <3>3. h[x] = 0
      BY <2>6
    <3>5. Sum(h, T) = Cardinality(A \cap T)
      BY <2>3, <2>4, <3>1, <3>2, <3>3
    <3> QED
      BY <3>5
  <2> QED
    BY <2>5, <2>6
<1> HIDE DEF P
<1>3. S \in P
  BY <1>1, <1>2, OneByOne
<1>4. A \cap S = A
  OBVIOUS
<1> QED
  BY <1>3, <1>4 DEF P

\* Zeros sum up to 0.
LEMMA SumZero ==
    ASSUME NEW f, NEW S, IsFiniteSet(S), \A i \in S : f[i] = 0
    PROVE  Sum(f, S) = 0
<1>1. Sum(f, S) = 0 * Sum(f, S)
  BY SumTimes
<1>2. Sum(f, S) \in Int
  BY SumInt
<1> QED
  BY <1>1, <1>2

\* Two sequences, one after the other.
LEMMA SumConcat ==
    ASSUME NEW s \in Seq(Int), NEW t \in Seq(Int)
    PROVE  Sum(s \o t, DOMAIN (s \o t)) = Sum(s, DOMAIN s) + Sum(t, DOMAIN t)
<1> DEFINE u == s \o t
           m == Len(s)
           n == Len(t)
           Rest == (m + 1) .. (m + n)
           g == [i \in 1..n |-> m + i]
<1>1. m \in Nat /\ n \in Nat /\ DOMAIN s = 1..m /\ DOMAIN t = 1..n
  OBVIOUS
<1>2. /\ DOMAIN u = 1..(m + n)
      /\ \A i \in 1..m : u[i] = s[i] /\ s[i] \in Int
      /\ \A i \in 1..n : u[m + i] = t[i] /\ t[i] \in Int
  OBVIOUS
<1> HIDE DEF u, m, n
<1>3. 1..(m + n) = (1..m) \cup Rest /\ (1..m) \cap Rest = {}
  BY <1>1
<1>4. IsFiniteSet(1..m) /\ IsFiniteSet(1..n) /\ IsFiniteSet(Rest)
  BY <1>1, FS_Interval
<1>5. g \in Bijection(1..n, Rest)
  <2>1. g \in [1..n -> Rest]
    BY <1>1
  <2>2. \A r \in Rest : r - m \in 1..n /\ g[r - m] = r
    BY <1>1
  <2>3. \A i, j \in 1..n : g[i] = g[j] => i = j
    BY <1>1
  <2> QED
    BY <2>1, <2>2, <2>3 DEF Bijection, Injection, Surjection, IsInjective
<1>6. \A i \in 1..n : u[g[i]] = t[i]
  BY <1>1, <1>2
<1>7. \A i \in (1..m) \cup Rest : u[i] \in Int
  <2>1. \A i \in Rest : i - m \in 1..n /\ i = m + (i - m)
    BY <1>1
  <2> QED
    BY <1>2, <2>1
<1> HIDE DEF Rest, g
<1>8. Sum(u, Rest) = Sum(t, 1..n)
  <2> DEFINE N == 1..n
  <2>1. \A i \in N : t[i] \in Int
    BY <1>2
  <2>2. g \in Bijection(N, Rest) /\ IsFiniteSet(N) /\ \A i \in N : u[g[i]] = t[i]
    BY <1>4, <1>5, <1>6
  <2> HIDE DEF N
  <2>3. Sum(u, Rest) = Sum(t, N)
    BY <1>4, <2>1, <2>2, SumMoved
  <2> QED
    BY <2>3 DEF N
<1>9. Sum(u, 1..m) = Sum(s, 1..m)
  BY <1>2, <1>4, SumSame
<1>10. Sum(u, (1..m) \cup Rest) = Sum(u, 1..m) + Sum(u, Rest)
  BY <1>3, <1>4, <1>7, SumParts
<1> QED
  BY <1>1, <1>2, <1>3, <1>8, <1>9, <1>10 DEF u

\* Indices of lists.
LEMMA UpTo ==
    ASSUME NEW n \in Nat
    PROVE  IsFiniteSet(1..n)
  BY FS_Interval

-----------------------------------------------------------------------------
(* Least members, and numbers in order.                                     *)

\* A finite set of integers has a least one.
LEMMA Least ==
    ASSUME NEW S, IsFiniteSet(S), S \subseteq Int, S # {}
    PROVE  \E m \in S : \A x \in S : m <= x
<1> DEFINE P == {T \in SUBSET S : T = {} \/ \E m \in T : \A x \in T : m <= x}
<1>1. {} \in P
  OBVIOUS
<1>2. ASSUME NEW T \in SUBSET S, NEW y \in T, T \ {y} \in P PROVE T \in P
  <2>1. CASE T \ {y} = {}
    <3>1. \A x \in T : y <= x
      BY <2>1
    <3> QED
      BY <3>1
  <2>2. CASE T \ {y} # {}
    <3>1. PICK m \in T \ {y} : \A x \in T \ {y} : m <= x
      BY <1>2, <2>2
    <3>2. CASE m <= y
      <4>1. \A x \in T : m <= x
        BY <3>1, <3>2
      <4> QED
        BY <4>1
    <3>3. CASE ~(m <= y)
      <4>1. \A x \in T : y <= x
        BY <3>1, <3>3
      <4> QED
        BY <4>1
    <3> QED
      BY <3>2, <3>3
  <2> QED
    BY <2>1, <2>2
<1> HIDE DEF P
<1>3. S \in P
  BY <1>1, <1>2, OneByOne
<1> QED
  BY <1>3 DEF P

\* And a greatest one.
LEMMA Greatest ==
    ASSUME NEW S, IsFiniteSet(S), S \subseteq Int, S # {}
    PROVE  \E m \in S : \A x \in S : x <= m
<1> DEFINE R == {-x : x \in S}
           g == [x \in S |-> -x]
<1>1. g \in Surjection(S, R)
  BY DEF Surjection
<1>2. IsFiniteSet(R)
  BY <1>1, FS_Surjection
<1>3. R \subseteq Int /\ R # {}
  <2>1. PICK x \in S : TRUE
    OBVIOUS
  <2>2. -x \in R
    OBVIOUS
  <2> QED
    BY <2>2
<1> HIDE DEF R
<1>4. PICK n \in R : \A y \in R : n <= y
  BY <1>2, <1>3, Least
<1>5. PICK m \in S : n = -m
  BY DEF R
<1>6. \A x \in S : n <= -x
  BY <1>4 DEF R
<1>7. \A x \in S : x <= m
  BY <1>5, <1>6
<1> QED
  BY <1>7

Increases(f) == \A i, j \in DOMAIN f : i < j => f[i] < f[j]

\* The members of a finite set of integers can be put in order.
LEMMA InOrderExists ==
    ASSUME NEW S, IsFiniteSet(S), S \subseteq Int
    PROVE  \E f \in [1..Cardinality(S) -> S] : Increases(f)
<1> DEFINE B == {T \in SUBSET S : ~ \E f \in [1..Cardinality(T) -> T] : Increases(f)}
<1>1. SUFFICES ASSUME B # {} PROVE FALSE
  OBVIOUS
<1>2. B \subseteq SUBSET S
  OBVIOUS
<1> HIDE DEF B
<1>3. PICK T \in B : \A U \in B : U \subseteq T => U = T
  <2>1. \A V : IsFiniteSet(V) /\ B \in SUBSET SUBSET V =>
              \E T \in B : \A U \in B : U \subseteq T => U = T
    BY <1>1, Smallest
  <2> QED
    BY <1>2, <2>1
<1>4. IsFiniteSet(T) /\ T \subseteq Int
  BY <1>2, FS_Subset
<1>5. CASE T = {}
  <2>1. Cardinality(T) = 0
    BY <1>5, FS_EmptySet
  <2> DEFINE f == [i \in 1..Cardinality(T) |-> i]
  <2>2. 1..Cardinality(T) = {}
    BY <2>1
  <2>3. f \in [1..Cardinality(T) -> T] /\ Increases(f)
    BY <2>2 DEF Increases
  <2> QED
    BY <2>3 DEF B
<1>6. CASE T # {}
  <2>1. PICK m \in T : \A x \in T : x <= m
    BY <1>4, <1>6, Greatest
  <2> DEFINE U == T \ {m}
             c == Cardinality(U)
  <2>2. IsFiniteSet(U) /\ c = Cardinality(T) - 1 /\ U \in SUBSET S /\ U # T
    BY <1>2, <1>4, <2>1, FS_RemoveElement, FS_Subset
  <2>3. c \in Nat /\ Cardinality(T) \in Nat
    BY <1>4, <2>2, FS_CardinalityType
  <2>4. U \notin B
    BY <1>3, <2>1
  <2>5. PICK f \in [1..c -> U] : Increases(f)
    BY <2>2, <2>4 DEF B
  <2> HIDE DEF c
  <2> DEFINE g == [i \in 1..(c + 1) |-> IF i <= c THEN f[i] ELSE m]
  <2>6. g \in [1..(c + 1) -> T]
    BY <2>3
  <2>7. ASSUME NEW i \in 1..c PROVE f[i] \in Int /\ f[i] < m
    <3>1. f[i] \in T /\ f[i] # m
      OBVIOUS
    <3>2. f[i] \in Int /\ m \in Int /\ f[i] <= m
      BY <1>4, <2>1, <3>1
    <3> QED
      BY <3>1, <3>2
  <2>8. Increases(g)
    <3> SUFFICES ASSUME NEW i \in 1..(c + 1), NEW j \in 1..(c + 1), i < j
                 PROVE  g[i] < g[j]
      BY DEF Increases
    <3>1. i \in 1..c
      BY <2>3
    <3>2. CASE j <= c
      <4>1. j \in 1..c
        BY <2>3, <3>2
      <4>2. f[i] < f[j]
        BY <2>5, <3>1, <4>1 DEF Increases
      <4> QED
        BY <2>3, <3>1, <3>2, <4>2
    <3>3. CASE ~(j <= c)
      BY <2>3, <2>7, <3>1, <3>3
    <3> QED
      BY <3>2, <3>3
  <2>9. Cardinality(T) = c + 1
    BY <2>2, <2>3
  <2> QED
    BY <2>6, <2>8, <2>9 DEF B
<1> QED
  BY <1>5, <1>6

\* Every member once, the lesser before the greater.
LEMMA InOrderIs ==
    ASSUME NEW S, IsFiniteSet(S), S \subseteq Int
    PROVE  /\ InOrder(S) \in Bijection(1..Cardinality(S), S)
           /\ InOrder(S) \in [1..Cardinality(S) -> S]
           /\ \A i, j \in 1..Cardinality(S) : i < j => InOrder(S)[i] < InOrder(S)[j]
<1> DEFINE f == InOrder(S)
           c == Cardinality(S)
<1>1. f \in [1..c -> S] /\ Increases(f)
  BY InOrderExists DEF InOrder, Increases
<1>2. c \in Nat /\ IsFiniteSet(1..c) /\ Cardinality(1..c) = c
  BY FS_CardinalityType, FS_Interval
<1> HIDE DEF f
<1>3. ASSUME NEW i \in 1..c, NEW j \in 1..c, f[i] = f[j] PROVE i = j
  <2>1. f[i] \in Int /\ (i < j => f[i] < f[j]) /\ (j < i => f[j] < f[i])
    BY <1>1 DEF Increases
  <2> QED
    BY <1>2, <1>3, <2>1
<1>4. f \in Injection(1..c, S)
  BY <1>1, <1>3 DEF Injection, IsInjective
<1>5. f \in Surjection(1..c, S)
  BY <1>2, <1>4, FS_Injection
<1> QED
  BY <1>1, <1>4, <1>5 DEF Bijection, Increases, f

-----------------------------------------------------------------------------
(* The coupon is shared out among the lines (Allocate).                     *)

\* Quotient and remainder.
LEMMA DivMod ==
    ASSUME NEW a \in Int, NEW d \in Nat \ {0}
    PROVE  /\ a \div d \in Int /\ a % d \in Int
           /\ a = (d * (a \div d)) + (a % d)
           /\ 0 <= a % d /\ a % d < d
  BY SMT

\* A positive factor may be dropped,
LEMMA Cancel ==
    ASSUME NEW a \in Int, a > 0, NEW b \in Int, NEW c \in Int, a * b <= a * c
    PROVE  b <= c
  BY SMT

\* also where one is less,
LEMMA CancelLess ==
    ASSUME NEW a \in Int, a > 0, NEW b \in Int, NEW c \in Int, a * b < a * c
    PROVE  b < c
  BY SMT

\* and a factor that is not negative put before.
LEMMA Times ==
    ASSUME NEW a \in Int, a >= 0, NEW b \in Int, NEW c \in Int, b <= c
    PROVE  a * b <= a * c
  BY SMT

\* Total is the sum over its whole domain.
LEMMA TotalIsSum ==
    ASSUME NEW f
    PROVE  Total(f) = Sum(f, DOMAIN f)
  BY DEF Total, SumFunction, Sum

\* Each of a finite set of numbers, by how much it is owed.
Ahead(left, j, i) == left[j] > left[i] \/ (left[j] = left[i] /\ j < i)
AheadOf(left, D, i) == {j \in D : Ahead(left, j, i)}
Rank(left, D, i) == Cardinality(AheadOf(left, D, i))

\* The ranks are 0, 1, 2, ..., each once: ties go by the index.
LEMMA RankIs ==
    ASSUME NEW D, IsFiniteSet(D), D \subseteq Int, NEW left \in [D -> Int]
    PROVE  [i \in D |-> Rank(left, D, i)] \in Bijection(D, 0..(Cardinality(D) - 1))
<1> DEFINE g == [i \in D |-> Rank(left, D, i)]
           n == Cardinality(D)
<1>1. n \in Nat
  BY FS_CardinalityType
<1>2. ASSUME NEW i \in D
      PROVE  /\ AheadOf(left, D, i) \in SUBSET D /\ i \notin AheadOf(left, D, i)
             /\ IsFiniteSet(AheadOf(left, D, i))
             /\ Rank(left, D, i) \in Nat
  <2>1. AheadOf(left, D, i) \in SUBSET D
    BY DEF AheadOf
  <2>2. IsFiniteSet(AheadOf(left, D, i))
    BY <2>1, FS_Subset
  <2>3. left[i] \in Int /\ i \in Int
    OBVIOUS
  <2>4. ~Ahead(left, i, i)
    BY <2>3 DEF Ahead
  <2> QED
    BY <2>1, <2>2, <2>4, FS_CardinalityType DEF Rank, AheadOf
<1>3. ASSUME NEW i \in D, NEW j \in D, Ahead(left, j, i)
      PROVE  Rank(left, D, j) < Rank(left, D, i)
  <2> DEFINE X == AheadOf(left, D, j)
             Y == AheadOf(left, D, i)
  <2>1. X \subseteq Y
    <3>1. \A k \in D : Ahead(left, k, j) => Ahead(left, k, i)
      BY <1>3 DEF Ahead
    <3> QED
      BY <3>1 DEF AheadOf
  <2>2. j \in Y /\ j \notin X
    BY <1>2, <1>3 DEF AheadOf
  <2>3. IsFiniteSet(Y) /\ Cardinality(X) \in Nat /\ Cardinality(Y) \in Nat
    BY <1>2 DEF Rank
  <2> HIDE DEF X, Y
  <2>4. X \in SUBSET Y /\ X # Y
    BY <2>1, <2>2
  <2>5. Cardinality(X) <= Cardinality(Y) /\ Cardinality(X) # Cardinality(Y)
    BY <2>3, <2>4, FS_Subset
  <2>6. Cardinality(X) < Cardinality(Y)
    BY <2>3, <2>5
  <2> QED
    BY <2>6 DEF X, Y, Rank
<1>4. ASSUME NEW i \in D PROVE Rank(left, D, i) \in 0..(n - 1)
  <2> DEFINE X == AheadOf(left, D, i)
  <2>1. X \in SUBSET D /\ X # D /\ Cardinality(X) \in Nat
    BY <1>2 DEF Rank
  <2> HIDE DEF X
  <2>2. Cardinality(X) <= n /\ Cardinality(X) # n
    BY <2>1, FS_Subset
  <2>3. Cardinality(X) \in 0..(n - 1)
    BY <1>1, <2>1, <2>2
  <2> QED
    BY <2>3 DEF X, Rank
<1>5. ASSUME NEW i \in D, NEW j \in D, g[i] = g[j] PROVE i = j
  <2>1. Ahead(left, i, j) \/ Ahead(left, j, i) \/ i = j
    <3>1. left[i] \in Int /\ left[j] \in Int /\ i \in Int /\ j \in Int
      OBVIOUS
    <3> QED
      BY <3>1 DEF Ahead
  <2>2. Rank(left, D, i) = Rank(left, D, j) /\ Rank(left, D, i) \in Nat
    BY <1>2, <1>5
  <2> QED
    BY <1>3, <2>1, <2>2
<1>6. g \in Injection(D, 0..(n - 1))
  <2>1. g \in [D -> 0..(n - 1)]
    BY <1>4
  <2> QED
    BY <1>5, <2>1 DEF Injection, IsInjective
<1>7. IsFiniteSet(0..(n - 1)) /\ Cardinality(0..(n - 1)) = n
  BY <1>1, FS_Interval
<1>8. g \in Surjection(D, 0..(n - 1))
  BY <1>6, <1>7, FS_Injection
<1> QED
  BY <1>6, <1>8 DEF Bijection

\* As many as there is rest come first.
LEMMA FirstOnes ==
    ASSUME NEW D, IsFiniteSet(D), D \subseteq Int, NEW left \in [D -> Int],
           NEW rest \in 0..Cardinality(D)
    PROVE  Cardinality({i \in D : Rank(left, D, i) < rest}) = rest
<1> DEFINE g == [i \in D |-> Rank(left, D, i)]
           n == Cardinality(D)
           A == {i \in D : Rank(left, D, i) < rest}
           h == [i \in A |-> Rank(left, D, i)]
<1>1. n \in Nat
  BY FS_CardinalityType
<1>2. /\ g \in [D -> 0..(n - 1)]
      /\ \A i, j \in D : g[i] = g[j] => i = j
      /\ \A r \in 0..(n - 1) : \E i \in D : g[i] = r
  <2>1. g \in Bijection(D, 0..(n - 1))
    BY RankIs
  <2> QED
    BY <2>1 DEF Bijection, Injection, Surjection, IsInjective
<1>3. \A i \in D : Rank(left, D, i) \in 0..(n - 1) /\ g[i] = Rank(left, D, i)
  BY <1>2
<1> HIDE DEF g, n
<1>4. h \in Bijection(A, 0..(rest - 1))
  <2>1. h \in [A -> 0..(rest - 1)]
    <3>1. ASSUME NEW i \in A PROVE Rank(left, D, i) \in 0..(rest - 1)
      <4>1. Rank(left, D, i) \in 0..(n - 1) /\ Rank(left, D, i) < rest
        BY <1>3
      <4> QED
        BY <1>1, <4>1 DEF n
    <3> QED
      BY <3>1
  <2>2. \A i, j \in A : h[i] = h[j] => i = j
    BY <1>2, <1>3
  <2>3. ASSUME NEW r \in 0..(rest - 1) PROVE \E i \in A : h[i] = r
    <3>1. r \in 0..(n - 1)
      BY <1>1 DEF n
    <3>2. PICK i \in D : g[i] = r
      BY <1>2, <3>1
    <3>3. i \in A /\ h[i] = r
      BY <1>3, <3>2
    <3> QED
      BY <3>3
  <2> QED
    BY <2>1, <2>2, <2>3 DEF Bijection, Injection, Surjection, IsInjective
<1>5. IsFiniteSet(A)
  BY FS_Subset
<1>6. ExistsBijection(A, 0..(rest - 1))
  BY <1>4 DEF ExistsBijection, Bijection
<1>7. Cardinality(0..(rest - 1)) = Cardinality(A)
  BY <1>5, <1>6, FS_Bijection
<1>8. Cardinality(0..(rest - 1)) = rest
  BY <1>1, FS_Interval
<1> QED
  BY <1>7, <1>8

\* allocate gives out the amount to the cent, and nobody more than his weight.
THEOREM AllocateShares ==
    ASSUME NEW n \in Nat, NEW weights \in [1..n -> Nat],
           NEW amount \in 0..Total(weights)
    PROVE  /\ Allocate(amount, weights) \in [1..n -> Nat]
           /\ \A i \in 1..n : Allocate(amount, weights)[i] <= weights[i]
           /\ Total(Allocate(amount, weights)) = amount
<1> DEFINE D     == 1..n
           sum   == Total(weights)
           floor == [i \in D |-> (amount * weights[i]) \div sum]
           left  == [i \in D |-> (amount * weights[i]) % sum]
           rest  == amount - Total(floor)
           extra == [i \in D |-> IF Rank(left, D, i) < rest THEN 1 ELSE 0]
<1>1. IsFiniteSet(D) /\ D \subseteq Int /\ DOMAIN weights = D /\ D = 1..n
  BY FS_Interval
<1>2. sum = Sum(weights, D) /\ sum \in Int
  BY <1>1, TotalIsSum, SumInt
<1>3. amount \in Int /\ 0 <= amount /\ amount <= sum
  BY <1>2
<1>4. CASE amount <= 0 \/ sum <= 0
  <2>1. amount = 0
    BY <1>2, <1>3, <1>4
  <2>2. Allocate(amount, weights) = [i \in D |-> 0]
    BY <1>1, <1>4 DEF Allocate
  <2>3. Total([i \in D |-> 0]) = 0
    BY <1>1, TotalIsSum, SumZero
  <2> QED
    BY <2>1, <2>2, <2>3
<1>5. CASE ~(amount <= 0 \/ sum <= 0)
  <2>1. Allocate(amount, weights) = [i \in D |-> floor[i] + IF Rank(left, D, i) < rest THEN 1 ELSE 0]
    BY <1>1, <1>5 DEF Allocate, Rank, AheadOf, Ahead
  <2> HIDE DEF D, sum
  <2>2. sum \in Nat \ {0}
    BY <1>2, <1>5
  <2>3. ASSUME NEW i \in D
        PROVE  /\ weights[i] \in Int /\ 0 <= weights[i]
               /\ floor[i] \in Int /\ left[i] \in Int
               /\ amount * weights[i] \in Int
               /\ amount * weights[i] = (sum * floor[i]) + left[i]
               /\ 0 <= left[i] /\ left[i] < sum
    <3>1. weights[i] \in Nat
      BY <1>1
    <3>2. amount * weights[i] \in Int
      BY <1>3, <3>1
    <3> DEFINE p == amount * weights[i]
    <3>3. floor[i] = p \div sum /\ left[i] = p % sum
      OBVIOUS
    <3>4. p \in Int
      BY <3>2
    <3> HIDE DEF p, floor, left
    <3>5. floor[i] \in Int /\ left[i] \in Int /\ p = (sum * floor[i]) + left[i]
          /\ 0 <= left[i] /\ left[i] < sum
      BY <2>2, <3>3, <3>4, DivMod
    <3> QED
      BY <3>1, <3>2, <3>5 DEF p
  <2>4. left \in [D -> Int] /\ DOMAIN floor = D /\ DOMAIN extra = D
    BY <2>3
  <2> HIDE DEF floor, left
  <2>5. /\ Total(floor) = Sum(floor, D) /\ Sum(floor, D) \in Int
        /\ Sum(left, D) \in Int /\ rest \in Int
    BY <1>1, <1>3, <2>3, <2>4, TotalIsSum, SumInt
  \* sum * rest = Sum(left, D)
  <2>6. sum * rest = Sum(left, D)
    <3> DEFINE a == [i \in D |-> amount * weights[i]]
               b == [i \in D |-> sum * floor[i]]
    <3>1. Sum(a, D) = amount * sum
      <4>1. \A i \in D : weights[i] \in Int /\ a[i] = amount * weights[i]
        BY <2>3
      <4> HIDE DEF a
      <4>2. Sum(a, D) = amount * Sum(weights, D)
        BY <1>1, <1>3, <4>1, SumTimes
      <4> QED
        BY <1>2, <4>2
    <3>2. Sum(b, D) = sum * Sum(floor, D)
      <4>1. \A i \in D : floor[i] \in Int /\ b[i] = sum * floor[i]
        BY <2>3
      <4> HIDE DEF b
      <4> QED
        BY <1>1, <1>2, <4>1, SumTimes
    <3>3. Sum(a, D) = Sum(b, D) + Sum(left, D)
      <4>1. \A i \in D : b[i] \in Int /\ left[i] \in Int /\ a[i] = b[i] + left[i]
        BY <1>2, <2>3
      <4> HIDE DEF a, b
      <4> QED
        BY <1>1, <4>1, SumPlus
    <3>4. sum * rest = (sum * amount) - (sum * Sum(floor, D))
      BY <1>2, <1>3, <2>5
    <3>5. amount * sum = sum * amount
      BY <1>2, <1>3
    <3> HIDE DEF a, b, rest
    <3> QED
      BY <1>2, <1>3, <2>5, <3>1, <3>2, <3>3, <3>4, <3>5
  <2> DEFINE P == {i \in D : left[i] > 0}
             A == {i \in D : Rank(left, D, i) < rest}
  <2>7. IsFiniteSet(P) /\ IsFiniteSet(A) /\ Cardinality(P) \in Nat
        /\ Cardinality(P) <= Cardinality(D) /\ Cardinality(D) \in Nat
    BY <1>1, FS_Subset, FS_CardinalityType
  <2> HIDE DEF rest
  <2>8. 0 <= rest
    <3> DEFINE z == [i \in D |-> 0]
    <3>1. Sum(z, D) = 0
      BY <1>1, SumZero
    <3>2. \A i \in D : z[i] \in Int /\ left[i] \in Int /\ z[i] <= left[i]
      BY <2>3
    <3> HIDE DEF z
    <3>3. Sum(z, D) <= Sum(left, D)
      BY <1>1, <3>2, SumLeq
    <3>4. sum * 0 <= sum * rest
      BY <1>2, <2>6, <3>1, <3>3
    <3> QED
      BY <1>2, <2>2, <2>5, <3>4, Cancel
  \* One of less than sum each.
  <2>9. rest <= Cardinality(P)
    <3> DEFINE c == [i \in D |-> IF i \in P THEN 1 ELSE 0]
               d == [i \in D |-> sum * c[i]]
    <3>1. Sum(c, D) = Cardinality(P)
      BY <1>1, SumCount
    <3>2. Sum(d, D) = sum * Sum(c, D)
      <4>1. \A i \in D : c[i] \in Int /\ d[i] = sum * c[i]
        OBVIOUS
      <4> HIDE DEF c, d
      <4> QED
        BY <1>1, <1>2, <4>1, SumTimes
    <3>3. Sum(left, D) <= Sum(d, D)
      <4>1. ASSUME NEW i \in D PROVE left[i] \in Int /\ d[i] \in Int /\ left[i] <= d[i]
        <5>1. CASE i \in P
          <6>1. d[i] = sum
            BY <1>2, <5>1
          <6> QED
            BY <1>2, <2>3, <6>1
        <5>2. CASE i \notin P
          <6>1. d[i] = 0 /\ ~(left[i] > 0)
            BY <1>2, <5>2
          <6> QED
            BY <2>3, <6>1
        <5> QED
          BY <5>1, <5>2
      <4> HIDE DEF d
      <4> QED
        BY <1>1, <4>1, SumLeq
    <3>4. sum * rest <= sum * Cardinality(P)
      BY <2>6, <3>1, <3>2, <3>3
    <3> DEFINE m == Cardinality(P)
    <3>5. m \in Int /\ sum > 0 /\ sum * rest <= sum * m
      BY <2>2, <2>7, <3>4
    <3> HIDE DEF m
    <3>6. rest <= m
      BY <1>2, <2>5, <3>5, Cancel
    <3> QED
      BY <3>6 DEF m
  <2>10. Cardinality(A) = rest
    <3>1. rest \in 0..Cardinality(D)
      BY <2>5, <2>7, <2>8, <2>9
    <3> QED
      BY <1>1, <2>4, <3>1, FirstOnes
  \* Who has nothing left comes after all who have.
  <2>11. A \subseteq P
    <3> SUFFICES ASSUME NEW i \in D, i \notin P PROVE i \notin A
      OBVIOUS
    <3>1. left[i] = 0
      BY <2>3
    <3>2. P \in SUBSET AheadOf(left, D, i)
      BY <3>1 DEF AheadOf, Ahead
    <3>3. IsFiniteSet(AheadOf(left, D, i))
      <4>1. AheadOf(left, D, i) \in SUBSET D
        BY DEF AheadOf
      <4> QED
        BY <1>1, <4>1, FS_Subset
    <3> HIDE DEF P
    <3>4. Cardinality(P) <= Rank(left, D, i) /\ Rank(left, D, i) \in Nat
      BY <3>2, <3>3, FS_Subset, FS_CardinalityType DEF Rank
    <3>5. ~(Rank(left, D, i) < rest)
      BY <2>5, <2>7, <2>9, <3>4
    <3> QED
      BY <3>5
  <2>12. ASSUME NEW i \in D
         PROVE  /\ extra[i] \in Int /\ extra[i] = IF i \in A THEN 1 ELSE 0
                /\ Allocate(amount, weights)[i] = floor[i] + extra[i]
    BY <2>1
  <2>13. Total(Allocate(amount, weights)) = amount
    <3> DEFINE a == Allocate(amount, weights)
    <3>1. DOMAIN a = D
      BY <2>1
    <3>2. \A i \in D : floor[i] \in Int /\ extra[i] \in Int /\ a[i] = floor[i] + extra[i]
      BY <2>3, <2>12
    <3>3. Sum(extra, D) = Cardinality(A)
      <4>1. A \in SUBSET D /\ \A i \in D : extra[i] = IF i \in A THEN 1 ELSE 0
        BY <2>12
      <4> HIDE DEF A, extra
      <4> QED
        BY <1>1, <4>1, SumCount
    <3> HIDE DEF a, A, extra
    <3>4. Sum(a, D) = Sum(floor, D) + Sum(extra, D)
      BY <1>1, <3>2, SumPlus
    <3>5. Total(a) = Sum(a, D)
      BY <3>1, TotalIsSum
    <3> QED
      BY <1>3, <2>5, <2>10, <3>3, <3>4, <3>5 DEF a, rest
  <2>14. ASSUME NEW i \in D
         PROVE  /\ Allocate(amount, weights)[i] \in Nat
                /\ Allocate(amount, weights)[i] <= weights[i]
    <3>1. amount * weights[i] <= sum * weights[i]
      <4>1. weights[i] * amount <= weights[i] * sum
        BY <1>2, <1>3, <2>3, Times
      <4> QED
        BY <1>2, <1>3, <2>3, <4>1
    <3> DEFINE x == sum * floor[i]
               y == amount * weights[i]
               z == sum * weights[i]
    <3>5. x \in Int /\ y \in Int /\ z \in Int /\ y <= z /\ y = x + left[i]
      BY <1>2, <2>3, <3>1
    <3>2. 0 <= floor[i]
      <4>1. 0 <= amount * weights[i]
        BY <1>3, <2>3
      <4>2. sum * (-1) < sum * floor[i]
        BY <1>2, <2>3, <4>1
      <4>3. -1 < floor[i]
        BY <1>2, <2>2, <2>3, <4>2, CancelLess
      <4> QED
        BY <2>3, <4>3
    <3>3. CASE i \in A
      <4>1. left[i] > 0
        BY <2>11, <3>3
      <4> HIDE DEF x, y, z
      <4>4. x < z
        BY <2>3, <3>5, <4>1
      <4>2. sum * floor[i] < sum * weights[i]
        BY <4>4 DEF x, z
      <4>3. floor[i] < weights[i]
        BY <1>2, <2>2, <2>3, <4>2, CancelLess
      <4> HIDE DEF A, extra
      <4> QED
        BY <2>3, <2>12, <3>2, <3>3, <4>3
    <3>4. CASE i \notin A
      <4> HIDE DEF x, y, z
      <4>4. x <= z
        BY <2>3, <3>5
      <4>2. sum * floor[i] <= sum * weights[i]
        BY <4>4 DEF x, z
      <4>3. floor[i] <= weights[i]
        BY <1>2, <2>2, <2>3, <4>2, Cancel
      <4> HIDE DEF A, extra
      <4> QED
        BY <2>3, <2>12, <3>2, <3>4, <4>3
    <3> QED
      BY <3>3, <3>4
  <2>15. Allocate(amount, weights) \in [D -> Nat]
    BY <2>1, <2>14
  <2> QED
    BY <1>1, <2>13, <2>14, <2>15
<1> QED
  BY <1>4, <1>5

-----------------------------------------------------------------------------
(* Amounts of a line: rounding, the base of a gross amount, the taxes.       *)

\* To the nearest.
Nearest(n, d) ==
    /\ Round(n, d) \in Nat
    /\ 2 * (d * Round(n, d)) <= 2 * n + d
    /\ 2 * n < 2 * (d * Round(n, d)) + d

\* Round takes the nearest.
LEMMA RoundIs ==
    ASSUME NEW n \in Nat, NEW d \in Nat \ {0}
    PROVE  Nearest(n, d)
<1> DEFINE a == 2 * n + d
           e == 2 * d
           r == a \div e
<1>1. a \in Int /\ e \in Nat \ {0} /\ 0 <= a
  OBVIOUS
<1>2. Round(n, d) = r
  BY DEF Round
<1> HIDE DEF a, e
<1>3. r \in Int /\ a = (e * r) + (a % e) /\ 0 <= a % e /\ a % e < e /\ a % e \in Int
  BY <1>1, DivMod
<1> HIDE DEF r
<1>4. e * r \in Int /\ e * (-1) < e * r
  BY <1>1, <1>3
<1>5. -1 < r
  BY <1>1, <1>3, <1>4, CancelLess
<1>6. e * r = 2 * (d * r) /\ d * r \in Int
  BY <1>3 DEF e
<1>7. e * r <= a /\ a < (e * r) + e
  BY <1>1, <1>3, <1>4
<1> QED
  BY <1>2, <1>3, <1>5, <1>6, <1>7 DEF a, e, Nearest

VatRate == 0..3000

\* b is the base of gross, t the VAT and the base.
BaseOf(b, gross, t) ==
    b \in Nat /\ 2 * (t * b) <= 20000 * gross + t /\ 20000 * gross < 2 * (t * b) + t

HasBase(gross, vat) == BaseOf(BaseFromGross(gross, vat), gross, 10000 + vat)

\* The base of a gross amount, to the nearest.
LEMMA BaseIs ==
    ASSUME NEW gross \in Nat, NEW vat \in VatRate
    PROVE  HasBase(gross, vat)
<1> DEFINE n == gross * 10000
           d == 10000 + vat
           b == BaseFromGross(gross, vat)
<1>0. vat \in Nat /\ vat <= 3000
  BY DEF VatRate
<1>1. n \in Nat /\ d \in Nat \ {0} /\ d \in Int /\ 2 * n = 20000 * gross /\ gross \in Int
  BY <1>0
<1>2. b = Round(n, d)
  BY DEF BaseFromGross
<1> HIDE DEF n, b
<1>3. b \in Nat /\ 2 * (d * b) <= 2 * n + d /\ 2 * n < 2 * (d * b) + d
  <2>1. Nearest(n, d)
    BY <1>1, RoundIs
  <2> QED
    BY <1>2, <2>1 DEF Nearest
<1> HIDE DEF d
<1>4. d * b \in Int
  BY <1>1, <1>3
<1>5. BaseOf(b, gross, d)
  BY <1>1, <1>3, <1>4 DEF BaseOf
<1> QED
  BY <1>5 DEF b, d, HasBase

\* Of more the base is no less.
LEMMA BaseGrows ==
    ASSUME NEW more \in Nat, NEW less \in Nat, less <= more, NEW vat \in VatRate
    PROVE  BaseFromGross(less, vat) <= BaseFromGross(more, vat)
<1> DEFINE b == BaseFromGross(more, vat)
           c == BaseFromGross(less, vat)
           t == 10000 + vat
<1>b. HasBase(more, vat) /\ HasBase(less, vat)
  BY BaseIs, Zenon
<1>0. BaseOf(b, more, t)
  BY <1>b DEF HasBase
<1>a. BaseOf(c, less, t)
  BY <1>b DEF HasBase
<1>2. t \in Int /\ t > 0
  BY DEF VatRate
<1> HIDE DEF b, c, t
<1>1. /\ b \in Nat /\ c \in Nat
      /\ 2 * (t * c) <= 20000 * less + t
      /\ 20000 * more < 2 * (t * b) + t
  BY <1>0, <1>a DEF BaseOf
<1>3. t * c \in Int /\ t * b \in Int /\ t * (b + 1) = t * b + t
  BY <1>1, <1>2
<1>4. t * c < t * (b + 1)
  BY <1>1, <1>2, <1>3
<1>5. c < b + 1
  BY <1>1, <1>2, <1>4, CancelLess
<1>6. c <= b
  BY <1>1, <1>5
<1> QED
  BY <1>6 DEF b, c

\* How far what a line of q units states may be from what was paid for it.
Near(x, slack) == -slack <= x /\ x <= slack

\* What a line of q units states, and of how much.
LineStates(l, q, vat, mode, paid) ==
    /\ l.quantity = q /\ l.rate = vat /\ l.mode = mode
    /\ l.unit \in Nat /\ l.base \in Nat /\ l.tax \in Nat /\ l.allowance \in Nat
    /\ l.unit * q \in Nat
    /\ l.base = l.unit * q - l.allowance
    /\ mode = "excluded" => l.tax = 0
    /\ Near(2 * (10000 * l.tax - vat * l.base), 10000)
    /\ Near(paid - l.base - l.tax, q + 1)

\* buildLine: the price of a unit is rounded and so is the VAT, which leaves what
\* was paid within a cent a unit and one for the line.
LEMMA LineIs ==
    ASSUME NEW q \in Nat \ {0}, NEW gross \in Nat, NEW discount \in Nat, discount <= gross,
           NEW vat \in VatRate, NEW mode, mode = "excluded" => vat = 0
    PROVE  LineStates(Line(q, gross, discount, vat, mode), q, vat, mode, gross - discount)
<1> DEFINE l == Line(q, gross, discount, vat, mode)
           B == BaseFromGross(gross, vat)
           unit == Round(B, q)
           GB == unit * q
           paid == gross - discount
           C == BaseFromGross(paid, vat)
           b == IF discount = 0 THEN GB ELSE Smaller(C, GB)
           T == IF mode = "excluded" THEN 0 ELSE Round(b * vat, 10000)
           t == 10000 + vat
<1>1. paid \in Nat /\ paid <= gross /\ t \in Int /\ t >= 10000 /\ t <= 13000 /\ vat \in Int
      /\ q \in Int /\ q >= 1 /\ vat >= 0 /\ gross \in Int /\ discount \in Int
  BY DEF VatRate
<1>a. BaseOf(B, gross, t)
  <2>1. HasBase(gross, vat)
    BY BaseIs, Zenon
  <2> QED
    BY <2>1 DEF HasBase
<1>b. paid \in Nat /\ paid <= gross
  OBVIOUS
<1> HIDE DEF paid
<1>c. BaseOf(C, paid, t)
  <2>1. HasBase(paid, vat)
    BY <1>b, BaseIs, Zenon
  <2> QED
    BY <2>1 DEF HasBase
<1>4. C <= B
  <2>1. BaseFromGross(paid, vat) <= BaseFromGross(gross, vat)
    BY <1>b, BaseGrows, Zenon
  <2> QED
    BY <2>1
<1> HIDE DEF B, C, t
<1>2. B \in Nat /\ 2 * (t * B) <= 20000 * gross + t /\ 20000 * gross < 2 * (t * B) + t
  BY <1>a DEF BaseOf
<1>3. C \in Nat /\ 2 * (t * C) <= 20000 * paid + t /\ 20000 * paid < 2 * (t * C) + t
  BY <1>c DEF BaseOf
<1>5. unit \in Nat /\ 2 * (q * unit) <= 2 * B + q /\ 2 * B < 2 * (q * unit) + q
  <2>1. Nearest(B, q)
    BY <1>2, RoundIs
  <2> QED
    BY <2>1 DEF Nearest
<1> HIDE DEF unit
<1>6. GB = q * unit /\ GB \in Nat
  BY <1>1, <1>5
<1> HIDE DEF GB
<1>7. b \in Nat /\ b <= GB
  BY <1>3, <1>6 DEF Smaller
<1>8. /\ l.quantity = q /\ l.rate = vat /\ l.mode = mode
      /\ l.unit = unit /\ l.base = b /\ l.tax = T /\ l.allowance = GB - b
  BY DEF Line, GB, unit, B, C, paid, b
\* Either way what is stated is near what was paid, before VAT.
<1>9. /\ 2 * (t * b) <= 20000 * paid + t + t * q
      /\ 20000 * paid <= 2 * (t * b) + t + t * q
      /\ t * b \in Int /\ t * q \in Int
  <2>1. t * b \in Int /\ t * q \in Int /\ t * B \in Int /\ t * C \in Int /\ t * q >= 0
    BY <1>1, <1>2, <1>3, <1>7
  <2>2. CASE discount # 0 /\ C <= GB
    <3>1. b = C
      BY <1>3, <1>6, <2>2 DEF Smaller
    <3> QED
      BY <1>1, <1>3, <2>1, <3>1
  <2>3. CASE discount = 0
    <3>1. b = GB /\ paid = gross
      BY <1>1, <2>3 DEF paid
    <3>2. 2 * b <= 2 * B + q /\ 2 * B <= 2 * b + q
      BY <1>1, <1>2, <1>5, <1>6, <3>1
    <3> HIDE DEF b
    <3>3. t * (2 * b) <= t * (2 * B + q) /\ t * (2 * B) <= t * (2 * b + q)
      BY <1>1, <1>2, <1>7, <3>2, Times
    <3>4. /\ t * (2 * b) = 2 * (t * b) /\ t * (2 * B + q) = 2 * (t * B) + t * q
          /\ t * (2 * B) = 2 * (t * B) /\ t * (2 * b + q) = 2 * (t * b) + t * q
      BY <1>1, <1>2, <1>7
    <3> QED
      BY <1>1, <1>2, <2>1, <3>1, <3>3, <3>4
  <2>4. CASE discount # 0 /\ ~(C <= GB)
    <3>1. b = GB
      BY <1>3, <1>6, <2>4 DEF Smaller
    <3>2. 2 * b <= 2 * C + q /\ 2 * C <= 2 * b + q
      BY <1>1, <1>2, <1>3, <1>4, <1>5, <1>6, <2>4, <3>1
    <3> HIDE DEF b
    <3>3. t * (2 * b) <= t * (2 * C + q) /\ t * (2 * C) <= t * (2 * b + q)
      BY <1>1, <1>3, <1>7, <3>2, Times
    <3>4. /\ t * (2 * b) = 2 * (t * b) /\ t * (2 * C + q) = 2 * (t * C) + t * q
          /\ t * (2 * C) = 2 * (t * C) /\ t * (2 * b + q) = 2 * (t * b) + t * q
      BY <1>1, <1>3, <1>7
    <3> QED
      BY <1>1, <1>3, <2>1, <3>3, <3>4
  <2> QED
    BY <2>2, <2>3, <2>4
<1> HIDE DEF b
<1>10. /\ T \in Nat /\ b * vat \in Int /\ b * vat >= 0
       /\ 20000 * T <= 2 * (b * vat) + 10000
       /\ 2 * (b * vat) <= 20000 * T + 10000
  <2>1. b * vat \in Nat
    BY <1>1, <1>7
  <2>2. CASE mode = "excluded"
    <3>1. vat = 0 /\ T = 0
      BY <2>2
    <3>2. b * vat = 0
      BY <1>7, <3>1
    <3> QED
      BY <3>1, <3>2
  <2>3. CASE mode # "excluded"
    <3> DEFINE m == b * vat
    <3>1. T = Round(m, 10000)
      BY <2>3
    <3> HIDE DEF m
    <3>2. /\ Round(m, 10000) \in Nat /\ 2 * (10000 * Round(m, 10000)) <= 2 * m + 10000
          /\ 2 * m < 2 * (10000 * Round(m, 10000)) + 10000
      <4>1. m \in Nat /\ 10000 \in Nat \ {0}
        BY <2>1 DEF m
      <4>2. Nearest(m, 10000)
        BY <4>1, RoundIs
      <4> QED
        BY <4>2 DEF Nearest
    <3> HIDE DEF T
    <3>3. m \in Int /\ m >= 0
      BY <2>1 DEF m
    <3>4. 20000 * T <= 2 * m + 10000 /\ 2 * m <= 20000 * T + 10000
      BY <3>1, <3>2, <3>3
    <3> QED
      BY <3>1, <3>2, <3>3, <3>4 DEF m
  <2> QED
    BY <2>2, <2>3
<1>11. mode = "excluded" => T = 0
  OBVIOUS
<1> HIDE DEF T, l
<1>12. Near(2 * (10000 * T - vat * b), 10000)
  <2>1. vat * b = b * vat
    BY <1>1, <1>7
  <2> QED
    BY <1>10, <2>1 DEF Near
<1>13. Near(paid - b - T, q + 1)
  <2>1. t * b = 10000 * b + b * vat
    BY <1>1, <1>7 DEF t
  <2>2. t * q <= 13000 * q
    BY <1>1
  <2> DEFINE x == b * vat
             y == t * q
             z == t * b
  <2>3. x \in Int /\ y \in Int /\ z \in Int /\ y <= 13000 * q /\ z = 10000 * b + x
    BY <1>9, <1>10, <2>1, <2>2
  <2>4. /\ 2 * z <= 20000 * paid + t + y /\ 20000 * paid <= 2 * z + t + y
        /\ 20000 * T <= 2 * x + 10000 /\ 2 * x <= 20000 * T + 10000
    BY <1>9, <1>10
  <2> HIDE DEF x, y, z
  <2> QED
    BY <1>1, <1>7, <1>10, <2>3, <2>4 DEF Near
<1>14. gross - discount = paid
  BY DEF paid
<1>15. GB - b \in 0..GB /\ b = GB - (GB - b) /\ GB = unit * q
  BY <1>6, <1>7 DEF GB
<1> QED
  BY <1>5, <1>6, <1>7, <1>8, <1>10, <1>11, <1>12, <1>13, <1>14, <1>15 DEF l, LineStates

-----------------------------------------------------------------------------
(* Lines of a document.                                                     *)

Modes == {"taxed", "exempt", "excluded"}

\* A line with all it needs to be in a document.
IsLine(l) ==
    \E q \in Nat \ {0}, vat \in VatRate, mode \in Modes, paid \in Int :
        LineStates(l, q, vat, mode, paid)

AllowancePart(l) ==
    [tag |-> "AllowanceCharge", factor |-> Round(l.allowance * 10000, l.unit * l.quantity),
     amount |-> l.allowance, base |-> l.unit * l.quantity]
TaxPart(l) == [tag |-> "TaxTotal", tax |-> l.tax, taxable |-> l.base, rate |-> l.rate]

\* The lists of one part or none that a line is made of.
LEMMA Concats ==
    ASSUME NEW x, NEW y
    PROVE  /\ <<x>> \o <<y>> = <<x, y>>
           /\ <<x>> \o <<>> = <<x>>
           /\ <<>> \o <<x>> = <<x>>
           /\ <<>> \o <<>> = <<>>
<1>1. <<x>> \o <<y>> = <<x, y>>
  <2> DEFINE S == {x, y}
             u == <<x>> \o <<y>>
  <2>1. /\ <<x>> \in Seq(S) /\ <<y>> \in Seq(S) /\ Len(<<x>>) = 1
        /\ Len(<<y>>) = 1 /\ <<x>>[1] = x /\ <<y>>[1] = y
    OBVIOUS
  <2>2. u \in Seq(S) /\ Len(u) = 2 /\ u[1] = x /\ u[2] = y
    BY <2>1
  <2>3. <<x, y>> \in Seq(S) /\ Len(<<x, y>>) = 2 /\ <<x, y>>[1] = x /\ <<x, y>>[2] = y
    OBVIOUS
  <2> HIDE DEF u
  <2>4. u = [i \in 1..2 |-> u[i]]
    BY <2>2
  <2>5. <<x, y>> = [i \in 1..2 |-> <<x, y>>[i]]
    BY <2>3
  <2>6. \A i \in 1..2 : u[i] = <<x, y>>[i]
    BY <2>2, <2>3
  <2> QED
    BY <2>4, <2>5, <2>6 DEF u
<1>2. <<x>> \o <<>> = <<x>>
  OBVIOUS
<1>3. <<>> \o <<x>> = <<x>>
  OBVIOUS
<1>4. <<>> \o <<>> = <<>>
  OBVIOUS
<1> QED
  BY <1>1, <1>2, <1>3, <1>4

\* The parts of a line of a document: an allowance if there is one, a tax if it is taxed.
LEMMA PartsAre ==
    ASSUME NEW l, NEW tag, NEW d, d = DocumentLine(tag, l)
    PROVE  /\ PartsOf(d, "AllowanceCharge") = IF l.allowance > 0 THEN {AllowancePart(l)} ELSE {}
           /\ PartsOf(d, "TaxTotal") = IF l.mode # "excluded" THEN {TaxPart(l)} ELSE {}
<1> DEFINE a == AllowancePart(l)
           t == TaxPart(l)
           s == d.parts
           A == l.allowance > 0
           B == l.mode # "excluded"
<1>1. a.tag = "AllowanceCharge" /\ t.tag = "TaxTotal"
  BY DEF AllowancePart, TaxPart
<1>2. /\ LineAllowance(l) = IF A THEN <<a>> ELSE <<>>
      /\ LineTax(l) = IF B THEN <<t>> ELSE <<>>
  BY DEF LineAllowance, LineTax, AllowancePart, TaxPart
<1>3. s = LineAllowance(l) \o LineTax(l) \/ s = LineTax(l) \o LineAllowance(l)
  BY DEF DocumentLine
<1> HIDE DEF a, t
<1>4. \/ A /\ B /\ s \in {<<a, t>>, <<t, a>>}
      \/ A /\ ~B /\ s = <<a>>
      \/ ~A /\ B /\ s = <<t>>
      \/ ~A /\ ~B /\ s = <<>>
  <2> HIDE DEF s, A, B
  <2>1. /\ <<a>> \o <<t>> = <<a, t>> /\ <<t>> \o <<a>> = <<t, a>>
        /\ <<a>> \o <<>> = <<a>> /\ <<>> \o <<a>> = <<a>>
        /\ <<t>> \o <<>> = <<t>> /\ <<>> \o <<t>> = <<t>> /\ <<>> \o <<>> = <<>>
    BY Concats
  <2> QED
    BY <1>2, <1>3, <2>1
<1> DEFINE Parts(tg) == {s[i] : i \in {j \in DOMAIN s : s[j].tag = tg}}
<1>5. /\ PartsOf(d, "AllowanceCharge") = Parts("AllowanceCharge")
      /\ PartsOf(d, "TaxTotal") = Parts("TaxTotal")
  BY DEF PartsOf
<1> HIDE DEF s, A, B
<1>6. /\ Parts("AllowanceCharge") = IF A THEN {a} ELSE {}
      /\ Parts("TaxTotal") = IF B THEN {t} ELSE {}
  <2>1. CASE A /\ B /\ s = <<a, t>>
    BY <1>1, <2>1
  <2>2. CASE A /\ B /\ s = <<t, a>>
    BY <1>1, <2>2
  <2>3. CASE A /\ ~B /\ s = <<a>>
    BY <1>1, <2>3
  <2>4. CASE ~A /\ B /\ s = <<t>>
    BY <1>1, <2>4
  <2>5. CASE ~A /\ ~B /\ s = <<>>
    BY <2>5
  <2> QED
    BY <1>4, <2>1, <2>2, <2>3, <2>4, <2>5
<1> QED
  BY <1>5, <1>6 DEF a, t, A, B

\* What is stated of a set of one thing.
LEMMA TotalOne ==
    ASSUME NEW x, NEW f, DOMAIN f = {x}, f[x] \in Int
    PROVE  Total(f) = f[x]
  BY TotalIsSum, SumOne

\* A total of nothing.
LEMMA TotalNone ==
    ASSUME NEW f, DOMAIN f = {}
    PROVE  Total(f) = 0
  BY TotalIsSum, SumEmpty

\* What is read of a line in a document is what was computed of it.
LEMMA DocumentLineIs ==
    ASSUME NEW l, IsLine(l), NEW tag, NEW d, d = DocumentLine(tag, l)
    PROVE  /\ d.tag = tag /\ d.quantity = l.quantity /\ d.amount = l.base /\ d.price = l.unit
           /\ AllowanceOf(d) = l.allowance
           /\ TaxOf(d) = l.tax
           /\ TaxableOf(d) = IF l.mode = "excluded" THEN 0 ELSE l.base
           /\ \A p \in PartsOf(d, "AllowanceCharge") : p.base > 0 /\ p.factor \in 0..10000
<1>0. PICK q \in Nat \ {0}, vat \in VatRate, mode \in Modes, paid \in Int :
          LineStates(l, q, vat, mode, paid)
  BY DEF IsLine
<1>1. /\ l.allowance \in Nat /\ l.tax \in Nat /\ l.base \in Nat /\ l.unit * l.quantity \in Nat
      /\ l.base = l.unit * l.quantity - l.allowance
      /\ l.mode = "excluded" => l.tax = 0
  BY <1>0 DEF LineStates
<1>2. d.tag = tag /\ d.quantity = l.quantity /\ d.amount = l.base /\ d.price = l.unit
  BY DEF DocumentLine
<1> DEFINE a == AllowancePart(l)
           t == TaxPart(l)
           PA == PartsOf(d, "AllowanceCharge")
           PT == PartsOf(d, "TaxTotal")
<1>3. PA = (IF l.allowance > 0 THEN {a} ELSE {}) /\ PT = IF l.mode # "excluded" THEN {t} ELSE {}
  BY PartsAre
<1>4. /\ a.amount = l.allowance /\ a.base = l.unit * l.quantity
      /\ a.factor = Round(l.allowance * 10000, l.unit * l.quantity)
      /\ t.tax = l.tax /\ t.taxable = l.base
  BY DEF AllowancePart, TaxPart
<1>5. /\ AllowanceOf(d) = Total([p \in PA |-> p.amount])
      /\ TaxOf(d) = Total([p \in PT |-> p.tax])
      /\ TaxableOf(d) = Total([p \in PT |-> p.taxable])
  BY DEF AllowanceOf, TaxOf, TaxableOf
<1> HIDE DEF a, t, PA, PT
<1>6. AllowanceOf(d) = l.allowance
  <2>1. CASE l.allowance > 0
    <3>1. Total([p \in PA |-> p.amount]) = l.allowance
      <4> DEFINE f == [p \in PA |-> p.amount]
      <4>1. DOMAIN f = {a} /\ f[a] = l.allowance /\ f[a] \in Int
        BY <1>1, <1>3, <1>4, <2>1
      <4> HIDE DEF f
      <4>2. Total(f) = l.allowance
        BY <4>1, TotalOne
      <4> QED
        BY <4>2 DEF f
    <3> QED
      BY <1>3, <1>4, <1>5, <2>1, <3>1
  <2>2. CASE ~(l.allowance > 0)
    <3>1. Total([p \in PA |-> p.amount]) = 0
      BY <1>3, <2>2, TotalNone
    <3> QED
      BY <1>1, <1>5, <2>2, <3>1
  <2> QED
    BY <2>1, <2>2
<1>7. TaxOf(d) = l.tax /\ TaxableOf(d) = IF l.mode = "excluded" THEN 0 ELSE l.base
  <2>1. CASE l.mode # "excluded"
    <3>1. Total([p \in PT |-> p.tax]) = l.tax
      <4> DEFINE f == [p \in PT |-> p.tax]
      <4>1. DOMAIN f = {t} /\ f[t] = l.tax /\ f[t] \in Int
        BY <1>1, <1>3, <1>4, <2>1
      <4> HIDE DEF f
      <4>2. Total(f) = l.tax
        BY <4>1, TotalOne
      <4> QED
        BY <4>2 DEF f
    <3>2. Total([p \in PT |-> p.taxable]) = l.base
      <4> DEFINE f == [p \in PT |-> p.taxable]
      <4>1. DOMAIN f = {t} /\ f[t] = l.base /\ f[t] \in Int
        BY <1>1, <1>3, <1>4, <2>1
      <4> HIDE DEF f
      <4>2. Total(f) = l.base
        BY <4>1, TotalOne
      <4> QED
        BY <4>2 DEF f
    <3> QED
      BY <1>3, <1>4, <1>5, <2>1, <3>1, <3>2
  <2>2. CASE l.mode = "excluded"
    <3>1. Total([p \in PT |-> p.tax]) = 0 /\ Total([p \in PT |-> p.taxable]) = 0
      BY <1>3, <2>2, TotalNone
    <3> QED
      BY <1>1, <1>5, <2>2, <3>1
  <2> QED
    BY <2>1, <2>2
<1>8. l.allowance > 0 => a.base > 0 /\ a.factor \in 0..10000
  <2> SUFFICES ASSUME l.allowance > 0 PROVE a.base > 0 /\ a.factor \in 0..10000
    OBVIOUS
  <2> DEFINE n == l.allowance * 10000
             d1 == l.unit * l.quantity
             r == Round(n, d1)
  <2>1. n \in Nat /\ d1 \in Nat \ {0} /\ n <= 10000 * d1 /\ d1 > 0
    BY <1>1
  <2>a. a.base = d1 /\ a.factor = r
    BY <1>4
  <2> HIDE DEF n, d1
  <2>2. Nearest(n, d1)
    BY <2>1, RoundIs
  <2>3. r \in Nat /\ 2 * (d1 * r) <= 2 * n + d1
    BY <2>2 DEF Nearest
  <2> HIDE DEF r
  <2>4. d1 * r \in Int /\ d1 * 10001 = 10001 * d1
    BY <2>1, <2>3
  <2>5. d1 * r < d1 * 10001
    BY <2>1, <2>3, <2>4
  <2>6. r < 10001
    BY <2>1, <2>3, <2>5, CancelLess
  <2> QED
    BY <2>1, <2>3, <2>6, <2>a
<1> QED
  BY <1>2, <1>3, <1>6, <1>7, <1>8 DEF PA

-----------------------------------------------------------------------------
(* Sums of lines, in all and by rate.                                       *)

\* A field of lines, and its sum.
Bases(lines)  == [i \in DOMAIN lines |-> lines[i].base]
Taxes(lines)  == [i \in DOMAIN lines |-> lines[i].tax]
Taxables(lines) == [i \in DOMAIN lines |-> IF lines[i].mode = "excluded" THEN 0 ELSE lines[i].base]
TaxedLines(lines) == {i \in DOMAIN lines : lines[i].mode # "excluded"}
RatesIn(lines) == {lines[i].rate : i \in TaxedLines(lines)}
Slacks(lines) == [i \in DOMAIN lines |-> lines[i].quantity + 1]
AtRate(lines, r) == {i \in DOMAIN lines : lines[i].mode # "excluded" /\ lines[i].rate = r}

AreLines(lines, n) ==
    n \in Nat /\ DOMAIN lines = 1..n /\ \A i \in 1..n : IsLine(lines[i])

\* What the amounts of a line are, and how they go together.
LEMMA LineFields ==
    ASSUME NEW l, IsLine(l)
    PROVE  /\ l.quantity \in Nat \ {0} /\ l.rate \in VatRate /\ l.rate \in Nat
           /\ l.unit \in Nat /\ l.base \in Nat /\ l.tax \in Nat /\ l.allowance \in Nat
           /\ l.unit * l.quantity \in Nat /\ l.base = l.unit * l.quantity - l.allowance
           /\ l.mode = "excluded" => l.tax = 0
           /\ Near(2 * (10000 * l.tax - l.rate * l.base), 10000)
<1>1. PICK q \in Nat \ {0}, vat \in VatRate, mode \in Modes, paid \in Int :
          LineStates(l, q, vat, mode, paid)
  BY DEF IsLine
<1>2. vat \in Nat
  BY DEF VatRate
<1> QED
  BY <1>1, <1>2 DEF LineStates

\* Lines, the taxed ones, and those of each rate are finitely many.
LEMMA LinesFinite ==
    ASSUME NEW lines, NEW n, AreLines(lines, n)
    PROVE  /\ IsFiniteSet(DOMAIN lines) /\ Cardinality(DOMAIN lines) = n
           /\ IsFiniteSet(TaxedLines(lines)) /\ TaxedLines(lines) \subseteq DOMAIN lines
           /\ IsFiniteSet(RatesIn(lines)) /\ RatesIn(lines) \subseteq Nat
           /\ \A r \in RatesIn(lines) : /\ IsFiniteSet(AtRate(lines, r))
                                        /\ AtRate(lines, r) \subseteq DOMAIN lines
                                        /\ AtRate(lines, r) # {}
<1> DEFINE D == DOMAIN lines
           R == TaxedLines(lines)
           g == [i \in R |-> lines[i].rate]
<1>1. n \in Nat /\ D = 1..n /\ \A i \in D : IsLine(lines[i])
  BY DEF AreLines
<1>2. IsFiniteSet(D) /\ Cardinality(D) = n
  <2>1. IsFiniteSet(1..n) /\ Cardinality(1..n) = n
    BY <1>1, FS_Interval
  <2> QED
    BY <1>1, <2>1
<1>3. R \subseteq D
  BY DEF TaxedLines
<1>4. IsFiniteSet(R)
  BY <1>2, <1>3, FS_Subset
<1>5. g \in Surjection(R, RatesIn(lines))
  BY DEF Surjection, RatesIn
<1>6. IsFiniteSet(RatesIn(lines))
  BY <1>4, <1>5, FS_Surjection
<1>7. \A i \in D : lines[i].rate \in Nat
  BY <1>1, LineFields
<1>8. RatesIn(lines) \subseteq Nat
  BY <1>3, <1>7 DEF RatesIn
<1>9. ASSUME NEW r \in RatesIn(lines)
      PROVE  /\ IsFiniteSet(AtRate(lines, r)) /\ AtRate(lines, r) \subseteq D
             /\ AtRate(lines, r) # {}
  <2>1. AtRate(lines, r) \subseteq D
    BY DEF AtRate
  <2>2. IsFiniteSet(AtRate(lines, r))
    BY <1>2, <2>1, FS_Subset
  <2>3. AtRate(lines, r) # {}
    BY DEF AtRate, RatesIn, TaxedLines
  <2> QED
    BY <2>1, <2>2, <2>3
<1> QED
  BY <1>2, <1>3, <1>4, <1>6, <1>8, <1>9

\* What is computed of lines: the subtotals are what is reported of each rate.
LEMMA SubtotalsAre ==
    ASSUME NEW lines, NEW n, AreLines(lines, n), NEW s, s = TaxSubtotals(lines)
    PROVE  /\ DOMAIN s = RatesIn(lines)
           /\ \A r \in RatesIn(lines) :
                 /\ s[r].taxable = Sum(Bases(lines), AtRate(lines, r))
                 /\ s[r].tax = Sum(Taxes(lines), AtRate(lines, r))
<1>1. RatesIn(lines) = {lines[i].rate : i \in {j \in DOMAIN lines : lines[j].mode # "excluded"}}
  BY DEF RatesIn, TaxedLines
<1>2. DOMAIN s = RatesIn(lines)
  BY <1>1 DEF TaxSubtotals
<1>3. ASSUME NEW r \in RatesIn(lines)
      PROVE  /\ s[r].taxable = Sum(Bases(lines), AtRate(lines, r))
             /\ s[r].tax = Sum(Taxes(lines), AtRate(lines, r))
  <2> DEFINE A == AtRate(lines, r)
             f == [i \in A |-> lines[i].base]
             t == [i \in A |-> lines[i].tax]
  <2>1. s[r].taxable = Total(f) /\ s[r].tax = Total(t)
    BY <1>1 DEF TaxSubtotals, AtRate
  <2>2. Total(f) = Sum(f, A) /\ Total(t) = Sum(t, A)
    BY TotalIsSum
  <2>3. IsFiniteSet(A) /\ A \subseteq DOMAIN lines
    BY LinesFinite
  <2>4. \A i \in A : /\ Bases(lines)[i] \in Int /\ f[i] = Bases(lines)[i]
                     /\ Taxes(lines)[i] \in Int /\ t[i] = Taxes(lines)[i]
    BY <2>3, LineFields DEF Bases, Taxes, AreLines
  <2> HIDE DEF f, t, A
  <2>5. Sum(f, A) = Sum(Bases(lines), A)
    BY <2>3, <2>4, SumSame
  <2>6. Sum(t, A) = Sum(Taxes(lines), A)
    BY <2>3, <2>4, SumSame
  <2> QED
    BY <2>1, <2>2, <2>5, <2>6 DEF A
<1> QED
  BY <1>2, <1>3

\* Over the rates it is what the lines state, those without VAT stating none.
LEMMA RatesMakeAll ==
    ASSUME NEW lines, NEW n, AreLines(lines, n), NEW s, s = TaxSubtotals(lines)
    PROVE  /\ Total([r \in DOMAIN s |-> s[r].tax]) = Sum(Taxes(lines), DOMAIN lines)
           /\ Total([r \in DOMAIN s |-> s[r].taxable]) = Sum(Taxables(lines), DOMAIN lines)
<1> DEFINE D == DOMAIN lines
           R == TaxedLines(lines)
           Q == RatesIn(lines)
           X == D \ R
           g == [i \in R |-> lines[i].rate]
           t == Taxes(lines)
           b == Taxables(lines)
           ht == [r \in Q |-> s[r].tax]
           hb == [r \in Q |-> s[r].taxable]
<1>1. IsFiniteSet(D) /\ R \subseteq D /\ IsFiniteSet(R) /\ IsFiniteSet(Q)
  BY LinesFinite
<1>2. IsFiniteSet(X) /\ R \cup X = D /\ R \cap X = {}
  BY <1>1, FS_Difference
<1>3. \A i \in D : t[i] \in Int /\ b[i] \in Int
  BY LineFields DEF Taxes, Taxables, AreLines
<1>4. \A i \in X : t[i] = 0 /\ b[i] = 0
  BY LineFields DEF Taxes, Taxables, AreLines, TaxedLines
<1>5. \A i \in R : g[i] \in Q
  BY DEF RatesIn
<1>6. \A r \in Q : Group(g, R, r) = AtRate(lines, r)
  BY DEF Group, AtRate, TaxedLines
<1>7. ASSUME NEW r \in Q PROVE ht[r] = Sum(t, Group(g, R, r)) /\ hb[r] = Sum(b, Group(g, R, r))
  <2> DEFINE A == AtRate(lines, r)
  <2>1. s[r].tax = Sum(t, A) /\ s[r].taxable = Sum(Bases(lines), A)
    BY SubtotalsAre
  <2>2. IsFiniteSet(A) /\ A \subseteq D
    BY LinesFinite
  <2>3. \A i \in A : b[i] \in Int /\ Bases(lines)[i] = b[i]
    BY <1>3, <2>2 DEF Taxables, Bases, AtRate
  <2>a. Group(g, R, r) = A
    BY <1>6
  <2> HIDE DEF A
  <2>4. Sum(Bases(lines), A) = Sum(b, A)
    BY <2>2, <2>3, SumSame
  <2> QED
    BY <2>1, <2>4, <2>a
<1>8. DOMAIN s = Q
  BY SubtotalsAre
<1>9. Total([r \in DOMAIN s |-> s[r].tax]) = Sum(ht, Q) /\ Total([r \in DOMAIN s |-> s[r].taxable]) = Sum(hb, Q)
  BY <1>8, TotalIsSum
<1> HIDE DEF t, b, ht, hb, g, X, Q, R, D
<1>10. Sum(ht, Q) = Sum(t, R)
  BY <1>1, <1>3, <1>5, <1>7, SumGroups
<1>11. Sum(hb, Q) = Sum(b, R)
  BY <1>1, <1>3, <1>5, <1>7, SumGroups
<1>12. Sum(t, X) = 0 /\ Sum(b, X) = 0
  BY <1>2, <1>4, SumZero
<1>13. Sum(t, R \cup X) = Sum(t, R) + Sum(t, X)
  BY <1>1, <1>2, <1>3, SumParts
<1>14. Sum(b, R \cup X) = Sum(b, R) + Sum(b, X)
  BY <1>1, <1>2, <1>3, SumParts
<1>15. Sum(t, R) \in Int /\ Sum(b, R) \in Int
  BY <1>1, <1>3, SumInt
<1> QED
  BY <1>2, <1>9, <1>10, <1>11, <1>12, <1>13, <1>14, <1>15 DEF t, b, D

-----------------------------------------------------------------------------
(* Documents of lines.                                                      *)

\* What lines cost, in all what was charged for them.
ArePaid(lines, n, charged) ==
    \E paid \in [1..n -> Int] :
        /\ charged = Sum(paid, 1..n)
        /\ \A i \in 1..n : Near(paid[i] - lines[i].base - lines[i].tax, lines[i].quantity + 1)

\* A document of lines that were charged for.
StatesLines(xml, tag, lines, charged) ==
    /\ xml.lines = [i \in DOMAIN lines |-> DocumentLine(tag, lines[i])]
    /\ xml.taxes = TaxTotal(Amounts(lines, charged))
    /\ xml.money = MonetaryTotal(Amounts(lines, charged).totals)

Rounding(xml) == IF xml.money.rounding = Null THEN 0 ELSE xml.money.rounding

\* What is near one by one is near in all.
LEMMA NearSum ==
    ASSUME NEW S, IsFiniteSet(S), NEW f, NEW g,
           \A i \in S : f[i] \in Int /\ g[i] \in Int /\ Near(f[i], g[i])
    PROVE  Near(Sum(f, S), Sum(g, S)) /\ Sum(f, S) \in Int /\ Sum(g, S) \in Int
<1> DEFINE h == [i \in S |-> (-1) * g[i]]
<1>1. \A i \in S : h[i] \in Int /\ h[i] <= f[i] /\ f[i] <= g[i] /\ h[i] = (-1) * g[i]
  BY DEF Near
<1> HIDE DEF h
<1>2. Sum(f, S) \in Int
  BY SumInt
<1>3. Sum(g, S) \in Int
  BY SumInt
<1>4. Sum(h, S) = (-1) * Sum(g, S)
  BY <1>1, SumTimes
<1>5. Sum(h, S) <= Sum(f, S)
  BY <1>1, SumLeq
<1>6. Sum(f, S) <= Sum(g, S)
  BY <1>1, SumLeq
<1> QED
  BY <1>2, <1>3, <1>4, <1>5, <1>6 DEF Near

\* The sums a document states, in terms of its lines.
LEMMA MoneyStated ==
    ASSUME NEW xml, NEW tag, NEW lines, NEW n, NEW charged \in Int,
           AreLines(lines, n), StatesLines(xml, tag, lines, charged)
    PROVE  /\ Sum(Bases(lines), DOMAIN lines) \in Int /\ Sum(Taxes(lines), DOMAIN lines) \in Int
           /\ xml.money.lineExtension = Sum(Bases(lines), DOMAIN lines)
           /\ xml.money.taxExclusive = Sum(Taxables(lines), DOMAIN lines)
           /\ xml.taxes.tax = Sum(Taxes(lines), DOMAIN lines)
           /\ xml.taxes.subtotals = TaxSubtotals(lines)
           /\ xml.money.taxInclusive = xml.money.lineExtension + xml.taxes.tax
           /\ Rounding(xml) = charged - (xml.money.lineExtension + xml.taxes.tax)
           /\ xml.money.payable = charged
<1> DEFINE s == TaxSubtotals(lines)
           T == Totals(lines, s, charged)
           D == DOMAIN lines
           ext == Sum(Bases(lines), D)
           tax == Sum(Taxes(lines), D)
<1>1. \A i \in D : Bases(lines)[i] \in Int /\ Taxes(lines)[i] \in Int
  BY LineFields DEF Bases, Taxes, AreLines
<1>2. IsFiniteSet(D)
  BY LinesFinite
<1>3. ext \in Int
  BY <1>1, <1>2, SumInt
<1>4. tax \in Int
  BY <1>1, <1>2, SumInt
<1>5. /\ Total([r \in DOMAIN s |-> s[r].tax]) = tax
      /\ Total([r \in DOMAIN s |-> s[r].taxable]) = Sum(Taxables(lines), D)
  BY RatesMakeAll
<1>6. Total([i \in DOMAIN lines |-> lines[i].base]) = ext
  <2>1. Total(Bases(lines)) = Sum(Bases(lines), DOMAIN Bases(lines)) /\ DOMAIN Bases(lines) = D
    BY TotalIsSum DEF Bases
  <2> QED
    BY <2>1 DEF Bases
<1> HIDE DEF ext, tax
<1>7. /\ T.lineExtension = ext /\ T.taxExclusive = Sum(Taxables(lines), D)
      /\ T.taxTotal = tax /\ T.taxInclusive = ext + tax
      /\ T.rounding = charged - (ext + tax) /\ T.payable = charged
  BY <1>5, <1>6 DEF Totals
<1>8. Amounts(lines, charged).subtotals = s /\ Amounts(lines, charged).totals = T
  BY DEF Amounts
<1>9. DOMAIN s = {} => tax = 0
  <2>1. DOMAIN s = {} => Total([r \in DOMAIN s |-> s[r].tax]) = 0
    BY TotalNone
  <2> QED
    BY <1>5, <2>1
<1> HIDE DEF T, s
<1>10. xml.taxes.tax = tax /\ xml.taxes.subtotals = s
  BY <1>7, <1>8, <1>9 DEF StatesLines, TaxTotal
<1>11. /\ xml.money.lineExtension = ext /\ xml.money.taxExclusive = Sum(Taxables(lines), D)
       /\ xml.money.taxInclusive = ext + tax
       /\ xml.money.rounding = (IF charged - (ext + tax) = 0 THEN Null ELSE charged - (ext + tax))
       /\ xml.money.payable = charged
  BY <1>7, <1>8 DEF StatesLines, MonetaryTotal
<1>12. Rounding(xml) = charged - (ext + tax)
  <2>1. charged - (ext + tax) \in Int
    BY <1>3, <1>4
  <2>2. charged - (ext + tax) # Null
    BY <2>1, NullAssumption
  <2> QED
    BY <1>11, <2>2 DEF Rounding
<1> QED
  BY <1>3, <1>4, <1>10, <1>11, <1>12 DEF ext, tax, s

\* What each line of a document states.
LEMMA LinesStated ==
    ASSUME NEW xml, NEW tag, NEW lines, NEW n, NEW charged \in Int,
           AreLines(lines, n), StatesLines(xml, tag, lines, charged)
    PROVE  /\ DOMAIN xml.lines = 1..n /\ DOMAIN lines = 1..n /\ Len(xml.lines) = n /\ n \in Nat
           /\ IsFiniteSet(1..n)
           /\ \A i \in 1..n :
                 LET d == xml.lines[i]
                     l == lines[i]
                 IN  /\ d.tag = tag /\ d.quantity = l.quantity /\ d.amount = l.base
                     /\ d.price = l.unit
                     /\ AllowanceOf(d) = l.allowance
                     /\ TaxOf(d) = l.tax
                     /\ TaxableOf(d) = IF l.mode = "excluded" THEN 0 ELSE l.base
                     /\ \A p \in PartsOf(d, "AllowanceCharge") : p.base > 0 /\ p.factor \in 0..10000
                     /\ d.amount = d.price * d.quantity - AllowanceOf(d) /\ d.amount >= 0
<1>1. n \in Nat /\ DOMAIN lines = 1..n /\ \A i \in 1..n : IsLine(lines[i])
  BY DEF AreLines
<1>2. xml.lines = [i \in 1..n |-> DocumentLine(tag, lines[i])]
  BY <1>1 DEF StatesLines
<1>3. DOMAIN xml.lines = 1..n /\ Len(xml.lines) = n
  BY <1>1, <1>2
<1>4. ASSUME NEW i \in 1..n
      PROVE  LET d == xml.lines[i]
                 l == lines[i]
             IN  /\ d.tag = tag /\ d.quantity = l.quantity /\ d.amount = l.base
                 /\ d.price = l.unit
                 /\ AllowanceOf(d) = l.allowance
                 /\ TaxOf(d) = l.tax
                 /\ TaxableOf(d) = IF l.mode = "excluded" THEN 0 ELSE l.base
                 /\ \A p \in PartsOf(d, "AllowanceCharge") : p.base > 0 /\ p.factor \in 0..10000
                 /\ d.amount = d.price * d.quantity - AllowanceOf(d) /\ d.amount >= 0
  <2> DEFINE d == xml.lines[i]
             l == lines[i]
  <2>1. IsLine(l) /\ d = DocumentLine(tag, l)
    BY <1>1, <1>2
  <2> HIDE DEF d, l
  <2>2. /\ d.tag = tag /\ d.quantity = l.quantity /\ d.amount = l.base /\ d.price = l.unit
        /\ AllowanceOf(d) = l.allowance
        /\ TaxOf(d) = l.tax
        /\ TaxableOf(d) = IF l.mode = "excluded" THEN 0 ELSE l.base
        /\ \A p \in PartsOf(d, "AllowanceCharge") : p.base > 0 /\ p.factor \in 0..10000
    BY <2>1, DocumentLineIs
  <2>3. l.base = l.unit * l.quantity - l.allowance /\ l.base \in Nat
    BY <2>1, LineFields
  <2>4. d.amount = d.price * d.quantity - AllowanceOf(d) /\ d.amount >= 0
    BY <2>2, <2>3
  <2> QED
    BY <2>2, <2>4 DEF d, l
<1>5. IsFiniteSet(1..n)
  BY <1>1, FS_Interval
<1> QED
  BY <1>1, <1>3, <1>4, <1>5

\* The lines of a document of lines hold.
LEMMA LinesHolds ==
    ASSUME NEW xml, NEW tag, NEW lines, NEW n, NEW charged \in Int,
           AreLines(lines, n), StatesLines(xml, tag, lines, charged)
    PROVE  LinesHold(xml)
<1>1. DOMAIN xml.lines = 1..n
  BY LinesStated
<1>2. ASSUME NEW i \in DOMAIN xml.lines
      PROVE  /\ xml.lines[i].amount = xml.lines[i].price * xml.lines[i].quantity
                                        - AllowanceOf(xml.lines[i])
             /\ xml.lines[i].amount >= 0
             /\ \A p \in PartsOf(xml.lines[i], "AllowanceCharge") : p.base > 0 /\ p.factor \in 0..10000
  <2>1. i \in 1..n
    BY <1>1
  <2>2. /\ xml.lines[i].amount = xml.lines[i].price * xml.lines[i].quantity
                                   - AllowanceOf(xml.lines[i])
        /\ xml.lines[i].amount >= 0
    BY <2>1, LinesStated
  <2>3. \A p \in PartsOf(xml.lines[i], "AllowanceCharge") : p.base > 0 /\ p.factor \in 0..10000
    BY <2>1, LinesStated
  <2> QED
    BY <2>2, <2>3
<1> QED
  BY <1>2 DEF LinesHold

\* The VAT of a rate is that rate of what pays it, but for half a cent a line.
LEMMA RateStated ==
    ASSUME NEW lines, NEW n, AreLines(lines, n), NEW r \in RatesIn(lines)
    PROVE  Within(2 * (10000 * Sum(Taxes(lines), AtRate(lines, r))
                       - r * Sum(Bases(lines), AtRate(lines, r))), 10000 * n)
<1> DEFINE A == AtRate(lines, r)
           D == DOMAIN lines
           t == Taxes(lines)
           b == Bases(lines)
           x == [i \in A |-> 20000 * t[i]]
           y == [i \in A |-> (-2 * r) * b[i]]
           dev == [i \in A |-> x[i] + y[i]]
           one == [i \in A |-> IF i \in A THEN 1 ELSE 0]
           much == [i \in A |-> 10000 * one[i]]
           ST == Sum(t, A)
           SB == Sum(b, A)
<1>1. IsFiniteSet(A) /\ A \subseteq D /\ IsFiniteSet(D) /\ Cardinality(D) = n /\ r \in Nat
  BY LinesFinite
<1>2. \A i \in A : /\ t[i] \in Int /\ b[i] \in Int
                   /\ Near(2 * (10000 * t[i] - r * b[i]), 10000)
  BY <1>1, LineFields DEF Taxes, Bases, AtRate, AreLines
<1>a. Cardinality(A) <= n /\ Cardinality(A) \in Nat /\ n \in Nat
  BY <1>1, FS_Subset, FS_CardinalityType
<1> HIDE DEF A, t, b
<1>3. -2 * r \in Int
  BY <1>1
<1>4. ASSUME NEW i \in A
      PROVE  /\ x[i] \in Int /\ y[i] \in Int /\ dev[i] = x[i] + y[i]
             /\ dev[i] \in Int /\ much[i] \in Int /\ Near(dev[i], much[i])
             /\ one[i] \in Int /\ one[i] = 1 /\ much[i] = 10000
  <2>1. t[i] \in Int /\ b[i] \in Int /\ Near(2 * (10000 * t[i] - r * b[i]), 10000)
    BY <1>2
  <2>2. x[i] = 20000 * t[i] /\ y[i] = (-2 * r) * b[i]
    OBVIOUS
  <2>3. r * b[i] \in Int /\ (-2 * r) * b[i] = -2 * (r * b[i])
    BY <1>1, <2>1
  <2>4. dev[i] = x[i] + y[i] /\ much[i] = 10000 /\ one[i] = 1
    OBVIOUS
  <2> HIDE DEF x, y, dev, one, much
  <2>5. x[i] \in Int /\ y[i] \in Int
    BY <2>1, <2>2, <2>3
  <2>6. dev[i] = 2 * (10000 * t[i] - r * b[i])
    BY <2>1, <2>2, <2>3, <2>4
  <2> QED
    BY <2>1, <2>4, <2>5, <2>6
<1>5. \A i \in A : x[i] = 20000 * t[i] /\ y[i] = (-2 * r) * b[i] /\ much[i] = 10000 * one[i]
                   /\ one[i] = IF i \in A THEN 1 ELSE 0
  OBVIOUS
<1> HIDE DEF x, y, dev, one, much
<1>6. Near(Sum(dev, A), Sum(much, A)) /\ Sum(dev, A) \in Int /\ Sum(much, A) \in Int
  <2>1. \A i \in A : dev[i] \in Int /\ much[i] \in Int /\ Near(dev[i], much[i])
    BY <1>4
  <2>2. IsFiniteSet(A)
    BY <1>1
  <2> QED
    BY <2>1, <2>2, NearSum, Zenon
<1>7. Sum(dev, A) = Sum(x, A) + Sum(y, A)
  BY <1>1, <1>4, SumPlus
<1>8. Sum(x, A) = 20000 * ST
  BY <1>1, <1>2, <1>5, SumTimes
<1>9. Sum(y, A) = (-2 * r) * SB
  BY <1>1, <1>2, <1>3, <1>5, SumTimes
<1>10. Sum(much, A) = 10000 * Sum(one, A)
  BY <1>1, <1>4, <1>5, SumTimes
<1>11. Sum(one, A) = Cardinality(A)
  BY <1>1, <1>5, SumCount
<1>12. ST \in Int
  BY <1>1, <1>2, SumInt
<1>13. SB \in Int
  BY <1>1, <1>2, SumInt
<1> HIDE DEF ST, SB
<1>14. (-2 * r) * SB = -2 * (r * SB) /\ r * SB \in Int
  BY <1>1, <1>13
<1>15. Within(2 * (10000 * ST - r * SB), 10000 * n)
  BY <1>a, <1>6, <1>7, <1>8, <1>9, <1>10, <1>11, <1>12, <1>14 DEF Near, Within
<1> QED
  BY <1>15 DEF ST, SB, A, t, b

\* And its totals, if the lines are paid.
LEMMA TotalsHolds ==
    ASSUME NEW xml, NEW tag, NEW lines, NEW n, NEW charged \in Int,
           AreLines(lines, n), ArePaid(lines, n, charged), StatesLines(xml, tag, lines, charged)
    PROVE  TotalsHold(xml)
<1> DEFINE D == 1..n
           L == xml.lines
           b == Bases(lines)
           t == Taxes(lines)
           e == Taxables(lines)
           k == Slacks(lines)
           fb == [i \in DOMAIN L |-> L[i].amount]
           ft == [i \in DOMAIN L |-> TaxOf(L[i])]
           fe == [i \in DOMAIN L |-> TaxableOf(L[i])]
           fk == [i \in DOMAIN L |-> L[i].quantity + 1]
<1>1. DOMAIN L = D /\ DOMAIN lines = D /\ IsFiniteSet(D) /\ n \in Nat /\ Len(L) = n
  BY LinesStated
<1>2. \A i \in D : IsLine(lines[i])
  BY DEF AreLines
<1>3. ASSUME NEW i \in D
      PROVE  /\ b[i] = lines[i].base /\ t[i] = lines[i].tax /\ k[i] = lines[i].quantity + 1
             /\ b[i] \in Int /\ t[i] \in Int /\ e[i] \in Int /\ k[i] \in Int
             /\ fb[i] = b[i] /\ ft[i] = t[i] /\ fe[i] = e[i] /\ fk[i] = k[i]
  <2>1. /\ b[i] = lines[i].base /\ t[i] = lines[i].tax /\ k[i] = lines[i].quantity + 1
        /\ e[i] = IF lines[i].mode = "excluded" THEN 0 ELSE lines[i].base
    BY <1>1 DEF Bases, Taxes, Taxables, Slacks
  <2>2. lines[i].base \in Int /\ lines[i].tax \in Int /\ lines[i].quantity \in Nat
    BY <1>2, LineFields
  <2>3. /\ L[i].quantity = lines[i].quantity /\ L[i].amount = lines[i].base
        /\ TaxOf(L[i]) = lines[i].tax
        /\ TaxableOf(L[i]) = IF lines[i].mode = "excluded" THEN 0 ELSE lines[i].base
    BY LinesStated
  <2>4. /\ fb[i] = L[i].amount /\ ft[i] = TaxOf(L[i])
        /\ fe[i] = TaxableOf(L[i]) /\ fk[i] = L[i].quantity + 1
    BY <1>1
  <2> HIDE DEF fb, ft, fe, fk
  <2> QED
    BY <2>1, <2>2, <2>3, <2>4
<1>4. /\ Total(fb) = Sum(fb, D) /\ Total(ft) = Sum(ft, D)
      /\ Total(fe) = Sum(fe, D) /\ Total(fk) = Sum(fk, D)
  BY <1>1, TotalIsSum
<1> HIDE DEF D, L, fb, ft, fe, fk
<1>5. Sum(fb, D) = Sum(b, D)
  BY <1>1, <1>3, SumSame
<1>6. Sum(ft, D) = Sum(t, D)
  BY <1>1, <1>3, SumSame
<1>7. Sum(fe, D) = Sum(e, D)
  BY <1>1, <1>3, SumSame
<1>8. Sum(fk, D) = Sum(k, D)
  BY <1>1, <1>3, SumSame
<1>9. /\ Sum(b, D) \in Int /\ Sum(t, D) \in Int
      /\ xml.money.lineExtension = Sum(b, D)
      /\ xml.money.taxExclusive = Sum(e, D)
      /\ xml.taxes.tax = Sum(t, D)
      /\ xml.taxes.subtotals = TaxSubtotals(lines)
      /\ xml.money.taxInclusive = xml.money.lineExtension + xml.taxes.tax
      /\ Rounding(xml) = charged - (xml.money.lineExtension + xml.taxes.tax)
      /\ xml.money.payable = charged
  BY <1>1, MoneyStated
\* What was paid is near what is stated, line by line and so in all.
<1>10. Within(Rounding(xml), Sum(k, D))
  <2>1. PICK paid \in [D -> Int] :
            /\ charged = Sum(paid, D)
            /\ \A i \in D : Near(paid[i] - lines[i].base - lines[i].tax, lines[i].quantity + 1)
    BY DEF ArePaid, D
  <2> DEFINE f == [i \in D |-> paid[i] - b[i] - t[i]]
             g == [i \in D |-> b[i] + t[i]]
             h == [i \in D |-> f[i] + g[i]]
  <2>2. \A i \in D : paid[i] \in Int
    BY <2>1
  <2>3. ASSUME NEW i \in D
        PROVE /\ f[i] \in Int /\ g[i] \in Int /\ g[i] = b[i] + t[i]
              /\ Near(f[i], k[i]) /\ paid[i] = f[i] + g[i]
    BY <1>3, <2>1, <2>2
  <2> HIDE DEF f, g
  <2>4. Near(Sum(f, D), Sum(k, D)) /\ Sum(f, D) \in Int /\ Sum(k, D) \in Int
    BY <1>1, <1>3, <2>3, NearSum
  <2>5. Sum(g, D) = Sum(b, D) + Sum(t, D)
    BY <1>1, <1>3, <2>3, SumPlus
  <2>6. Sum(paid, D) = Sum(f, D) + Sum(g, D)
    BY <1>1, <2>3, SumPlus
  <2>7. Rounding(xml) = Sum(f, D)
    BY <1>9, <2>1, <2>4, <2>5, <2>6
  <2> QED
    BY <2>4, <2>7 DEF Near, Within
<1>11. \A r \in DOMAIN xml.taxes.subtotals :
          Within(2 * (10000 * xml.taxes.subtotals[r].tax - r * xml.taxes.subtotals[r].taxable),
                 10000 * Len(L))
  <2> SUFFICES ASSUME NEW r \in DOMAIN xml.taxes.subtotals
               PROVE  Within(2 * (10000 * xml.taxes.subtotals[r].tax
                                  - r * xml.taxes.subtotals[r].taxable), 10000 * n)
    BY <1>1
  <2> DEFINE s == TaxSubtotals(lines)
  <2>1. /\ r \in RatesIn(lines)
        /\ s[r].taxable = Sum(b, AtRate(lines, r)) /\ s[r].tax = Sum(t, AtRate(lines, r))
    BY <1>9, SubtotalsAre
  <2>2. Within(2 * (10000 * Sum(t, AtRate(lines, r)) - r * Sum(b, AtRate(lines, r))), 10000 * n)
    BY <2>1, RateStated
  <2> QED
    BY <1>9, <2>1, <2>2
<1>12. xml.money.payable = xml.money.taxInclusive + Rounding(xml)
  BY <1>9
<1> HIDE DEF b, t, e, k
<1>13. /\ xml.money.lineExtension = Total(fb)
       /\ xml.money.taxExclusive = Total(fe)
       /\ xml.taxes.tax = Total(ft)
       /\ Within(Rounding(xml), Total(fk))
  BY <1>4, <1>5, <1>6, <1>7, <1>8, <1>9, <1>10
<1> QED
  BY <1>9, <1>11, <1>12, <1>13 DEF TotalsHold, Rounding, fb, ft, fe, fk, L

-----------------------------------------------------------------------------
(* What is printed of them.                                                 *)

\* A list of one number,
LEMMA SumSingle ==
    ASSUME NEW x \in Int
    PROVE  Sum(<<x>>, DOMAIN <<x>>) = x /\ <<x>> \in Seq(Int)
<1>1. DOMAIN <<x>> = {1} /\ <<x>>[1] = x /\ <<x>> \in Seq(Int)
  OBVIOUS
<1>2. Sum(<<x>>, {1}) = <<x>>[1]
  BY <1>1, SumOne
<1> QED
  BY <1>1, <1>2

\* and of none.
LEMMA SumNothing ==
    Sum(<<>>, DOMAIN <<>>) = 0 /\ <<>> \in Seq(Int)
<1>1. DOMAIN <<>> = {} /\ <<>> \in Seq(Int)
  OBVIOUS
<1> QED
  BY <1>1, SumEmpty

\* The totals on the page add up, in whatever order the rates are.
LEMMA ShownIs ==
    ASSUME NEW pdf, NEW s, pdf.subtotals = s, IsFiniteSet(DOMAIN s), DOMAIN s \subseteq Int,
           \A r \in DOMAIN s : s[r].tax \in Int,
           pdf.extension \in Int, pdf.rounding \in Int
    PROVE  Total(ShownTotals(pdf))
             = pdf.extension + Total([r \in DOMAIN s |-> s[r].tax]) + pdf.rounding
<1> DEFINE Q == DOMAIN s
           m == Cardinality(Q)
           o == InOrder(Q)
           h == [r \in Q |-> s[r].tax]
           u == <<pdf.extension>>
           v == [i \in 1..m |-> s[o[i]].tax]
           w == IF pdf.rounding # 0 THEN <<pdf.rounding>> ELSE <<>>
<1>1. m \in Nat /\ o \in Bijection(1..m, Q) /\ o \in [1..m -> Q] /\ IsFiniteSet(1..m)
  <2>1. m \in Nat
    BY FS_CardinalityType
  <2>2. IsFiniteSet(1..m)
    <3> HIDE DEF m
    <3> QED
      BY <2>1, UpTo, Zenon
  <2>3. o \in Bijection(1..m, Q) /\ o \in [1..m -> Q]
    BY InOrderIs, Zenon
  <2> QED
    BY <2>1, <2>2, <2>3
<1>2. ShownTotals(pdf) = (u \o v) \o w
  BY DEF ShownTotals
<1>3. Sum(u, DOMAIN u) = pdf.extension /\ u \in Seq(Int)
  BY SumSingle
<1>4. Sum(w, DOMAIN w) = pdf.rounding /\ w \in Seq(Int)
  <2>1. CASE pdf.rounding = 0
    BY <2>1, SumNothing
  <2>2. CASE pdf.rounding # 0
    BY <2>2, SumSingle
  <2> QED
    BY <2>1, <2>2
<1>5. \A r \in Q : h[r] = s[r].tax /\ h[r] \in Int
  OBVIOUS
<1>6. Total(h) = Sum(h, Q)
  BY TotalIsSum
<1> HIDE DEF Q, m, o, h
<1>7. \A i \in 1..m : v[i] \in Int /\ h[o[i]] = v[i]
  BY <1>1, <1>5
<1>8. v \in Seq(Int) /\ DOMAIN v = 1..m
  <2>1. v \in [1..m -> Int]
    BY <1>7
  <2> QED
    BY <1>1, <2>1
<1> HIDE DEF u, v, w
<1>9. Sum(h, Q) = Sum(v, 1..m)
  <2>1. IsFiniteSet(Q)
    BY DEF Q
  <2> QED
    BY <1>1, <1>7, <2>1, SumMoved
<1>10. Sum(u \o v, DOMAIN (u \o v)) = Sum(u, DOMAIN u) + Sum(v, DOMAIN v)
  BY <1>3, <1>8, SumConcat
<1>11. u \o v \in Seq(Int)
  BY <1>3, <1>8
<1> DEFINE x == u \o v
<1>12. x \in Seq(Int) /\ Sum(x, DOMAIN x) = pdf.extension + Sum(h, Q)
  BY <1>3, <1>8, <1>9, <1>10, <1>11
<1> HIDE DEF x
<1>13. Sum(x \o w, DOMAIN (x \o w)) = Sum(x, DOMAIN x) + Sum(w, DOMAIN w)
  BY <1>4, <1>12, SumConcat
<1>14. ShownTotals(pdf) = x \o w
  BY <1>2 DEF x
<1>15. Total(ShownTotals(pdf)) = (pdf.extension + Sum(h, Q)) + pdf.rounding
  BY <1>4, <1>12, <1>13, <1>14, TotalIsSum
<1> QED
  BY <1>6, <1>15 DEF h, Q

\* What is printed of a document holds.
LEMMA PaperHoldsIt ==
    ASSUME NEW xml, NEW tag, NEW lines, NEW n, NEW charged \in Int,
           AreLines(lines, n), StatesLines(xml, tag, lines, charged),
           \/ xml.root = "Invoice" /\ tag = "InvoiceLine" /\ xml.extensions.control # {}
           \/ xml.root = "CreditNote" /\ tag = "CreditNoteLine" /\ xml.extensions.control = {}
    PROVE  PaperHolds(PdfData(xml))
<1> DEFINE D == 1..n
           L == xml.lines
           pdf == PdfData(xml)
           P == pdf.lines
           b == Bases(lines)
           s == TaxSubtotals(lines)
           fb == [i \in DOMAIN P |-> P[i].base]
           fn == [i \in DOMAIN P |-> P[i].unitPrice * P[i].quantity - P[i].allowance]
<1>1. DOMAIN L = D /\ DOMAIN lines = D /\ IsFiniteSet(D) /\ n \in Nat
  BY LinesStated
<1>2. \A i \in D : /\ L[i].tag = tag /\ L[i].quantity = lines[i].quantity
                   /\ L[i].amount = lines[i].base /\ L[i].price = lines[i].unit
                   /\ AllowanceOf(L[i]) = lines[i].allowance
  BY LinesStated
<1>3. \A i \in D : /\ lines[i].base \in Int
                   /\ lines[i].base = lines[i].unit * lines[i].quantity - lines[i].allowance
  BY LineFields DEF AreLines
<1>4. DOMAIN P = D /\ \A i \in D : /\ P[i].quantity = L[i].quantity /\ P[i].unitPrice = L[i].price
                                   /\ P[i].allowance = AllowanceOf(L[i]) /\ P[i].base = L[i].amount
  <2> DEFINE lineTag == IF xml.root = "CreditNote" THEN "CreditNoteLine" ELSE "InvoiceLine"
             rows == {i \in DOMAIN L : L[i].tag = lineTag}
  <2>1. lineTag = tag
    OBVIOUS
  <2>2. rows = D
    BY <1>1, <1>2, <2>1
  <2>3. P = [i \in rows |-> [quantity  |-> L[i].quantity,
                             unitPrice |-> L[i].price,
                             allowance |-> AllowanceOf(L[i]),
                             base      |-> L[i].amount,
                             rates     |-> RatesOf(L[i]),
                             tax       |-> TaxOf(L[i])]]
    BY Zenon DEF PdfData
  <2> HIDE DEF P, rows, L
  <2> QED
    BY <2>2, <2>3
<1>5. /\ pdf.subtotals = xml.taxes.subtotals /\ pdf.extension = xml.money.lineExtension
      /\ pdf.rounding = Rounding(xml) /\ pdf.payable = xml.money.payable
      /\ pdf.resolution = xml.extensions.control
      /\ pdf.reference = (IF xml.root = "CreditNote"
                          THEN {<<xml.reference.id, xml.reference.uuid>>} ELSE {})
  BY DEF PdfData, Rounding
<1>6. (pdf.resolution = {}) # (pdf.reference = {})
  BY <1>5
<1>7. /\ Sum(b, DOMAIN lines) \in Int /\ Sum(Taxes(lines), DOMAIN lines) \in Int
      /\ xml.money.lineExtension = Sum(b, DOMAIN lines)
      /\ xml.taxes.tax = Sum(Taxes(lines), DOMAIN lines)
      /\ xml.taxes.subtotals = s
      /\ Rounding(xml) = charged - (xml.money.lineExtension + xml.taxes.tax)
      /\ xml.money.payable = charged
  BY MoneyStated
<1>8. ASSUME NEW i \in D
      PROVE  b[i] = lines[i].base /\ b[i] \in Int /\ fb[i] = b[i] /\ fn[i] = b[i]
  <2>1. b[i] = lines[i].base /\ b[i] \in Int
    BY <1>1, <1>3 DEF Bases
  <2>2. fb[i] = P[i].base /\ fn[i] = P[i].unitPrice * P[i].quantity - P[i].allowance
    BY <1>4
  <2>3. /\ P[i].base = lines[i].base /\ P[i].unitPrice = lines[i].unit
        /\ P[i].quantity = lines[i].quantity /\ P[i].allowance = lines[i].allowance
    BY <1>2, <1>4
  <2> HIDE DEF fb, fn, P
  <2> QED
    BY <1>3, <2>1, <2>2, <2>3
<1>9. Total(fb) = Sum(fb, D) /\ Total(fn) = Sum(fn, D)
  BY <1>4, TotalIsSum
<1>10. /\ DOMAIN s = RatesIn(lines) /\ IsFiniteSet(DOMAIN s) /\ DOMAIN s \subseteq Int
       /\ \A r \in DOMAIN s : s[r].tax \in Int
  <2>1. DOMAIN s = RatesIn(lines) /\ \A r \in DOMAIN s : s[r].tax = Sum(Taxes(lines), AtRate(lines, r))
    BY SubtotalsAre
  <2>2. /\ IsFiniteSet(RatesIn(lines)) /\ RatesIn(lines) \subseteq Nat
        /\ \A r \in RatesIn(lines) : IsFiniteSet(AtRate(lines, r)) /\ AtRate(lines, r) \subseteq DOMAIN lines
    BY LinesFinite
  <2>3. \A i \in DOMAIN lines : Taxes(lines)[i] \in Int
    BY LineFields DEF Taxes, AreLines
  <2>4. ASSUME NEW r \in RatesIn(lines) PROVE Sum(Taxes(lines), AtRate(lines, r)) \in Int
    BY <2>2, <2>3, SumInt
  <2> QED
    BY <2>1, <2>2, <2>4
<1>11. Total([r \in DOMAIN s |-> s[r].tax]) = Sum(Taxes(lines), DOMAIN lines)
  BY RatesMakeAll
<1> HIDE DEF pdf, fb, fn, b, s, D
<1>12. Sum(fb, D) = Sum(b, D)
  BY <1>1, <1>8, SumSame
<1>13. Sum(fn, D) = Sum(b, D)
  BY <1>1, <1>8, SumSame
<1>14. Total(ShownTotals(pdf)) = pdf.extension + Total([r \in DOMAIN s |-> s[r].tax]) + pdf.rounding
  <2>1. pdf.subtotals = s /\ pdf.extension \in Int /\ pdf.rounding \in Int
    BY <1>5, <1>7
  <2> QED
    BY <1>10, <2>1, ShownIs
<1>15. Total(ShownTotals(pdf)) = pdf.payable
  BY <1>5, <1>7, <1>11, <1>14
<1>16. Total(fb) = pdf.extension /\ Total(fn) = pdf.extension
  BY <1>1, <1>5, <1>7, <1>9, <1>12, <1>13
<1> QED
  BY <1>6, <1>15, <1>16, Zenon DEF PaperHolds, fb, fn, pdf

-----------------------------------------------------------------------------
(* The lines of an order.                                                   *)

\* An order of n items that adds up.
IsOrder(order, n) ==
    /\ n \in Nat /\ DOMAIN order.items = 1..n
    /\ \A i \in 1..n : /\ order.items[i].price \in Nat /\ order.items[i].rate \in VatRate
                       /\ order.items[i].quantity \in Nat \ {0}
    /\ order.shipping \in Nat
    /\ order.discount \in 0..Subtotal(order.items)
    /\ order.total = Subtotal(order.items) - order.discount + order.shipping

\* Products of naturals are naturals.
LEMMA NatTimes ==
    ASSUME NEW a \in Nat, NEW b \in Nat
    PROVE  a * b \in Nat
  BY SMT

\* The coupon is shared out.
LEMMA SharesAre ==
    ASSUME NEW order, NEW n, IsOrder(order, n)
    PROVE  /\ Grosses(order) \in [1..n -> Nat]
           /\ Total(Grosses(order)) = Subtotal(order.items)
           /\ Shares(order) \in [1..n -> Nat]
           /\ \A i \in 1..n : Shares(order)[i] <= Grosses(order)[i]
           /\ Total(Shares(order)) = order.discount
<1> DEFINE g == Grosses(order)
           s == Shares(order)
<1>0. n \in Nat /\ DOMAIN order.items = 1..n
  BY DEF IsOrder
<1>1. \A i \in 1..n : order.items[i].price * order.items[i].quantity \in Nat
  BY NatTimes DEF IsOrder
<1>2. g \in [1..n -> Nat]
  BY <1>0, <1>1 DEF Grosses
<1>3. Total(g) = Subtotal(order.items)
  BY DEF Grosses, Subtotal
<1>4. order.discount \in 0..Total(g)
  BY <1>3 DEF IsOrder
<1>5. s = Allocate(order.discount, g)
  BY DEF Shares
<1> HIDE DEF g, s
<1>6. /\ Allocate(order.discount, g) \in [1..n -> Nat]
      /\ \A i \in 1..n : Allocate(order.discount, g)[i] <= g[i]
      /\ Total(Allocate(order.discount, g)) = order.discount
  BY <1>0, <1>2, <1>4, AllocateShares
<1> QED
  BY <1>2, <1>3, <1>5, <1>6 DEF g, s

\* In other words, the shares of an order hold.
LEMMA SharesHolds ==
    ASSUME NEW order, NEW n, IsOrder(order, n)
    PROVE  SharesHold(order)
<1>1. DOMAIN order.items = 1..n
  BY DEF IsOrder
<1>2. ASSUME NEW i \in 1..n PROVE Shares(order)[i] \in 0..Grosses(order)[i]
  <2>1. /\ Grosses(order) \in [1..n -> Nat] /\ Shares(order) \in [1..n -> Nat]
        /\ \A k \in 1..n : Shares(order)[k] <= Grosses(order)[k]
    BY SharesAre
  <2>2. /\ Grosses(order)[i] \in Nat /\ Shares(order)[i] \in Nat
        /\ Shares(order)[i] <= Grosses(order)[i]
    BY <2>1
  <2> QED
    BY <2>2
<1> QED
  BY <1>1, <1>2, SharesAre DEF SharesHold

\* What is paid for each item.
Paid(order) == [i \in DOMAIN order.items |-> Grosses(order)[i] - Shares(order)[i]]

\* Each product line states what is paid for it, and in all that is the subtotal less the
\* coupon.
LEMMA ItemsArePaid ==
    ASSUME NEW order, NEW n, IsOrder(order, n)
    PROVE  /\ DOMAIN ProductLines(order) = 1..n
           /\ Paid(order) \in [1..n -> Int]
           /\ \A i \in 1..n : \E q \in Nat \ {0}, vat \in VatRate, mode \in Modes :
                 LineStates(ProductLines(order)[i], q, vat, mode, Paid(order)[i])
           /\ Sum(Paid(order), 1..n) = Subtotal(order.items) - order.discount
           /\ Subtotal(order.items) \in Int
<1> DEFINE g == Grosses(order)
           s == Shares(order)
           p == Paid(order)
           D == 1..n
           f == [i \in D |-> (-1) * s[i]]
<1>0. n \in Nat /\ DOMAIN order.items = D /\ IsFiniteSet(D)
  BY FS_Interval DEF IsOrder
<1>1. /\ g \in [D -> Nat] /\ Total(g) = Subtotal(order.items)
      /\ s \in [D -> Nat] /\ \A i \in D : s[i] <= g[i]
      /\ Total(s) = order.discount
  BY SharesAre
<1>2. DOMAIN ProductLines(order) = D
  BY <1>0 DEF ProductLines
<1>3. ASSUME NEW i \in D
      PROVE \E q \in Nat \ {0}, vat \in VatRate, mode \in Modes :
                LineStates(ProductLines(order)[i], q, vat, mode, p[i])
  <2> DEFINE q == order.items[i].quantity
             vat == order.items[i].rate
             mode == IF order.items[i].rate > 0 THEN "taxed" ELSE "exempt"
             l == ProductLines(order)[i]
  <2>a. q \in Nat \ {0} /\ vat \in VatRate
    BY DEF IsOrder
  <2>b. g[i] \in Nat /\ s[i] \in Nat /\ s[i] <= g[i]
    BY <1>1
  <2>c. mode \in Modes /\ mode # "excluded"
    BY DEF Modes
  <2>1. q \in Nat \ {0} /\ vat \in VatRate /\ g[i] \in Nat /\ s[i] \in Nat /\ s[i] <= g[i]
        /\ mode \in Modes /\ mode # "excluded"
    BY <2>a, <2>b, <2>c
  <2>2. l = Line(q, g[i], s[i], vat, mode)
    BY <1>0 DEF ProductLines
  <2>3. p[i] = g[i] - s[i]
    BY <1>0 DEF Paid
  <2> HIDE DEF q, vat, mode, l, p, g, s
  <2>4. LineStates(Line(q, g[i], s[i], vat, mode), q, vat, mode, g[i] - s[i])
    BY <2>1, LineIs
  <2>5. LineStates(l, q, vat, mode, p[i])
    BY <2>2, <2>3, <2>4
  <2>6. \E qq \in Nat \ {0}, vv \in VatRate, mm \in Modes : LineStates(l, qq, vv, mm, p[i])
    BY <2>1, <2>5
  <2> QED
    BY <2>6 DEF l
<1>4. \A i \in D : /\ g[i] \in Int /\ s[i] \in Int /\ f[i] = (-1) * s[i] /\ f[i] \in Int
                   /\ p[i] = g[i] + f[i] /\ p[i] \in Int
  BY <1>0, <1>1 DEF Paid
<1>5. p \in [D -> Int]
  BY <1>0, <1>4 DEF Paid
<1>6. Total(g) = Sum(g, D) /\ Total(s) = Sum(s, D)
  BY <1>1, TotalIsSum
<1> HIDE DEF g, s, p, f, D
<1>7. Sum(p, D) = Sum(g, D) + Sum(f, D)
  BY <1>0, <1>4, SumPlus
<1>8. Sum(f, D) = (-1) * Sum(s, D)
  BY <1>0, <1>4, SumTimes
<1>9. Sum(g, D) \in Int
  BY <1>0, <1>4, SumInt
<1>10. Sum(s, D) \in Int
  BY <1>0, <1>4, SumInt
<1>11. Sum(p, D) = Subtotal(order.items) - order.discount /\ Subtotal(order.items) \in Int
  BY <1>1, <1>6, <1>7, <1>8, <1>9, <1>10
<1> QED
  BY <1>2, <1>3, <1>5, <1>11 DEF D, p

\* Such a line is a line, and near what is paid for it.
LEMMA StatesIsLine ==
    ASSUME NEW l, NEW q \in Nat \ {0}, NEW vat \in VatRate, NEW mode \in Modes, NEW paid \in Int,
           LineStates(l, q, vat, mode, paid)
    PROVE  IsLine(l) /\ Near(paid - l.base - l.tax, l.quantity + 1)
<1>1. IsLine(l)
  BY DEF IsLine
<1>2. l.quantity = q /\ Near(paid - l.base - l.tax, q + 1)
  BY DEF LineStates
<1> QED
  BY <1>1, <1>2

\* The lines of an order, shipping the last, make up what is charged.
LEMMA OrderArePaid ==
    ASSUME NEW order, NEW n, IsOrder(order, n), NEW vat \in VatRate,
           NEW lines, lines = ProductLines(order) \o ShippingLines(order, vat)
    PROVE  \E m \in Nat : AreLines(lines, m) /\ ArePaid(lines, m, order.total)
<1> DEFINE P == ProductLines(order)
           p == Paid(order)
           sub == Subtotal(order.items) - order.discount
<1>0. n \in Nat /\ order.shipping \in Nat /\ order.total = sub + order.shipping
  BY DEF IsOrder
<1>1. DOMAIN P = 1..n /\ p \in [1..n -> Int] /\ Sum(p, 1..n) = sub
  BY ItemsArePaid
<1>2. ASSUME NEW i \in 1..n
      PROVE  IsLine(P[i]) /\ Near(p[i] - P[i].base - P[i].tax, P[i].quantity + 1)
  <2>1. PICK q \in Nat \ {0}, v \in VatRate, mode \in Modes : LineStates(P[i], q, v, mode, p[i])
    BY ItemsArePaid
  <2>2. p[i] \in Int
    BY <1>1
  <2> HIDE DEF P, p
  <2> QED
    BY <2>1, <2>2, StatesIsLine
<1>3. P = [i \in 1..n |-> P[i]]
  BY <1>1 DEF ProductLines
<1>4. IsFiniteSet(1..n)
  BY <1>0, FS_Interval
<1>5. sub \in Int
  BY <1>1, <1>4, SumInt
<1> HIDE DEF P, p, sub
<1>6. CASE order.shipping = 0
  <2>1. lines = P \o <<>>
    BY <1>6 DEF ShippingLines, P
  <2>2. P \in Seq({P[i] : i \in 1..n})
    BY <1>0, <1>3
  <2>3. lines = P
    BY <2>1, <2>2
  <2>4. AreLines(lines, n)
    BY <1>0, <1>1, <1>2, <2>3 DEF AreLines
  <2>5. order.total = Sum(p, 1..n)
    BY <1>0, <1>1, <1>5, <1>6
  <2>6. ArePaid(lines, n, order.total)
    BY <1>1, <1>2, <2>3, <2>5 DEF ArePaid
  <2> QED
    BY <1>0, <2>4, <2>6
<1>7. CASE order.shipping # 0
  <2> DEFINE mode == IF vat > 0 THEN "taxed" ELSE "excluded"
             l == Line(1, order.shipping, 0, vat, mode)
             q == [i \in 1..(n + 1) |-> IF i = n + 1 THEN order.shipping ELSE p[i]]
             m == n + 1
  <2>1. lines = P \o <<l>>
    BY <1>7 DEF ShippingLines, P
  <2>2. LineStates(l, 1, vat, mode, order.shipping - 0)
    <3>1. mode = "excluded" => vat = 0
      BY DEF VatRate
    <3>2. 1 \in Nat \ {0} /\ 0 \in Nat /\ 0 <= order.shipping
      BY <1>0
    <3> HIDE DEF mode
    <3> QED
      BY <1>0, <3>1, <3>2, LineIs
  <2>3. IsLine(l) /\ Near(order.shipping - l.base - l.tax, l.quantity + 1)
    <3>a. mode \in Modes
      BY DEF Modes
    <3>b. 1 \in Nat \ {0} /\ order.shipping \in Int /\ order.shipping - 0 = order.shipping
      BY <1>0
    <3>1. /\ 1 \in Nat \ {0} /\ mode \in Modes
          /\ order.shipping \in Int /\ order.shipping - 0 = order.shipping
      BY <3>a, <3>b
    <3> HIDE DEF mode, l
    <3> QED
      BY <2>2, <3>1, StatesIsLine
  <2> HIDE DEF l
  <2>4. DOMAIN lines = 1..m /\ lines[m] = l /\ \A i \in 1..n : lines[i] = P[i]
    <3>1. P \in Seq({P[i] : i \in 1..n}) /\ Len(P) = n
      BY <1>0, <1>3
    <3>2. <<l>> \in Seq({l}) /\ Len(<<l>>) = 1 /\ <<l>>[1] = l
      OBVIOUS
    <3> QED
      BY <1>0, <2>1, <3>1, <3>2
  <2>5. m \in Nat /\ m \in 1..m /\ 1..m = (1..n) \cup {m} /\ m \notin 1..n /\ (1..m) \ {m} = 1..n
        /\ \A i \in 1..m : i # m => i \in 1..n
    BY <1>0
  <2>6. q \in [1..m -> Int] /\ q[m] = order.shipping /\ \A i \in 1..n : q[i] = p[i] /\ p[i] \in Int
    BY <1>0, <1>1
  <2>7. IsFiniteSet(1..m)
    BY <2>5, FS_Interval
  <2> HIDE DEF q, m
  <2>8. Sum(q, 1..m) = q[m] + Sum(q, 1..n)
    <3>1. \A i \in 1..m : q[i] \in Int
      BY <2>6
    <3>2. m \in 1..m /\ (1..m) \ {m} = 1..n
      BY <2>5
    <3> DEFINE M == 1..m
    <3>3. IsFiniteSet(M) /\ m \in M /\ M \ {m} = 1..n /\ \A i \in M : q[i] \in Int
      BY <2>7, <3>1, <3>2
    <3> HIDE DEF M
    <3>4. Sum(q, M) = q[m] + Sum(q, M \ {m})
      BY <3>3, SumPick
    <3> QED
      BY <3>3, <3>4 DEF M
  <2>9. Sum(q, 1..n) = Sum(p, 1..n)
    BY <1>4, <2>6, SumSame
  <2>10. order.total = Sum(q, 1..m)
    BY <1>0, <1>1, <1>5, <2>5, <2>6, <2>8, <2>9
  <2>11. AreLines(lines, m)
    BY <1>2, <2>3, <2>4, <2>5 DEF AreLines
  <2>12. \A i \in 1..m : Near(q[i] - lines[i].base - lines[i].tax, lines[i].quantity + 1)
    BY <1>2, <2>3, <2>4, <2>5, <2>6
  <2>13. ArePaid(lines, m, order.total)
    BY <2>6, <2>10, <2>12 DEF ArePaid
  <2> QED
    BY <2>5, <2>11, <2>13
<1> QED
  BY <1>6, <1>7

-----------------------------------------------------------------------------
(* The documents of an order.                                               *)

\* An order that adds up has a total.
LEMMA TotalIsInt ==
    ASSUME NEW order, NEW n, IsOrder(order, n)
    PROVE  order.total \in Int
<1>1. Subtotal(order.items) \in Int
  BY ItemsArePaid
<1>2. order.discount \in Int /\ order.shipping \in Int
  BY DEF IsOrder
<1> QED
  BY <1>1, <1>2 DEF IsOrder

\* A document of an order holds, an invoice or the note that annuls it.
LEMMA DocumentOfOrder ==
    ASSUME NEW order, NEW n, IsOrder(order, n), NEW vat \in VatRate,
           NEW built, NEW xml, xml = built.xml, NEW tag,
           xml.lines = [i \in DOMAIN InvoiceAmounts(order, vat).lines |->
                           DocumentLine(tag, InvoiceAmounts(order, vat).lines[i])],
           xml.taxes = TaxTotal(InvoiceAmounts(order, vat)),
           xml.money = MonetaryTotal(InvoiceAmounts(order, vat).totals),
           \/ xml.root = "Invoice" /\ tag = "InvoiceLine" /\ xml.extensions.control # {}
           \/ xml.root = "CreditNote" /\ tag = "CreditNoteLine" /\ xml.extensions.control = {}
    PROVE  DocumentHolds(built) /\ xml.money.payable = order.total
<1> DEFINE lines == ProductLines(order) \o ShippingLines(order, vat)
           A == InvoiceAmounts(order, vat)
<1>1. A = Amounts(lines, order.total)
  BY DEF InvoiceAmounts
<1>2. PICK m \in Nat : AreLines(lines, m) /\ ArePaid(lines, m, order.total)
  BY OrderArePaid
<1>3. order.total \in Int
  BY TotalIsInt
<1>a. /\ xml.lines = [i \in DOMAIN A.lines |-> DocumentLine(tag, A.lines[i])]
      /\ xml.taxes = TaxTotal(A)
      /\ xml.money = MonetaryTotal(A.totals)
  OBVIOUS
<1> HIDE DEF lines, A
<1>4. A.lines = lines
  BY <1>1 DEF Amounts
<1>5. StatesLines(xml, tag, lines, order.total)
  BY <1>a, <1>1, <1>4 DEF StatesLines
<1>6. LinesHold(xml)
  BY <1>2, <1>3, <1>5, LinesHolds
<1>7. TotalsHold(xml)
  BY <1>2, <1>3, <1>5, TotalsHolds
<1>8. PaperHolds(PdfData(xml))
  BY <1>2, <1>3, <1>5, PaperHoldsIt
<1>9. xml.money.payable = order.total
  BY <1>2, <1>3, <1>5, MoneyStated
<1> QED
  BY <1>6, <1>7, <1>8, <1>9 DEF DocumentHolds

\* The invoice and the note that annuls it later add up, of whoever and whatever
\* VAT there is on shipping.
LEMMA OrderAddsUp ==
    ASSUME NEW order, NEW n, IsOrder(order, n),
           NEW c, ConfigErrors(c.env) = {}, ConfigErrors(c.envLater) = {}
    PROVE  AddsUp(order, c)
<1> DEFINE first == [number |-> 1, date |-> 1]
           later == [number |-> 1, date |-> 2]
           conf  == Config(c.env)
           confLater == Config(c.envLater)
           built == BuildInvoice(first, order, c.by, conf, Null)
           note  == BuildCreditNote(later, order, c.byLater, confLater, built)
           sent  == AttachedDocument(conf, built, "valid")
           buyer == BuyerFromOrder(c.by)
           A     == InvoiceAmounts(order, c.env.shippingRate)
           B     == InvoiceAmounts(order, c.envLater.shippingRate)
<1>1. c.env.shippingRate \in VatRate /\ c.envLater.shippingRate \in VatRate
  <2>1. ASSUME NEW env, ConfigErrors(env) = {} PROVE env.shippingRate \in VatRate
    <3>1. Complaint("SHIPPING_TAX_RATE", env.shippingRate \notin 0..3000) \subseteq ConfigErrors(env)
      BY DEF ConfigErrors
    <3> QED
      BY <2>1, <3>1 DEF Complaint, VatRate
  <2> QED
    BY <2>1
<1>2. conf.shippingRate = c.env.shippingRate /\ confLater.shippingRate = c.envLater.shippingRate
  BY DEF Config
<1> HIDE DEF conf, confLater, buyer
<1>3. built = Invoice(first, conf, buyer, A)
  BY <1>2 DEF BuildInvoice, buyer
<1>4. /\ built.buyer = buyer /\ built.key = DocumentKey(first, A.totals, buyer, conf, conf.key)
      /\ built.xml = InvoiceXml(conf, [number |-> 1, date |-> 1, key |-> built.key], buyer, A)
  BY <1>3 DEF Invoice
<1>5. note = CreditNote(later, confLater, built.buyer, B, built)
  BY <1>2 DEF BuildCreditNote, NoteBuyer
<1> DEFINE noteDoc == [number |-> 1, date |-> 2, key |-> note.key,
                       invoice |-> [number |-> built.xml.id, key |-> built.key,
                                    date |-> built.xml.date]]
<1> HIDE DEF built
<1>6. /\ note.key = DocumentKey(later, B.totals, built.buyer, confLater, confLater.pin)
      /\ note.xml = NoteXml("credit", confLater, noteDoc, built.buyer, B)
  BY <1>5 DEF CreditNote
<1> HIDE DEF note
<1>7. /\ built.xml.root = "Invoice" /\ built.xml.extensions.control = {conf.resolution}
      /\ built.xml.customer = CustomerParty(buyer)
      /\ built.xml.lines = [i \in DOMAIN A.lines |-> DocumentLine("InvoiceLine", A.lines[i])]
      /\ built.xml.taxes = TaxTotal(A) /\ built.xml.money = MonetaryTotal(A.totals)
  BY <1>4 DEF InvoiceXml, DianExtensions
<1>8. /\ note.xml.root = "CreditNote" /\ note.xml.extensions.control = {}
      /\ note.xml.customer = CustomerParty(buyer)
      /\ note.xml.lines = [i \in DOMAIN B.lines |-> DocumentLine("CreditNoteLine", B.lines[i])]
      /\ note.xml.taxes = TaxTotal(B) /\ note.xml.money = MonetaryTotal(B.totals)
      /\ note.xml.reference = [id |-> built.xml.id, uuid |-> built.key, date |-> built.xml.date]
  BY <1>4, <1>6 DEF NoteXml, NoteKind, DianExtensions
<1>9. /\ sent.contents = built.xml
      /\ sent.reference = [id |-> built.xml.id, uuid |-> built.key, date |-> built.xml.date]
  BY DEF AttachedDocument
<1>10. note.key # built.key
  <2>1. note.key[2] = 2 /\ built.key[2] = 1
    BY <1>4, <1>6 DEF DocumentKey
  <2> QED
    BY <2>1
<1> HIDE DEF sent, A, B
<1>11. DocumentHolds(built) /\ built.xml.money.payable = order.total
  BY <1>1, <1>7, DocumentOfOrder DEF A
<1>12. DocumentHolds(note) /\ note.xml.money.payable = order.total
  BY <1>1, <1>8, DocumentOfOrder DEF B
<1>13. SharesHold(order)
  BY SharesHolds
<1> QED
  BY <1>7, <1>8, <1>9, <1>10, <1>11, <1>12, <1>13 DEF AddsUp, built, note, sent, conf, confLater

-----------------------------------------------------------------------------
(* The items of a request (NormalizeItems).                                 *)

\* A request of n lines, of what there are items of.
IsRequest(request, n, Items) ==
    /\ n \in Nat /\ DOMAIN request = 1..n
    /\ \A k \in 1..n : request[k].item \in Items /\ request[k].quantity \in Int

SameItem(request, k) == {j \in DOMAIN request : request[j].item = request[k].item}
Firsts(request) == {k \in DOMAIN request : \A j \in SameItem(request, k) : k <= j}
Quantities(request) == [k \in DOMAIN request |-> request[k].quantity]

\* Each line of a request has a first one of its item.
LEMMA FirstExists ==
    ASSUME NEW request, NEW n, NEW Items, IsRequest(request, n, Items), NEW k \in 1..n
    PROVE  \E j \in Firsts(request) : k \in SameItem(request, j)
<1> DEFINE S == SameItem(request, k)
<1>1. DOMAIN request = 1..n /\ n \in Nat /\ IsFiniteSet(1..n)
  BY FS_Interval DEF IsRequest
<1>2. S \subseteq 1..n /\ k \in S
  BY <1>1 DEF SameItem
<1>3. IsFiniteSet(S) /\ S \subseteq Int /\ S # {}
  BY <1>1, <1>2, FS_Subset
<1> HIDE DEF S
<1>4. PICK j \in S : \A x \in S : j <= x
  BY <1>3, Least
<1>5. j \in 1..n /\ SameItem(request, j) = S
  BY <1>1, <1>2, <1>4 DEF S, SameItem
<1>6. j \in Firsts(request) /\ k \in SameItem(request, j)
  BY <1>1, <1>2, <1>4, <1>5 DEF Firsts
<1> QED
  BY <1>6

\* The first of the lines of the same item.
FirstOf(request) == [k \in DOMAIN request |-> CHOOSE j \in Firsts(request) : k \in SameItem(request, j)]

\* The lines of an item are those that have the same first one.
LEMMA FirstIs ==
    ASSUME NEW request, NEW n, NEW Items, IsRequest(request, n, Items)
    PROVE  /\ Firsts(request) \subseteq 1..n /\ IsFiniteSet(Firsts(request)) /\ IsFiniteSet(1..n)
           /\ \A k \in 1..n : FirstOf(request)[k] \in Firsts(request)
           /\ \A j \in Firsts(request) : Group(FirstOf(request), 1..n, j) = SameItem(request, j)
<1> DEFINE F == Firsts(request)
           g == FirstOf(request)
<1>1. DOMAIN request = 1..n /\ n \in Nat /\ IsFiniteSet(1..n)
  BY FS_Interval DEF IsRequest
<1>2. F \subseteq 1..n
  BY <1>1 DEF Firsts
<1>3. IsFiniteSet(F)
  BY <1>1, <1>2, FS_Subset
<1>4. ASSUME NEW k \in 1..n
      PROVE  g[k] \in F /\ k \in SameItem(request, g[k])
  <2>1. \E j \in F : k \in SameItem(request, j)
    BY FirstExists
  <2>2. g[k] = CHOOSE j \in F : k \in SameItem(request, j)
    BY <1>1 DEF FirstOf
  <2> HIDE DEF F, g
  <2> QED
    BY <2>1, <2>2
<1>5. ASSUME NEW i \in F, NEW j \in F, NEW k \in 1..n, k \in SameItem(request, i), k \in SameItem(request, j)
      PROVE  i = j
  <2>1. i \in SameItem(request, j) /\ j \in SameItem(request, i)
    BY <1>1, <1>2, <1>5 DEF SameItem
  <2>2. i <= j /\ j <= i
    BY <1>1, <2>1 DEF Firsts
  <2>3. i \in Nat /\ j \in Nat
    BY <1>2
  <2> QED
    BY <2>2, <2>3
<1>6. ASSUME NEW j \in F PROVE Group(g, 1..n, j) = SameItem(request, j)
  <2>1. SameItem(request, j) \subseteq 1..n
    BY <1>1 DEF SameItem
  <2>2. ASSUME NEW k \in 1..n PROVE g[k] = j <=> k \in SameItem(request, j)
    BY <1>4, <1>5
  <2> HIDE DEF g
  <2> QED
    BY <2>1, <2>2 DEF Group
<1> QED
  BY <1>1, <1>2, <1>3, <1>4, <1>6

\* normalizeItems: every unit that is asked for is in one line.
LEMMA NormalizeKeeps ==
    ASSUME NEW request, NEW n, NEW Items, IsRequest(request, n, Items),
           NEW lines, lines = NormalizeItems(request),
           NEW m, m = Cardinality(Firsts(request))
    PROVE  /\ m \in Nat /\ DOMAIN lines = 1..m
           /\ \A i \in 1..m : lines[i].item \in Items /\ lines[i].quantity \in Int
           /\ (\A k \in 1..n : request[k].quantity >= 1) => \A i \in 1..m : lines[i].quantity >= 1
           /\ Total([i \in DOMAIN lines |-> lines[i].quantity]) = Total(Quantities(request))
<1> DEFINE F == Firsts(request)
           o == InOrder(F)
           q == Quantities(request)
           S(j) == SameItem(request, j)
           h == [j \in F |-> Sum(q, S(j))]
           v == [i \in DOMAIN lines |-> lines[i].quantity]
           D == 1..n
<1>1. /\ F \subseteq D /\ IsFiniteSet(F) /\ IsFiniteSet(D) /\ n \in Nat /\ DOMAIN request = D
      /\ \A k \in D : FirstOf(request)[k] \in F
      /\ \A j \in F : Group(FirstOf(request), D, j) = S(j)
  BY FirstIs DEF IsRequest
<1>2. F \subseteq Int
  BY <1>1
<1>3. m \in Nat /\ IsFiniteSet(1..m)
  BY <1>1, FS_CardinalityType, FS_Interval
<1>4. o \in Bijection(1..m, F) /\ o \in [1..m -> F]
  <2> HIDE DEF F
  <2>1. InOrder(F) \in Bijection(1..Cardinality(F), F) /\ InOrder(F) \in [1..Cardinality(F) -> F]
    BY <1>1, <1>2, InOrderIs
  <2>2. m = Cardinality(F)
    BY DEF F
  <2> QED
    BY <2>1, <2>2
<1>5. \A k \in D : q[k] \in Int /\ q[k] = request[k].quantity /\ request[k].item \in Items
  BY <1>1 DEF Quantities, IsRequest
<1>6. lines = [i \in 1..m |-> [item |-> request[o[i]].item,
                               quantity |-> Total([k \in S(o[i]) |-> request[k].quantity])]]
  <2>1. DOMAIN InOrder(F) = 1..m
    BY <1>4
  <2>2. lines = [i \in DOMAIN InOrder(F) |->
                    [item |-> request[InOrder(F)[i]].item,
                     quantity |-> Total([k \in S(InOrder(F)[i]) |-> request[k].quantity])]]
    BY Zenon DEF NormalizeItems, Firsts, SameItem
  <2> QED
    BY <2>1, <2>2
<1>7. ASSUME NEW j \in F
      PROVE  /\ S(j) \subseteq D /\ IsFiniteSet(S(j)) /\ j \in S(j)
             /\ Total([k \in S(j) |-> request[k].quantity]) = h[j]
             /\ h[j] \in Int /\ h[j] = Sum(q, S(j))
  <2> DEFINE T == S(j)
             f == [k \in T |-> request[k].quantity]
  <2>1. T \subseteq D /\ j \in T
    BY <1>1 DEF SameItem
  <2>2. IsFiniteSet(T)
    BY <1>1, <2>1, FS_Subset
  <2>3. Total(f) = Sum(f, T)
    BY TotalIsSum
  <2>4. \A k \in T : q[k] \in Int /\ f[k] = q[k]
    BY <1>5, <2>1
  <2>5. h[j] = Sum(q, T)
    OBVIOUS
  <2> HIDE DEF T, f, h, q
  <2>6. Sum(f, T) = Sum(q, T)
    BY <2>2, <2>4, SumSame
  <2>7. Sum(q, T) \in Int
    BY <2>2, <2>4, SumInt
  <2> QED
    BY <2>1, <2>2, <2>3, <2>5, <2>6, <2>7 DEF T, f
<1> HIDE DEF F, o, q, h, S, D
<1>8. /\ DOMAIN lines = 1..m
      /\ \A i \in 1..m : /\ lines[i].item = request[o[i]].item
                         /\ lines[i].quantity = h[o[i]] /\ o[i] \in F
  <2>1. \A i \in 1..m : o[i] \in F
    BY <1>4
  <2>2. \A i \in 1..m : /\ lines[i].item = request[o[i]].item
                        /\ lines[i].quantity = Total([k \in S(o[i]) |-> request[k].quantity])
    BY <1>6
  <2> QED
    BY <1>6, <1>7, <2>1, <2>2
<1>9. \A i \in 1..m : lines[i].item \in Items /\ lines[i].quantity \in Int
  BY <1>1, <1>5, <1>7, <1>8
<1>10. ASSUME \A k \in D : request[k].quantity >= 1, NEW j \in F
       PROVE  h[j] >= 1
  <2> DEFINE W == S(j)
             T == W \ {j}
             z == [k \in T |-> 0]
  <2>0. W \subseteq D /\ IsFiniteSet(W) /\ j \in W /\ h[j] = Sum(q, W)
    BY <1>7
  <2>a. \A k \in W : q[k] \in Int /\ q[k] >= 1
    BY <1>5, <1>10, <2>0
  <2> HIDE DEF W
  <2>1. T \subseteq W /\ IsFiniteSet(T)
    BY <2>0, FS_Subset
  <2>2. Sum(q, W) = q[j] + Sum(q, T)
    BY <2>0, <2>a, SumPick
  <2>3. \A k \in T : z[k] = 0 /\ z[k] \in Int /\ q[k] \in Int /\ z[k] <= q[k]
    BY <2>a, <2>1
  <2> HIDE DEF T, z
  <2>4. Sum(z, T) = 0
    BY <2>1, <2>3, SumZero
  <2>5. Sum(z, T) <= Sum(q, T)
    BY <2>1, <2>3, SumLeq
  <2>6. Sum(q, T) \in Int
    BY <2>1, <2>3, SumInt
  <2>7. q[j] >= 1 /\ q[j] \in Int
    BY <2>0, <2>a
  <2> QED
    BY <2>0, <2>2, <2>4, <2>5, <2>6, <2>7
<1>11. Total(v) = Sum(v, 1..m)
  BY <1>8, TotalIsSum
<1>12. \A i \in 1..m : v[i] \in Int /\ h[o[i]] = v[i]
  BY <1>8, <1>9
<1>13. Total(q) = Sum(q, D)
  <2>1. DOMAIN q = D
    BY <1>1 DEF q, Quantities
  <2> QED
    BY <2>1, TotalIsSum
<1> HIDE DEF v
<1>14. Sum(h, F) = Sum(v, 1..m)
  BY <1>1, <1>3, <1>4, <1>12, SumMoved
<1>15. Sum(h, F) = Sum(q, D)
  <2> DEFINE g == FirstOf(request)
  <2>1. \A k \in D : q[k] \in Int /\ g[k] \in F
    BY <1>1, <1>5
  <2>2. \A j \in F : h[j] = Sum(q, Group(g, D, j))
    BY <1>1, <1>7
  <2> HIDE DEF g
  <2> QED
    BY <1>1, <2>1, <2>2, SumGroups
<1>16. Total(v) = Total(q)
  BY <1>11, <1>13, <1>14, <1>15
<1> QED
  BY <1>3, <1>8, <1>9, <1>10, <1>16 DEF v, q, D

=============================================================================
