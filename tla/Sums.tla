---------------------------------- MODULE Sums ----------------------------------
(***************************************************************************)
(* Induction over numbers and finite sets, as least counterexamples, and   *)
(* what SumFunctionOnSet of the module Functions computes.  The boards of  *)
(* Standings are made of such sums, of ordered rows, and of recursions     *)
(* over them.                                                              *)
(***************************************************************************)
EXTENDS Functions, FiniteSetTheorems, TLAPS

-----------------------------------------------------------------------------
(* Least counterexamples.                                                  *)

\* Every set of naturals that is not empty has a least element.
LEMMA LeastNatural ==
  ASSUME NEW S \in SUBSET Nat, S # {}
  PROVE  \E n \in S : \A m \in S : n <= m
<1> DEFINE R == OpToRel(<, Nat)
<1>1. IsWellFoundedOn(R, Nat)
  BY NatLessThanWellFounded
<1>2. \A x, y \in Nat : x < y => <<x, y>> \in R
  BY DEF OpToRel
<1> HIDE DEF R
<1>3. PICK n \in S : \A m \in S : ~(<<m, n>> \in R)
  BY <1>1, WFMin
<1>4. ASSUME NEW m \in S PROVE n <= m
  <2>1. m \in Nat /\ n \in Nat /\ ~(m < n)
    BY <1>2, <1>3
  <2> QED
    BY <2>1
<1> QED
  BY <1>4

\* So what holds of 0 and passes from every number to the next holds of all.
LEMMA NumbersClosed ==
  ASSUME NEW S, 0 \in S, \A n \in Nat : n \in S => n + 1 \in S
  PROVE  Nat \subseteq S
<1> SUFFICES ASSUME NEW k \in Nat, k \notin S PROVE FALSE
  OBVIOUS
<1>1. PICK n \in Nat \ S : \A m \in Nat \ S : n <= m
  <2>1. Nat \ S \in SUBSET Nat /\ Nat \ S # {}
    OBVIOUS
  <2> QED
    BY <2>1, LeastNatural
<1>2. n # 0 /\ n - 1 \in Nat /\ n - 1 < n
  BY <1>1
<1>3. n - 1 \in S
  BY <1>1, <1>2
<1> QED
  BY <1>1, <1>2, <1>3

\* Two functions that follow each other from 1 on are one: a recursion over
\* 1 .. n has one solution.
Follows(g, h, n) == \A i \in 1 .. n : (i = 1 \/ g[i - 1] = h[i - 1]) => g[i] = h[i]

LEMMA OneSolution ==
  ASSUME NEW n \in Nat, NEW g, NEW h, Follows(g, h, n)
  PROVE  \A i \in 1 .. n : g[i] = h[i]
<1> DEFINE S == {k \in Nat : k \in 1 .. n => g[k] = h[k]}
<1>1. 0 \in S
  OBVIOUS
<1>2. ASSUME NEW k \in Nat, k \in S PROVE k + 1 \in S
  <2> SUFFICES ASSUME k + 1 \in 1 .. n PROVE g[k + 1] = h[k + 1]
    OBVIOUS
  <2>1. k + 1 = 1 \/ g[(k + 1) - 1] = h[(k + 1) - 1]
    BY <1>2
  <2> QED
    BY <2>1 DEF Follows
<1>3. Nat \subseteq S
  <2> HIDE DEF S
  <2> QED
    BY <1>1, <1>2, NumbersClosed
<1> QED
  BY <1>3

\* Every family of finite sets that is not empty has a least one.
LEMMA LeastSet ==
  ASSUME NEW F, F # {}, \A T \in F : IsFiniteSet(T)
  PROVE  \E T \in F : \A U \in F : U \subseteq T => U = T
<1> DEFINE X == UNION F
           R == StrictSubsetOrdering(X)
<1>1. IsWellFoundedOn(R, FiniteSubsetsOf(X))
  BY FS_StrictSubsetOrderingWellFounded
<1>2. F \subseteq FiniteSubsetsOf(X)
  BY DEF FiniteSubsetsOf
<1>3. \A T, U \in F : T \subseteq U /\ T # U => <<T, U>> \in R
  BY DEF StrictSubsetOrdering
<1> HIDE DEF R, X
<1>4. PICK T \in F : \A U \in F : ~(<<U, T>> \in R)
  BY <1>1, <1>2, WFMin
<1> QED
  BY <1>3, <1>4

\* So what holds of a set when it holds of the smaller ones holds of all subsets
\* of a finite set.
LEMMA SubsetsClosed ==
  ASSUME NEW X, IsFiniteSet(X), NEW G,
         \A T \in SUBSET X : (\A U \in SUBSET T : U # T => U \in G) => T \in G
  PROVE  SUBSET X \subseteq G
<1> SUFFICES ASSUME NEW V \in SUBSET X, V \notin G PROVE FALSE
  OBVIOUS
<1> DEFINE F == {T \in SUBSET X : T \notin G}
<1>1. F # {} /\ \A T \in F : T \subseteq X
  OBVIOUS
<1>2. \A T \in F : IsFiniteSet(T)
  BY FS_Subset
<1>3. PICK T \in F : \A U \in F : U \subseteq T => U = T
  <2> HIDE DEF F
  <2> QED
    BY <1>1, <1>2, LeastSet
<1>4. \A U \in SUBSET T : U # T => U \in G
  BY <1>3
<1> QED
  BY <1>3, <1>4

-----------------------------------------------------------------------------
(* The sum is defined: the recursion behind it has a solution, and that of a *)
(* set is that of its subsets too.                                         *)

Some(s) == CHOOSE x \in s : TRUE

Solves(g, f, D) ==
  g = [s \in D |-> IF s = {} THEN 0 ELSE f[Some(s)] + g[s \ {Some(s)}]]

LEMMA SomeIn ==
  ASSUME NEW s, s # {}
  PROVE  Some(s) \in s
BY DEF Some

LEMMA SumSolved ==
  ASSUME NEW f, NEW S, IsFiniteSet(S)
  PROVE  \E g : Solves(g, f, SUBSET S)
<1> DEFINE D(n) == {s \in SUBSET S : Cardinality(s) <= n}
           N == {n \in Nat : \E g : Solves(g, f, D(n))}
<1>1. \A s \in SUBSET S : IsFiniteSet(s) /\ Cardinality(s) \in Nat
  BY FS_Subset, FS_CardinalityType
<1>2. \A s \in SUBSET S : s # {} =>
        /\ s \ {Some(s)} \in SUBSET S /\ Cardinality(s \ {Some(s)}) = Cardinality(s) - 1
  BY <1>1, SomeIn, FS_RemoveElement
<1>3. 0 \in N
  <2>1. \A s \in D(0) : s = {}
    BY <1>1, FS_EmptySet
  <2>2. Solves([s \in D(0) |-> 0], f, D(0))
    BY <2>1 DEF Solves
  <2> QED
    BY <2>2
<1>4. ASSUME NEW n \in Nat, n \in N PROVE n + 1 \in N
  <2>1. PICK g : Solves(g, f, D(n))
    BY <1>4
  <2> DEFINE h == [s \in D(n + 1) |-> IF s = {} THEN 0
                     ELSE f[Some(s)] + g[s \ {Some(s)}]]
  <2>2. \A s \in D(n + 1) : s # {} => s \ {Some(s)} \in D(n) /\ s \ {Some(s)} \in D(n + 1)
    BY <1>1, <1>2
  <2>3. \A s \in D(n) : g[s] = h[s]
    <3> SUFFICES ASSUME NEW s \in D(n) PROVE g[s] = h[s]
      OBVIOUS
    <3>1. g[s] = IF s = {} THEN 0 ELSE f[Some(s)] + g[s \ {Some(s)}]
      BY <2>1 DEF Solves
    <3>2. s \in D(n + 1)
      BY <1>1
    <3> QED
      BY <3>1, <3>2
  <2>4. \A s \in D(n + 1) : h[s] = IF s = {} THEN 0 ELSE f[Some(s)] + h[s \ {Some(s)}]
    BY <2>2, <2>3
  <2>5. Solves(h, f, D(n + 1))
    <3>1. h = [s \in D(n + 1) |-> h[s]]
      OBVIOUS
    <3> HIDE DEF h
    <3> QED
      BY <2>4, <3>1 DEF Solves
  <2> QED
    BY <2>5
<1>5. Cardinality(S) \in N
  <2> HIDE DEF N
  <2>1. Nat \subseteq N
    BY <1>3, <1>4, NumbersClosed
  <2> QED
    BY <2>1, <1>1
<1>6. D(Cardinality(S)) = SUBSET S
  BY FS_Subset
<1> QED
  BY <1>5, <1>6

LEMMA SumsAgree ==
  ASSUME NEW f, NEW S, IsFiniteSet(S), NEW T \in SUBSET S, NEW g, NEW h,
         Solves(g, f, SUBSET S), Solves(h, f, SUBSET T)
  PROVE  g[T] = h[T]
<1> DEFINE G == {U \in SUBSET T : g[U] = h[U]}
<1>1. \A s \in SUBSET S : g[s] = IF s = {} THEN 0 ELSE f[Some(s)] + g[s \ {Some(s)}]
  BY DEF Solves
<1>2. \A s \in SUBSET T : h[s] = IF s = {} THEN 0 ELSE f[Some(s)] + h[s \ {Some(s)}]
  BY DEF Solves
<1>3. ASSUME NEW U \in SUBSET T, \A V \in SUBSET U : V # U => V \in G
      PROVE  U \in G
  <2>1. U # {} => U \ {Some(U)} \in SUBSET U /\ U \ {Some(U)} # U
    BY SomeIn
  <2>2. U # {} => g[U \ {Some(U)}] = h[U \ {Some(U)}]
    BY <1>3, <2>1
  <2> QED
    BY <1>1, <1>2, <2>2
<1>4. IsFiniteSet(T)
  BY FS_Subset
<1>5. SUBSET T \subseteq G
  <2> HIDE DEF G
  <2> QED
    BY <1>3, <1>4, SubsetsClosed
<1> QED
  BY <1>5

LEMMA SumIsSolution ==
  ASSUME NEW f, NEW S
  PROVE  SumFunctionOnSet(f, S) = (CHOOSE g : Solves(g, f, SUBSET S))[S]
BY DEF SumFunctionOnSet, FoldFunctionOnSet, MapThenFoldSet, Solves, Some

LEMMA SumSolution ==
  ASSUME NEW f, NEW S, IsFiniteSet(S)
  PROVE  \E g : /\ Solves(g, f, SUBSET S)
                /\ \A T \in SUBSET S : SumFunctionOnSet(f, T) = g[T]
<1> DEFINE h(T) == CHOOSE g : Solves(g, f, SUBSET T)
<1>1. \A T \in SUBSET S : Solves(h(T), f, SUBSET T)
  BY FS_Subset, SumSolved
<1>2. \A T \in SUBSET S : SumFunctionOnSet(f, T) = h(T)[T]
  BY SumIsSolution
<1>3. ASSUME NEW T \in SUBSET S PROVE h(S)[T] = h(T)[T]
  <2> HIDE DEF h
  <2>1. Solves(h(S), f, SUBSET S) /\ Solves(h(T), f, SUBSET T)
    BY <1>1
  <2> QED
    BY <2>1, SumsAgree
<1>4. Solves(h(S), f, SUBSET S)
  BY <1>1
<1> HIDE DEF h
<1> QED
  BY <1>2, <1>3, <1>4

-----------------------------------------------------------------------------
(* Sums of natural numbers.                                                *)

\* Nothing sums up to 0.
LEMMA SumOfNone ==
  ASSUME NEW f
  PROVE  SumFunctionOnSet(f, {}) = 0
<1>1. PICK g : Solves(g, f, SUBSET {}) /\ \A T \in SUBSET {} : SumFunctionOnSet(f, T) = g[T]
  BY SumSolution, FS_EmptySet
<1> QED
  BY <1>1 DEF Solves

LEMMA SumOfSome ==
  ASSUME NEW f, NEW S, IsFiniteSet(S), S # {}
  PROVE  SumFunctionOnSet(f, S) = f[Some(S)] + SumFunctionOnSet(f, S \ {Some(S)})
<1>1. PICK g : Solves(g, f, SUBSET S) /\ \A T \in SUBSET S : SumFunctionOnSet(f, T) = g[T]
  BY SumSolution
<1>2. g[S] = f[Some(S)] + g[S \ {Some(S)}]
  BY <1>1 DEF Solves
<1> QED
  BY <1>1, <1>2

\* A sum of naturals is a natural.
LEMMA SumType ==
  ASSUME NEW f, NEW S, IsFiniteSet(S), \A x \in S : f[x] \in Nat
  PROVE  SumFunctionOnSet(f, S) \in Nat
<1> DEFINE G == {T \in SUBSET S : SumFunctionOnSet(f, T) \in Nat}
<1>1. ASSUME NEW T \in SUBSET S, \A U \in SUBSET T : U # T => U \in G
      PROVE  T \in G
  <2>1. CASE T = {}
    BY <2>1, SumOfNone
  <2>2. CASE T # {}
    <3>1. IsFiniteSet(T) /\ Some(T) \in T
      BY <2>2, FS_Subset, SomeIn
    <3>2. T \ {Some(T)} \in G
      BY <1>1, <3>1
    <3>3. SumFunctionOnSet(f, T) = f[Some(T)] + SumFunctionOnSet(f, T \ {Some(T)})
      BY <2>2, <3>1, SumOfSome
    <3> QED
      BY <3>1, <3>2, <3>3
  <2> QED
    BY <2>1, <2>2
<1>2. SUBSET S \subseteq G
  <2> HIDE DEF G
  <2> QED
    BY <1>1, SubsetsClosed
<1> QED
  BY <1>2

\* Any element may be taken out first.
LEMMA SumTakeOut ==
  ASSUME NEW f, NEW S, IsFiniteSet(S), \A x \in S : f[x] \in Nat, NEW y \in S
  PROVE  SumFunctionOnSet(f, S) = f[y] + SumFunctionOnSet(f, S \ {y})
<1> DEFINE G == {T \in SUBSET S : \A x \in T :
                   SumFunctionOnSet(f, T) = f[x] + SumFunctionOnSet(f, T \ {x})}
<1>1. ASSUME NEW T \in SUBSET S, \A U \in SUBSET T : U # T => U \in G
      PROVE  T \in G
  <2> SUFFICES ASSUME NEW x \in T, x # Some(T)
               PROVE  SumFunctionOnSet(f, T) = f[x] + SumFunctionOnSet(f, T \ {x})
    <3>1. ASSUME NEW x \in T, x = Some(T)
          PROVE  SumFunctionOnSet(f, T) = f[x] + SumFunctionOnSet(f, T \ {x})
      BY <3>1, FS_Subset, SumOfSome
    <3> QED
      BY <3>1
  <2> DEFINE c == Some(T)
             R == (T \ {c}) \ {x}
  <2>1. c \in T /\ IsFiniteSet(T)
    BY SomeIn, FS_Subset
  <2> HIDE DEF c
  <2>2. T \ {c} \in G /\ T \ {x} \in G /\ x \in T \ {c} /\ c \in T \ {x}
    BY <1>1, <2>1 DEF c
  <2>3. SumFunctionOnSet(f, T) = f[c] + SumFunctionOnSet(f, T \ {c})
    BY <2>1, SumOfSome DEF c
  <2>4. SumFunctionOnSet(f, T \ {c}) = f[x] + SumFunctionOnSet(f, R)
    BY <2>2
  <2>5. (T \ {x}) \ {c} = R
    OBVIOUS
  <2>6. SumFunctionOnSet(f, T \ {x}) = f[c] + SumFunctionOnSet(f, R)
    BY <2>2, <2>5
  <2>7. SumFunctionOnSet(f, R) \in Nat /\ f[c] \in Nat /\ f[x] \in Nat
    <3>1. IsFiniteSet(R) /\ \A z \in R : f[z] \in Nat
      BY FS_Subset
    <3> QED
      BY <2>1, <3>1, SumType
  <2> QED
    BY <2>3, <2>4, <2>6, <2>7
<1>2. SUBSET S \subseteq G
  <2> HIDE DEF G
  <2> QED
    BY <1>1, SubsetsClosed
<1> QED
  BY <1>2

\* The sum depends on the summands only.
LEMMA SumSame ==
  ASSUME NEW f, NEW g, NEW S, IsFiniteSet(S), \A x \in S : f[x] = g[x]
  PROVE  SumFunctionOnSet(f, S) = SumFunctionOnSet(g, S)
<1> DEFINE G == {T \in SUBSET S : SumFunctionOnSet(f, T) = SumFunctionOnSet(g, T)}
<1>1. ASSUME NEW T \in SUBSET S, \A U \in SUBSET T : U # T => U \in G
      PROVE  T \in G
  <2>1. CASE T = {}
    BY <2>1, SumOfNone
  <2>2. CASE T # {}
    <3>1. IsFiniteSet(T) /\ Some(T) \in T
      BY <2>2, FS_Subset, SomeIn
    <3>2. T \ {Some(T)} \in G /\ f[Some(T)] = g[Some(T)]
      BY <1>1, <3>1
    <3> QED
      BY <2>2, <3>1, <3>2, SumOfSome
  <2> QED
    BY <2>1, <2>2
<1>2. SUBSET S \subseteq G
  <2> HIDE DEF G
  <2> QED
    BY <1>1, SubsetsClosed
<1> QED
  BY <1>2

\* The sum over two sets that share nothing.
LEMMA SumOfUnion ==
  ASSUME NEW f, NEW A, NEW B, IsFiniteSet(A), IsFiniteSet(B), A \intersect B = {},
         \A x \in A \union B : f[x] \in Nat
  PROVE  SumFunctionOnSet(f, A \union B) = SumFunctionOnSet(f, A) + SumFunctionOnSet(f, B)
<1> DEFINE G == {T \in SUBSET A : SumFunctionOnSet(f, T \union B) =
                                   SumFunctionOnSet(f, T) + SumFunctionOnSet(f, B)}
<1>1. ASSUME NEW T \in SUBSET A, \A U \in SUBSET T : U # T => U \in G
      PROVE  T \in G
  <2>0. SumFunctionOnSet(f, B) \in Nat
    BY SumType
  <2>1. CASE T = {}
    <3>1. T \union B = B
      BY <2>1
    <3> QED
      BY <2>0, <2>1, <3>1, SumOfNone
  <2>2. CASE T # {}
    <3>1. PICK x \in T : TRUE
      BY <2>2
    <3>2. IsFiniteSet(T) /\ IsFiniteSet(T \union B) /\ IsFiniteSet(T \ {x})
      BY FS_Subset, FS_Union
    <3>3. (T \union B) \ {x} = (T \ {x}) \union B /\ x \in T \union B
      BY <3>1
    <3>4. T \ {x} \in G
      BY <1>1, <3>1
    <3>5. SumFunctionOnSet(f, T \union B) = f[x] + SumFunctionOnSet(f, (T \ {x}) \union B)
      BY <3>2, <3>3, SumTakeOut
    <3>6. SumFunctionOnSet(f, T) = f[x] + SumFunctionOnSet(f, T \ {x})
      BY <3>1, <3>2, SumTakeOut
    <3>7. SumFunctionOnSet(f, T \ {x}) \in Nat /\ f[x] \in Nat
      BY <3>1, <3>2, SumType
    <3> QED
      BY <2>0, <3>4, <3>5, <3>6, <3>7
  <2> QED
    BY <2>1, <2>2
<1>2. SUBSET A \subseteq G
  <2> HIDE DEF G
  <2> QED
    BY <1>1, SubsetsClosed
<1> QED
  BY <1>2

\* Adding up class by class.
LEMMA SumByClass ==
  ASSUME NEW f, NEW M, NEW W, NEW c, IsFiniteSet(M), IsFiniteSet(W),
         \A m \in M : f[m] \in Nat /\ c[m] \in W
  PROVE  SumFunctionOnSet([w \in W |-> SumFunctionOnSet(f, {m \in M : c[m] = w})], W)
           = SumFunctionOnSet(f, M)
<1> DEFINE Of(V) == {m \in M : c[m] \in V}
           h == [w \in W |-> SumFunctionOnSet(f, {m \in M : c[m] = w})]
           G == {V \in SUBSET W : SumFunctionOnSet(h, V) = SumFunctionOnSet(f, Of(V))}
<1>1. \A w \in W : h[w] = SumFunctionOnSet(f, {m \in M : c[m] = w}) /\ h[w] \in Nat
  <2>1. \A w \in W : IsFiniteSet({m \in M : c[m] = w})
    BY FS_Subset
  <2> QED
    BY <2>1, SumType
<1>2. ASSUME NEW V \in SUBSET W, \A U \in SUBSET V : U # V => U \in G
      PROVE  V \in G
  <2>1. CASE V = {}
    <3>1. Of(V) = {}
      BY <2>1
    <3> QED
      BY <2>1, <3>1, SumOfNone
  <2>2. CASE V # {}
    <3>1. PICK w \in V : TRUE
      BY <2>2
    <3> DEFINE A == {m \in M : c[m] = w}
               B == Of(V \ {w})
    <3>2. Of(V) = A \union B /\ A \intersect B = {}
      BY <3>1
    <3>3. IsFiniteSet(V) /\ IsFiniteSet(A) /\ IsFiniteSet(B)
      BY FS_Subset
    <3>4. SumFunctionOnSet(h, V) = h[w] + SumFunctionOnSet(h, V \ {w})
      <4>1. \A x \in V : h[x] \in Nat
        BY <1>1
      <4> HIDE DEF h
      <4> QED
        BY <3>1, <3>3, <4>1, SumTakeOut
    <3>5. SumFunctionOnSet(h, V \ {w}) = SumFunctionOnSet(f, B)
      <4>1. V \ {w} \in G
        BY <1>2, <3>1
      <4> QED
        BY <4>1
    <3>6. SumFunctionOnSet(f, Of(V)) = SumFunctionOnSet(f, A) + SumFunctionOnSet(f, B)
      <4>1. \A x \in A \union B : f[x] \in Nat
        OBVIOUS
      <4> HIDE DEF A, B, Of
      <4> QED
        BY <3>2, <3>3, <4>1, SumOfUnion
    <3>7. h[w] = SumFunctionOnSet(f, A)
      BY <1>1
    <3> QED
      BY <3>4, <3>5, <3>6, <3>7
  <2> QED
    BY <2>1, <2>2
<1>3. SUBSET W \subseteq G
  <2> HIDE DEF G
  <2> QED
    BY <1>2, SubsetsClosed
<1>4. Of(W) = M
  OBVIOUS
<1>5. W \in G
  BY <1>3
<1> QED
  BY <1>4, <1>5

=============================================================================
