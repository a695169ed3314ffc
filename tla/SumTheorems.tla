---------------------------- MODULE SumTheorems ----------------------------
(***************************************************************************)
(* Facts about sums over finite sets (SumFunction of the community modules)*)
(* for the ledgers of the contracts: shares, tranches, bonds and tallies   *)
(* are all sums over accounts, locks or proposals.                         *)
(*                                                                         *)
(* The fold behind a sum is a recursive function over subsets.  Induction  *)
(* is by least counterexample: a non-empty set of naturals has a least     *)
(* element, and a non-empty set of subsets of a finite set has a minimal   *)
(* one.                                                                    *)
(***************************************************************************)
EXTENDS Integers, Sequences, FiniteSets, Functions, WellFoundedInduction, TLAPS

-----------------------------------------------------------------------------
(* Least counterexamples and finite sets. *)

\* A non-empty set of naturals has a least element.
LEMMA NatMin ==
  ASSUME NEW T, T \subseteq Nat, T # {}
  PROVE \E n \in T : \A m \in T : n <= m
<1> DEFINE Less == {ss \in Nat \X Nat : ss[1] < ss[2]}
<1>1. OpToRel(<, Nat) = Less
  BY Zenon DEF OpToRel
<1>2. IsWellFoundedOn(Less, Nat)
  BY Zenon, <1>1, NatLessThanWellFounded
<1> HIDE DEF Less
<1>3. PICK x \in T : \A y \in T : ~ (<<y, x>> \in Less)
  BY <1>2, WFMin, Zenon
<1>4. ASSUME NEW y \in T, y < x PROVE <<y, x>> \in Less
  <2>1. <<y, x>> \in Nat \X Nat /\ <<y, x>>[1] < <<y, x>>[2]
    BY <1>4
  <2>2. QED BY Zenon, <2>1 DEF Less
<1>5. \A y \in T : ~(y < x)
  BY Zenon, <1>3, <1>4
<1>6. \A y \in T : x <= y
  BY <1>5
<1>7. QED BY <1>6

\* q lists the elements of S, and maybe others, in n places.
Lists(q, n, S) == n \in Nat /\ \A s \in S : \E i \in 1..n : q[i] = s

\* A set is finite when its elements can be listed.
LEMMA FiniteIsListed ==
  ASSUME NEW S
  PROVE  IsFiniteSet(S) <=> \E q, n : Lists(q, n, S)
<1>1. ASSUME IsFiniteSet(S) PROVE \E q, n : Lists(q, n, S)
  <2>1. PICK q \in Seq(S) : \A s \in S : \E i \in 1..Len(q) : q[i] = s
    BY <1>1 DEF IsFiniteSet
  <2>2. Lists(q, Len(q), S)
    BY <2>1 DEF Lists
  <2> QED
    BY <2>2
<1>2. ASSUME NEW q, NEW n, Lists(q, n, S) PROVE IsFiniteSet(S)
  <2>1. CASE S = {}
    <3>1. <<>> \in Seq(S)
      OBVIOUS
    <3> QED
      BY <2>1, <3>1, Zenon DEF IsFiniteSet
  <2>2. ASSUME NEW e \in S PROVE IsFiniteSet(S)
    <3> DEFINE r == [i \in 1..n |-> IF q[i] \in S THEN q[i] ELSE e]
    <3>1. n \in Nat
      BY <1>2 DEF Lists
    <3>2. r \in Seq(S) /\ Len(r) = n
      BY <2>2, <3>1
    <3>3. \A s \in S : \E i \in 1..n : r[i] = s
      BY <1>2 DEF Lists
    <3> HIDE DEF r
    <3> QED
      BY <3>2, <3>3 DEF IsFiniteSet
  <2> QED
    BY <2>1, <2>2
<1> QED
  BY <1>1, <1>2

\* The empty set is finite.
LEMMA FiniteEmpty == IsFiniteSet({})
<1>1. Lists(<<>>, 0, {})
  BY DEF Lists
<1> QED
  BY <1>1, FiniteIsListed

\* A subset of a finite set is finite.
LEMMA FiniteSubset ==
  ASSUME NEW S, IsFiniteSet(S), NEW T \in SUBSET S
  PROVE  IsFiniteSet(T)
<1>1. PICK q, n : Lists(q, n, S)
  BY FiniteIsListed
<1>2. Lists(q, n, T)
  BY <1>1 DEF Lists
<1> QED
  BY <1>2, FiniteIsListed

\* One more element leaves a set finite.
LEMMA FiniteAdd ==
  ASSUME NEW S, NEW x, IsFiniteSet(S)
  PROVE  IsFiniteSet(S \cup {x})
<1>1. PICK q, n : Lists(q, n, S)
  BY FiniteIsListed
<1> DEFINE r == [i \in 1..(n + 1) |-> IF i = n + 1 THEN x ELSE q[i]]
<1>2. ASSUME NEW s \in S PROVE \E i \in 1..(n + 1) : r[i] = s
  <2>1. PICK i \in 1..n : q[i] = s
    BY <1>1, <1>2 DEF Lists
  <2>2. i \in 1..(n + 1) /\ i # n + 1 /\ n \in Nat
    BY <1>1 DEF Lists
  <2>3. r[i] = s
    BY <2>1, <2>2
  <2> QED
    BY <2>2, <2>3
<1>3. n + 1 \in Nat /\ n + 1 \in 1..(n + 1) /\ r[n + 1] = x
  BY <1>1 DEF Lists
<1>4. Lists(r, n + 1, S \cup {x})
  <2> HIDE DEF r
  <2> QED
    BY <1>2, <1>3 DEF Lists
<1> QED
  BY <1>4, FiniteIsListed, Zenon

\* The indices of a sequence are finitely many.
LEMMA FinUpTo ==
  ASSUME NEW n \in Nat
  PROVE  IsFiniteSet(1..n)
<1>1. Lists([i \in 1..n |-> i], n, 1..n)
  BY DEF Lists
<1> QED
  BY <1>1, FiniteIsListed, Zenon

\* A non-empty set of subsets of a finite set has a minimal element: the one
\* with the shortest list.
LEMMA FinMin ==
  ASSUME NEW S, IsFiniteSet(S), NEW T, T \subseteq SUBSET S, T # {}
  PROVE \E s \in T : \A r \in T : r \subseteq s => r = s
<1> DEFINE N == {n \in Nat : \E s \in T : \E q : Lists(q, n, s)}
<1>1. N \subseteq Nat /\ N # {}
  <2>1. PICK s \in T : IsFiniteSet(s)
    BY FiniteSubset
  <2>2. PICK q, n : Lists(q, n, s)
    BY <2>1, FiniteIsListed
  <2>3. n \in Nat
    BY <2>2 DEF Lists
  <2> QED
    BY <2>2, <2>3
<1>2. PICK n \in N : \A m \in N : n <= m
  <2> HIDE DEF N
  <2> QED
    BY <1>1, NatMin, Zenon
<1>3. PICK s \in T : \E q : Lists(q, n, s)
  BY <1>2
<1>4. ASSUME NEW r \in T, r \subseteq s, r # s PROVE FALSE
  <2>0. PICK q : Lists(q, n, s)
    BY <1>3
  <2>1. PICK x \in s : x \notin r
    BY <1>4
  <2>2. PICK k \in 1..n : q[k] = x
    BY <2>0, <2>1 DEF Lists
  <2> DEFINE p == [i \in 1..(n - 1) |-> IF i < k THEN q[i] ELSE q[i + 1]]
  <2>3. n \in Nat /\ k \in Int /\ 1 <= k /\ k <= n /\ n - 1 \in Nat
    BY <2>0, <2>2 DEF Lists
  <2>4. ASSUME NEW y \in r PROVE \E i \in 1..(n - 1) : p[i] = y
    <3>1. PICK j \in 1..n : q[j] = y
      BY <2>0, <1>4, <2>4 DEF Lists
    <3>2. j # k
      BY <2>1, <2>2, <2>4, <3>1
    <3>3. CASE j < k
      <4>1. j \in 1..(n - 1) /\ p[j] = y
        BY <2>3, <3>1, <3>3
      <4> QED
        BY <4>1
    <3>4. CASE j > k
      <4>1. j - 1 \in 1..(n - 1) /\ ~(j - 1 < k) /\ j - 1 + 1 = j
        BY <2>3, <3>1, <3>4
      <4>2. p[j - 1] = y
        BY <3>1, <4>1
      <4> QED
        BY <4>1, <4>2
    <3> QED
      BY <2>3, <3>1, <3>2, <3>3, <3>4
  <2>5. Lists(p, n - 1, r)
    <3> HIDE DEF p
    <3> QED
      BY <2>3, <2>4 DEF Lists
  <2>6. n - 1 \in N
    BY <2>3, <2>5
  <2> QED
    BY <1>2, <2>3, <2>6
<1> QED
  BY <1>3, <1>4

-----------------------------------------------------------------------------
(* Induction and recursion. *)

\* Induction up to a bound, for a set of naturals.
LEMMA BoundedInduction ==
  ASSUME NEW N \in Nat, NEW T, 0 \in T, \A n \in 1..N : n - 1 \in T => n \in T
  PROVE  \A n \in 0..N : n \in T
<1> DEFINE Bad == {n \in 0..N : n \notin T}
<1> SUFFICES ASSUME Bad # {} PROVE FALSE
  OBVIOUS
<1>1. PICK n \in Bad : \A m \in Bad : n <= m
  <2>1. Bad \subseteq Nat OBVIOUS
  <2> HIDE DEF Bad
  <2>2. QED BY <2>1, NatMin, Zenon
<1>2. n \in 1..N /\ n - 1 \in 0..N /\ ~ (n <= n - 1)
  OBVIOUS
<1>3. n - 1 \in T
  BY <1>1, <1>2
<1>4. QED BY <1>2, <1>3

\* F gives each value of g from the one before, up to a bound.
StepFunction(F, N, A) == F \in [1..N -> [A -> A]]

Follows(g, F, a, N, A) ==
    /\ g \in [0..N -> A]
    /\ g[0] = a
    /\ \A n \in 1..N : g[n] = F[n][g[n - 1]]

\* Recursion up to a bound has a solution.
LEMMA BoundedRecursion ==
  ASSUME NEW N \in Nat, NEW A, NEW a \in A, NEW F, StepFunction(F, N, A)
  PROVE  \E g : Follows(g, F, a, N, A)
<1> DEFINE T == {m \in 0..N : \E g : Follows(g, F, a, m, A)}
<1>1. 0 \in T
  <2> DEFINE z == [i \in 0..0 |-> a]
  <2>1. z \in [0..0 -> A] /\ z[0] = a
    OBVIOUS
  <2>2. Follows(z, F, a, 0, A) /\ 0 \in 0..N
    BY <2>1 DEF Follows
  <2> HIDE DEF z
  <2>3. QED BY <2>2
<1>2. ASSUME NEW m \in 1..N, m - 1 \in T PROVE m \in T
  <2>1. PICK g : Follows(g, F, a, m - 1, A)
    BY <1>2
  <2> DEFINE h == [i \in 0..m |-> IF i = m THEN F[m][g[m - 1]] ELSE g[i]]
  <2>2. h \in [0..m -> A] /\ h[0] = a
    BY <2>1 DEF Follows, StepFunction
  <2>3. ASSUME NEW n \in 1..m PROVE h[n] = F[n][h[n - 1]]
    <3>1. n - 1 \in 0..m /\ n - 1 # m /\ n \in 0..m
      OBVIOUS
    <3>2. h[n - 1] = g[n - 1]
      BY <3>1
    <3>3. CASE n = m
      <4>1. h[m] = F[m][g[m - 1]]
        BY <3>1, <3>3
      <4> HIDE DEF h
      <4>2. QED BY <4>1, <3>2, <3>3, Zenon
    <3>4. CASE n # m
      <4>1. n \in 1..(m - 1) /\ h[n] = g[n]
        BY <3>4
      <4>2. QED BY <4>1, <3>2, <2>1 DEF Follows
    <3>5. QED BY <3>3, <3>4
  <2> HIDE DEF h
  <2>4. Follows(h, F, a, m, A) /\ m \in 0..N
    BY <2>2, <2>3 DEF Follows
  <2>5. QED BY <2>4
<1>3. N \in T
  <2> HIDE DEF T
  <2>1. \A n \in 0..N : n \in T
    BY <1>1, <1>2, BoundedInduction
  <2>2. QED BY <2>1
<1>4. QED BY <1>3

-----------------------------------------------------------------------------
(* The recursion behind a sum. *)

\* g computes the sum of w over every subset of S, one element after the other.
Sums(w, S, g) ==
    g = [s \in SUBSET S |->
           IF s = {} THEN 0
           ELSE w[CHOOSE x \in s : TRUE] + g[s \ {CHOOSE x \in s : TRUE}]]

\* A sum is the value of that recursion at the whole set.
LEMMA SumIsRecursive ==
  ASSUME NEW w, NEW S
  PROVE  SumFunctionOnSet(w, S) = (CHOOSE g : Sums(w, S, g))[S]
BY DEF SumFunctionOnSet, FoldFunctionOnSet, MapThenFoldSet, Sums

\* Two such functions agree wherever both are defined.
LEMMA SumsAgree ==
  ASSUME NEW w, NEW S, NEW T, NEW g, NEW h, Sums(w, S, g), Sums(w, T, h),
         IsFiniteSet(S), NEW r, r \subseteq S, r \subseteq T
  PROVE  g[r] = h[r]
<1> DEFINE Bad == {s \in SUBSET S : s \subseteq T /\ g[s] # h[s]}
<1> SUFFICES ASSUME Bad # {} PROVE FALSE
  OBVIOUS
<1>1. PICK s \in Bad : \A q \in Bad : q \subseteq s => q = s
  <2>1. Bad \subseteq SUBSET S OBVIOUS
  <2> HIDE DEF Bad
  <2>2. QED BY <2>1, FinMin
<1> DEFINE c == CHOOSE x \in s : TRUE
           q == s \ {c}
<1>2. s # {}
  BY <1>1 DEF Sums
<1>3. c \in s
  BY <1>2
<1>4. q \notin Bad
  BY <1>1, <1>3
<1>5. g[q] = h[q]
  BY <1>4
<1>6. g[s] = w[c] + g[q] /\ h[s] = w[c] + h[q]
  BY <1>2, Zenon DEF Sums
<1>7. QED BY <1>5, <1>6

\* Over a finite set the recursion has a solution.
LEMMA SumsExist ==
  ASSUME NEW w, NEW S, IsFiniteSet(S)
  PROVE  Sums(w, S, CHOOSE g : Sums(w, S, g))
<1> DEFINE H(t) == CHOOSE g : Sums(w, t, g)
           Bad == {s \in SUBSET S : ~ \E g : Sums(w, s, g)}
<1>1. SUFFICES ASSUME Bad # {} PROVE FALSE
  <2>1. S \notin Bad => \E g : Sums(w, S, g)
    OBVIOUS
  <2>2. QED BY <2>1, Zenon
<1>2. PICK s \in Bad : \A q \in Bad : q \subseteq s => q = s
  <2>1. Bad \subseteq SUBSET S OBVIOUS
  <2> HIDE DEF Bad
  <2>2. QED BY <1>1, <2>1, FinMin
<1> DEFINE c(t) == CHOOSE x \in t : TRUE
           E(t) == IF t # s THEN H(t)[t]
                   ELSE IF s = {} THEN 0 ELSE w[c(s)] + H(s \ {c(s)})[s \ {c(s)}]
           G == [t \in SUBSET s |-> E(t)]
<1>3. ASSUME NEW t \in SUBSET s, t # s PROVE Sums(w, t, H(t))
  <2>1. t \notin Bad
    BY <1>2, <1>3
  <2>2. \E g : Sums(w, t, g)
    BY <2>1
  <2>3. QED BY <2>2, Zenon
<1>4. ASSUME NEW t \in SUBSET s, t # {} PROVE c(t) \in t
  BY <1>4
<1>5. ASSUME NEW t \in SUBSET s
      PROVE  G[t] = IF t = {} THEN 0 ELSE w[c(t)] + G[t \ {c(t)}]
  <2>1. CASE t = {}
    <3>1. CASE s = {}
      BY <2>1, <3>1
    <3>2. CASE s # {}
      <4>1. Sums(w, t, H(t)) /\ G[t] = H(t)[t]
        BY <1>3, <2>1, <3>2
      <4>2. QED BY Zenon, <4>1, <2>1 DEF Sums
    <3>3. QED BY <3>1, <3>2
  <2>2. CASE t # {}
    <3> DEFINE q == t \ {c(t)}
    <3>1. q \in SUBSET s /\ q # s /\ q # t
      BY <1>4, <2>2
    <3>2. G[q] = H(q)[q]
      BY <3>1
    <3>3. CASE t = s
      BY <3>2, <3>3, <2>2
    <3>4. CASE t # s
      <4>1. Sums(w, t, H(t)) /\ Sums(w, q, H(q)) /\ G[t] = H(t)[t]
        BY Zenon, <1>3, <3>1, <3>4
      <4>2. H(t)[t] = w[c(t)] + H(t)[q]
        BY <4>1, <2>2, ZenonT(30) DEF Sums
      <4>3. IsFiniteSet(t)
        BY FiniteSubset
      <4>4. H(t)[q] = H(q)[q]
        <5> HIDE DEF H, q
        <5>1. q \subseteq t BY DEF q
        <5>2. QED BY <4>1, <4>3, <5>1, SumsAgree
      <4>5. QED BY <4>1, <4>2, <4>4, <3>2, <2>2
    <3>5. QED BY <3>3, <3>4
  <2>3. QED BY <2>1, <2>2
<1>6. Sums(w, s, G)
  <2> DEFINE F == [t \in SUBSET s |-> IF t = {} THEN 0 ELSE w[c(t)] + G[t \ {c(t)}]]
  <2>1. DOMAIN G = SUBSET s /\ DOMAIN F = SUBSET s /\ G = [t \in SUBSET s |-> G[t]]
    <3> HIDE DEF E
    <3>1. DOMAIN G = SUBSET s
      BY Zenon
    <3>2. DOMAIN F = SUBSET s
      BY Zenon
    <3>3. G = [t \in SUBSET s |-> G[t]]
      OBVIOUS
    <3> QED
      BY <3>1, <3>2, <3>3, Zenon
  <2>2. \A t \in SUBSET s : F[t] = G[t]
    BY <1>5, Zenon
  <2>3. G = F
    <3> HIDE DEF G
    <3>1. QED BY <2>1, <2>2, Zenon
  <2>4. QED BY <2>3, Zenon DEF Sums
<1>7. QED BY <1>2, <1>6

\* So a sum obeys its recursion.
LEMMA SumChoose ==
  ASSUME NEW w, NEW S, IsFiniteSet(S)
  PROVE  SumFunctionOnSet(w, S) = IF S = {} THEN 0
                     ELSE w[CHOOSE x \in S : TRUE]
                            + SumFunctionOnSet(w, S \ {CHOOSE x \in S : TRUE})
<1> DEFINE H(t) == CHOOSE g : Sums(w, t, g)
<1>1. \A t : SumFunctionOnSet(w, t) = H(t)[t]
  BY SumIsRecursive, Zenon
<1>2. Sums(w, S, H(S))
  BY SumsExist
<1>3. CASE S = {}
  <2>1. H(S)[S] = 0
    <3> HIDE DEF H
    <3>1. QED BY <1>2, <1>3 DEF Sums
  <2>2. QED BY <1>1, <1>3, <2>1, Zenon
<1>4. CASE S # {}
  <2> DEFINE c == CHOOSE x \in S : TRUE
             q == S \ {c}
  <2>1. H(S)[S] = w[c] + H(S)[q]
    BY <1>2, <1>4, Zenon DEF Sums
  <2>2. IsFiniteSet(q) /\ q \subseteq S
    BY FiniteSubset
  <2>3. Sums(w, q, H(q))
    BY <2>2, SumsExist
  <2>4. H(S)[q] = H(q)[q]
    <3> HIDE DEF H, q
    <3>1. QED BY <1>2, <2>2, <2>3, SumsAgree
  <2>5. QED BY <1>1, <2>1, <2>4, <1>4, Zenon
<1>5. QED BY <1>3, <1>4

-----------------------------------------------------------------------------
(* Sums, independently of the order of the elements. *)

\* The sum over no elements.
LEMMA SumEmpty == \A w : SumFunctionOnSet(w, {}) = 0
BY SumChoose, FiniteEmpty

\* A sum of integers is an integer.
LEMMA SumInt ==
  ASSUME NEW w, NEW S, IsFiniteSet(S), \A x \in S : w[x] \in Int
  PROVE  SumFunctionOnSet(w, S) \in Int
<1> DEFINE Bad == {s \in SUBSET S : SumFunctionOnSet(w, s) \notin Int}
<1> SUFFICES ASSUME Bad # {} PROVE FALSE
  OBVIOUS
<1>1. PICK s \in Bad : \A q \in Bad : q \subseteq s => q = s
  <2>1. Bad \subseteq SUBSET S OBVIOUS
  <2> HIDE DEF Bad
  <2>2. QED BY <2>1, FinMin
<1>2. s # {}
  BY SumEmpty
<1> DEFINE c == CHOOSE x \in s : TRUE
           q == s \ {c}
<1>3. c \in s /\ q \notin Bad /\ IsFiniteSet(s)
  BY <1>1, <1>2, FiniteSubset
<1>4. SumFunctionOnSet(w, s) = w[c] + SumFunctionOnSet(w, q)
  BY <1>2, <1>3, SumChoose, Zenon
<1>5. QED BY <1>3, <1>4

\* Any element can be taken out of a sum.
LEMMA SumRemove ==
  ASSUME NEW w, NEW S, IsFiniteSet(S), \A x \in S : w[x] \in Int, NEW x \in S
  PROVE  SumFunctionOnSet(w, S) = w[x] + SumFunctionOnSet(w, S \ {x})
<1> DEFINE Bad == {s \in SUBSET S : \E y \in s : SumFunctionOnSet(w, s) # w[y] + SumFunctionOnSet(w, s \ {y})}
<1> SUFFICES ASSUME Bad # {} PROVE FALSE
  BY Zenon
<1>1. PICK s \in Bad : \A q \in Bad : q \subseteq s => q = s
  <2>1. Bad \subseteq SUBSET S OBVIOUS
  <2> HIDE DEF Bad
  <2>2. QED BY <2>1, FinMin
<1>2. PICK y \in s : SumFunctionOnSet(w, s) # w[y] + SumFunctionOnSet(w, s \ {y})
  OBVIOUS
<1> DEFINE c == CHOOSE z \in s : TRUE
           q == s \ {c}
           p == s \ {y}
<1>3. c \in s /\ IsFiniteSet(s) /\ IsFiniteSet(q) /\ IsFiniteSet(p)
  BY FiniteSubset
<1>4. SumFunctionOnSet(w, s) = w[c] + SumFunctionOnSet(w, q)
  BY <1>3, SumChoose, Zenon
<1>5. c # y
  BY <1>2, <1>4, Zenon
<1>6. q \notin Bad /\ p \notin Bad
  BY <1>1, <1>3, Zenon
<1>7. SumFunctionOnSet(w, q) = w[y] + SumFunctionOnSet(w, q \ {y})
  BY <1>6, <1>5
<1>8. SumFunctionOnSet(w, p) = w[c] + SumFunctionOnSet(w, p \ {c})
  BY <1>6, <1>5, <1>3
<1>9. SumFunctionOnSet(w, q \ {y}) = SumFunctionOnSet(w, p \ {c})
  <2>1. q \ {y} = p \ {c}
    OBVIOUS
  <2>2. QED BY Zenon, <2>1
<1>10. SumFunctionOnSet(w, p \ {c}) \in Int /\ w[c] \in Int /\ w[y] \in Int
  <2>1. IsFiniteSet(p \ {c}) /\ p \ {c} \subseteq S
    BY FiniteSubset
  <2>2. QED BY <2>1, <1>3, SumInt
<1>11. SumFunctionOnSet(w, s) # w[y] + SumFunctionOnSet(w, p)
  BY <1>2
<1> HIDE DEF Bad, c, p, q
<1>12. QED BY <1>4, <1>7, <1>8, <1>9, <1>10, <1>11

\* Weights that agree on the set have the same sum over it.
LEMMA SumSame ==
  ASSUME NEW S, IsFiniteSet(S), NEW w, NEW v, \A x \in S : w[x] = v[x]
  PROVE  SumFunctionOnSet(w, S) = SumFunctionOnSet(v, S)
<1> DEFINE Bad == {s \in SUBSET S : SumFunctionOnSet(w, s) # SumFunctionOnSet(v, s)}
<1> SUFFICES ASSUME Bad # {} PROVE FALSE
  OBVIOUS
<1>1. PICK s \in Bad : \A q \in Bad : q \subseteq s => q = s
  <2>1. Bad \subseteq SUBSET S OBVIOUS
  <2> HIDE DEF Bad
  <2>2. QED BY <2>1, FinMin
<1>2. s # {}
  BY SumEmpty
<1> DEFINE c == CHOOSE x \in s : TRUE
           q == s \ {c}
<1>3. c \in s /\ q \notin Bad /\ IsFiniteSet(s)
  BY <1>1, <1>2, FiniteSubset
<1>4. /\ SumFunctionOnSet(w, s) = w[c] + SumFunctionOnSet(w, q)
      /\ SumFunctionOnSet(v, s) = v[c] + SumFunctionOnSet(v, q)
  BY <1>2, <1>3, SumChoose, Zenon
<1>5. QED BY <1>3, <1>4

\* Larger weights have a larger sum.
LEMMA SumMonotone ==
  ASSUME NEW S, IsFiniteSet(S), NEW w, NEW v,
         \A x \in S : w[x] \in Int /\ v[x] \in Int /\ w[x] <= v[x]
  PROVE  SumFunctionOnSet(w, S) <= SumFunctionOnSet(v, S)
<1> DEFINE Bad == {s \in SUBSET S : ~ (SumFunctionOnSet(w, s) <= SumFunctionOnSet(v, s))}
<1> SUFFICES ASSUME Bad # {} PROVE FALSE
  OBVIOUS
<1>1. PICK s \in Bad : \A q \in Bad : q \subseteq s => q = s
  <2>1. Bad \subseteq SUBSET S OBVIOUS
  <2> HIDE DEF Bad
  <2>2. QED BY <2>1, FinMin
<1>2. s # {}
  BY SumEmpty
<1> DEFINE c == CHOOSE x \in s : TRUE
           q == s \ {c}
<1>3. c \in s /\ q \notin Bad /\ IsFiniteSet(s) /\ IsFiniteSet(q) /\ q \subseteq S
  BY <1>1, <1>2, FiniteSubset
<1>4. /\ SumFunctionOnSet(w, s) = w[c] + SumFunctionOnSet(w, q)
      /\ SumFunctionOnSet(v, s) = v[c] + SumFunctionOnSet(v, q)
  BY <1>2, <1>3, SumChoose, Zenon
<1>5. SumFunctionOnSet(w, q) \in Int /\ SumFunctionOnSet(v, q) \in Int
  BY <1>3, SumInt
<1>6. ~ (SumFunctionOnSet(w, s) <= SumFunctionOnSet(v, s))
  OBVIOUS
<1>7. SumFunctionOnSet(w, q) <= SumFunctionOnSet(v, q)
  BY <1>3
<1>8. w[c] \in Int /\ v[c] \in Int /\ w[c] <= v[c]
  BY <1>3
<1> HIDE DEF Bad, c, q
<1>9. QED BY <1>4, <1>5, <1>6, <1>7, <1>8

\* A sum of naturals is a natural.
LEMMA SumNat ==
  ASSUME NEW S, IsFiniteSet(S), NEW w, \A x \in S : w[x] \in Nat
  PROVE  SumFunctionOnSet(w, S) \in Nat
<1> DEFINE Bad == {s \in SUBSET S : SumFunctionOnSet(w, s) \notin Nat}
<1> SUFFICES ASSUME Bad # {} PROVE FALSE
  OBVIOUS
<1>1. PICK s \in Bad : \A q \in Bad : q \subseteq s => q = s
  <2>1. Bad \subseteq SUBSET S OBVIOUS
  <2> HIDE DEF Bad
  <2>2. QED BY <2>1, FinMin
<1>2. s # {}
  BY SumEmpty
<1> DEFINE c == CHOOSE x \in s : TRUE
           q == s \ {c}
<1>3. c \in s /\ q \notin Bad /\ IsFiniteSet(s)
  BY <1>1, <1>2, FiniteSubset
<1>4. SumFunctionOnSet(w, s) = w[c] + SumFunctionOnSet(w, q)
  BY <1>2, <1>3, SumChoose, Zenon
<1>5. QED BY <1>3, <1>4

-----------------------------------------------------------------------------
(* Sums of functions: what an assignment to one entry does to a ledger. *)

\* No natural entry exceeds its ledger's total, and the total is a natural.
LEMMA SumEntry ==
  ASSUME NEW S, IsFiniteSet(S), NEW w \in [S -> Nat], NEW x \in S
  PROVE  SumFunction(w) \in Nat /\ w[x] <= SumFunction(w)
<1>1. SumFunction(w) = SumFunctionOnSet(w, S)
  BY Zenon DEF SumFunction, SumFunctionOnSet, FoldFunction
<1>2. IsFiniteSet(S \ {x})
  BY FiniteSubset
<1>3. /\ SumFunctionOnSet(w, S) \in Nat
      /\ SumFunctionOnSet(w, S \ {x}) \in Nat
  BY <1>2, SumNat
<1>4. SumFunctionOnSet(w, S) = w[x] + SumFunctionOnSet(w, S \ {x})
  BY SumRemove
<1>5. QED BY <1>1, <1>3, <1>4

\* Two ledgers that differ in one entry differ by that entry.
LEMMA SumChange ==
  ASSUME NEW S, IsFiniteSet(S), NEW w \in [S -> Int], NEW v \in [S -> Int],
         NEW x \in S, \A y \in S \ {x} : w[y] = v[y]
  PROVE  SumFunction(v) = (SumFunction(w) - w[x]) + v[x]
<1>1. /\ SumFunction(w) = SumFunctionOnSet(w, S)
      /\ SumFunction(v) = SumFunctionOnSet(v, S)
  BY Zenon DEF SumFunction, SumFunctionOnSet, FoldFunction
<1>2. IsFiniteSet(S \ {x})
  BY FiniteSubset
<1>3. SumFunctionOnSet(w, S \ {x}) = SumFunctionOnSet(v, S \ {x})
  BY <1>2, SumSame
<1>4. SumFunctionOnSet(w, S \ {x}) \in Int
  BY <1>2, SumInt
<1>5. /\ SumFunctionOnSet(w, S) = w[x] + SumFunctionOnSet(w, S \ {x})
      /\ SumFunctionOnSet(v, S) = v[x] + SumFunctionOnSet(v, S \ {x})
  BY SumRemove
<1>6. QED BY <1>1, <1>3, <1>4, <1>5

\* Ledger v is ledger w with an entry for x more.
OneMore(v, w, x, S) ==
    /\ IsFiniteSet(S) /\ x \notin S
    /\ w \in [S -> Int] /\ v \in [S \cup {x} -> Int]
    /\ \A y \in S : w[y] = v[y]

\* A ledger with one entry more.
LEMMA SumExtend ==
  ASSUME NEW S, NEW x, NEW w, NEW v, OneMore(v, w, x, S)
  PROVE  SumFunction(v) = SumFunction(w) + v[x]
<1> DEFINE T == S \cup {x}
<1>1. /\ SumFunction(w) = SumFunctionOnSet(w, S)
      /\ SumFunction(v) = SumFunctionOnSet(v, T)
  BY Zenon DEF SumFunction, SumFunctionOnSet, FoldFunction, OneMore
<1>2. IsFiniteSet(T) /\ x \in T /\ \A y \in T : v[y] \in Int
  BY FiniteAdd, Zenon DEF OneMore
<1>3. T \ {x} = S
  BY DEF OneMore
<1> HIDE DEF T
<1>4. SumFunctionOnSet(v, T) = v[x] + SumFunctionOnSet(v, T \ {x})
  BY <1>2, SumRemove
<1>5. SumFunctionOnSet(v, T \ {x}) = SumFunctionOnSet(v, S)
  BY <1>3, Zenon
<1>6. /\ SumFunctionOnSet(v, S) = SumFunctionOnSet(w, S)
      /\ SumFunctionOnSet(w, S) \in Int /\ v[x] \in Int
  BY <1>2, SumSame, SumInt DEF OneMore
<1>7. QED BY <1>1, <1>4, <1>5, <1>6

\* A ledger of zeros sums to zero.
LEMMA SumZero ==
  ASSUME NEW S, IsFiniteSet(S), NEW w \in [S -> Int], \A x \in S : w[x] = 0
  PROVE  SumFunction(w) = 0
<1>1. SumFunction(w) = SumFunctionOnSet(w, S)
  BY Zenon DEF SumFunction, SumFunctionOnSet, FoldFunction
<1>2. SumFunctionOnSet(w, S) = 0
  <2> DEFINE Bad == {s \in SUBSET S : SumFunctionOnSet(w, s) # 0}
  <2> SUFFICES ASSUME Bad # {} PROVE FALSE
    OBVIOUS
  <2>1. PICK s \in Bad : \A q \in Bad : q \subseteq s => q = s
    <3>1. Bad \subseteq SUBSET S OBVIOUS
    <3> HIDE DEF Bad
    <3>2. QED BY <3>1, FinMin
  <2>2. s # {}
    BY SumEmpty
  <2> DEFINE c == CHOOSE x \in s : TRUE
             q == s \ {c}
  <2>3. c \in s /\ q \notin Bad /\ IsFiniteSet(s)
    BY <2>1, <2>2, FiniteSubset
  <2>4. SumFunctionOnSet(w, s) = w[c] + SumFunctionOnSet(w, q)
    BY <2>2, <2>3, SumChoose
  <2>5. QED BY <2>3, <2>4
<1>3. QED BY <1>1, <1>2

\* A prefix of a list of numbers, and the prefix with one number more.
LEMMA PrefixSum ==
    ASSUME NEW n \in Nat, NEW w, \A i \in 1..(n + 1) : w[i] \in Nat
    PROVE  /\ SumFunction([i \in 1..n |-> w[i]]) \in Nat
           /\ SumFunction([i \in 1..(n + 1) |-> w[i]])
                = SumFunction([i \in 1..n |-> w[i]]) + w[n + 1]
<1> DEFINE S == 1..n
           x == n + 1
           a == [i \in S |-> w[i]]
           b == [i \in 1..x |-> w[i]]
<1>1. IsFiniteSet(S) /\ x \notin S /\ 1..x = S \cup {x}
  BY FinUpTo
<1>2. a \in [S -> Int] /\ b \in [S \cup {x} -> Int] /\ \A i \in S : a[i] = b[i]
  BY <1>1
<1>3. b[x] = w[x]
  OBVIOUS
<1>4. SumFunction(a) \in Nat
  <2>1. SumFunction(a) = SumFunctionOnSet(a, S)
    BY Zenon DEF SumFunction, SumFunctionOnSet, FoldFunction
  <2>2. \A i \in S : a[i] \in Nat
    OBVIOUS
  <2> HIDE DEF a, S
  <2> QED
    BY <1>1, <2>1, <2>2, SumNat
<1>5. SumFunction(b) = SumFunction(a) + b[x]
  <2> HIDE DEF a, b, S, x
  <2>1. OneMore(b, a, x, S)
    BY <1>1, <1>2 DEF OneMore
  <2> QED
    BY <2>1, SumExtend
<1> QED
  BY <1>3, <1>4, <1>5

-----------------------------------------------------------------------------
(* Sequences. *)

\* A sequence is a function on its indices.
LEMMA SeqFunction ==
  ASSUME NEW S, NEW s \in Seq(S)
  PROVE  Len(s) \in Nat /\ DOMAIN s = 1..Len(s) /\ s \in [1..Len(s) -> S]
  OBVIOUS

\* A function on 1..n is a sequence.
LEMMA FunctionSeq ==
  ASSUME NEW S, NEW n \in Nat, NEW f \in [1..n -> S]
  PROVE  f \in Seq(S) /\ Len(f) = n
  OBVIOUS

\* Append keeps the elements and adds one.
LEMMA SeqAppend ==
  ASSUME NEW S, NEW s \in Seq(S), NEW x \in S
  PROVE  /\ Append(s, x) \in Seq(S)
         /\ Len(Append(s, x)) = Len(s) + 1
         /\ \A i \in 1..Len(s) : Append(s, x)[i] = s[i]
         /\ Append(s, x)[Len(s) + 1] = x
  OBVIOUS

\* The elements of a concatenation.
LEMMA SeqConcat ==
  ASSUME NEW S, NEW s \in Seq(S), NEW t \in Seq(S)
  PROVE  /\ s \o t \in Seq(S)
         /\ Len(s \o t) = Len(s) + Len(t)
         /\ \A i \in 1..(Len(s) + Len(t)) :
               (s \o t)[i] = IF i <= Len(s) THEN s[i] ELSE t[i - Len(s)]
  OBVIOUS

\* The first element and the others.
LEMMA SeqHeadTail ==
  ASSUME NEW S, NEW s \in Seq(S), s # <<>>
  PROVE  /\ Head(s) \in S /\ Head(s) = s[1]
         /\ Tail(s) \in Seq(S) /\ Len(Tail(s)) = Len(s) - 1
         /\ \A i \in 1..(Len(s) - 1) : Tail(s)[i] = s[i + 1]
  OBVIOUS

\* A function's sum is its sum over its domain.
LEMMA SumOnDomain ==
  ASSUME NEW S, NEW f, DOMAIN f = S
  PROVE  SumFunction(f) = SumFunctionOnSet(f, S)
  BY Zenon DEF SumFunction, SumFunctionOnSet, FoldFunction

-----------------------------------------------------------------------------
(* How many elements a finite set has. *)

\* g counts every subset of S, one element after the other.
Counts(S, g) ==
    g = [s \in SUBSET S |-> IF s = {} THEN 0 ELSE 1 + g[s \ {CHOOSE x : x \in s}]]

\* The number of elements is the value of that recursion at the whole set.
LEMMA CardinalityIsRecursive ==
  ASSUME NEW S
  PROVE  Cardinality(S) = (CHOOSE g : Counts(S, g))[S]
BY DEF Cardinality, Counts

\* It is a sum of ones.
LEMMA CardinalityIsSum ==
  ASSUME NEW S, IsFiniteSet(S)
  PROVE  Cardinality(S) = SumFunctionOnSet([x \in S |-> 1], S)
<1> DEFINE w == [x \in S |-> 1]
           c(s) == CHOOSE x : x \in s
           G == [s \in SUBSET S |-> SumFunctionOnSet(w, s)]
           F == [s \in SUBSET S |-> IF s = {} THEN 0 ELSE 1 + G[s \ {c(s)}]]
<1>1. ASSUME NEW s \in SUBSET S, s # {}
      PROVE  /\ c(s) \in s /\ s \ {c(s)} \in SUBSET S
             /\ SumFunctionOnSet(w, s) = 1 + SumFunctionOnSet(w, s \ {c(s)})
  <2>1. c(s) \in s
    BY <1>1, Zenon
  <2>2. IsFiniteSet(s) /\ s \ {c(s)} \in SUBSET S
    BY FiniteSubset
  <2>3. w[c(s)] = 1 /\ \A x \in s : w[x] \in Int
    BY <2>1
  <2> HIDE DEF w, c
  <2>4. SumFunctionOnSet(w, s) = w[c(s)] + SumFunctionOnSet(w, s \ {c(s)})
    BY <2>1, <2>2, <2>3, SumRemove
  <2> QED
    BY <2>1, <2>2, <2>3, <2>4
<1>2. Counts(S, G)
  <2>1. ASSUME NEW s \in SUBSET S PROVE F[s] = G[s]
    <3>1. CASE s = {}
      <4>1. G[s] = 0
        BY <3>1, SumEmpty, Zenon
      <4> QED
        BY <3>1, <4>1, Zenon
    <3>2. CASE s # {}
      <4>1. G[s] = 1 + G[s \ {c(s)}]
        BY <1>1, <3>2, Zenon
      <4> QED
        BY <3>2, <4>1, Zenon
    <3> QED
      BY <3>1, <3>2
  <2>2. DOMAIN G = SUBSET S /\ DOMAIN F = SUBSET S
    BY Zenon
  <2>3. G = [s \in SUBSET S |-> G[s]]
    <3> HIDE DEF w
    <3> QED
      OBVIOUS
  <2>4. G = F
    <3> HIDE DEF G
    <3> QED
      BY <2>1, <2>2, <2>3, Zenon
  <2> QED
    BY <2>4, Zenon DEF Counts
<1>3. ASSUME NEW g, Counts(S, g) PROVE g[S] = G[S]
  <2> DEFINE Bad == {s \in SUBSET S : g[s] # G[s]}
  <2> SUFFICES ASSUME Bad # {} PROVE FALSE
    BY Zenon
  <2>1. PICK s \in Bad : \A q \in Bad : q \subseteq s => q = s
    <3>1. Bad \subseteq SUBSET S
      OBVIOUS
    <3> HIDE DEF Bad
    <3> QED
      BY <3>1, FinMin
  <2>2. s \in SUBSET S /\ g[s] # G[s]
    BY <2>1, Zenon
  <2>3. s # {}
    <3> HIDE DEF G
    <3> QED
      BY <1>2, <1>3, <2>2, Zenon DEF Counts
  <2>4. s \ {c(s)} \in SUBSET S /\ s \ {c(s)} \subseteq s /\ s \ {c(s)} # s
    <3>1. c(s) \in s
      BY <2>3, Zenon
    <3> HIDE DEF c
    <3> QED
      BY <2>2, <3>1
  <2>5. g[s \ {c(s)}] = G[s \ {c(s)}]
    BY <2>1, <2>4, Zenon
  <2>6. g[s] = 1 + g[s \ {c(s)}] /\ G[s] = 1 + G[s \ {c(s)}]
    <3> HIDE DEF G
    <3> QED
      BY <1>2, <1>3, <2>2, <2>3, Zenon DEF Counts
  <2> QED
    BY <2>2, <2>5, <2>6, Zenon
<1>4. Counts(S, CHOOSE g : Counts(S, g))
  <2> HIDE DEF G
  <2> QED
    BY <1>2, Zenon
<1>5. G[S] = SumFunctionOnSet(w, S)
  <2> HIDE DEF w
  <2> QED
    BY Zenon
<1> HIDE DEF G
<1> QED
  BY <1>3, <1>4, <1>5, CardinalityIsRecursive, Zenon

\* The number of elements is a natural number, and one more element adds one.
LEMMA CardinalityNat ==
  ASSUME NEW S, IsFiniteSet(S)
  PROVE  Cardinality(S) \in Nat
<1> DEFINE w == [x \in S |-> 1]
<1>1. \A x \in S : w[x] \in Nat
  OBVIOUS
<1>2. Cardinality(S) = SumFunctionOnSet(w, S)
  BY CardinalityIsSum, Zenon
<1> HIDE DEF w
<1> QED
  BY <1>1, <1>2, SumNat

\* An element more.
LEMMA CardinalityAdd ==
  ASSUME NEW S, IsFiniteSet(S), NEW x, x \notin S
  PROVE  Cardinality(S \cup {x}) = Cardinality(S) + 1
<1> DEFINE T == S \cup {x}
           v == [y \in T |-> 1]
           w == [y \in S |-> 1]
<1>1. IsFiniteSet(T)
  BY FiniteAdd, Zenon
<1>2. OneMore(v, w, x, S) /\ v[x] = 1
  BY DEF OneMore
<1>3. DOMAIN v = T /\ DOMAIN w = S
  OBVIOUS
<1>4. /\ Cardinality(T) = SumFunctionOnSet(v, T)
      /\ Cardinality(S) = SumFunctionOnSet(w, S)
  BY <1>1, CardinalityIsSum, Zenon
<1> HIDE DEF v, w
<1>5. /\ SumFunction(v) = SumFunctionOnSet(v, T)
      /\ SumFunction(w) = SumFunctionOnSet(w, S)
  BY <1>3, SumOnDomain, Zenon
<1> HIDE DEF T
<1>6. SumFunction(v) = SumFunction(w) + v[x]
  BY <1>2, SumExtend
<1>7. Cardinality(T) = Cardinality(S) + 1
  BY <1>2, <1>4, <1>5, <1>6, Zenon
<1> QED
  BY <1>7, Zenon DEF T

-----------------------------------------------------------------------------
(* Sums of sums. *)

\* On the set S, u is k times w, and v.
Linear(u, k, w, v, S) ==
    /\ IsFiniteSet(S) /\ k \in Int
    /\ \A x \in S : w[x] \in Int /\ v[x] \in Int /\ u[x] = k * w[x] + v[x]

\* Sums are linear.
LEMMA SumLinear ==
  ASSUME NEW S, NEW k, NEW w, NEW v, NEW u, Linear(u, k, w, v, S)
  PROVE  SumFunctionOnSet(u, S) = k * SumFunctionOnSet(w, S) + SumFunctionOnSet(v, S)
<1> USE DEF Linear
<1> DEFINE Bad == {s \in SUBSET S : SumFunctionOnSet(u, s)
                     # k * SumFunctionOnSet(w, s) + SumFunctionOnSet(v, s)}
<1> SUFFICES ASSUME Bad # {} PROVE FALSE
  OBVIOUS
<1>1. PICK s \in Bad : \A q \in Bad : q \subseteq s => q = s
  <2>1. Bad \subseteq SUBSET S OBVIOUS
  <2> HIDE DEF Bad
  <2>2. QED BY <2>1, FinMin
<1>2. s # {}
  BY SumEmpty
<1> DEFINE c == CHOOSE x \in s : TRUE
           q == s \ {c}
<1>3. c \in s /\ q \notin Bad /\ IsFiniteSet(s) /\ IsFiniteSet(q) /\ q \subseteq S
  BY <1>1, <1>2, FiniteSubset
<1>4. /\ SumFunctionOnSet(w, s) = w[c] + SumFunctionOnSet(w, q)
      /\ SumFunctionOnSet(v, s) = v[c] + SumFunctionOnSet(v, q)
      /\ SumFunctionOnSet(u, s) = u[c] + SumFunctionOnSet(u, q)
  BY <1>2, <1>3, SumChoose, Zenon
<1>5. SumFunctionOnSet(w, q) \in Int /\ SumFunctionOnSet(v, q) \in Int
  BY <1>3, SumInt
<1>6. SumFunctionOnSet(u, s) # k * SumFunctionOnSet(w, s) + SumFunctionOnSet(v, s)
  OBVIOUS
<1>7. SumFunctionOnSet(u, q) = k * SumFunctionOnSet(w, q) + SumFunctionOnSet(v, q)
  BY <1>3
<1>8. w[c] \in Int /\ v[c] \in Int /\ u[c] = k * w[c] + v[c]
  BY <1>3
<1> HIDE DEF Bad, c, q
<1>9. k * SumFunctionOnSet(w, s) = k * w[c] + k * SumFunctionOnSet(w, q)
  BY <1>4, <1>5, <1>8
<1>10. QED BY <1>4, <1>5, <1>6, <1>7, <1>8, <1>9

\* Entries that are zero can be left out of a sum.
LEMMA SumRestrict ==
  ASSUME NEW S, IsFiniteSet(S), NEW T, T \subseteq S, NEW w,
         \A x \in S : w[x] \in Int, \A x \in S \ T : w[x] = 0
  PROVE  SumFunctionOnSet(w, S) = SumFunctionOnSet(w, T)
<1> DEFINE Bad == {s \in SUBSET S : SumFunctionOnSet(w, s) # SumFunctionOnSet(w, s \cap T)}
<1>0. S \cap T = T
  OBVIOUS
<1> SUFFICES ASSUME Bad # {} PROVE FALSE
  BY <1>0
<1>1. PICK s \in Bad : \A q \in Bad : q \subseteq s => q = s
  <2>1. Bad \subseteq SUBSET S OBVIOUS
  <2> HIDE DEF Bad
  <2>2. QED BY <2>1, FinMin
<1>2. s # {}
  <2>1. {} \cap T = {}
    OBVIOUS
  <2> QED BY <2>1
<1> DEFINE c == CHOOSE x \in s : TRUE
           q == s \ {c}
           r == s \cap T
<1>3. c \in s /\ q \notin Bad /\ IsFiniteSet(s) /\ IsFiniteSet(q) /\ q \subseteq S
      /\ IsFiniteSet(r)
  BY <1>1, <1>2, FiniteSubset
<1>4. SumFunctionOnSet(w, s) = w[c] + SumFunctionOnSet(w, q)
  BY <1>2, <1>3, SumChoose, Zenon
<1>5. SumFunctionOnSet(w, q) = SumFunctionOnSet(w, q \cap T)
  BY <1>3
<1>6. CASE c \in T
  <2>1. q \cap T = r \ {c} /\ c \in r /\ \A x \in r : w[x] \in Int
    BY <1>3, <1>6
  <2>2. SumFunctionOnSet(w, r) = w[c] + SumFunctionOnSet(w, r \ {c})
    <3>1. IsFiniteSet(r)
      BY <1>3
    <3> HIDE DEF Bad, c, q, r
    <3> QED
      BY <2>1, <3>1, SumRemove
  <2>3. SumFunctionOnSet(w, s) = SumFunctionOnSet(w, r)
    <3> HIDE DEF Bad, c, q, r
    <3> QED
      BY <1>4, <1>5, <2>1, <2>2
  <2> QED
    BY <2>3
<1>7. CASE c \notin T
  <2>1. q \cap T = r /\ w[c] = 0
    BY <1>3, <1>7, Zenon
  <2>2. SumFunctionOnSet(w, q) \in Int
    BY <1>3, SumInt
  <2>3. SumFunctionOnSet(w, s) = SumFunctionOnSet(w, q)
    BY <1>4, <2>1, <2>2
  <2> QED
    BY <1>5, <2>1, <2>3
<1> QED BY <1>6, <1>7

\* A table of integers, the sums of its rows and of its columns.
Table(m, S, T) ==
    IsFiniteSet(S) /\ IsFiniteSet(T) /\ \A x \in S : \A y \in T : m[x][y] \in Int

RowSums(m, S, T)    == [x \in S |-> SumFunctionOnSet(m[x], T)]
ColumnSums(m, S, T) == [y \in T |-> SumFunctionOnSet([x \in S |-> m[x][y]], S)]

\* The entries of a table can be summed by rows or by columns.
LEMMA SumSwap ==
  ASSUME NEW S, NEW T, NEW m, Table(m, S, T)
  PROVE  SumFunctionOnSet(RowSums(m, S, T), S) = SumFunctionOnSet(ColumnSums(m, S, T), T)
<1> USE DEF Table, RowSums, ColumnSums
<1> DEFINE rows == [x \in S |-> SumFunctionOnSet(m[x], T)]
           col(y) == [x \in S |-> m[x][y]]
           cols(s) == [y \in T |-> SumFunctionOnSet(col(y), s)]
           Bad == {s \in SUBSET S : SumFunctionOnSet(rows, s) # SumFunctionOnSet(cols(s), T)}
<1> SUFFICES ASSUME Bad # {} PROVE FALSE
  BY Zenon
<1>1. PICK s \in Bad : \A q \in Bad : q \subseteq s => q = s
  <2>1. Bad \subseteq SUBSET S OBVIOUS
  <2> HIDE DEF Bad
  <2>2. QED BY <2>1, FinMin
<1>2. s # {}
  <2>1. \A y \in T : cols({})[y] = 0
    BY SumEmpty
  <2>2. cols({}) \in [T -> Int] /\ DOMAIN cols({}) = T
    BY <2>1
  <2> HIDE DEF cols
  <2>3. SumFunctionOnSet(cols({}), T) = 0
    BY <2>1, <2>2, SumZero, SumOnDomain
  <2> QED BY <2>3, SumEmpty
<1> DEFINE c == CHOOSE x \in s : TRUE
           q == s \ {c}
<1>3. c \in s /\ q \notin Bad /\ IsFiniteSet(s) /\ IsFiniteSet(q) /\ q \subseteq S
  BY <1>1, <1>2, FiniteSubset
<1>4. SumFunctionOnSet(rows, s) = rows[c] + SumFunctionOnSet(rows, q)
  <2> HIDE DEF rows
  <2> QED BY <1>2, <1>3, SumChoose, Zenon
<1>5. rows[c] = SumFunctionOnSet(m[c], T)
  BY <1>3
<1>6. ASSUME NEW y \in T
      PROVE  /\ cols(s)[y] = m[c][y] + cols(q)[y]
             /\ m[c][y] \in Int /\ cols(q)[y] \in Int
  <2>1. \A x \in s : col(y)[x] \in Int
    OBVIOUS
  <2>2. col(y)[c] = m[c][y]
    BY <1>3
  <2> HIDE DEF col
  <2>3. SumFunctionOnSet(col(y), s) = col(y)[c] + SumFunctionOnSet(col(y), q)
    BY <1>2, <1>3, SumChoose, Zenon
  <2>4. SumFunctionOnSet(col(y), q) \in Int
    BY <1>3, <2>1, SumInt
  <2> QED
    BY <1>3, <2>1, <2>2, <2>3, <2>4
<1> HIDE DEF cols
<1>7. \A y \in T : /\ m[c][y] \in Int /\ cols(q)[y] \in Int
                   /\ cols(s)[y] = 1 * m[c][y] + cols(q)[y]
  <2> HIDE DEF c, q, Bad, rows
  <2> QED BY <1>6
<1>8. SumFunctionOnSet(cols(s), T) = 1 * SumFunctionOnSet(m[c], T) + SumFunctionOnSet(cols(q), T)
  <2> HIDE DEF c, q
  <2>1. Linear(cols(s), 1, m[c], cols(q), T)
    BY <1>7 DEF Linear
  <2> QED BY <2>1, SumLinear
<1>9. SumFunctionOnSet(m[c], T) \in Int /\ SumFunctionOnSet(cols(q), T) \in Int
  <2> HIDE DEF c, q
  <2> QED BY <1>7, SumInt
<1>10. SumFunctionOnSet(rows, q) = SumFunctionOnSet(cols(q), T)
  BY <1>3
<1>11. SumFunctionOnSet(rows, s) # SumFunctionOnSet(cols(s), T)
  OBVIOUS
<1> HIDE DEF Bad, c, q, rows
<1>12. QED BY <1>4, <1>5, <1>8, <1>9, <1>10, <1>11
=============================================================================
