---------------------------- MODULE VenearProofs ----------------------------
(***************************************************************************)
(* The veNEAR contract for every value of its constants: the total supply  *)
(* is the sum of what the accounts may vote with, and what is delegated to *)
(* an account is the sum of its delegators' shares.                        *)
(***************************************************************************)
EXTENDS LockupProofs, SumTheorems

\* Sums inside the veNEAR module are the sums of SumTheorems.
LEMMA SumInVenear ==
  ASSUME NEW f
  PROVE  V!SumFunction(f) = SumFunction(f)
  BY Zenon DEF V!SumFunction, SumFunction, V!SumFunctionOnSet, SumFunctionOnSet,
     V!FoldFunctionOnSet, FoldFunctionOnSet, V!MapThenFoldSet, MapThenFoldSet

-----------------------------------------------------------------------------
(* The delegated pools. *)

PartsTo(T, x)  == [d \in DOMAIN T |-> Part(T[d], x)]
SharesTo(T, x) == [d \in DOMAIN T |-> Share(T[d], x)]

\* The accounts of a tree, none of which delegates to itself.
TreeType(T) ==
    /\ IsFiniteSet(DOMAIN T)
    /\ \A x \in DOMAIN T : T[x] \in Account(DOMAIN T) /\ x \notin DOMAIN T[x].delegations

\* The pools hold the parts and shares of every account.
PoolsAgree(T) ==
    \A x \in DOMAIN T :
        /\ T[x].delegated_balance.near_balance = MILLI * SumFunction(PartsTo(T, x))
        /\ DelegatedOrigin(T[x]) = SumFunction(SharesTo(T, x))

\* From T to U only the account o changes what it contributes, and the pools
\* change by just that.
OnlyMoves(T, U, o) ==
    /\ DOMAIN U = DOMAIN T
    /\ \A x \in DOMAIN T \ {o} : SameProfile(U[x], T[x])
    /\ \A x \in DOMAIN T :
         /\ U[x].delegated_balance.near_balance
              = (T[x].delegated_balance.near_balance - MILLI * Part(T[o], x))
                + MILLI * Part(U[o], x)
         /\ DelegatedOrigin(U[x])
              = (DelegatedOrigin(T[x]) - Share(T[o], x)) + Share(U[o], x)

\* What the accounts of a tree contribute are integers.
LEMMA PartsType ==
  ASSUME NEW T, TreeType(T), NEW x
  PROVE  /\ PartsTo(T, x) \in [DOMAIN T -> Int] /\ SharesTo(T, x) \in [DOMAIN T -> Int]
         /\ SumFunction(PartsTo(T, x)) \in Int /\ SumFunction(SharesTo(T, x)) \in Int
<1> DEFINE D == DOMAIN T
           p == PartsTo(T, x)
           s == SharesTo(T, x)
<1>1. \A d \in D : Part(T[d], x) \in Int /\ Share(T[d], x) \in Int
  <2> TAKE d \in D
  <2>1. T[d] \in Account(D)
    BY DEF TreeType
  <2> QED
    BY <2>1, ContributionOf
<1>2. p \in [D -> Int] /\ s \in [D -> Int]
  BY <1>1 DEF PartsTo, SharesTo
<1>3. IsFiniteSet(D)
  BY DEF TreeType
<1> HIDE DEF p, s, D
<1>4. SumFunction(p) = SumFunctionOnSet(p, D) /\ SumFunction(s) = SumFunctionOnSet(s, D)
  BY <1>2, SumOnDomain
<1>5. SumFunctionOnSet(p, D) \in Int /\ SumFunctionOnSet(s, D) \in Int
  BY <1>2, <1>3, SumInt
<1> QED
  BY <1>2, <1>4, <1>5 DEF p, s, D

\* The pools still agree when one account moves its contributions.
LEMMA PoolsMove ==
  ASSUME NEW T, NEW U, NEW o \in DOMAIN T, TreeType(T), TreeType(U), PoolsAgree(T),
         OnlyMoves(T, U, o)
  PROVE  PoolsAgree(U)
<1> DEFINE D == DOMAIN T
<1>1. DOMAIN U = D /\ IsFiniteSet(D)
  BY DEF OnlyMoves, TreeType
<1> SUFFICES ASSUME NEW x \in D
             PROVE  /\ U[x].delegated_balance.near_balance = MILLI * SumFunction(PartsTo(U, x))
                    /\ DelegatedOrigin(U[x]) = SumFunction(SharesTo(U, x))
  BY <1>1, Zenon DEF PoolsAgree
<1> DEFINE p == PartsTo(T, x)
           q == PartsTo(U, x)
           s == SharesTo(T, x)
           t == SharesTo(U, x)
           P == SumFunction(p)
           Q == SumFunction(q)
<1>2. /\ p \in [D -> Int] /\ s \in [D -> Int] /\ P \in Int /\ SumFunction(s) \in Int
      /\ q \in [D -> Int] /\ t \in [D -> Int] /\ Q \in Int /\ SumFunction(t) \in Int
  BY <1>1, PartsType
<1>3. /\ p[o] = Part(T[o], x) /\ s[o] = Share(T[o], x)
      /\ q[o] = Part(U[o], x) /\ t[o] = Share(U[o], x)
  BY <1>1 DEF PartsTo, SharesTo
<1>4. \A y \in D \ {o} : p[y] = q[y] /\ s[y] = t[y]
  <2> TAKE y \in D \ {o}
  <2>1. SameProfile(U[y], T[y])
    BY DEF OnlyMoves
  <2>2. Part(U[y], x) = Part(T[y], x) /\ Share(U[y], x) = Share(T[y], x)
    BY <2>1, SameContributions
  <2> QED
    BY <1>1, <2>2, Zenon DEF PartsTo, SharesTo
<1>5. /\ T[x].delegated_balance.near_balance = MILLI * P
      /\ DelegatedOrigin(T[x]) = SumFunction(s)
  BY Zenon DEF PoolsAgree
<1>6. /\ U[x].delegated_balance.near_balance = (MILLI * P - MILLI * p[o]) + MILLI * q[o]
      /\ DelegatedOrigin(U[x]) = (SumFunction(s) - s[o]) + t[o]
  BY <1>3, <1>5, Zenon DEF OnlyMoves
<1> HIDE DEF p, q, s, t, D
<1>7. Q = (P - p[o]) + q[o] /\ SumFunction(t) = (SumFunction(s) - s[o]) + t[o]
  <2>1. o \in D
    BY DEF D
  <2> QED
    BY <1>1, <1>2, <1>4, <2>1, SumChange
<1>8. MILLI * Q = (MILLI * P - MILLI * p[o]) + MILLI * q[o]
  <2>1. p[o] \in Int /\ q[o] \in Int /\ o \in D
    BY <1>2 DEF D
  <2> HIDE DEF P, Q
  <2> QED
    BY <1>2, <1>7, <2>1, VenearAssumption
<1> QED
  BY <1>6, <1>7, <1>8 DEF p, q, s, t

\* The pools agree after an account o has taken back its old contributions and
\* made new ones: the common part of set_delegations and internal_lockup_update.
LEMMA PoolsRecredited ==
  ASSUME now \in Nat, NEW T, NEW o \in DOMAIN T, TreeType(T), PoolsAgree(T),
         NEW old, old = V!Updated(T[o]),
         NEW new_ \in Account(DOMAIN T), new_.update_timestamp = Today,
         new_.delegated_balance = old.delegated_balance, o \notin DOMAIN new_.delegations,
         NEW U, U = [V!Credit(V!Credit(T, old.balance, old.delegations, -1),
                              new_.balance, new_.delegations, 1) EXCEPT ![o] = new_]
  PROVE  /\ DOMAIN U = DOMAIN T /\ U[o] = new_ /\ TreeType(U) /\ PoolsAgree(U)
         /\ \A x \in DOMAIN T \ {o} : SameProfile(U[x], T[x])
<1> DEFINE D == DOMAIN T
           C == V!Credit(T, old.balance, old.delegations, -1)
           E == V!Credit(C, new_.balance, new_.delegations, 1)
<1>1. T[o] \in Account(D) /\ o \notin DOMAIN T[o].delegations /\ IsFiniteSet(D)
  BY DEF TreeType
<1>2. /\ old \in Account(D) /\ old.update_timestamp = Today /\ SameProfile(old, T[o])
      /\ old.delegated_balance.near_balance = T[o].delegated_balance.near_balance
      /\ DelegatedOrigin(old) = DelegatedOrigin(T[o]) /\ old.delegations = T[o].delegations
  BY <1>1, UpdatedAccount DEF SameProfile
<1>3. DOMAIN C = D /\ DOMAIN E = D /\ DOMAIN U = D /\ U[o] = new_
      /\ \A x \in D \ {o} : U[x] = E[x]
  BY Zenon DEF V!Credit
<1>4. \A x \in D : /\ C[x] = IF x \notin DOMAIN old.delegations THEN T[x]
                     ELSE CreditOf(T[x], V!delegation_contribution(old.balance,
                                                    old.delegations[x]), -1)
                   /\ E[x] = IF x \notin DOMAIN new_.delegations THEN C[x]
                     ELSE CreditOf(C[x], V!delegation_contribution(new_.balance,
                                                    new_.delegations[x]), 1)
  BY <1>3, Zenon DEF V!Credit, CreditOf
<1> HIDE DEF C, E
<1>5. ASSUME NEW x \in D
      PROVE  /\ E[x] \in Account(D) /\ SameProfile(E[x], T[x])
             /\ E[x].delegated_balance.near_balance
                  = (T[x].delegated_balance.near_balance - MILLI * Part(T[o], x))
                    + MILLI * Part(new_, x)
             /\ DelegatedOrigin(E[x])
                  = (DelegatedOrigin(T[x]) - Share(T[o], x)) + Share(new_, x)
  <2> DEFINE p == Part(T[o], x)
             s == Share(T[o], x)
             q == Part(new_, x)
             t == Share(new_, x)
  <2>1. T[x] \in Account(D)
    BY DEF TreeType
  <2>2. -1 \in {1, -1} /\ 1 \in {1, -1}
    OBVIOUS
  <2>3. Part(old, x) = p /\ Share(old, x) = s
    BY <1>2, SameContributions
  <2>4. C[x] \in Account(D) /\ Moved(C[x], T[x], (-1) * Part(old, x), (-1) * Share(old, x))
    BY <1>2, <1>4, <2>1, <2>2, CreditTo
  <2>5. E[x] \in Account(D) /\ Moved(E[x], C[x], 1 * q, 1 * t)
    BY <1>4, <2>2, <2>4, CreditTo
  <2>6. p \in Int /\ s \in Int /\ q \in Int /\ t \in Int
    BY <1>1, ContributionOf
  <2> HIDE DEF p, q, s, t
  <2>7. (-1) * p = -p /\ (-1) * s = -s /\ 1 * q = q /\ 1 * t = t /\ -p \in Int /\ -s \in Int
    BY <2>6
  <2>8. Moved(C[x], T[x], -p, -s) /\ Moved(E[x], C[x], q, t)
    BY <2>3, <2>4, <2>5, <2>7
  <2>9. SameProfile(E[x], T[x])
    BY <2>8, Zenon DEF Moved, SameProfile
  <2> DEFINE m == T[x].delegated_balance.near_balance
             e == DelegatedOrigin(T[x])
  <2>10. m \in Int /\ e \in Int
    BY <2>1, PoolType
  <2>11. /\ E[x].delegated_balance.near_balance = (m + MILLI * (-p)) + MILLI * q
         /\ DelegatedOrigin(E[x]) = (e + (-s)) + t
    BY <2>8, Zenon DEF Moved
  <2> HIDE DEF m, e
  <2>12. (m + MILLI * (-p)) = m - MILLI * p /\ e + (-s) = e - s
    BY <2>6, <2>10, VenearAssumption
  <2> QED
    BY <2>5, <2>9, <2>11, <2>12, Zenon DEF p, q, s, t, m, e
<1>6. /\ U[o] = new_
      /\ \A x \in D \ {o} : SameProfile(U[x], T[x]) /\ U[x] \in Account(D)
  BY <1>3, <1>5, Zenon
<1>7. ASSUME NEW x \in D
      PROVE  U[x] \in Account(D) /\ x \notin DOMAIN U[x].delegations
  <2>1. CASE x = o
    BY <1>3, <2>1, Zenon
  <2>2. CASE x # o
    <3>1. SameProfile(U[x], T[x]) /\ U[x] \in Account(D)
      BY <1>6, <2>2
    <3>2. x \notin DOMAIN T[x].delegations
      BY DEF TreeType
    <3> QED
      BY <3>1, <3>2, Zenon DEF SameProfile
  <2> QED
    BY <2>1, <2>2
<1>8. TreeType(U)
  BY <1>1, <1>3, <1>7, Zenon DEF TreeType
<1>9. OnlyMoves(T, U, o)
  <2>1. ASSUME NEW x \in D
        PROVE  /\ U[x].delegated_balance.near_balance
                    = (T[x].delegated_balance.near_balance - MILLI * Part(T[o], x))
                      + MILLI * Part(U[o], x)
               /\ DelegatedOrigin(U[x])
                    = (DelegatedOrigin(T[x]) - Share(T[o], x)) + Share(U[o], x)
    <3>1. CASE x # o
      BY <1>3, <1>5, <3>1, Zenon
    <3>2. CASE x = o
      <4>1. Part(T[o], x) = 0 /\ Share(T[o], x) = 0 /\ Part(new_, x) = 0 /\ Share(new_, x) = 0
        BY <1>1, <3>2, ContributionOf
      <4>2. /\ U[x].delegated_balance.near_balance = T[x].delegated_balance.near_balance
            /\ DelegatedOrigin(U[x]) = DelegatedOrigin(T[x])
        BY <1>2, <1>3, <3>2, Zenon DEF DelegatedOrigin
      <4>3. T[x].delegated_balance.near_balance \in Int /\ DelegatedOrigin(T[x]) \in Int
        BY <1>1, <3>2, PoolType
      <4>4. /\ \A i \in Int : i = (i - 0) + 0
            /\ MILLI * 0 = 0
        BY VenearAssumption
      <4> QED
        BY <1>3, <4>1, <4>2, <4>3, <4>4, Zenon
    <3> QED
      BY <3>1, <3>2, Zenon
  <2> QED
    BY <1>3, <1>6, <2>1, Zenon DEF OnlyMoves
<1> QED
  BY <1>3, <1>6, <1>8, <1>9, PoolsMove

-----------------------------------------------------------------------------
(* The total. *)

\* What is left of an amount below a milliNEAR; it counts as extra balance.
Rest(n) == n - MILLI * Whole(n)

\* What an account is in the total: milliNEAR, and extra balance at time 0.
PooledWhole(r) == Whole(r.balance.near_balance)
PooledExtra(r) == Origin(r) + Rest(r.balance.near_balance)

Wholes(T) == [d \in DOMAIN T |-> PooledWhole(T[d])]
Extras(T) == [d \in DOMAIN T |-> PooledExtra(T[d])]

\* The total of a global state is the sum over the accounts of a tree.
TotalAgrees(T, g) ==
    /\ g.update_timestamp \in Times
    /\ g.total_venear_balance
         = V!Balance(MILLI * SumFunction(Wholes(T)),
                     SumFunction(Extras(T))
                     + Grown(g.update_timestamp) * SumFunction(Wholes(T)))

\* What an account is in the total are integers, and they depend on its near
\* balance and its origin only.
LEMMA PooledType ==
  ASSUME NEW D, NEW r \in Account(D)
  PROVE  PooledWhole(r) \in Int /\ PooledExtra(r) \in Int
<1>1. r.balance.near_balance \in Nat /\ Origin(r) \in Int
      /\ Whole(r.balance.near_balance) \in Nat
  BY ContributionOf DEF Account, Balances
<1> QED
  BY <1>1, VenearAssumption DEF PooledWhole, PooledExtra, Rest

\* The sums are of integers.
LEMMA TotalsType ==
  ASSUME NEW T, TreeType(T)
  PROVE  /\ Wholes(T) \in [DOMAIN T -> Int] /\ Extras(T) \in [DOMAIN T -> Int]
         /\ SumFunction(Wholes(T)) \in Int /\ SumFunction(Extras(T)) \in Int
<1> DEFINE D == DOMAIN T
           p == Wholes(T)
           s == Extras(T)
<1>1. \A d \in D : PooledWhole(T[d]) \in Int /\ PooledExtra(T[d]) \in Int
  <2> TAKE d \in D
  <2>1. T[d] \in Account(D)
    BY DEF TreeType
  <2> QED
    BY <2>1, PooledType
<1>2. p \in [D -> Int] /\ s \in [D -> Int]
  BY <1>1 DEF Wholes, Extras
<1>3. IsFiniteSet(D)
  BY DEF TreeType
<1> HIDE DEF p, s, D
<1>4. SumFunction(p) = SumFunctionOnSet(p, D) /\ SumFunction(s) = SumFunctionOnSet(s, D)
  BY <1>2, SumOnDomain
<1>5. SumFunctionOnSet(p, D) \in Int /\ SumFunctionOnSet(s, D) \in Int
  BY <1>2, <1>3, SumInt
<1> QED
  BY <1>2, <1>4, <1>5 DEF p, s, D

\* The global state brought up to date.
LEMMA GlobalUpdatedIs ==
  ASSUME now \in Nat, NEW T, TreeType(T), TotalAgrees(T, global_state)
  PROVE  V!GlobalUpdated
         = [update_timestamp |-> Today,
            total_venear_balance |-> Shared(SumFunction(Wholes(T)), SumFunction(Extras(T)))]
<1> DEFINE w == SumFunction(Wholes(T))
           x == SumFunction(Extras(T))
           f == global_state.update_timestamp
           g == Grown(f)
           h == Grown(Today)
<1>1. w \in Int /\ x \in Int
  BY TotalsType
<1>2. f \in Times /\ global_state.total_venear_balance = V!Balance(MILLI * w, x + g * w)
  BY DEF TotalAgrees
<1>3. Today \in Times
  BY TodayIsTime
<1> HIDE DEF w, x, f
<1>4. MILLI * w \in Int /\ Whole(MILLI * w) = w
  <2>1. MILLI * w \in Int /\ MILLI * w <= MILLI * w /\ MILLI * w < MILLI * w + MILLI
    BY <1>1, VenearAssumption
  <2> QED
    BY <1>1, <2>1, DivUnique, VenearAssumption DEF Whole
<1>5. g \in Int /\ h \in Int /\ V!calculate(f, Today, MILLI * w) = (h - g) * w
  BY <1>2, <1>3, <1>4, Growth
<1>6. V!GlobalUpdated = [update_timestamp |-> Today, total_venear_balance |->
        V!Balance(MILLI * w, (x + g * w) + V!calculate(f, Today, MILLI * w))]
  BY <1>2 DEF V!GlobalUpdated, V!Grow, V!Balance, Today, f
<1> HIDE DEF g, h
<1>7. (x + g * w) + (h - g) * w = x + h * w
  BY <1>1, <1>5
<1>8. V!GlobalUpdated = [update_timestamp |-> Today, total_venear_balance |->
        V!Balance(MILLI * w, x + h * w)]
  BY <1>5, <1>6, <1>7, Zenon
<1> QED
  BY <1>8, Zenon DEF Shared, w, x, h

\* The balance of an account that is up to date, in the total.
LEMMA PooledIs ==
  ASSUME NEW D, NEW r \in Account(D), r.update_timestamp = Today
  PROVE  V!Pooled(r.balance) = Shared(PooledWhole(r), PooledExtra(r))
<1> DEFINE n == r.balance.near_balance
           e == r.balance.extra_venear_balance
           w == Whole(n)
           g == Grown(Today)
           gw == g * w
           mw == MILLI * w
<1>1. n \in Nat /\ e \in Int /\ Today \in Times
  BY DEF Account, Balances
<1>2. w \in Int /\ g \in Int /\ V!truncate_near_to_millis(n) = mw
  BY <1>1, Truncation, Growth
<1>3. Origin(r) = e - gw /\ Rest(n) = n - mw
  BY DEF Origin, Rest
<1>4. V!Pooled(r.balance) = V!Balance(mw, e + (n - mw))
  BY <1>2 DEF V!Pooled
<1>5. Shared(PooledWhole(r), PooledExtra(r)) = V!Balance(mw, ((e - gw) + (n - mw)) + gw)
  BY <1>3, Zenon DEF Shared, PooledWhole, PooledExtra
<1> HIDE DEF n, e, w, g
<1>6. gw \in Int /\ mw \in Int
  BY <1>2, VenearAssumption
<1> HIDE DEF gw, mw
<1>7. ((e - gw) + (n - mw)) + gw = e + (n - mw)
  BY <1>1, <1>6
<1> QED
  BY <1>4, <1>5, <1>7, Zenon

\* Sums and differences of what is shared out.
LEMMA SharedSums ==
  ASSUME now \in Nat, NEW q \in Int, NEW s \in Int, NEW p \in Int, NEW t \in Int
  PROVE  /\ V!Add(Shared(q, s), Shared(p, t)) = Shared(q + p, s + t)
         /\ V!Minus(Shared(q, s), Shared(p, t)) = Shared(q - p, s - t)
<1> DEFINE g == Grown(Today)
<1>1. g \in Int
  BY TodayIsTime, Growth
<1> HIDE DEF g
<1>2. /\ MILLI * q + MILLI * p = MILLI * (q + p)
      /\ MILLI * q - MILLI * p = MILLI * (q - p)
  BY VenearAssumption
<1>3. /\ (s + g * q) + (t + g * p) = (s + t) + g * (q + p)
      /\ (s + g * q) - (t + g * p) = (s - t) + g * (q - p)
  BY <1>1
<1>4. /\ V!Add(V!Balance(MILLI * q, s + g * q), V!Balance(MILLI * p, t + g * p))
           = V!Balance(MILLI * q + MILLI * p, (s + g * q) + (t + g * p))
      /\ V!Minus(V!Balance(MILLI * q, s + g * q), V!Balance(MILLI * p, t + g * p))
           = V!Balance(MILLI * q - MILLI * p, (s + g * q) - (t + g * p))
  BY DEF V!Add, V!Minus, V!Balance
<1> QED
  BY <1>2, <1>3, <1>4, Zenon DEF Shared, g

\* A sum of balances that are shared out.
LEMMA SharedSum ==
  ASSUME now \in Nat, NEW S, IsFiniteSet(S), NEW p \in [S -> Int], NEW s \in [S -> Int],
         NEW f, f = [x \in S |-> Shared(p[x], s[x])]
  PROVE  V!SumBalances(f) = Shared(SumFunction(p), SumFunction(s))
<1> DEFINE g == Grown(Today)
           N == [x \in S |-> MILLI * p[x]]
           E == [x \in S |-> s[x] + g * p[x]]
           O == [x \in S |-> 0]
<1>1. g \in Int
  BY TodayIsTime, Growth
<1>2. V!SumBalances(f) = V!Balance(SumFunction(N), SumFunction(E))
  <2>1. \A x \in S : /\ f[x].near_balance = MILLI * p[x]
                     /\ f[x].extra_venear_balance = s[x] + g * p[x]
    BY DEF Shared, V!Balance
  <2>2. DOMAIN f = S
    OBVIOUS
  <2>3. /\ [x \in DOMAIN f |-> f[x].near_balance] = N
        /\ [x \in DOMAIN f |-> f[x].extra_venear_balance] = E
    BY <2>1, <2>2, Zenon
  <2> QED
    BY <2>3, SumInVenear, Zenon DEF V!SumBalances
<1> HIDE DEF g
<1>3. Linear(N, MILLI, p, O, S) /\ Linear(E, g, p, s, S)
  BY <1>1, VenearAssumption DEF Linear
<1>4. /\ DOMAIN N = S /\ DOMAIN E = S /\ DOMAIN O = S /\ DOMAIN p = S /\ DOMAIN s = S
      /\ O \in [S -> Int] /\ \A x \in S : O[x] = 0
  OBVIOUS
<1> HIDE DEF N, E, O
<1>5. SumFunction(O) = 0
  BY <1>4, SumZero
<1>6. /\ SumFunction(N) = SumFunctionOnSet(N, S) /\ SumFunction(E) = SumFunctionOnSet(E, S)
      /\ SumFunction(p) = SumFunctionOnSet(p, S) /\ SumFunction(s) = SumFunctionOnSet(s, S)
      /\ SumFunction(O) = SumFunctionOnSet(O, S)
  BY <1>4, SumOnDomain
<1>7. SumFunctionOnSet(N, S) = MILLI * SumFunctionOnSet(p, S) + SumFunctionOnSet(O, S)
  BY <1>3, SumLinear
<1>8. SumFunctionOnSet(E, S) = g * SumFunctionOnSet(p, S) + SumFunctionOnSet(s, S)
  BY <1>3, SumLinear
<1>9. SumFunction(p) \in Int /\ SumFunction(s) \in Int
  BY <1>6, SumInt
<1>10. SumFunction(N) = MILLI * SumFunction(p) /\ SumFunction(E) = SumFunction(s) + g * SumFunction(p)
  BY <1>1, <1>5, <1>6, <1>7, <1>8, <1>9, VenearAssumption
<1> QED
  BY <1>2, <1>10, Zenon DEF Shared, g

\* How the sums of the total change when one account does.
LEMMA TotalMoves ==
  ASSUME NEW T, NEW U, NEW o \in DOMAIN T, TreeType(T), TreeType(U), DOMAIN U = DOMAIN T,
         \A x \in DOMAIN T \ {o} : SameProfile(U[x], T[x])
  PROVE  /\ SumFunction(Wholes(U))
              = (SumFunction(Wholes(T)) - PooledWhole(T[o])) + PooledWhole(U[o])
         /\ SumFunction(Extras(U))
              = (SumFunction(Extras(T)) - PooledExtra(T[o])) + PooledExtra(U[o])
<1> DEFINE D == DOMAIN T
           p == Wholes(T)
           q == Wholes(U)
           s == Extras(T)
           t == Extras(U)
<1>1. /\ p \in [D -> Int] /\ q \in [D -> Int] /\ s \in [D -> Int] /\ t \in [D -> Int]
      /\ IsFiniteSet(D) /\ o \in D
  BY TotalsType DEF TreeType
<1>2. /\ p[o] = PooledWhole(T[o]) /\ q[o] = PooledWhole(U[o])
      /\ s[o] = PooledExtra(T[o]) /\ t[o] = PooledExtra(U[o])
  BY DEF Wholes, Extras
<1>3. \A y \in D \ {o} : p[y] = q[y] /\ s[y] = t[y]
  <2> TAKE y \in D \ {o}
  <2>1. PooledWhole(U[y]) = PooledWhole(T[y]) /\ PooledExtra(U[y]) = PooledExtra(T[y])
    BY Zenon DEF SameProfile, PooledWhole, PooledExtra
  <2> QED
    BY <2>1, Zenon DEF Wholes, Extras
<1> HIDE DEF D, p, q, s, t
<1>4. /\ SumFunction(q) = (SumFunction(p) - p[o]) + q[o]
      /\ SumFunction(t) = (SumFunction(s) - s[o]) + t[o]
  BY <1>1, <1>3, SumChange
<1> QED
  BY <1>2, <1>4, Zenon DEF p, q, s, t

\* The total of the state after the step, in terms of sums that are shared out.
LEMMA TotalIs ==
  ASSUME NEW T, NEW g, now \in Nat,
         g = [update_timestamp |-> Today, total_venear_balance |->
                Shared(SumFunction(Wholes(T)), SumFunction(Extras(T)))]
  PROVE  TotalAgrees(T, g)
<1>1. g.update_timestamp = Today /\ g.total_venear_balance
         = Shared(SumFunction(Wholes(T)), SumFunction(Extras(T)))
  OBVIOUS
<1> QED
  BY <1>1, TodayIsTime, Zenon DEF TotalAgrees, Shared

-----------------------------------------------------------------------------
(* The invariant of the tree. *)

TreeInv == TreeType(tree) /\ PoolsAgree(tree) /\ TotalAgrees(tree, global_state)

\* A list that set_delegations accepts is one an account may have.
LEMMA ValidDelegations ==
  ASSUME NEW D, IsFiniteSet(D), NEW entries \in DelegationChoices, NEW a,
         V!validate_delegations(a, entries), DOMAIN entries \subseteq D
  PROVE  entries \in Delegations(D) /\ a \notin DOMAIN entries
<1> DEFINE S == DOMAIN entries
<1>1. entries \in [S -> Nat]
  BY VenearAssumption
<1>2. IsFiniteSet(S)
  BY FiniteSubset
<1>3. a \notin S /\ SumFunction(entries) <= MAX_BPS
  BY SumInVenear DEF V!validate_delegations
<1>4. ASSUME NEW d \in S PROVE entries[d] \in 0..MAX_BPS
  <2> HIDE DEF S
  <2>1. SumFunction(entries) \in Nat /\ entries[d] <= SumFunction(entries)
    BY <1>1, <1>2, SumEntry
  <2>2. entries[d] \in Nat
    BY <1>1
  <2> QED
    BY <1>3, <2>1, <2>2, VenearAssumption
<1>5. entries \in [S -> 0..MAX_BPS]
  BY <1>1, <1>4
<1> QED
  BY <1>3, <1>5, DelegationsAre

\* set_delegations keeps the invariant.
LEMMA SetDelegationsKeeps ==
  ASSUME RecordsOK, TreeInv, now \in Nat, NEW a, NEW entries \in DelegationChoices,
         V!set_delegations(a, entries)
  PROVE  TreeInv'
<1> DEFINE D == DOMAIN tree
           owner == V!Updated(tree[a])
           new_ == [owner EXCEPT !.delegations = entries]
<1>1. /\ a \in D /\ V!validate_delegations(a, entries) /\ DOMAIN entries \subseteq D
      /\ tree' = [V!Credit(V!Credit(tree, owner.balance, owner.delegations, -1),
                           owner.balance, entries, 1) EXCEPT ![a] = new_]
      /\ accounts' = accounts /\ global_state' = global_state /\ config' = config
  BY DEF V!set_delegations, V!UserCall, RecordsOK
<1>2. TreeType(tree) /\ IsFiniteSet(D) /\ tree[a] \in Account(D) /\ PoolsAgree(tree)
  BY <1>1 DEF TreeInv, TreeType
<1>3. /\ owner \in Account(D) /\ owner.update_timestamp = Today
      /\ SameProfile(owner, tree[a])
  BY <1>2, UpdatedAccount DEF SameProfile
<1>4. entries \in Delegations(D) /\ a \notin DOMAIN entries
  BY <1>1, <1>2, ValidDelegations
<1> HIDE DEF owner
<1>5. /\ new_ \in Account(D) /\ new_.update_timestamp = Today
      /\ new_.delegated_balance = owner.delegated_balance
      /\ new_.balance = owner.balance /\ new_.delegations = entries
  BY <1>3, <1>4 DEF Account
<1> HIDE DEF new_
<1>6. tree' = [V!Credit(V!Credit(tree, owner.balance, owner.delegations, -1),
                        new_.balance, new_.delegations, 1) EXCEPT ![a] = new_]
  BY <1>1, <1>5, Zenon
<1>7. /\ DOMAIN tree' = D /\ tree'[a] = new_ /\ TreeType(tree') /\ PoolsAgree(tree')
      /\ \A x \in D \ {a} : SameProfile(tree'[x], tree[x])
  <2>1. owner = V!Updated(tree[a]) /\ a \notin DOMAIN new_.delegations
    BY <1>4, <1>5 DEF owner
  <2> QED
    BY <1>1, <1>2, <1>5, <1>6, <2>1, PoolsRecredited
<1>8. /\ SumFunction(Wholes(tree')) = SumFunction(Wholes(tree))
      /\ SumFunction(Extras(tree')) = SumFunction(Extras(tree))
  <2>1. /\ PooledWhole(new_) = PooledWhole(tree[a]) /\ PooledExtra(new_) = PooledExtra(tree[a])
    BY <1>3, <1>5, Zenon DEF SameProfile, PooledWhole, PooledExtra, Origin
  <2>2. /\ SumFunction(Wholes(tree')) = (SumFunction(Wholes(tree)) - PooledWhole(tree[a]))
                                        + PooledWhole(tree[a])
        /\ SumFunction(Extras(tree')) = (SumFunction(Extras(tree)) - PooledExtra(tree[a]))
                                        + PooledExtra(tree[a])
    BY <1>1, <1>2, <1>7, <2>1, TotalMoves
  <2>3. /\ PooledWhole(tree[a]) \in Int /\ PooledExtra(tree[a]) \in Int
        /\ SumFunction(Wholes(tree)) \in Int /\ SumFunction(Extras(tree)) \in Int
    BY <1>2, PooledType, TotalsType
  <2>4. \A i, j \in Int : (i - j) + j = i
    OBVIOUS
  <2> QED
    BY <2>2, <2>3, <2>4
<1>9. TotalAgrees(tree', global_state)
  BY <1>8, Zenon DEF TotalAgrees, TreeInv
<1> QED
  BY <1>1, <1>7, <1>9 DEF TreeInv

\* A report of the lockup that is accepted keeps the invariant.
LEMMA LockupUpdateKeeps ==
  ASSUME RecordsOK, TreeInv, now \in Nat, NEW a, NEW u, u.locked \in Nat,
         V!on_lockup_update(a, u)
  PROVE  TreeInv'
<1> DEFINE D == DOMAIN tree
           old == V!Updated(tree[a])
           balance_ == V!Balance(u.locked + accounts[a].deposit,
                         IF u.locked < old.balance.near_balance - accounts[a].deposit
                         THEN 0 ELSE old.balance.extra_venear_balance)
           new_ == [old EXCEPT !.balance = balance_]
<1>1. /\ a \in D
      /\ tree' = [V!Credit(V!Credit(tree, old.balance, old.delegations, -1),
                           balance_, old.delegations, 1) EXCEPT ![a] = new_]
      /\ global_state' = [V!GlobalUpdated EXCEPT !.total_venear_balance =
                            V!pooled_add(V!pooled_sub(@, old.balance), balance_)]
  BY DEF V!on_lockup_update, V!AcceptsUpdate, V!internal_lockup_update, RecordsOK
<1>2. /\ TreeType(tree) /\ IsFiniteSet(D) /\ tree[a] \in Account(D) /\ PoolsAgree(tree)
      /\ TotalAgrees(tree, global_state) /\ a \notin DOMAIN tree[a].delegations
      /\ accounts[a] \in AccountInternal
  BY <1>1 DEF TreeInv, TreeType, RecordsOK
<1>3. /\ old \in Account(D) /\ old.update_timestamp = Today
      /\ SameProfile(old, tree[a])
  BY <1>2, UpdatedAccount DEF SameProfile
<1> HIDE DEF old
<1>4. balance_ \in Balances /\ balance_.near_balance = u.locked + accounts[a].deposit
  <2>1. old.balance.extra_venear_balance \in Int /\ accounts[a].deposit \in Nat
    BY <1>2, <1>3 DEF Account, Balances, AccountInternal
  <2> QED
    BY <2>1 DEF Balances, V!Balance
<1> HIDE DEF balance_
<1>5. /\ new_ \in Account(D) /\ new_.update_timestamp = Today
      /\ new_.delegated_balance = old.delegated_balance
      /\ new_.balance = balance_ /\ new_.delegations = old.delegations
  BY <1>3, <1>4 DEF Account
<1> HIDE DEF new_
<1>6. tree' = [V!Credit(V!Credit(tree, old.balance, old.delegations, -1),
                        new_.balance, new_.delegations, 1) EXCEPT ![a] = new_]
  BY <1>1, <1>5, Zenon
<1>7. /\ DOMAIN tree' = D /\ tree'[a] = new_ /\ TreeType(tree') /\ PoolsAgree(tree')
      /\ \A x \in D \ {a} : SameProfile(tree'[x], tree[x])
  <2>1. old = V!Updated(tree[a]) /\ a \notin DOMAIN new_.delegations
    BY <1>2, <1>3, <1>5 DEF old, SameProfile
  <2> QED
    BY <1>1, <1>2, <1>5, <1>6, <2>1, PoolsRecredited
<1> DEFINE W == SumFunction(Wholes(tree))
           X == SumFunction(Extras(tree))
           w == PooledWhole(tree[a])
           x == PooledExtra(tree[a])
           v == PooledWhole(new_)
           y == PooledExtra(new_)
<1>8. W \in Int /\ X \in Int /\ w \in Int /\ x \in Int /\ v \in Int /\ y \in Int
  BY <1>2, <1>5, TotalsType, PooledType
<1>9. /\ V!GlobalUpdated = [update_timestamp |-> Today, total_venear_balance |-> Shared(W, X)]
      /\ V!Pooled(old.balance) = Shared(PooledWhole(old), PooledExtra(old))
      /\ V!Pooled(balance_) = Shared(v, y)
  BY <1>2, <1>3, <1>5, GlobalUpdatedIs, PooledIs
<1>10. PooledWhole(old) = w /\ PooledExtra(old) = x
  BY <1>3, Zenon DEF SameProfile, PooledWhole, PooledExtra
<1>11. SumFunction(Wholes(tree')) = (W - w) + v /\ SumFunction(Extras(tree')) = (X - x) + y
  BY <1>1, <1>2, <1>7, TotalMoves
<1> HIDE DEF W, X, w, x, v, y
<1>12. V!Add(V!Minus(Shared(W, X), Shared(w, x)), Shared(v, y)) = Shared((W - w) + v, (X - x) + y)
  <2>1. W - w \in Int /\ X - x \in Int
    BY <1>8
  <2>2. V!Minus(Shared(W, X), Shared(w, x)) = Shared(W - w, X - x)
    BY <1>8, SharedSums
  <2> QED
    BY <1>8, <2>1, <2>2, SharedSums
<1>13. global_state' = [update_timestamp |-> Today, total_venear_balance |->
                          Shared((W - w) + v, (X - x) + y)]
  BY <1>1, <1>9, <1>10, <1>12 DEF V!pooled_add, V!pooled_sub
<1>14. TotalAgrees(tree', global_state')
  BY <1>11, <1>13, TotalIs
<1> QED
  BY <1>7, <1>14 DEF TreeInv

\* The accounts of a tree are accounts of a larger one.
LEMMA AccountGrows ==
  ASSUME NEW D, NEW E, D \subseteq E, NEW r \in Account(D)
  PROVE  r \in Account(E)
<1>1. r.delegations \in Delegations(E)
  <2>1. r.delegations \in Delegations(D)
    BY DEF Account
  <2> QED
    BY <2>1, DelegationsAre
<1> QED
  BY <1>1 DEF Account

\* A new account delegates nothing, and nothing is delegated to it.
LEMMA NewAccountIs ==
  ASSUME now \in Nat, NEW D, NEW deposit \in Nat, NEW r, r = V!NewAccount(deposit)
  PROVE  /\ r \in Account(D) /\ DOMAIN r.delegations = {} /\ r.update_timestamp = Today
         /\ r.delegated_balance.near_balance = 0 /\ DelegatedOrigin(r) = 0
         /\ r.balance = V!Balance(deposit, 0)
<1>1. Today \in Times /\ Grown(Today) \in Int
  BY TodayIsTime, Growth
<1>2. [x \in {} |-> 0] \in Delegations(D)
  <2>1. /\ DOMAIN [x \in {} |-> 0] = {}
        /\ [x \in {} |-> 0] \in [{} -> 0..MAX_BPS]
    OBVIOUS
  <2> QED
    BY <2>1, DelegationsAre, Zenon
<1>3. r = [update_timestamp |-> Today, balance |-> V!Balance(deposit, 0),
           delegated_balance |-> V!Balance(0, 0), delegations |-> [x \in {} |-> 0]]
  BY DEF V!NewAccount, V!Zero, Today
<1>4. V!Balance(deposit, 0) \in Balances /\ V!Balance(0, 0) \in Pools
  BY DEF V!Balance, Balances, Pools
<1>5. r \in Account(D)
  BY <1>1, <1>2, <1>3, <1>4 DEF Account
<1>6. /\ r.delegated_balance.near_balance = 0 /\ r.delegated_balance.extra_venear_balance = 0
      /\ DOMAIN r.delegations = {} /\ r.update_timestamp = Today
      /\ r.balance = V!Balance(deposit, 0)
  BY <1>3 DEF V!Balance
<1>7. Whole(0) = 0
  <2>1. MILLI * 0 <= 0 /\ 0 < MILLI * 0 + MILLI
    BY VenearAssumption
  <2> QED
    BY <2>1, DivUnique, VenearAssumption DEF Whole
<1>8. DelegatedOrigin(r) = 0 - Grown(Today) * 0
  BY <1>6, <1>7 DEF DelegatedOrigin
<1> QED
  BY <1>1, <1>5, <1>6, <1>8

\* A tree with one account more, as NewAccount makes it.
Grows(T, U, a) ==
    /\ a \notin DOMAIN T /\ DOMAIN U = DOMAIN T \cup {a}
    /\ \A x \in DOMAIN T : U[x] = T[x]
    /\ U[a] \in Account(DOMAIN U) /\ DOMAIN U[a].delegations = {}
    /\ U[a].delegated_balance.near_balance = 0 /\ DelegatedOrigin(U[a]) = 0

\* A new account adds its own pool to the totals, and nothing to anyone else.
LEMMA TreeGrows ==
  ASSUME NEW T, NEW U, NEW a, Grows(T, U, a), TreeType(T), PoolsAgree(T)
  PROVE  /\ TreeType(U) /\ PoolsAgree(U)
         /\ SumFunction(Wholes(U)) = SumFunction(Wholes(T)) + PooledWhole(U[a])
         /\ SumFunction(Extras(U)) = SumFunction(Extras(T)) + PooledExtra(U[a])
<1> DEFINE D == DOMAIN T
           E == DOMAIN U
<1>1. /\ a \notin D /\ E = D \cup {a} /\ IsFiniteSet(D) /\ \A x \in D : U[x] = T[x]
      /\ \A x \in D : T[x] \in Account(D)
  BY DEF Grows, TreeType
<1>2. IsFiniteSet(E)
  BY <1>1, FiniteAdd
<1>3. TreeType(U)
  <2>1. ASSUME NEW x \in E PROVE U[x] \in Account(E) /\ x \notin DOMAIN U[x].delegations
    <3>1. CASE x \in D
      <4>1. T[x] \in Account(D) /\ x \notin DOMAIN T[x].delegations /\ U[x] = T[x]
        BY <1>1, <3>1 DEF TreeType
      <4>2. D \subseteq E
        BY <1>1
      <4> QED
        BY <4>1, <4>2, AccountGrows
    <3>2. CASE x = a
      BY <3>2 DEF Grows
    <3> QED
      BY <1>1, <3>1, <3>2
  <2> QED
    BY <1>2, <2>1 DEF TreeType
<1>4. /\ SumFunction(Wholes(U)) = SumFunction(Wholes(T)) + PooledWhole(U[a])
      /\ SumFunction(Extras(U)) = SumFunction(Extras(T)) + PooledExtra(U[a])
  <2>1. /\ Wholes(T) \in [D -> Int] /\ Extras(T) \in [D -> Int]
        /\ Wholes(U) \in [E -> Int] /\ Extras(U) \in [E -> Int]
    BY <1>3, TotalsType
  <2>2. /\ \A y \in D : Wholes(T)[y] = Wholes(U)[y] /\ Extras(T)[y] = Extras(U)[y]
        /\ Wholes(U)[a] = PooledWhole(U[a]) /\ Extras(U)[a] = PooledExtra(U[a])
    BY <1>1, Zenon DEF Wholes, Extras
  <2>3. OneMore(Wholes(U), Wholes(T), a, D) /\ OneMore(Extras(U), Extras(T), a, D)
    BY <1>1, <2>1, <2>2 DEF OneMore
  <2> QED
    BY <2>2, <2>3, SumExtend
<1>5. ASSUME NEW x
      PROVE  /\ SumFunction(PartsTo(U, x)) = SumFunction(PartsTo(T, x))
             /\ SumFunction(SharesTo(U, x)) = SumFunction(SharesTo(T, x))
  <2> DEFINE p == PartsTo(T, x)
             q == PartsTo(U, x)
             s == SharesTo(T, x)
             t == SharesTo(U, x)
  <2>1. /\ p \in [D -> Int] /\ q \in [E -> Int] /\ s \in [D -> Int] /\ t \in [E -> Int]
        /\ SumFunction(p) \in Int /\ SumFunction(s) \in Int
    BY <1>3, PartsType
  <2>2. q[a] = 0 /\ t[a] = 0
    <3>1. U[a] \in Account(E) /\ x \notin DOMAIN U[a].delegations /\ a \in E
      BY <1>1 DEF Grows
    <3>2. Part(U[a], x) = 0 /\ Share(U[a], x) = 0
      BY <3>1, ContributionOf
    <3> QED
      BY <3>1, <3>2, Zenon DEF PartsTo, SharesTo
  <2>3. \A y \in D : p[y] = q[y] /\ s[y] = t[y]
    BY <1>1 DEF PartsTo, SharesTo
  <2> HIDE DEF p, q, s, t, D, E
  <2>4. OneMore(q, p, a, D) /\ OneMore(t, s, a, D)
    BY <1>1, <2>1, <2>3 DEF OneMore
  <2>5. SumFunction(q) = SumFunction(p) + 0 /\ SumFunction(t) = SumFunction(s) + 0
    BY <2>2, <2>4, SumExtend
  <2>6. SumFunction(q) = SumFunction(p) /\ SumFunction(t) = SumFunction(s)
    BY <2>1, <2>5
  <2> QED
    BY <2>6 DEF p, q, s, t
<1>6. SumFunction(PartsTo(T, a)) = 0 /\ SumFunction(SharesTo(T, a)) = 0
  <2>1. \A d \in D : PartsTo(T, a)[d] = 0 /\ SharesTo(T, a)[d] = 0
    <3> TAKE d \in D
    <3>1. T[d] \in Account(D)
      BY <1>1
    <3>2. T[d].delegations \in Delegations(D)
      BY <3>1 DEF Account
    <3>3. a \notin DOMAIN T[d].delegations
      BY <1>1, <3>2, DelegationsAre
    <3>4. Part(T[d], a) = 0 /\ Share(T[d], a) = 0
      BY <3>1, <3>3, ContributionOf
    <3> QED
      BY <3>4, Zenon DEF PartsTo, SharesTo
  <2>2. PartsTo(T, a) \in [D -> Int] /\ SharesTo(T, a) \in [D -> Int]
    BY PartsType
  <2> QED
    BY <1>1, <2>1, <2>2, SumZero
<1>7. PoolsAgree(U)
  <2> SUFFICES ASSUME NEW x \in E
               PROVE  /\ U[x].delegated_balance.near_balance
                           = MILLI * SumFunction(PartsTo(T, x))
                      /\ DelegatedOrigin(U[x]) = SumFunction(SharesTo(T, x))
    BY <1>5, Zenon DEF PoolsAgree
  <2>1. CASE x \in D
    BY <1>1, <2>1, Zenon DEF PoolsAgree
  <2>2. CASE x = a
    <3>1. MILLI * 0 = 0
      BY VenearAssumption
    <3> QED
      BY <1>6, <2>2, <3>1, Zenon DEF Grows
  <2> QED
    BY <1>1, <2>1, <2>2
<1> QED
  BY <1>3, <1>4, <1>7

\* A registration keeps the invariant.
LEMMA RegisterKeeps ==
  ASSUME RecordsOK, TreeInv, now \in Nat, NEW a \in Accounts, V!storage_deposit(a)
  PROVE  TreeInv'
<1> DEFINE D == DOMAIN tree
           deposit == config.local_deposit
           r == V!NewAccount(deposit)
<1>1. /\ a \notin D /\ tree' = V!Put(tree, a, r)
      /\ global_state' = [V!GlobalUpdated EXCEPT !.total_venear_balance =
                            V!Add(@, V!Pooled(V!Balance(deposit, 0)))]
  BY DEF V!storage_deposit, V!internal_register_account, RecordsOK, V!pooled_add
<1>2. deposit \in Nat /\ TreeType(tree) /\ PoolsAgree(tree) /\ TotalAgrees(tree, global_state)
  BY DEF TreeInv, RecordsOK, Config
<1>3. /\ r \in Account(D \cup {a}) /\ DOMAIN r.delegations = {} /\ r.update_timestamp = Today
      /\ r.delegated_balance.near_balance = 0 /\ DelegatedOrigin(r) = 0
      /\ r.balance = V!Balance(deposit, 0)
  BY <1>2, NewAccountIs
<1> HIDE DEF r, deposit
<1>4. /\ DOMAIN tree' = D \cup {a} /\ tree'[a] = r /\ \A x \in D : tree'[x] = tree[x]
  BY <1>1 DEF V!Put
<1>5. Grows(tree, tree', a)
  BY <1>1, <1>3, <1>4 DEF Grows
<1> DEFINE W == SumFunction(Wholes(tree))
           X == SumFunction(Extras(tree))
           w == PooledWhole(r)
           x == PooledExtra(r)
<1>6. /\ TreeType(tree') /\ PoolsAgree(tree')
      /\ SumFunction(Wholes(tree')) = W + w /\ SumFunction(Extras(tree')) = X + x
  BY <1>2, <1>4, <1>5, TreeGrows
<1>7. W \in Int /\ X \in Int /\ w \in Int /\ x \in Int
  BY <1>2, <1>3, TotalsType, PooledType
<1>8. /\ V!GlobalUpdated = [update_timestamp |-> Today, total_venear_balance |-> Shared(W, X)]
      /\ V!Pooled(V!Balance(deposit, 0)) = Shared(w, x)
  BY <1>2, <1>3, GlobalUpdatedIs, PooledIs, Zenon
<1> HIDE DEF W, X, w, x
<1>9. V!Add(Shared(W, X), Shared(w, x)) = Shared(W + w, X + x)
  BY <1>7, SharedSums
<1>10. global_state' = [update_timestamp |-> Today, total_venear_balance |->
                          Shared(W + w, X + x)]
  BY <1>1, <1>8, <1>9
<1>11. TotalAgrees(tree', global_state')
  BY <1>6, <1>10, TotalIs
<1> QED
  BY <1>6, <1>11 DEF TreeInv

\* The invariant holds at the start.
LEMMA TreeInit ==
  ASSUME RecordsOK, now \in Nat, V!VenearInit
  PROVE  TreeInv
<1> DEFINE deposit == config.local_deposit
           r == V!NewAccount(deposit)
           f == [a \in Registered |-> V!Pooled(V!Balance(deposit, 0))]
<1>1. /\ tree = [a \in Registered |-> r]
      /\ global_state = [update_timestamp |-> Today, total_venear_balance |-> V!SumBalances(f)]
  BY DEF V!VenearInit, Today
<1>3. deposit \in Nat
  BY DEF RecordsOK, Config
<1>4. IsFiniteSet(Registered) /\ Registered \subseteq Accounts
  BY VenearAssumption, FiniteSubset
<1>5. /\ r \in Account(Registered) /\ DOMAIN r.delegations = {} /\ r.update_timestamp = Today
      /\ r.delegated_balance.near_balance = 0 /\ DelegatedOrigin(r) = 0
      /\ r.balance = V!Balance(deposit, 0)
  BY <1>3, NewAccountIs
<1> HIDE DEF r
<1>6. DOMAIN tree = Registered /\ \A x \in Registered : tree[x] = r
  BY <1>1
<1>7. TreeType(tree)
  BY <1>4, <1>5, <1>6 DEF TreeType
<1>8. PoolsAgree(tree)
  <2> SUFFICES ASSUME NEW x \in Registered
               PROVE  /\ SumFunction(PartsTo(tree, x)) = 0
                      /\ SumFunction(SharesTo(tree, x)) = 0
    <3>1. MILLI * 0 = 0
      BY VenearAssumption
    <3> QED
      BY <1>5, <1>6, <3>1, Zenon DEF PoolsAgree
  <2>1. Part(r, x) = 0 /\ Share(r, x) = 0
    BY <1>5, ContributionOf
  <2>2. PartsTo(tree, x) \in [Registered -> Int] /\ SharesTo(tree, x) \in [Registered -> Int]
    BY <1>6, <1>7, PartsType
  <2>3. \A d \in Registered : PartsTo(tree, x)[d] = 0 /\ SharesTo(tree, x)[d] = 0
    BY <1>6, <2>1, Zenon DEF PartsTo, SharesTo
  <2> QED
    BY <1>4, <2>2, <2>3, SumZero
<1> DEFINE w == PooledWhole(r)
           x == PooledExtra(r)
           p == [a \in Registered |-> w]
           y == [a \in Registered |-> x]
<1>9. w \in Int /\ x \in Int
  BY <1>5, PooledType
<1>10. V!Pooled(V!Balance(deposit, 0)) = Shared(w, x)
  BY <1>5, PooledIs
<1>11. f = [a \in Registered |-> Shared(p[a], y[a])]
  BY <1>10
<1>12. Wholes(tree) = p /\ Extras(tree) = y
  BY <1>6, Zenon DEF Wholes, Extras
<1>13. p \in [Registered -> Int] /\ y \in [Registered -> Int]
  BY <1>9
<1>14. TotalAgrees(tree, global_state)
  <2> HIDE DEF f, p, y
  <2>1. V!SumBalances(f) = Shared(SumFunction(p), SumFunction(y))
    BY <1>4, <1>11, <1>13, SharedSum
  <2> QED
    BY <1>1, <1>12, <2>1, TotalIs
<1> QED
  BY <1>7, <1>8, <1>14 DEF TreeInv

-----------------------------------------------------------------------------
(* What the invariant says of the views. *)

\* An account of the tree brought up to date: its pool, and its shares.
LEMMA ViewOf ==
  ASSUME RecordsOK, TreeInv, now \in Nat, NEW a \in DOMAIN accounts, NEW u, u = V!Updated(tree[a])
  PROVE  /\ u \in Account(DOMAIN tree) /\ u.update_timestamp = Today /\ SameProfile(u, tree[a])
         /\ u.delegated_balance
              = Shared(SumFunction(PartsTo(tree, a)), SumFunction(SharesTo(tree, a)))
         /\ \A x : /\ Part(tree[a], x) \in Int /\ Share(tree[a], x) \in Int
                   /\ x \in DOMAIN tree[a].delegations =>
                        V!delegation_contribution(u.balance, tree[a].delegations[x])
                        = Shared(Part(tree[a], x), Share(tree[a], x))
                   /\ x \notin DOMAIN tree[a].delegations =>
                        Part(tree[a], x) = 0 /\ Share(tree[a], x) = 0
<1> DEFINE D == DOMAIN tree
           P == SumFunction(PartsTo(tree, a))
           S == SumFunction(SharesTo(tree, a))
           g == Grown(Today)
           n == u.delegated_balance.near_balance
           e == u.delegated_balance.extra_venear_balance
<1>1. /\ TreeType(tree) /\ tree[a] \in Account(D) /\ a \in D
      /\ tree[a].delegated_balance.near_balance = MILLI * P
      /\ DelegatedOrigin(tree[a]) = S
  BY DEF TreeInv, TreeType, PoolsAgree, RecordsOK
<1>2. /\ u \in Account(D) /\ u.update_timestamp = Today /\ SameProfile(u, tree[a])
      /\ n = MILLI * P /\ DelegatedOrigin(u) = S
  BY <1>1, UpdatedAccount, Zenon DEF SameProfile
<1>3. P \in Int /\ S \in Int
  BY <1>1, PartsType
<1>4. u.delegated_balance = V!Balance(n, e) /\ e \in Int
  BY <1>2, Zenon DEF Account, Pools, V!Balance
<1>5. g \in Int
  BY TodayIsTime, Growth
<1>6. S = e - g * Whole(n)
  BY <1>2, Zenon DEF DelegatedOrigin
<1> HIDE DEF P, S, g, n, e
<1>7. Whole(n) = P
  <2>1. MILLI * P \in Int /\ MILLI * P <= MILLI * P /\ MILLI * P < MILLI * P + MILLI
    BY <1>3, VenearAssumption
  <2> QED
    BY <1>2, <1>3, <2>1, DivUnique, VenearAssumption DEF Whole
<1>8. e = S + g * P
  BY <1>3, <1>4, <1>5, <1>6, <1>7
<1>9. u.delegated_balance = Shared(P, S)
  BY <1>2, <1>4, <1>8, Zenon DEF Shared, g
<1>10. ASSUME NEW x
       PROVE  /\ Part(tree[a], x) \in Int /\ Share(tree[a], x) \in Int
              /\ x \in DOMAIN tree[a].delegations =>
                   V!delegation_contribution(u.balance, tree[a].delegations[x])
                   = Shared(Part(tree[a], x), Share(tree[a], x))
              /\ x \notin DOMAIN tree[a].delegations =>
                   Part(tree[a], x) = 0 /\ Share(tree[a], x) = 0
  <2>1. Part(u, x) = Part(tree[a], x) /\ Share(u, x) = Share(tree[a], x)
        /\ u.delegations = tree[a].delegations
    BY <1>2, SameContributions, Zenon DEF SameProfile
  <2>2. /\ Part(u, x) \in Nat /\ Share(u, x) \in Int
        /\ x \in DOMAIN u.delegations =>
             V!delegation_contribution(u.balance, u.delegations[x])
             = V!Balance(MILLI * Part(u, x), Share(u, x) + Grown(u.update_timestamp) * Part(u, x))
        /\ x \notin DOMAIN u.delegations => Part(u, x) = 0 /\ Share(u, x) = 0
    BY <1>2, ContributionOf, Zenon
  <2>3. Part(u, x) \in Int
    BY <2>2
  <2> QED
    BY <1>2, <2>1, <2>2, <2>3, Zenon DEF Shared
<1> QED
  BY <1>2, <1>9, <1>10, Zenon DEF P, S

\* Every pool is the sum of its delegators' shares.
LEMMA PoolsAreShares ==
  ASSUME RecordsOK, TreeInv, now \in Nat
  PROVE  V!DelegatedIsContributions
<1> DEFINE D == DOMAIN accounts
<1>0. D = DOMAIN tree /\ IsFiniteSet(D) /\ TreeType(tree)
  BY DEF TreeInv, TreeType, RecordsOK
<1> SUFFICES ASSUME NEW a \in D
             PROVE  V!Updated(tree[a]).delegated_balance
                    = V!SumBalances([d \in {d \in D : a \in DOMAIN tree[d].delegations} |->
                         V!delegation_contribution(V!Updated(tree[d]).balance,
                                                   tree[d].delegations[a])])
  BY Zenon DEF V!DelegatedIsContributions
<1> DEFINE R == {d \in D : a \in DOMAIN tree[d].delegations}
           p == PartsTo(tree, a)
           s == SharesTo(tree, a)
           q == [d \in R |-> p[d]]
           t == [d \in R |-> s[d]]
           f == [d \in R |-> V!delegation_contribution(V!Updated(tree[d]).balance,
                                                       tree[d].delegations[a])]
<1>1. V!Updated(tree[a]).delegated_balance = Shared(SumFunction(p), SumFunction(s))
  BY ViewOf
<1>2. p \in [D -> Int] /\ s \in [D -> Int]
  BY <1>0, PartsType, Zenon
<1>3. R \subseteq D /\ IsFiniteSet(R)
  BY <1>0, FiniteSubset
<1>4. \A d \in D : p[d] = Part(tree[d], a) /\ s[d] = Share(tree[d], a)
  BY <1>0, Zenon DEF PartsTo, SharesTo
<1>5. ASSUME NEW d \in R PROVE f[d] = Shared(p[d], s[d])
  <2>1. d \in D /\ a \in DOMAIN tree[d].delegations
    OBVIOUS
  <2>2. V!delegation_contribution(V!Updated(tree[d]).balance, tree[d].delegations[a])
        = Shared(Part(tree[d], a), Share(tree[d], a))
    BY <2>1, ViewOf, Zenon
  <2> QED
    BY <1>4, <2>1, <2>2, Zenon
<1>6. \A d \in D \ R : p[d] = 0 /\ s[d] = 0
  <2> TAKE d \in D \ R
  <2>1. a \notin DOMAIN tree[d].delegations
    OBVIOUS
  <2>2. Part(tree[d], a) = 0 /\ Share(tree[d], a) = 0
    BY <2>1, ViewOf
  <2> QED
    BY <1>4, <2>2, Zenon
<1>7. f = [d \in R |-> Shared(q[d], t[d])] /\ q \in [R -> Int] /\ t \in [R -> Int]
  <2>1. q \in [R -> Int] /\ t \in [R -> Int]
    BY <1>2, <1>3
  <2>2. f = [d \in R |-> Shared(q[d], t[d])]
    BY <1>5, Zenon
  <2> QED BY <2>1, <2>2, Zenon
<1> HIDE DEF p, s, f
<1>8. SumFunction(q) = SumFunction(p) /\ SumFunction(t) = SumFunction(s)
  <2>1. \A d \in D : p[d] \in Int /\ s[d] \in Int
    BY <1>2
  <2>2. DOMAIN p = D /\ DOMAIN s = D /\ DOMAIN q = R /\ DOMAIN t = R
    BY <1>2
  <2>3. \A d \in R : q[d] = p[d] /\ t[d] = s[d]
    OBVIOUS
  <2> HIDE DEF q, t, R, D
  <2>4. /\ SumFunctionOnSet(p, D) = SumFunctionOnSet(p, R)
        /\ SumFunctionOnSet(s, D) = SumFunctionOnSet(s, R)
    BY <1>0, <1>3, <1>6, <2>1, SumRestrict
  <2>5. /\ SumFunctionOnSet(q, R) = SumFunctionOnSet(p, R)
        /\ SumFunctionOnSet(t, R) = SumFunctionOnSet(s, R)
    BY <1>3, <2>3, SumSame
  <2>6. /\ SumFunction(p) = SumFunctionOnSet(p, D) /\ SumFunction(q) = SumFunctionOnSet(q, R)
        /\ SumFunction(s) = SumFunctionOnSet(s, D) /\ SumFunction(t) = SumFunctionOnSet(t, R)
    BY <2>2, SumOnDomain
  <2> QED
    BY <2>4, <2>5, <2>6, Zenon
<1> HIDE DEF q, t, R
<1>9. V!SumBalances(f) = Shared(SumFunction(q), SumFunction(t))
  BY <1>3, <1>7, SharedSum
<1> QED
  BY <1>1, <1>8, <1>9, Zenon DEF f, R

\* What an account delegates, by delegate.
PartsOf(r, D)  == [x \in D |-> Part(r, x)]
SharesOf(r, D) == [x \in D |-> Share(r, x)]

\* The sum of an account's own contributions.
LEMMA ContributionsAre ==
  ASSUME RecordsOK, TreeInv, now \in Nat, NEW a \in DOMAIN accounts, NEW D, D = DOMAIN tree
  PROVE  /\ V!SumBalances(V!Contributions(V!Updated(tree[a])))
              = Shared(SumFunction(PartsOf(tree[a], D)), SumFunction(SharesOf(tree[a], D)))
         /\ SumFunction(PartsOf(tree[a], D)) \in Int /\ SumFunction(SharesOf(tree[a], D)) \in Int
<1> DEFINE r == tree[a]
           u == V!Updated(r)
           R == DOMAIN r.delegations
           p == PartsOf(r, D)
           s == SharesOf(r, D)
           q == [x \in R |-> p[x]]
           t == [x \in R |-> s[x]]
           f == V!Contributions(u)
<1>1. /\ u \in Account(D) /\ u.delegations = r.delegations
      /\ \A x : /\ Part(r, x) \in Int /\ Share(r, x) \in Int
                /\ x \in R => V!delegation_contribution(u.balance, r.delegations[x])
                              = Shared(Part(r, x), Share(r, x))
                /\ x \notin R => Part(r, x) = 0 /\ Share(r, x) = 0
  BY ViewOf, Zenon DEF SameProfile
<1>2. IsFiniteSet(D) /\ R \subseteq D /\ IsFiniteSet(R)
  <2>1. IsFiniteSet(D)
    BY DEF TreeInv, TreeType, RecordsOK
  <2>2. u.delegations \in Delegations(D)
    BY <1>1, Zenon DEF Account
  <2>3. R \subseteq D
    BY <1>1, <2>2, DelegationsAre
  <2> QED
    BY <2>1, <2>3, FiniteSubset
<1>3. /\ \A x \in D : p[x] = Part(r, x) /\ s[x] = Share(r, x)
      /\ DOMAIN p = D /\ DOMAIN s = D
  BY Zenon DEF PartsOf, SharesOf
<1>4. /\ \A x \in D : p[x] \in Int /\ s[x] \in Int
      /\ \A x \in D \ R : p[x] = 0 /\ s[x] = 0
  BY <1>1, <1>3, Zenon
<1>5. f = [x \in R |-> Shared(q[x], t[x])]
  <2>1. f = [x \in R |-> V!delegation_contribution(u.balance, r.delegations[x])]
    BY <1>1, Zenon DEF V!Contributions
  <2>2. \A x \in R : V!delegation_contribution(u.balance, r.delegations[x]) = Shared(q[x], t[x])
    BY <1>1, <1>2, <1>3, Zenon
  <2> QED
    BY <2>1, <2>2, Zenon
<1> HIDE DEF r, u, p, s, f
<1>6. q \in [R -> Int] /\ t \in [R -> Int]
  BY <1>2, <1>4, Zenon
<1>7. SumFunction(q) = SumFunction(p) /\ SumFunction(t) = SumFunction(s)
      /\ SumFunction(p) \in Int /\ SumFunction(s) \in Int
  <2>1. DOMAIN q = R /\ DOMAIN t = R /\ \A x \in R : q[x] = p[x] /\ t[x] = s[x]
    OBVIOUS
  <2> HIDE DEF q, t, R
  <2>2. /\ SumFunctionOnSet(p, D) = SumFunctionOnSet(p, R)
        /\ SumFunctionOnSet(s, D) = SumFunctionOnSet(s, R)
        /\ SumFunctionOnSet(p, D) \in Int /\ SumFunctionOnSet(s, D) \in Int
    BY <1>2, <1>4, SumRestrict, SumInt
  <2>3. /\ SumFunctionOnSet(q, R) = SumFunctionOnSet(p, R)
        /\ SumFunctionOnSet(t, R) = SumFunctionOnSet(s, R)
    BY <1>2, <2>1, SumSame
  <2>4. /\ SumFunction(p) = SumFunctionOnSet(p, D) /\ SumFunction(q) = SumFunctionOnSet(q, R)
        /\ SumFunction(s) = SumFunctionOnSet(s, D) /\ SumFunction(t) = SumFunctionOnSet(t, R)
    BY <1>3, <2>1, SumOnDomain
  <2> QED
    BY <2>2, <2>3, <2>4, Zenon
<1> HIDE DEF q, t, R
<1>8. V!SumBalances(f) = Shared(SumFunction(q), SumFunction(t))
  BY <1>2, <1>5, <1>6, SharedSum
<1> QED
  BY <1>7, <1>8, Zenon DEF f, u, r, p, s

\* The components of what is shared out.
LEMMA SharedType ==
  ASSUME now \in Nat, NEW q \in Int, NEW s \in Int
  PROVE  Shared(q, s).near_balance \in Int /\ Shared(q, s).extra_venear_balance \in Int
<1>1. Grown(Today) \in Int
  BY TodayIsTime, Growth
<1> QED
  BY <1>1, VenearAssumption DEF Shared, V!Balance

\* The total of what is shared out is linear.
LEMMA SharedTotal ==
  ASSUME now \in Nat
  PROVE  /\ MILLI + Grown(Today) \in Int
         /\ \A q, s \in Int : /\ V!Total(Shared(q, s)) = (MILLI + Grown(Today)) * q + s
                              /\ V!Total(Shared(q, s)) \in Int
<1> DEFINE g == Grown(Today)
<1>1. g \in Int
  BY TodayIsTime, Growth
<1> HIDE DEF g
<1>2. MILLI + g \in Int
  BY <1>1, VenearAssumption
<1>3. ASSUME NEW q \in Int, NEW s \in Int
      PROVE  /\ V!Total(Shared(q, s)) = (MILLI + g) * q + s
             /\ V!Total(Shared(q, s)) \in Int
  <2>1. V!Total(Shared(q, s)) = MILLI * q + (s + g * q)
    BY DEF V!Total, Shared, V!Balance, g
  <2>2. MILLI * q + (s + g * q) = (MILLI + g) * q + s /\ MILLI * q + (s + g * q) \in Int
    BY <1>1, VenearAssumption
  <2> QED
    BY <2>1, <2>2
<1> QED
  BY <1>2, <1>3, Zenon DEF g

\* What an account may vote with.
Votes(T, a)  == (SumFunction(PartsTo(T, a)) + PooledWhole(T[a]))
                - SumFunction(PartsOf(T[a], DOMAIN T))
Growths(T, a) == (SumFunction(SharesTo(T, a)) + PooledExtra(T[a]))
                 - SumFunction(SharesOf(T[a], DOMAIN T))

\* The balance of an account: what it may vote with, grown until now.
LEMMA BalanceOf ==
  ASSUME RecordsOK, TreeInv, now \in Nat, NEW a \in DOMAIN accounts
  PROVE  /\ V!ft_balance_of(a) = (MILLI + Grown(Today)) * Votes(tree, a) + Growths(tree, a)
         /\ Votes(tree, a) \in Int /\ Growths(tree, a) \in Int
<1> DEFINE D == DOMAIN tree
           u == V!Updated(tree[a])
           P == SumFunction(PartsTo(tree, a))
           S == SumFunction(SharesTo(tree, a))
           w == PooledWhole(tree[a])
           x == PooledExtra(tree[a])
           Q == SumFunction(PartsOf(tree[a], D))
           O == SumFunction(SharesOf(tree[a], D))
           k == MILLI + Grown(Today)
<1>1. /\ u \in Account(D) /\ u.update_timestamp = Today /\ SameProfile(u, tree[a])
      /\ u.delegated_balance = Shared(P, S)
  BY ViewOf, Zenon
<1>2. V!SumBalances(V!Contributions(u)) = Shared(Q, O) /\ Q \in Int /\ O \in Int
  BY ContributionsAre, Zenon
<1>3. P \in Int /\ S \in Int /\ w \in Int /\ x \in Int
  BY PartsType, PooledType, Zenon DEF TreeInv, TreeType, RecordsOK
<1>4. V!Pooled(u.balance) = Shared(w, x)
  <2>1. PooledWhole(u) = w /\ PooledExtra(u) = x
    BY <1>1, Zenon DEF SameProfile, PooledWhole, PooledExtra
  <2> QED
    BY <1>1, <2>1, PooledIs, Zenon
<1>5. /\ u.balance.near_balance \in Int /\ u.balance.extra_venear_balance \in Int
  <2>1. u.balance \in Balances
    BY <1>1, Zenon DEF Account
  <2>2. u.balance.near_balance \in Nat /\ u.balance.extra_venear_balance \in Int
    BY <2>1, Zenon DEF Balances
  <2> HIDE DEF u
  <2> QED
    BY <2>2
<1>6. V!Total(u.balance) = V!Total(V!Pooled(u.balance)) /\ V!Total(u.balance) \in Int
  <2> DEFINE n == u.balance.near_balance
             e == u.balance.extra_venear_balance
             m == V!truncate_near_to_millis(n)
  <2>1. m \in Int
    BY <1>5, Truncation, VenearAssumption
  <2>2. V!Total(u.balance) = n + e /\ V!Total(V!Pooled(u.balance)) = m + (e + (n - m))
    BY DEF V!Total, V!Pooled, V!Balance
  <2> HIDE DEF n, e, m, u
  <2>3. n \in Int /\ e \in Int
    BY <1>5 DEF n, e
  <2> QED
    BY <2>1, <2>2, <2>3
<1> HIDE DEF u, P, S, w, x, Q, O
<1> DEFINE A == u.delegated_balance
           B == u.balance
           C == V!SumBalances(V!Contributions(u))
<1>7. V!ft_balance_of(a) = V!Total(V!Minus(V!Add(A, B), C))
  BY Zenon DEF V!ft_balance_of, V!owned_total, u
<1>8. /\ A.near_balance \in Int /\ A.extra_venear_balance \in Int
      /\ C.near_balance \in Int /\ C.extra_venear_balance \in Int
  BY <1>1, <1>2, <1>3, SharedType
<1>9. V!Total(V!Minus(V!Add(A, B), C)) = (V!Total(A) + V!Total(B)) - V!Total(C)
  <2> HIDE DEF A, B, C
  <2>1. B.near_balance \in Int /\ B.extra_venear_balance \in Int
    BY <1>5 DEF B
  <2> QED
    BY <1>8, <2>1 DEF V!Total, V!Minus, V!Add, V!Balance
<1>10. /\ V!Total(A) = k * P + S /\ V!Total(B) = k * w + x /\ V!Total(C) = k * Q + O
       /\ k \in Int
  BY <1>1, <1>2, <1>3, <1>4, <1>6, SharedTotal
<1> HIDE DEF A, B, C, k
<1>11. ((k * P + S) + (k * w + x)) - (k * Q + O) = k * ((P + w) - Q) + ((S + x) - O)
  BY <1>2, <1>3, <1>10
<1>12. Votes(tree, a) = (P + w) - Q /\ Growths(tree, a) = (S + x) - O
  BY Zenon DEF Votes, Growths, P, S, w, x, Q, O
<1>13. (P + w) - Q \in Int /\ (S + x) - O \in Int
  BY <1>2, <1>3
<1> QED
  BY <1>7, <1>9, <1>10, <1>11, <1>12, <1>13 DEF k

\* What all accounts delegate is what is delegated to them all.
LEMMA OutIsIn ==
  ASSUME NEW T, TreeType(T), NEW D, D = DOMAIN T
  PROVE  /\ SumFunctionOnSet([a \in D |-> SumFunction(PartsOf(T[a], D))], D)
              = SumFunctionOnSet([a \in D |-> SumFunction(PartsTo(T, a))], D)
         /\ SumFunctionOnSet([a \in D |-> SumFunction(SharesOf(T[a], D))], D)
              = SumFunctionOnSet([a \in D |-> SumFunction(SharesTo(T, a))], D)
<1>1. IsFiniteSet(D) /\ \A d \in D : T[d] \in Account(D)
  BY DEF TreeType
<1>2. \A d, x \in D : Part(T[d], x) \in Int /\ Share(T[d], x) \in Int
  <2> TAKE d, x \in D
  <2>1. T[d] \in Account(D)
    BY <1>1
  <2> QED
    BY <2>1, ContributionOf
<1>3. SumFunctionOnSet([a \in D |-> SumFunction(PartsOf(T[a], D))], D)
      = SumFunctionOnSet([a \in D |-> SumFunction(PartsTo(T, a))], D)
  <2> DEFINE m == [d \in D |-> PartsOf(T[d], D)]
  <2>1. \A d \in D : \A x \in D : m[d][x] \in Int
    BY <1>2 DEF PartsOf
  <2>2. \A d \in D : SumFunctionOnSet(m[d], D) = SumFunction(PartsOf(T[d], D))
    <3> TAKE d \in D
    <3>1. m[d] = PartsOf(T[d], D) /\ DOMAIN PartsOf(T[d], D) = D
      BY DEF PartsOf
    <3> QED
      BY <3>1, SumOnDomain
  <2>3. \A x \in D : SumFunctionOnSet([d \in D |-> m[d][x]], D) = SumFunction(PartsTo(T, x))
    <3> TAKE x \in D
    <3>1. [d \in D |-> m[d][x]] = PartsTo(T, x)
      BY DEF PartsTo, PartsOf
    <3>2. DOMAIN PartsTo(T, x) = D
      BY DEF PartsTo
    <3> QED
      BY <3>1, <3>2, SumOnDomain
  <2> HIDE DEF m
  <2>4. SumFunctionOnSet(RowSums(m, D, D), D) = SumFunctionOnSet(ColumnSums(m, D, D), D)
    BY <1>1, <2>1, SumSwap DEF Table
  <2>5. /\ RowSums(m, D, D) = [a \in D |-> SumFunction(PartsOf(T[a], D))]
        /\ ColumnSums(m, D, D) = [a \in D |-> SumFunction(PartsTo(T, a))]
    BY <2>2, <2>3, Zenon DEF RowSums, ColumnSums
  <2> QED
    BY <2>4, <2>5
<1>4. SumFunctionOnSet([a \in D |-> SumFunction(SharesOf(T[a], D))], D)
      = SumFunctionOnSet([a \in D |-> SumFunction(SharesTo(T, a))], D)
  <2> DEFINE m == [d \in D |-> SharesOf(T[d], D)]
  <2>1. \A d \in D : \A x \in D : m[d][x] \in Int
    BY <1>2 DEF SharesOf
  <2>2. \A d \in D : SumFunctionOnSet(m[d], D) = SumFunction(SharesOf(T[d], D))
    <3> TAKE d \in D
    <3>1. m[d] = SharesOf(T[d], D) /\ DOMAIN SharesOf(T[d], D) = D
      BY DEF SharesOf
    <3> QED
      BY <3>1, SumOnDomain
  <2>3. \A x \in D : SumFunctionOnSet([d \in D |-> m[d][x]], D) = SumFunction(SharesTo(T, x))
    <3> TAKE x \in D
    <3>1. [d \in D |-> m[d][x]] = SharesTo(T, x)
      BY DEF SharesTo, SharesOf
    <3>2. DOMAIN SharesTo(T, x) = D
      BY DEF SharesTo
    <3> QED
      BY <3>1, <3>2, SumOnDomain
  <2> HIDE DEF m
  <2>4. SumFunctionOnSet(RowSums(m, D, D), D) = SumFunctionOnSet(ColumnSums(m, D, D), D)
    BY <1>1, <2>1, SumSwap DEF Table
  <2>5. /\ RowSums(m, D, D) = [a \in D |-> SumFunction(SharesOf(T[a], D))]
        /\ ColumnSums(m, D, D) = [a \in D |-> SumFunction(SharesTo(T, a))]
    BY <2>2, <2>3, Zenon DEF RowSums, ColumnSums
  <2> QED
    BY <2>4, <2>5
<1> QED
  BY <1>3, <1>4

\* A sum in which what goes out, u, is what comes in, v.
Cancels(z, u, v, w, D) ==
    /\ u \in [D -> Int] /\ v \in [D -> Int] /\ w \in [D -> Int]
    /\ SumFunctionOnSet(u, D) = SumFunctionOnSet(v, D)
    /\ \A a \in D : z[a] = (v[a] + w[a]) - u[a]

\* What goes out and comes in leaves the sum as it was.
LEMMA SumCancels ==
  ASSUME NEW D, IsFiniteSet(D), NEW u, NEW v, NEW w, NEW z, Cancels(z, u, v, w, D)
  PROVE  SumFunctionOnSet(z, D) = SumFunctionOnSet(w, D)
<1> DEFINE t == [a \in D |-> v[a] + w[a]]
<1>1. Linear(t, 1, v, w, D) /\ Linear(z, -1, u, t, D)
  BY DEF Linear, Cancels
<1> HIDE DEF t
<1>2. SumFunctionOnSet(t, D) = 1 * SumFunctionOnSet(v, D) + SumFunctionOnSet(w, D)
  BY <1>1, SumLinear
<1>3. SumFunctionOnSet(z, D) = (-1) * SumFunctionOnSet(u, D) + SumFunctionOnSet(t, D)
  BY <1>1, SumLinear
<1>4. SumFunctionOnSet(v, D) \in Int /\ SumFunctionOnSet(w, D) \in Int
  BY SumInt DEF Cancels
<1> QED
  BY <1>2, <1>3, <1>4 DEF Cancels

\* The supply is the sum of the balances.
LEMMA SupplyIsSum ==
  ASSUME RecordsOK, TreeInv, now \in Nat
  PROVE  V!SupplyIsBalances
<1> DEFINE D == DOMAIN accounts
           k == MILLI + Grown(Today)
           b == [a \in D |-> V!ft_balance_of(a)]
           y == [a \in D |-> Votes(tree, a)]
           z == [a \in D |-> Growths(tree, a)]
           W == SumFunction(Wholes(tree))
           X == SumFunction(Extras(tree))
           in == [a \in D |-> SumFunction(PartsTo(tree, a))]
           out == [a \in D |-> SumFunction(PartsOf(tree[a], D))]
           inX == [a \in D |-> SumFunction(SharesTo(tree, a))]
           outX == [a \in D |-> SumFunction(SharesOf(tree[a], D))]
<1>1. /\ D = DOMAIN tree /\ IsFiniteSet(D) /\ TreeType(tree)
      /\ TotalAgrees(tree, global_state)
  BY DEF TreeInv, TreeType, RecordsOK
<1>2. W \in Int /\ X \in Int /\ k \in Int
  BY <1>1, TotalsType, SharedTotal, Zenon
<1>3. V!ft_total_supply = k * W + X
  <2>1. V!GlobalUpdated.total_venear_balance = Shared(W, X)
    BY <1>1, GlobalUpdatedIs
  <2> QED
    BY <1>2, <2>1, SharedTotal DEF V!ft_total_supply
<1>4. /\ \A a \in D : y[a] \in Int /\ z[a] \in Int /\ b[a] = k * y[a] + z[a]
  BY BalanceOf
<1>5. /\ in \in [D -> Int] /\ out \in [D -> Int] /\ inX \in [D -> Int] /\ outX \in [D -> Int]
      /\ Wholes(tree) \in [D -> Int] /\ Extras(tree) \in [D -> Int]
  BY <1>1, PartsType, ContributionsAre, TotalsType, Zenon
<1>6. \A a \in D : /\ y[a] = (in[a] + Wholes(tree)[a]) - out[a]
                   /\ z[a] = (inX[a] + Extras(tree)[a]) - outX[a]
  BY <1>1, Zenon DEF Votes, Growths, Wholes, Extras
<1>7. /\ SumFunctionOnSet(out, D) = SumFunctionOnSet(in, D)
      /\ SumFunctionOnSet(outX, D) = SumFunctionOnSet(inX, D)
  BY <1>1, OutIsIn, Zenon
<1>8. DOMAIN b = D
  OBVIOUS
<1> HIDE DEF k, b, y, z, in, out, inX, outX
<1>9. SumFunctionOnSet(y, D) = SumFunctionOnSet(Wholes(tree), D)
  <2>1. Cancels(y, out, in, Wholes(tree), D)
    BY <1>5, <1>6, <1>7, Zenon DEF Cancels
  <2>2. IsFiniteSet(D)
    BY <1>1, Zenon
  <2> HIDE DEF D
  <2> QED
    BY <2>1, <2>2, SumCancels
<1>10. SumFunctionOnSet(z, D) = SumFunctionOnSet(Extras(tree), D)
  <2>1. Cancels(z, outX, inX, Extras(tree), D)
    BY <1>5, <1>6, <1>7, Zenon DEF Cancels
  <2>2. IsFiniteSet(D)
    BY <1>1, Zenon
  <2> HIDE DEF D
  <2> QED
    BY <2>1, <2>2, SumCancels
<1>11. W = SumFunctionOnSet(Wholes(tree), D) /\ X = SumFunctionOnSet(Extras(tree), D)
  BY <1>5, SumOnDomain
<1>12. Linear(b, k, y, z, D)
  BY <1>1, <1>2, <1>4 DEF Linear
<1>13. SumFunctionOnSet(b, D) = k * SumFunctionOnSet(y, D) + SumFunctionOnSet(z, D)
  BY <1>12, SumLinear
<1>14. SumFunction(b) = SumFunctionOnSet(b, D)
  BY <1>8, SumOnDomain
<1>15. V!ft_total_supply = SumFunction(b)
  BY <1>3, <1>9, <1>10, <1>11, <1>13, <1>14, Zenon
<1> QED
  BY <1>15, SumInVenear, Zenon DEF V!SupplyIsBalances, b

-----------------------------------------------------------------------------
(* The theorems. *)

\* The calls of users and of the owner keep the invariant.
LEMMA CallsKeep ==
  ASSUME RecordsOK, TreeInv, now \in Nat, V!VenearCalls
  PROVE  TreeInv'
<1>1. ASSUME V!set_lockup_contract \/ V!set_local_deposit \/ V!set_max_delegations
             \/ V!pause \/ V!unpause
      PROVE  TreeInv'
  <2>1. tree' = tree /\ global_state' = global_state
    BY <1>1 DEF V!set_lockup_contract, V!set_local_deposit, V!set_max_delegations,
       V!pause, V!unpause, V!OwnerCalls, V!state
  <2> QED
    BY <2>1, Zenon DEF TreeInv
<1> QED
  BY <1>1, RegisterKeeps, SetDelegationsKeeps DEF V!VenearCalls

\* Every step of the system keeps the invariant.
LEMMA TreeStep ==
  ASSUME SystemTypeOK, KnownInv, TreeInv, [Next]_vars
  PROVE  TreeInv'
<1>1. RecordsOK /\ now \in Nat
  BY DEF SystemTypeOK, LockupTypeOK
<1>2. ASSUME UNCHANGED <<tree, global_state>> PROVE TreeInv'
  BY <1>2, Zenon DEF TreeInv
<1>3. CASE UNCHANGED venear
  BY <1>2, <1>3 DEF venear
<1>4. CASE V!VenearCalls
  BY <1>1, <1>4, CallsKeep
<1>5. CASE \E d \in Deposits : deploy_lockup(d)
  BY <1>2, <1>5 DEF deploy_lockup, V!deploy_lockup, V!venearVars
<1>6. ASSUME NEW m \in deploys, CreateLockup(m) \/ LockupDeployed(m) PROVE TreeInv'
  BY <1>2, <1>6 DEF CreateLockup, LockupDeployed, V!on_lockup_deployed, venear
<1>7. ASSUME NEW u \in updates, UpdateArrives(u) PROVE TreeInv'
  <2>1. CASE V!on_lockup_update(Owner, u)
    BY <1>1, <2>1, ReceiptType, LockupUpdateKeeps
  <2>2. CASE V!UpdateRefused(Owner, u)
    BY <1>2, <2>2 DEF V!UpdateRefused, V!venearVars
  <2> QED
    BY <1>7, <2>1, <2>2 DEF UpdateArrives
<1> QED
  BY <1>3, <1>4, <1>5, <1>6, <1>7 DEF Next, OwnerReports, ReceiptRuns, ClockTicks, vars

\* The inductive invariant of the system.
SystemInv == SystemTypeOK /\ KnownInv /\ TreeInv

\* The invariant holds in every state of the system.
LEMMA SystemInvHolds == Spec => []SystemInv
<1>1. Init => SystemInv
  <2> SUFFICES ASSUME Init PROVE SystemInv
    OBVIOUS
  <2>1. SystemTypeOK /\ KnownInv
    BY SystemInit
  <2>2. RecordsOK /\ now \in Nat /\ V!VenearInit
    BY <2>1 DEF SystemTypeOK, LockupTypeOK, Init
  <2> QED
    BY <2>1, <2>2, TreeInit DEF SystemInv
<1>2. SystemInv /\ [Next]_vars => SystemInv'
  BY SystemStep, TreeStep DEF SystemInv
<1> QED
  BY <1>1, <1>2, PTL DEF Spec

\* The total supply is at every instant the sum of what the accounts may vote
\* with: no report, growth, rounding or delegation makes or loses voting power.
THEOREM SupplySafe == Spec => []SupplyIsBalances
<1>1. SystemInv => SupplyIsBalances
  BY SupplyIsSum DEF SystemInv, SystemTypeOK, LockupTypeOK, SupplyIsBalances
<1> QED
  BY <1>1, SystemInvHolds, PTL

\* What is delegated to an account is at every instant the sum of the shares
\* of its delegators' balances, in both components.
THEOREM DelegatedSafe == Spec => []DelegatedIsContributions
<1>1. SystemInv => DelegatedIsContributions
  BY PoolsAreShares DEF SystemInv, SystemTypeOK, LockupTypeOK, DelegatedIsContributions
<1> QED
  BY <1>1, SystemInvHolds, PTL
=============================================================================
