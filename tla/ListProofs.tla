------------------------------ MODULE ListProofs ------------------------------
(***************************************************************************)
(* The facts about lists of any length that the proofs about the           *)
(* components use.                                                         *)
(***************************************************************************)
EXTENDS Lists, FiniteSetTheorems, WellFoundedInduction, TLAPS

-----------------------------------------------------------------------------
(* Sequences. *)

LEMMA IsSeq ==
    ASSUME NEW X,
           NEW n \in Nat, NEW f \in [1..n -> X]
    PROVE  f \in Seq(X) /\ Len(f) = n
OBVIOUS

LEMMA SameSeq ==
    ASSUME NEW X,
           NEW s \in Seq(X), NEW t \in Seq(X), Len(s) = Len(t),
           \A j \in 1..Len(s) : s[j] = t[j]
    PROVE  s = t
OBVIOUS

-----------------------------------------------------------------------------
(* Sorting. *)

\* p stands behind q when s is sorted.
Before(s, q, p) == s[q].order < s[p].order \/ (s[q].order = s[p].order /\ q < p)

Below(s, p) == {q \in 1..Len(s) : Before(s, q, p)}

Ascending(s) == \A q, p \in 1..Len(s) : q < p => s[q].order <= s[p].order

HaveOrders(X) == \A e \in X : e.order \in Int

LEMMA OrderType ==
    ASSUME NEW X, HaveOrders(X),
           NEW s \in Seq(X)
    PROVE  /\ Len(s) \in Nat /\ DOMAIN s = 1..Len(s)
           /\ \A p \in 1..Len(s) : s[p] \in X /\ s[p].order \in Int
<1>1. \A p \in 1..Len(s) : s[p] \in X
  OBVIOUS
<1>2. \A p \in 1..Len(s) : s[p].order \in Int
  BY <1>1 DEF HaveOrders
<1> QED BY <1>1, <1>2

LEMMA BelowIsFinite ==
    ASSUME NEW X, HaveOrders(X),
           NEW s \in Seq(X), NEW p \in 1..Len(s)
    PROVE  /\ IsFiniteSet(Below(s, p)) /\ Cardinality(Below(s, p)) \in Nat
           /\ Rank(s, p) = 1 + Cardinality(Below(s, p))
           /\ Rank(s, p) \in 1..Len(s)
<1>0. Len(s) \in Nat
  BY OrderType
<1>1. IsFiniteSet(1..Len(s)) /\ Cardinality(1..Len(s)) = Len(s)
  BY ONLY <1>0, FS_Interval
<1>2. Below(s, p) \subseteq 1..Len(s)
  BY DEF Below
<1>3. /\ IsFiniteSet(Below(s, p)) /\ Cardinality(Below(s, p)) <= Len(s)
      /\ Cardinality(Below(s, p)) = Len(s) => Below(s, p) = 1..Len(s)
  BY <1>1, <1>2, FS_Subset
<1>4. Cardinality(Below(s, p)) \in Nat
  BY <1>3, FS_CardinalityType
<1>5. p \notin Below(s, p)
  BY OrderType DEF Below, Before
<1>6. Cardinality(Below(s, p)) # Len(s)
  BY <1>3, <1>5
<1>7. Rank(s, p) = 1 + Cardinality(Below(s, p))
  BY DEF Rank, Below, Before
<1> QED BY <1>3, <1>4, <1>6, <1>7, OrderType

\* Ranks tell which of two elements stands first.
LEMMA RankIsMonotone ==
    ASSUME NEW X, HaveOrders(X),
           NEW s \in Seq(X), NEW p \in 1..Len(s), NEW q \in 1..Len(s),
           Before(s, q, p)
    PROVE  Rank(s, q) < Rank(s, p)
<1>1. Below(s, q) \subseteq Below(s, p)
  BY OrderType DEF Below, Before
<1>2. q \in Below(s, p) /\ q \notin Below(s, q)
  BY OrderType DEF Below, Before
<1>3. /\ Cardinality(Below(s, q)) <= Cardinality(Below(s, p))
      /\ Cardinality(Below(s, q)) # Cardinality(Below(s, p))
  BY <1>1, <1>2, BelowIsFinite, FS_Subset
<1> QED BY <1>3, BelowIsFinite

LEMMA RankIsInjective ==
    ASSUME NEW X, HaveOrders(X),
           NEW s \in Seq(X), NEW p \in 1..Len(s), NEW q \in 1..Len(s),
           Rank(s, p) = Rank(s, q)
    PROVE  p = q
<1> SUFFICES ASSUME p # q PROVE FALSE
  OBVIOUS
<1>1. Before(s, p, q) \/ Before(s, q, p)
  BY OrderType DEF Before
<1>2. Rank(s, p) < Rank(s, q) \/ Rank(s, q) < Rank(s, p)
  BY <1>1, RankIsMonotone
<1> QED BY <1>2, BelowIsFinite

\* Every place is some element's.
LEMMA RankIsOnto ==
    ASSUME NEW X, HaveOrders(X),
           NEW s \in Seq(X), NEW p \in 1..Len(s)
    PROVE  \E q \in 1..Len(s) : Rank(s, q) = p
<1> DEFINE n == Len(s)
           f == [q \in 1..n |-> Rank(s, q)]
<1>1. f \in [1..n -> 1..n]
  BY BelowIsFinite
<1>2. \A q, r \in 1..n : q # r => f[q] # f[r]
  <2> SUFFICES ASSUME NEW q \in 1..n, NEW r \in 1..n, q # r PROVE f[q] # f[r]
    OBVIOUS
  <2> QED BY RankIsInjective
<1>3. IsFiniteSet(1..n)
  BY OrderType, FS_Interval
<1>4. f \in Injection(1..n, 1..n)
  BY <1>1, <1>2 DEF Injection, IsInjective
<1>5. f \in Surjection(1..n, 1..n)
  BY <1>3, <1>4, FS_Injection
<1> QED BY <1>5 DEF Surjection

\* Which element a sorted list has at a place.
LEMMA SortTakes ==
    ASSUME NEW X, HaveOrders(X),
           NEW s \in Seq(X)
    PROVE  /\ StableSort(s) \in Seq(X) /\ Len(StableSort(s)) = Len(s)
           /\ \A p \in 1..Len(s) : \E q \in 1..Len(s) :
                Rank(s, q) = p /\ StableSort(s)[p] = s[q]
<1> DEFINE at(p) == CHOOSE q \in 1..Len(s) : Rank(s, q) = p
<1>1. \A p \in 1..Len(s) : at(p) \in 1..Len(s) /\ Rank(s, at(p)) = p
  BY RankIsOnto
<1>2. StableSort(s) = [p \in 1..Len(s) |-> s[at(p)]]
  BY DEF StableSort
<1> HIDE DEF at
<1>3. \A p \in 1..Len(s) : s[at(p)] \in X
  BY <1>1, OrderType
<1>4. StableSort(s) \in Seq(X) /\ Len(StableSort(s)) = Len(s)
  BY <1>2, <1>3, OrderType
<1> QED BY <1>1, <1>2, <1>4

\* It is sorted.
LEMMA SortAscends ==
    ASSUME NEW X, HaveOrders(X),
           NEW s \in Seq(X)
    PROVE  Ascending(StableSort(s))
<1> DEFINE t == StableSort(s)
<1> SUFFICES ASSUME NEW p \in 1..Len(s), NEW r \in 1..Len(s), p < r
             PROVE  t[p].order <= t[r].order
  BY SortTakes DEF Ascending
<1>1. PICK q \in 1..Len(s) : Rank(s, q) = p /\ t[p] = s[q]
  BY SortTakes
<1>2. PICK u \in 1..Len(s) : Rank(s, u) = r /\ t[r] = s[u]
  BY SortTakes
<1>3. ~ Before(s, u, q)
  <2> SUFFICES ASSUME Before(s, u, q) PROVE FALSE
    OBVIOUS
  <2>1. Rank(s, u) < Rank(s, q)
    BY RankIsMonotone
  <2> QED BY <1>1, <1>2, <2>1
<1> QED BY <1>1, <1>2, <1>3, OrderType DEF Before

\* A sorted list is not changed.
LEMMA SortKeepsSorted ==
    ASSUME NEW X, HaveOrders(X),
           NEW s \in Seq(X), Ascending(s)
    PROVE  StableSort(s) = s
<1>1. ASSUME NEW p \in 1..Len(s)
      PROVE  Rank(s, p) = p
  <2>1. Below(s, p) = 1..(p - 1)
    BY OrderType DEF Below, Before, Ascending
  <2>2. Cardinality(1..(p - 1)) = p - 1
    BY FS_Interval
  <2> QED BY <2>1, <2>2, BelowIsFinite
<1>2. ASSUME NEW p \in 1..Len(s)
      PROVE  StableSort(s)[p] = s[p]
  <2>1. PICK q \in 1..Len(s) : Rank(s, q) = p /\ StableSort(s)[p] = s[q]
    BY SortTakes
  <2> QED BY <1>1, <2>1
<1>3. StableSort(s) \in Seq(X) /\ Len(StableSort(s)) = Len(s)
  BY SortTakes
<1> QED BY <1>2, <1>3

\* The pass over elements six apart exchanges some.
LEMMA GapType ==
    ASSUME NEW X, HaveOrders(X),
           NEW s \in Seq(X)
    PROVE  GapPass(s) \in Seq(X) /\ Len(GapPass(s)) = Len(s)
<1>1. \A p \in 1..Len(s) :
        GapPass(s)[p] \in X
  BY OrderType DEF GapPass
<1> QED BY <1>1, OrderType DEF GapPass

LEMMA GapKeepsSorted ==
    ASSUME NEW X, HaveOrders(X),
           NEW s \in Seq(X), Ascending(s)
    PROVE  GapPass(s) = s
<1>1. \A p \in 1..Len(s) : GapPass(s)[p] = s[p]
  BY SMTT(30), OrderType DEF GapPass, Ascending
<1> QED BY <1>1, GapType

\* Go's sort returns a list as long, and does not change what it has sorted.
LEMMA SortType ==
    ASSUME NEW X, HaveOrders(X),
           NEW s \in Seq(X)
    PROVE  GoSort(s) \in Seq(X) /\ Len(GoSort(s)) = Len(s)
BY GapType, SortTakes DEF GoSort

LEMMA SortTwice ==
    ASSUME NEW X, HaveOrders(X),
           NEW s \in Seq(X)
    PROVE  GoSort(GoSort(s)) = GoSort(s)
<1>1. Ascending(GoSort(s))
  BY GapType, SortAscends DEF GoSort
<1>2. GapPass(GoSort(s)) = GoSort(s)
  BY <1>1, SortType, GapKeepsSorted
<1>3. StableSort(GoSort(s)) = GoSort(s)
  BY <1>1, SortType, SortKeepsSorted
<1> QED BY <1>2, <1>3 DEF GoSort

\* It has the elements of s.
LEMMA GoSortTakes ==
    ASSUME NEW X, HaveOrders(X), NEW s \in Seq(X)
    PROVE  /\ GoSort(s) \in Seq(X) /\ Len(GoSort(s)) = Len(s)
           /\ \A p \in 1..Len(s) : \E q \in 1..Len(s) : GoSort(s)[p] = s[q]
<1>1. GapPass(s) \in Seq(X) /\ Len(GapPass(s)) = Len(s) /\ Len(s) \in Nat
  BY GapType, OrderType
<1>2. ASSUME NEW p \in 1..Len(s)
      PROVE  \E q \in 1..Len(s) : GapPass(s)[p] = s[q]
  <2>1. GapPass(s)[p] \in {s[p], IF p + 6 <= Len(s) THEN s[p + 6] ELSE s[p],
                          IF p > 6 THEN s[p - 6] ELSE s[p]}
    BY DEF GapPass
  <2>2. /\ p + 6 <= Len(s) => p + 6 \in 1..Len(s)
        /\ p > 6 => p - 6 \in 1..Len(s)
    BY <1>1
  <2> QED BY <2>1, <2>2
<1>3. ASSUME NEW p \in 1..Len(s)
      PROVE  \E q \in 1..Len(s) : GoSort(s)[p] = s[q]
  <2>1. PICK r \in 1..Len(s) : GoSort(s)[p] = GapPass(s)[r]
    BY <1>1, SortTakes DEF GoSort
  <2> QED BY <1>2, <2>1
<1> QED BY <1>3, SortType

\* f says where in s the elements of t are, and the sort sees no difference.
Rearranges(t, s, f) ==
    /\ Len(t) = Len(s)
    /\ f \in [1..Len(s) -> 1..Len(s)]
    /\ \A q \in 1..Len(s) : \E p \in 1..Len(s) : f[p] = q
    /\ \A p \in 1..Len(s) : t[p] = s[f[p]]
    /\ \A p, q \in 1..Len(s) : Before(t, p, q) <=> Before(s, f[p], f[q])

LEMMA RearrangedSortsAlike ==
    ASSUME NEW X, HaveOrders(X),
           NEW s \in Seq(X), NEW t \in Seq(X), NEW f, Rearranges(t, s, f)
    PROVE  StableSort(t) = StableSort(s)
<1> DEFINE n == Len(s)
<1>1. n \in Nat /\ Len(t) = n
  BY OrderType DEF Rearranges
<1>2. \A p, q \in 1..n : f[p] = f[q] => p = q
  <2> SUFFICES ASSUME NEW p \in 1..n, NEW q \in 1..n, f[p] = f[q] PROVE p = q
    OBVIOUS
  <2>1. ~ Before(s, f[p], f[q]) /\ ~ Before(s, f[q], f[p])
    <3>1. f[p] \in 1..Len(s)
      BY DEF Rearranges
    <3>2. s[f[p]].order \in Int /\ f[p] \in Int
      BY <3>1, OrderType
    <3>3. ~ Before(s, f[p], f[p])
      BY <3>2 DEF Before
    <3> QED BY <3>3
  <2>2. ~ Before(t, p, q) /\ ~ Before(t, q, p)
    BY <2>1 DEF Rearranges
  <2> QED BY <1>1, <2>2, OrderType DEF Before
<1>3. ASSUME NEW p \in 1..n
      PROVE  Rank(t, p) = Rank(s, f[p])
  <2> DEFINE B == Below(t, p)
             C == Below(s, f[p])
             g == [q \in B |-> f[q]]
  <2>1. f[p] \in 1..n
    BY DEF Rearranges
  <2>2. B \subseteq 1..n /\ C \subseteq 1..n
    BY <1>1 DEF Below
  <2>3. g \in [B -> C]
    BY <1>1, <2>2 DEF Below, Rearranges
  <2>4. \A q, r \in B : g[q] = g[r] => q = r
    BY <1>2, <2>2
  <2>5. \A r \in C : \E q \in B : g[q] = r
    <3> SUFFICES ASSUME NEW r \in C PROVE \E q \in B : g[q] = r
      OBVIOUS
    <3>1. PICK q \in 1..n : f[q] = r
      BY <2>2 DEF Rearranges
    <3>2. Before(s, r, f[p])
      BY DEF Below
    <3>3. q \in B
      BY <1>1, <3>1, <3>2 DEF Below, Rearranges
    <3> QED BY <3>1, <3>3
  <2>6. g \in Bijection(B, C)
    BY <2>3, <2>4, <2>5 DEF Bijection, Injection, Surjection, IsInjective
  <2>7. Cardinality(C) = Cardinality(B)
    <3>1. ExistsBijection(B, C)
      BY <2>6 DEF ExistsBijection
    <3>2. IsFiniteSet(B)
      BY <1>1, BelowIsFinite
    <3> QED BY <3>1, <3>2, FS_Bijection
  <2> QED BY <1>1, <2>1, <2>7, BelowIsFinite
<1>4. ASSUME NEW j \in 1..n
      PROVE  StableSort(t)[j] = StableSort(s)[j]
  <2>1. PICK p \in 1..n : Rank(t, p) = j /\ StableSort(t)[j] = t[p]
    BY <1>1, SortTakes
  <2>2. PICK q \in 1..n : Rank(s, q) = j /\ StableSort(s)[j] = s[q]
    BY SortTakes
  <2>3. f[p] \in 1..n /\ Rank(s, f[p]) = Rank(s, q) /\ t[p] = s[f[p]]
    BY <1>3, <2>1, <2>2 DEF Rearranges
  <2>4. f[p] = q
    BY <2>3, RankIsInjective
  <2> QED BY <2>1, <2>2, <2>3, <2>4
<1> QED BY <1>1, <1>4, SortTakes, SameSeq

\* A list and the sorted list are rearrangements of the list.
LEMMA SortRearranges ==
    ASSUME NEW X, HaveOrders(X),
           NEW s \in Seq(X), NEW t \in {s, StableSort(s)}
    PROVE  \E f : Rearranges(t, s, f)
<1> DEFINE n == Len(s)
<1>1. CASE t = s
  <2> DEFINE f == [p \in 1..n |-> p]
  <2>1. Rearranges(s, s, f)
    BY OrderType DEF Rearranges
  <2> QED BY <1>1, <2>1
<1>2. CASE t = StableSort(s)
  <2> DEFINE at(p) == CHOOSE q \in 1..n : Rank(s, q) = p /\ t[p] = s[q]
             f == [p \in 1..n |-> at(p)]
  <2>1. ASSUME NEW p \in 1..n
        PROVE  at(p) \in 1..n /\ Rank(s, at(p)) = p /\ t[p] = s[at(p)]
    <3>1. \E q \in 1..n : Rank(s, q) = p /\ t[p] = s[q]
      BY <1>2, SortTakes
    <3> QED BY <3>1
  <2> HIDE DEF at
  <2>2. f \in [1..n -> 1..n] /\ \A p \in 1..n : t[p] = s[f[p]] /\ Rank(s, f[p]) = p
    BY <2>1
  <2> HIDE DEF f
  <2>3. ASSUME NEW q \in 1..n PROVE \E p \in 1..n : f[p] = q
    <3>1. Rank(s, q) \in 1..n
      BY BelowIsFinite
    <3>2. Rank(s, f[Rank(s, q)]) = Rank(s, q) /\ f[Rank(s, q)] \in 1..n
      BY <2>2, <3>1
    <3>3. f[Rank(s, q)] = q
      BY <3>2, RankIsInjective
    <3> QED BY <3>1, <3>3
  <2>4. ASSUME NEW p \in 1..n, NEW q \in 1..n
        PROVE  Before(t, p, q) <=> Before(s, f[p], f[q])
    <3>1. Len(t) = n /\ Ascending(t) /\ t \in Seq(X) /\ n \in Nat
      BY <1>2, SortTakes, SortAscends, OrderType
    <3>2. Before(t, p, q) <=> p < q
      BY <3>1, OrderType DEF Before, Ascending
    <3>3. f[p] \in 1..n /\ f[q] \in 1..n /\ Rank(s, f[p]) = p /\ Rank(s, f[q]) = q
      BY <2>2
    <3>4. CASE p < q
      <4>1. ~ Before(s, f[q], f[p])
        BY <3>1, <3>3, <3>4, RankIsMonotone
      <4>2. f[p] # f[q]
        BY <3>3, <3>4
      <4> QED BY <3>2, <3>3, <3>4, <4>1, <4>2, OrderType DEF Before
    <3>5. CASE ~ (p < q)
      <4>1. ~ Before(s, f[p], f[q])
        BY <3>1, <3>3, <3>5, RankIsMonotone
      <4> QED BY <3>2, <3>5, <4>1
    <3> QED BY <3>4, <3>5
  <2>5. Rearranges(t, s, f)
    BY <1>2, <2>2, <2>3, <2>4, SortTakes DEF Rearranges
  <2> QED BY <2>5
<1> QED BY <1>1, <1>2

\* One list behind another.
LEMMA JoinedType ==
    ASSUME NEW X,
           NEW s \in Seq(X), NEW u \in Seq(X)
    PROVE  /\ s \o u \in Seq(X) /\ Len(s \o u) = Len(s) + Len(u)
           /\ \A p \in 1..Len(s) : (s \o u)[p] = s[p]
           /\ \A r \in 1..Len(u) : (s \o u)[Len(s) + r] = u[r]
<1>1. s \o u \in Seq(X) /\ Len(s \o u) = Len(s) + Len(u)
  OBVIOUS
<1>2. Len(s) \in Nat /\ Len(u) \in Nat
  OBVIOUS
<1>3. ASSUME NEW p \in 1..Len(s) PROVE (s \o u)[p] = s[p]
  OBVIOUS
<1>4. ASSUME NEW r \in 1..Len(u) PROVE (s \o u)[Len(s) + r] = u[r]
  OBVIOUS
<1> QED BY <1>1, <1>3, <1>4

\* A place in the joined list is one in either list.
LEMMA JoinedPlace ==
    ASSUME NEW n \in Nat, NEW m \in Nat, NEW p \in 1..(n + m)
    PROVE  p \in 1..n \/ \E r \in 1..m : p = n + r
<1>1. CASE p <= n
  BY <1>1
<1>2. CASE ~ (p <= n)
  <2>1. p - n \in 1..m /\ p = n + (p - n)
    BY <1>2
  <2> QED BY <2>1
<1> QED BY <1>1, <1>2

\* Two rearrangements behind one another are one of the joined list.
LEMMA JoinedRearranges ==
    ASSUME NEW X, HaveOrders(X),
           NEW s \in Seq(X), NEW u \in Seq(X),
           NEW t \in Seq(X), NEW v \in Seq(X),
           NEW f, NEW g, Rearranges(t, s, f), Rearranges(v, u, g)
    PROVE  \E h : Rearranges(t \o v, s \o u, h)
<1> DEFINE n == Len(s)
           m == Len(u)
           h == [p \in 1..(n + m) |-> IF p <= n THEN f[p] ELSE n + g[p - n]]
           x == t \o v
           y == s \o u
<1>1. /\ n \in Nat /\ m \in Nat /\ Len(t) = n /\ Len(v) = m
      /\ \A p \in 1..n : f[p] \in 1..n
      /\ \A r \in 1..m : g[r] \in 1..m
  BY OrderType DEF Rearranges
<1>2. /\ Len(x) = n + m /\ Len(y) = n + m
      /\ \A p \in 1..n : x[p] = t[p] /\ y[p] = s[p]
      /\ \A r \in 1..m : x[n + r] = v[r] /\ y[n + r] = u[r]
  <2>1. /\ Len(y) = n + m /\ \A p \in 1..n : y[p] = s[p]
        /\ \A r \in 1..m : y[n + r] = u[r]
    BY JoinedType
  <2>2. /\ Len(t \o v) = Len(t) + Len(v)
        /\ \A p \in 1..Len(t) : (t \o v)[p] = t[p]
        /\ \A r \in 1..Len(v) : (t \o v)[Len(t) + r] = v[r]
    BY JoinedType
  <2> QED BY <1>1, <2>1, <2>2
<1> HIDE DEF x, y
<1>3. \A p \in 1..n : p \in 1..(n + m) /\ h[p] = f[p]
  BY <1>1
<1>4. ASSUME NEW r \in 1..m PROVE n + r \in 1..(n + m) /\ h[n + r] = n + g[r]
  <2>1. n + r \in 1..(n + m) /\ ~ (n + r <= n) /\ (n + r) - n = r
    BY <1>1
  <2> QED BY <2>1
<1>5. DOMAIN h = 1..(n + m)
  OBVIOUS
<1>6. h = [p \in 1..(n + m) |-> h[p]]
  OBVIOUS
<1> HIDE DEF h
<1>7. /\ \A p \in 1..n : x[p] = y[h[p]] /\ h[p] \in 1..(n + m)
      /\ \A r \in 1..m : x[n + r] = y[h[n + r]] /\ h[n + r] \in 1..(n + m)
  <2>1. ASSUME NEW p \in 1..n PROVE x[p] = y[h[p]] /\ h[p] \in 1..(n + m)
    <3>1. f[p] \in 1..n /\ t[p] = s[f[p]] /\ h[p] = f[p]
      BY <1>1, <1>3 DEF Rearranges
    <3> QED BY <1>2, <1>3, <3>1
  <2>2. ASSUME NEW r \in 1..m
        PROVE  x[n + r] = y[h[n + r]] /\ h[n + r] \in 1..(n + m)
    <3>1. g[r] \in 1..m /\ v[r] = u[g[r]] /\ h[n + r] = n + g[r]
      BY <1>1, <1>4 DEF Rearranges
    <3>2. n + g[r] \in 1..(n + m)
      BY <1>1, <3>1
    <3> QED BY <1>2, <3>1, <3>2
  <2> QED BY <2>1, <2>2
<1>8. ASSUME NEW p \in 1..(n + m)
      PROVE  x[p] = y[h[p]] /\ h[p] \in 1..(n + m)
  <2>1. p \in 1..n \/ \E r \in 1..m : p = n + r
    BY <1>1, JoinedPlace
  <2> QED BY <1>7, <2>1
<1>9. ASSUME NEW q \in 1..(n + m)
      PROVE  \E p \in 1..(n + m) : h[p] = q
  <2>1. CASE q \in 1..n
    <3>1. PICK p \in 1..n : f[p] = q
      BY <2>1 DEF Rearranges
    <3> QED BY <1>3, <3>1
  <2>2. CASE \E r \in 1..m : q = n + r
    <3>1. PICK r \in 1..m : q = n + r
      BY <2>2
    <3>2. PICK p \in 1..m : g[p] = r
      BY DEF Rearranges
    <3> QED BY <1>4, <3>1, <3>2
  <2> QED BY <1>1, <2>1, <2>2, JoinedPlace
<1>10. \A p, q \in 1..n : Before(x, p, q) <=> Before(y, h[p], h[q])
  <2> SUFFICES ASSUME NEW p \in 1..n, NEW q \in 1..n
               PROVE  Before(x, p, q) <=> Before(y, h[p], h[q])
    OBVIOUS
  <2>1. Before(t, p, q) <=> Before(s, f[p], f[q])
    BY DEF Rearranges
  <2>2. /\ x[p] = t[p] /\ x[q] = t[q] /\ h[p] = f[p] /\ h[q] = f[q]
        /\ y[f[p]] = s[f[p]] /\ y[f[q]] = s[f[q]]
    BY <1>1, <1>2, <1>3
  <2> QED BY <2>1, <2>2 DEF Before
<1>11. \A p, q \in 1..m : Before(x, n + p, n + q) <=> Before(y, h[n + p], h[n + q])
  <2> SUFFICES ASSUME NEW p \in 1..m, NEW q \in 1..m
               PROVE  Before(x, n + p, n + q) <=> Before(y, h[n + p], h[n + q])
    OBVIOUS
  <2>1. Before(v, p, q) <=> Before(u, g[p], g[q])
    BY DEF Rearranges
  <2>2. /\ x[n + p] = v[p] /\ x[n + q] = v[q]
        /\ h[n + p] = n + g[p] /\ h[n + q] = n + g[q]
        /\ y[n + g[p]] = u[g[p]] /\ y[n + g[q]] = u[g[q]]
    BY <1>1, <1>2, <1>4
  <2>3. g[p] \in Nat /\ g[q] \in Nat
    BY <1>1
  <2>4. (n + p < n + q <=> p < q) /\ (n + g[p] < n + g[q] <=> g[p] < g[q])
    BY <1>1, <2>3
  <2> QED BY <2>1, <2>2, <2>4 DEF Before
<1>12. ASSUME NEW p \in 1..n, NEW r \in 1..m
       PROVE  /\ Before(x, p, n + r) <=> Before(y, h[p], h[n + r])
              /\ Before(x, n + r, p) <=> Before(y, h[n + r], h[p])
  <2>1. x[p] = y[h[p]] /\ x[n + r] = y[h[n + r]]
    BY <1>7
  <2>2. f[p] \in 1..n /\ g[r] \in 1..m /\ h[p] = f[p] /\ h[n + r] = n + g[r]
    BY <1>1, <1>3, <1>4
  <2>3. p < n + r /\ ~ (n + r < p) /\ h[p] < h[n + r] /\ ~ (h[n + r] < h[p])
    BY <1>1, <2>2
  <2> QED BY <2>1, <2>3 DEF Before
<1>13. ASSUME NEW p \in 1..(n + m), NEW q \in 1..(n + m)
       PROVE  Before(x, p, q) <=> Before(y, h[p], h[q])
  <2>1. p \in 1..n \/ \E r \in 1..m : p = n + r
    BY <1>1, JoinedPlace
  <2>2. q \in 1..n \/ \E r \in 1..m : q = n + r
    BY <1>1, JoinedPlace
  <2> QED BY <1>10, <1>11, <1>12, <2>1, <2>2
<1>14. h \in [1..(n + m) -> 1..(n + m)]
  BY <1>5, <1>6, <1>8
<1>15. Rearranges(x, y, h)
  BY <1>2, <1>8, <1>9, <1>13, <1>14 DEF Rearranges
<1> QED BY <1>15 DEF x, y

\* So it does not matter whether the parts of a list have been sorted before.
LEMMA SortOfSortedParts ==
    ASSUME NEW X, HaveOrders(X),
           NEW s \in Seq(X), NEW u \in Seq(X),
           NEW t \in {s, StableSort(s)}, NEW v \in {u, StableSort(u)}
    PROVE  StableSort(t \o v) = StableSort(s \o u)
<1>1. t \in Seq(X) /\ v \in Seq(X)
  BY SortTakes
<1>2. PICK f : Rearranges(t, s, f)
  BY SortRearranges
<1>3. PICK g : Rearranges(v, u, g)
  BY SortRearranges
<1>4. PICK h : Rearranges(t \o v, s \o u, h)
  BY <1>1, <1>2, <1>3, JoinedRearranges
<1>5. t \o v \in Seq(X) /\ s \o u \in Seq(X)
  BY <1>1
<1> QED BY <1>4, <1>5, RearrangedSortsAlike

\* Go's sort of a short list is stable.
LEMMA ShortIsStable ==
    ASSUME NEW X, HaveOrders(X),
           NEW s \in Seq(X), Len(s) <= 6
    PROVE  GoSort(s) = StableSort(s)
<1>1. \A p \in 1..Len(s) : GapPass(s)[p] = s[p]
  BY OrderType DEF GapPass
<1>2. GapPass(s) = s
  BY <1>1, GapType, SameSeq
<1> QED BY <1>2 DEF GoSort

-----------------------------------------------------------------------------
(* Loops. *)

\* The natural numbers are well-founded.
LEMMA LeastNat ==
    ASSUME NEW S \in SUBSET Nat, S # {}
    PROVE  \E n \in S : \A m \in S : n <= m
<1> DEFINE R == OpToRel(<, Nat)
<1>1. IsWellFoundedOn(R, Nat)
  BY NatLessThanWellFounded
<1>2. \E x \in S : \A y \in S : ~ (<<y, x>> \in R)
  <2> HIDE DEF R
  <2> QED BY <1>1, WFMin
<1>3. PICK x \in S : \A y \in S : ~ (<<y, x>> \in R)
  BY <1>2
<1>4. \A y \in S : ~ (y < x)
  BY <1>3 DEF OpToRel
<1> QED BY <1>4

\* Induction, for a property that is a set.
LEMMA SetInduction ==
    ASSUME NEW S \in SUBSET Nat, 0 \in S, \A n \in S : n + 1 \in S
    PROVE  S = Nat
<1> SUFFICES ASSUME Nat \ S # {} PROVE FALSE
  OBVIOUS
<1>1. PICK n \in Nat \ S : \A m \in Nat \ S : n <= m
  BY LeastNat
<1>2. n # 0 /\ n - 1 \in Nat /\ n - 1 \notin Nat \ S
  BY <1>1
<1>3. (n - 1) + 1 = n
  BY <1>1
<1> QED BY <1>2, <1>3

\* The turns of the loop have results.
LEMMA SublistsAreResults ==
    ASSUME NEW X, NEW s \in Seq(X), NEW S
    PROVE  /\ DOMAIN Sublists(s, S) = 0..Len(s)
           /\ Sublists(s, S)[0] = <<>>
           /\ \A n \in 1..Len(s) : Sublists(s, S)[n] =
                IF s[n] \in S THEN Append(Sublists(s, S)[n - 1], s[n])
                ELSE Sublists(s, S)[n - 1]
<1> DEFINE After(f, n) ==
             IF n = 0 THEN <<>>
             ELSE IF s[n] \in S THEN Append(f[n - 1], s[n]) ELSE f[n - 1]
           Runs(f, k) == f = [n \in 0..k |-> After(f, n)]
           Good == {k \in Nat : \E f : Runs(f, k)}
<1>1. 0 \in Good
  <2>1. Runs([n \in 0..0 |-> <<>>], 0)
    OBVIOUS
  <2> QED BY <2>1
<1>2. ASSUME NEW k \in Good PROVE k + 1 \in Good
  <2>1. PICK f : Runs(f, k)
    BY <1>2
  <2> DEFINE g == [n \in 0..k + 1 |-> IF n = k + 1 THEN After(f, n) ELSE f[n]]
  <2>2. ASSUME NEW n \in 0..k + 1 PROVE g[n] = After(g, n)
    <3>1. n # 0 => n - 1 \in 0..k
      OBVIOUS
    <3>2. n # 0 => g[n - 1] = f[n - 1]
      BY <3>1
    <3>3. n # k + 1 => n \in 0..k
      OBVIOUS
    <3>4. n # k + 1 => f[n] = After(f, n)
      BY <2>1, <3>3
    <3>5. After(g, n) = After(f, n)
      BY <3>2
    <3> QED BY <3>4, <3>5
  <2>3. Runs(g, k + 1)
    <3> HIDE DEF After
    <3> QED BY <2>2
  <2>4. k + 1 \in Nat
    BY <1>2
  <2> HIDE DEF g, Runs
  <2> QED BY <2>3, <2>4
<1>3. Good = Nat
  <2> HIDE DEF Good
  <2>1. Good \in SUBSET Nat
    BY DEF Good
  <2> QED BY <1>1, <1>2, <2>1, SetInduction
<1>4. Len(s) \in Good
  BY <1>3
<1>5. \E f : Runs(f, Len(s))
  BY <1>4
<1>6. Sublists(s, S) = CHOOSE f : Runs(f, Len(s))
  BY DEF Sublists
<1>7. Runs(Sublists(s, S), Len(s))
  <2> HIDE DEF Runs
  <2> QED BY <1>5, <1>6
<1>8. PICK f : f = Sublists(s, S) /\ f = [n \in 0..Len(s) |-> After(f, n)]
  BY <1>7
<1>9. \A n \in 0..Len(s) : f[n] = After(f, n)
  <2> HIDE DEF After
  <2> QED BY <1>8
<1>10. DOMAIN f = 0..Len(s) /\ 0 \in 0..Len(s)
  <2> HIDE DEF After
  <2> QED BY <1>8
<1>11. ASSUME NEW n \in 1..Len(s)
       PROVE  f[n] = IF s[n] \in S THEN Append(f[n - 1], s[n]) ELSE f[n - 1]
  <2>1. n \in 0..Len(s) /\ n # 0
    OBVIOUS
  <2> QED BY <1>9, <2>1
<1> QED BY <1>8, <1>9, <1>10, <1>11

LEMMA SublistsAreSequences ==
    ASSUME NEW X, NEW s \in Seq(X), NEW S
    PROVE  \A n \in 0..Len(s) : Sublists(s, S)[n] \in Seq(X)
<1> DEFINE Good == {n \in Nat : n <= Len(s) => Sublists(s, S)[n] \in Seq(X)}
<1>1. 0 \in Good
  <2>1. Sublists(s, S)[0] = <<>> /\ <<>> \in Seq(X)
    BY SublistsAreResults
  <2> QED BY <2>1
<1>2. ASSUME NEW n \in Good PROVE n + 1 \in Good
  <2> SUFFICES ASSUME n + 1 <= Len(s)
               PROVE  Sublists(s, S)[n + 1] \in Seq(X)
    OBVIOUS
  <2>1. Sublists(s, S)[n] \in Seq(X) /\ n + 1 \in 1..Len(s) /\ (n + 1) - 1 = n
    BY <1>2
  <2>2. s[n + 1] \in X
    BY <2>1
  <2>3. Sublists(s, S)[n + 1] =
          IF s[n + 1] \in S THEN Append(Sublists(s, S)[n], s[n + 1])
          ELSE Sublists(s, S)[n]
    BY <2>1, SublistsAreResults
  <2> QED BY <2>1, <2>2, <2>3
<1> HIDE DEF Good
<1>3. Good = Nat
  <2>1. Good \in SUBSET Nat
    BY DEF Good
  <2> QED BY <1>1, <1>2, <2>1, SetInduction
<1> QED BY <1>3 DEF Good

\* Two loops that have kept and passed over the same have the same result.
LEMMA SublistsAgree ==
    ASSUME NEW X, NEW s \in Seq(X), NEW S, NEW t \in Seq(X), NEW T,
           NEW k \in 0..Len(s), k <= Len(t),
           \A i \in 1..k : s[i] = t[i] /\ (s[i] \in S <=> t[i] \in T)
    PROVE  Sublists(s, S)[k] = Sublists(t, T)[k]
<1> DEFINE Good == {n \in Nat : n <= k => Sublists(s, S)[n] = Sublists(t, T)[n]}
<1>1. 0 \in Good
  <2>1. Sublists(s, S)[0] = <<>> /\ Sublists(t, T)[0] = <<>>
    BY SublistsAreResults
  <2> QED BY <2>1
<1>2. ASSUME NEW n \in Good PROVE n + 1 \in Good
  <2> SUFFICES ASSUME n + 1 <= k
               PROVE  Sublists(s, S)[n + 1] = Sublists(t, T)[n + 1]
    OBVIOUS
  <2>1. /\ Sublists(s, S)[n] = Sublists(t, T)[n] /\ (n + 1) - 1 = n
        /\ n + 1 \in 1..k /\ n + 1 \in 1..Len(s) /\ n + 1 \in 1..Len(t)
    BY <1>2
  <2>2. s[n + 1] = t[n + 1] /\ (s[n + 1] \in S <=> t[n + 1] \in T)
    BY <2>1
  <2>3. Sublists(s, S)[n + 1] =
          IF s[n + 1] \in S THEN Append(Sublists(s, S)[n], s[n + 1])
          ELSE Sublists(s, S)[n]
    BY <2>1, SublistsAreResults
  <2>4. Sublists(t, T)[n + 1] =
          IF t[n + 1] \in T THEN Append(Sublists(t, T)[n], t[n + 1])
          ELSE Sublists(t, T)[n]
    BY <2>1, SublistsAreResults
  <2> QED BY <2>1, <2>2, <2>3, <2>4
<1> HIDE DEF Good
<1>3. Good = Nat
  <2>1. Good \in SUBSET Nat
    BY DEF Good
  <2> QED BY <1>1, <1>2, <2>1, SetInduction
<1> QED BY <1>3 DEF Good

\* What has been kept stays, in its place.
LEMMA SublistsGrow ==
    ASSUME NEW X, NEW s \in Seq(X), NEW S,
           NEW m \in 0..Len(s), NEW k \in m..Len(s)
    PROVE  /\ Len(Sublists(s, S)[m]) <= Len(Sublists(s, S)[k])
           /\ Sublists(s, S)[m] =
                SubSeq(Sublists(s, S)[k], 1, Len(Sublists(s, S)[m]))
<1> DEFINE f == Sublists(s, S)
           Grown(n) == /\ Len(f[m]) <= Len(f[n])
                       /\ \A i \in 1..Len(f[m]) : f[m][i] = f[n][i]
           Good == {d \in Nat : m + d <= Len(s) => Grown(m + d)}
<1>1. \A n \in 0..Len(s) : f[n] \in Seq(X) /\ Len(f[n]) \in Nat
  BY SublistsAreSequences
<1>2. 0 \in Good
  <2>1. m + 0 = m
    OBVIOUS
  <2>2. Grown(m)
    BY <1>1
  <2> QED BY <2>1, <2>2
<1>3. ASSUME NEW d \in Good PROVE d + 1 \in Good
  <2> DEFINE n == m + d
  <2>0. d \in Nat /\ m + (d + 1) = n + 1
    BY <1>3
  <2> SUFFICES ASSUME n + 1 <= Len(s) PROVE Grown(n + 1)
    <3> HIDE DEF Grown
    <3> QED BY <2>0
  <2>1. Grown(n) /\ n \in 0..Len(s) /\ n + 1 \in 1..Len(s) /\ (n + 1) - 1 = n
    BY <1>3
  <2>2. f[n + 1] = IF s[n + 1] \in S THEN Append(f[n], s[n + 1]) ELSE f[n]
    BY <2>1, SublistsAreResults
  <2>3. f[n] \in Seq(X) /\ f[m] \in Seq(X) /\ s[n + 1] \in X
    BY <1>1, <2>1
  <2> HIDE DEF f
  <2> QED BY SMTT(30), <2>1, <2>2, <2>3
<1>4. Good = Nat
  <2> HIDE DEF Good
  <2>1. Good \in SUBSET Nat
    BY DEF Good
  <2> QED BY <1>2, <1>3, <2>1, SetInduction
<1>5. Grown(k)
  <2>1. k - m \in Nat /\ m + (k - m) = k
    OBVIOUS
  <2>2. k - m \in Good
    BY <1>4, <2>1
  <2>3. m + (k - m) <= Len(s) => Grown(m + (k - m))
    BY <2>2
  <2> HIDE DEF Grown
  <2> QED BY <2>1, <2>3
<1>6. f[m] \in Seq(X) /\ f[k] \in Seq(X)
  BY <1>1
<1> HIDE DEF f
<1>7. f[m] = SubSeq(f[k], 1, Len(f[m]))
  BY <1>5, <1>6
<1> QED BY <1>5, <1>7 DEF f
\* Their results, for lists that are chained.
LEMMA ChainsAreResults ==
    ASSUME NEW X, NEW parts \in Seq(X)
    PROVE  /\ Chains(parts)[0] = <<>>
           /\ \A n \in 1..Len(parts) :
                Chains(parts)[n] = Chains(parts)[n - 1] \o parts[n]
<1> DEFINE After(f, n) == IF n = 0 THEN <<>> ELSE f[n - 1] \o parts[n]
           Runs(f, k) == f = [n \in 0..k |-> After(f, n)]
           Good == {k \in Nat : \E f : Runs(f, k)}
<1>1. 0 \in Good
  <2>1. Runs([n \in 0..0 |-> <<>>], 0)
    OBVIOUS
  <2> QED BY <2>1
<1>2. ASSUME NEW k \in Good PROVE k + 1 \in Good
  <2>1. PICK f : Runs(f, k)
    BY <1>2
  <2> DEFINE g == [n \in 0..k + 1 |-> IF n = k + 1 THEN After(f, n) ELSE f[n]]
  <2>2. ASSUME NEW n \in 0..k + 1 PROVE g[n] = After(g, n)
    <3>1. n # 0 => n - 1 \in 0..k
      OBVIOUS
    <3>2. n # 0 => g[n - 1] = f[n - 1]
      BY <3>1
    <3>3. n # k + 1 => n \in 0..k
      OBVIOUS
    <3>4. n # k + 1 => f[n] = After(f, n)
      BY <2>1, <3>3
    <3>5. After(g, n) = After(f, n)
      BY <3>2
    <3> QED BY <3>4, <3>5
  <2>3. Runs(g, k + 1)
    <3> HIDE DEF After
    <3> QED BY <2>2
  <2>4. k + 1 \in Nat
    BY <1>2
  <2> HIDE DEF g, Runs
  <2> QED BY <2>3, <2>4
<1>3. Good = Nat
  <2> HIDE DEF Good
  <2>1. Good \in SUBSET Nat
    BY DEF Good
  <2> QED BY <1>1, <1>2, <2>1, SetInduction
<1>4. Len(parts) \in Good
  <2>1. Len(parts) \in Nat
    OBVIOUS
  <2> HIDE DEF Good
  <2> QED BY <1>3, <2>1
<1>5. \E f : Runs(f, Len(parts))
  BY <1>4
<1>6. Chains(parts) = CHOOSE f : Runs(f, Len(parts))
  BY DEF Chains
<1>7. Runs(Chains(parts), Len(parts))
  <2> HIDE DEF Runs
  <2> QED BY <1>5, <1>6
<1>8. PICK f : f = Chains(parts) /\ f = [n \in 0..Len(parts) |-> After(f, n)]
  BY <1>7
<1>9. \A n \in 0..Len(parts) : f[n] = After(f, n)
  <2> HIDE DEF After
  <2> QED BY <1>8
<1>10. ASSUME NEW n \in 1..Len(parts)
       PROVE  f[n] = f[n - 1] \o parts[n]
  <2>1. n \in 0..Len(parts) /\ n # 0
    OBVIOUS
  <2> QED BY <1>9, <2>1
<1> QED BY <1>8, <1>9, <1>10

\* A chain has the elements of its parts, and no others.
LEMMA ChainHasParts ==
    ASSUME NEW X, NEW parts \in Seq(Seq(X))
    PROVE  /\ Chain(parts) \in Seq(X)
           /\ \A q \in 1..Len(Chain(parts)) : \E p \in 1..Len(parts) :
                \E r \in 1..Len(parts[p]) : Chain(parts)[q] = parts[p][r]
           /\ \A p \in 1..Len(parts) : \A r \in 1..Len(parts[p]) :
                \E q \in 1..Len(Chain(parts)) : Chain(parts)[q] = parts[p][r]
<1> DEFINE f == Chains(parts)
           Made(n) ==
             /\ f[n] \in Seq(X)
             /\ \A q \in 1..Len(f[n]) : \E p \in 1..n :
                  \E r \in 1..Len(parts[p]) : f[n][q] = parts[p][r]
             /\ \A p \in 1..n : \A r \in 1..Len(parts[p]) :
                  \E q \in 1..Len(f[n]) : f[n][q] = parts[p][r]
           Good == {n \in Nat : n <= Len(parts) => Made(n)}
<1>0. /\ f[0] = <<>>
      /\ \A n \in 1..Len(parts) : f[n] = f[n - 1] \o parts[n]
  BY ChainsAreResults
<1> HIDE DEF f
<1>1. 0 \in Good
  <2>1. <<>> \in Seq(X) /\ 1..Len(<<>>) = {} /\ 1..0 = {}
    OBVIOUS
  <2>2. Made(0)
    BY <1>0, <2>1
  <2> HIDE DEF Made
  <2> QED BY <2>2
<1>2. ASSUME NEW n \in Good PROVE n + 1 \in Good
  <2>0. n \in Nat
    BY <1>2
  <2> SUFFICES ASSUME n + 1 <= Len(parts) PROVE Made(n + 1)
    <3> HIDE DEF Made
    <3> QED BY <2>0
  <2>1. Made(n) /\ n + 1 \in 1..Len(parts) /\ (n + 1) - 1 = n
    <3> HIDE DEF Made
    <3>1. n <= Len(parts) /\ n + 1 \in 1..Len(parts) /\ (n + 1) - 1 = n
      BY <2>0
    <3> QED BY <1>2, <3>1
  <2>2. f[n + 1] = f[n] \o parts[n + 1]
    BY <1>0, <2>1
  <2>3. PICK s \in Seq(X), u \in Seq(X) :
          s = f[n] /\ u = parts[n + 1] /\ Len(s) \in Nat /\ Len(u) \in Nat
    BY <2>1
  <2> HIDE DEF Good
  <2>4. /\ f[n + 1] \in Seq(X) /\ Len(f[n + 1]) = Len(s) + Len(u)
        /\ \A q \in 1..Len(s) : f[n + 1][q] = s[q]
        /\ \A r \in 1..Len(u) : f[n + 1][Len(s) + r] = u[r]
    <3>1. f[n + 1] = s \o u
      BY <2>2, <2>3
    <3>2. /\ s \o u \in Seq(X) /\ Len(s \o u) = Len(s) + Len(u)
          /\ \A q \in 1..Len(s) : (s \o u)[q] = s[q]
          /\ \A r \in 1..Len(u) : (s \o u)[Len(s) + r] = u[r]
      BY ONLY JoinedType
    <3> QED BY ONLY <3>1, <3>2
  <2>5. ASSUME NEW q \in 1..Len(f[n + 1])
        PROVE  \E p \in 1..(n + 1) :
                 \E r \in 1..Len(parts[p]) : f[n + 1][q] = parts[p][r]
    <3>1. CASE q \in 1..Len(s)
      <4>1. PICK p \in 1..n : \E r \in 1..Len(parts[p]) : s[q] = parts[p][r]
        BY <2>1, <2>3, <3>1
      <4>2. p \in 1..(n + 1)
        BY <2>0
      <4> QED BY <2>4, <3>1, <4>1, <4>2
    <3>2. CASE \E r \in 1..Len(u) : q = Len(s) + r
      <4>1. PICK r \in 1..Len(u) : q = Len(s) + r
        BY <3>2
      <4>2. f[n + 1][q] = parts[n + 1][r] /\ r \in 1..Len(parts[n + 1])
        BY <2>3, <2>4, <4>1
      <4>3. n + 1 \in 1..(n + 1)
        BY <2>0
      <4> QED BY <4>2, <4>3
    <3>3. PICK a \in Nat, b \in Nat : a = Len(s) /\ b = Len(u)
      BY <2>3
    <3>4. q \in 1..(a + b)
      BY <2>4, <3>3
    <3>5. q \in 1..a \/ \E r \in 1..b : q = a + r
      BY ONLY <3>4, JoinedPlace
    <3> QED BY <3>1, <3>2, <3>3, <3>5
  <2>6. ASSUME NEW p \in 1..(n + 1), NEW r \in 1..Len(parts[p])
        PROVE  \E q \in 1..Len(f[n + 1]) : f[n + 1][q] = parts[p][r]
    <3>1. CASE p \in 1..n
      <4>1. PICK q \in 1..Len(s) : s[q] = parts[p][r]
        BY <2>1, <2>3, <3>1
      <4>2. q \in 1..Len(f[n + 1])
        <5>1. PICK a \in Nat, b \in Nat : a = Len(s) /\ b = Len(u)
          BY ONLY <2>3
        <5>2. Len(f[n + 1]) = a + b /\ q \in 1..a
          BY ONLY <2>4, <5>1
        <5> QED BY ONLY <5>2
      <4> QED BY <2>4, <4>1, <4>2
    <3>2. CASE p = n + 1
      <4>1. r \in 1..Len(u) /\ parts[p][r] = u[r]
        BY <2>3, <3>2
      <4>2. Len(s) + r \in 1..Len(f[n + 1])
        <5>1. PICK a \in Nat, b \in Nat : a = Len(s) /\ b = Len(u)
          BY ONLY <2>3
        <5>2. Len(f[n + 1]) = a + b /\ r \in 1..b
          BY ONLY <2>4, <4>1, <5>1
        <5>3. Len(s) + r = a + r
          BY ONLY <5>1
        <5> QED BY ONLY <5>2, <5>3
      <4> QED BY <2>4, <4>1, <4>2
    <3> QED BY <2>0, <3>1, <3>2
  <2> QED BY <2>4, <2>5, <2>6
<1>3. Good = Nat
  <2> HIDE DEF Good
  <2>1. Good \in SUBSET Nat
    BY DEF Good
  <2> QED BY <1>1, <1>2, <2>1, SetInduction
<1>4. Len(parts) \in Nat
  OBVIOUS
<1>5. Made(Len(parts))
  <2> HIDE DEF Made
  <2> QED BY <1>3, <1>4
<1>6. Chain(parts) = f[Len(parts)]
  BY DEF Chain, f
<1> QED BY ONLY <1>5, <1>6
=============================================================================
