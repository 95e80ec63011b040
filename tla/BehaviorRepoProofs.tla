--------------------------- MODULE BehaviorRepoProofs ---------------------------
(***************************************************************************)
(* Theorems about BehaviorRepo, for any mocks, keys and routes.            *)
(***************************************************************************)
EXTENDS BehaviorRepo, ListProofs, FiniteSetTheorems, TLAPS

\* Actions can be sorted.
LEMMA ActionsHaveOrders == HaveOrders(Action)
BY DEF HaveOrders, Action

USE ActionsHaveOrders

-----------------------------------------------------------------------------
(* Slices and their arrays. *)

Heap == Seq(Seq(Action))

Slice == [arr : Nat, len : Nat]

IsSlice(h, s) ==
    s \in Slice /\ s.arr \in 1..Len(h) /\ s.len \in 0..Len(h[s.arr])

\* One of the first n arrays is always used up to its end.
IsFull(h, n, s) == s.arr <= n => s.len = Len(h[s.arr])

\* g is h after some writes and allocations, which keep every slice.
Grown(h, g) ==
    /\ Len(h) <= Len(g)
    /\ \A a \in 1..Len(h) : Len(g[a]) = Len(h[a])

LEMMA HeapType ==
    ASSUME NEW h \in Heap
    PROVE  /\ Len(h) \in Nat /\ DOMAIN h = 1..Len(h)
           /\ \A a \in 1..Len(h) : h[a] \in Seq(Action) /\ Len(h[a]) \in Nat
<1>1. \A a \in 1..Len(h) : h[a] \in Seq(Action)
  BY DEF Heap
<1> QED BY <1>1 DEF Heap

LEMMA GrownKeepsSlices ==
    ASSUME NEW h \in Heap, NEW g \in Heap, Grown(h, g), NEW n \in 0..Len(h),
           NEW s, IsSlice(h, s), IsFull(h, n, s)
    PROVE  IsSlice(g, s) /\ IsFull(g, n, s)
BY HeapType DEF IsSlice, IsFull, Grown, Slice

LEMMA ViewType ==
    ASSUME NEW h \in Heap, NEW s, IsSlice(h, s)
    PROVE  /\ View(h, s) \in Seq(Action) /\ Len(View(h, s)) = s.len
           /\ \A j \in 1..s.len : View(h, s)[j] = h[s.arr][j]
           /\ s.len = Len(h[s.arr]) => View(h, s) = h[s.arr]
<1>1. h[s.arr] \in Seq(Action) /\ s.len \in Nat /\ s.len <= Len(h[s.arr])
  BY HeapType DEF IsSlice, Slice
<1>2. /\ View(h, s) \in Seq(Action) /\ Len(View(h, s)) = s.len
      /\ \A j \in 1..s.len : View(h, s)[j] = h[s.arr][j]
  BY <1>1 DEF View
<1> QED BY <1>1, <1>2

\* A sort writes to its own array, and turns a full one into the sorted one.
LEMMA SortedHeapType ==
    ASSUME NEW h \in Heap, NEW s, IsSlice(h, s)
    PROVE  /\ SortedHeap(h, s) \in Heap /\ Grown(h, SortedHeap(h, s))
           /\ Len(SortedHeap(h, s)) = Len(h)
           /\ \A a \in 1..Len(h) : a # s.arr => SortedHeap(h, s)[a] = h[a]
           /\ s.len = Len(h[s.arr]) => SortedHeap(h, s)[s.arr] = GoSort(h[s.arr])
<1> DEFINE b == s.arr
           v == GoSort(View(h, s))
           new == [j \in 1..Len(h[b]) |-> IF j <= s.len THEN v[j] ELSE h[b][j]]
           g == SortedHeap(h, s)
<1>1. b \in 1..Len(h) /\ h[b] \in Seq(Action) /\ Len(h[b]) \in Nat
      /\ s.len \in Nat /\ s.len <= Len(h[b])
  BY HeapType DEF IsSlice, Slice
<1>2. v \in Seq(Action) /\ Len(v) = s.len
  BY ViewType, SortType
<1>3. g = [h EXCEPT ![b] = new]
  BY DEF SortedHeap
<1> HIDE DEF v, g
<1>4. new \in [1..Len(h[b]) -> Action]
  BY <1>1, <1>2
<1>5. new \in Seq(Action) /\ Len(new) = Len(h[b])
  BY <1>1, <1>4, IsSeq
<1> HIDE DEF new
<1>6. /\ g \in Heap /\ Len(g) = Len(h) /\ g[b] = new
      /\ \A a \in 1..Len(h) : a # b => g[a] = h[a]
  BY <1>1, <1>3, <1>5, HeapType DEF Heap
<1>7. Grown(h, g)
  BY <1>1, <1>5, <1>6, HeapType DEF Grown
<1>8. s.len = Len(h[b]) => new = GoSort(h[b])
  <2> SUFFICES ASSUME s.len = Len(h[b]) PROVE new = GoSort(h[b])
    OBVIOUS
  <2>1. v = GoSort(h[b])
    BY ViewType DEF v
  <2>2. \A j \in 1..Len(v) : new[j] = v[j]
    BY <1>1, <1>2 DEF new
  <2> QED BY <1>2, <1>5, <2>1, <2>2
<1> QED BY <1>6, <1>7, <1>8 DEF g

\* append leaves the first n arrays alone, and makes no slice of one of them
\* that is not full.
LEMMA AppendedType ==
    ASSUME NEW h \in Heap, NEW n \in 0..Len(h), NEW s, IsSlice(h, s),
           IsFull(h, n, s), NEW new \in Seq(Action)
    PROVE  LET r == Appended(h, s, new) IN
           /\ r.heap \in Heap /\ Grown(h, r.heap)
           /\ IsSlice(r.heap, r.slice) /\ IsFull(r.heap, n, r.slice)
           /\ \A a \in 1..n : r.heap[a] = h[a]
<1> DEFINE b == s.arr
           need == s.len + Len(new)
           old == Len(h[b])
           cell(j) == IF j <= s.len THEN h[b][j]
                      ELSE IF j <= need THEN new[j - s.len] ELSE ZeroAction
           r == Appended(h, s, new)
<1>1. b \in 1..Len(h) /\ h[b] \in Seq(Action) /\ old \in Nat
      /\ s.len \in Nat /\ s.len <= old /\ Len(h) \in Nat
      /\ Len(new) \in Nat /\ need \in Nat
  BY HeapType DEF IsSlice, Slice
<1>2. \A j \in Nat \ {0} : j <= old \/ j <= need \/ j > need => cell(j) \in Action
  <2>1. ZeroAction \in Action
    BY DEF ZeroAction, Action
  <2>2. \A j \in Nat \ {0} : j <= s.len => h[b][j] \in Action
    BY <1>1
  <2>3. \A j \in Nat \ {0} : j > s.len /\ j <= need => new[j - s.len] \in Action
    BY <1>1
  <2> QED BY <1>1, <2>1, <2>2, <2>3
<1>3. CASE need <= old
  <2> DEFINE arr == [j \in 1..old |-> IF j <= need THEN cell(j) ELSE h[b][j]]
  <2>1. /\ r.heap = [h EXCEPT ![b] = arr]
        /\ r.slice = [arr |-> b, len |-> need]
    BY <1>3 DEF Appended
  <2>2. arr \in Seq(Action) /\ Len(arr) = old
    <3>1. \A j \in 1..old : arr[j] \in Action
      BY <1>1, <1>2
    <3> QED BY <1>1, <3>1
  <2>3. b <= n => need = old /\ arr = h[b]
    <3> SUFFICES ASSUME b <= n PROVE need = old /\ arr = h[b]
      OBVIOUS
    <3>1. s.len = old /\ need = old
      BY <1>1, <1>3 DEF IsFull
    <3>2. \A j \in 1..old : arr[j] = h[b][j]
      BY <3>1
    <3> HIDE DEF arr
    <3> QED BY <1>1, <2>2, <3>1, <3>2, SameSeq
  <2> HIDE DEF arr, cell
  <2>4. /\ r.heap \in Heap /\ Len(r.heap) = Len(h) /\ r.heap[b] = arr
        /\ \A a \in 1..Len(h) : a # b => r.heap[a] = h[a]
    BY <1>1, <2>1, <2>2, HeapType DEF Heap
  <2>5. Grown(h, r.heap)
    <3>1. \A a \in 1..Len(h) : Len(r.heap[a]) = Len(h[a])
      BY <1>1, <2>2, <2>4
    <3> QED BY <1>1, <2>4, <3>1 DEF Grown
  <2>6. \A a \in 1..n : r.heap[a] = h[a]
    BY SMTT(30), <1>1, <2>3, <2>4
  <2>7. IsSlice(r.heap, r.slice) /\ IsFull(r.heap, n, r.slice)
    BY <1>1, <1>3, <2>1, <2>2, <2>3, <2>4 DEF IsSlice, IsFull, Slice
  <2> QED BY <2>4, <2>5, <2>6, <2>7 DEF r
<1>4. CASE ~ (need <= old)
  <2> DEFINE cap == NewCap(old, need)
             arr == [j \in 1..cap |-> cell(j)]
  <2>1. /\ r.heap = Append(h, arr)
        /\ r.slice = [arr |-> Len(h) + 1, len |-> need]
    BY <1>4 DEF Appended
  <2>2. cap \in Nat /\ need <= cap
    BY <1>1 DEF NewCap
  <2>3. arr \in Seq(Action) /\ Len(arr) = cap
    <3>1. \A j \in 1..cap : arr[j] \in Action
      BY <1>1, <1>2, <2>2
    <3> HIDE DEF cap
    <3> QED BY <2>2, <3>1
  <2> HIDE DEF arr, cell, cap
  <2>4. /\ r.heap \in Heap /\ Len(r.heap) = Len(h) + 1
        /\ r.heap[Len(h) + 1] = arr
        /\ \A a \in 1..Len(h) : r.heap[a] = h[a]
    BY <1>1, <2>1, <2>3 DEF Heap
  <2>5. Grown(h, r.heap)
    BY SMTT(30), <1>1, <2>4 DEF Grown
  <2>6. IsSlice(r.heap, r.slice) /\ IsFull(r.heap, n, r.slice)
    BY <1>1, <2>1, <2>2, <2>3, <2>4 DEF IsSlice, IsFull, Slice
  <2> QED BY <1>1, <2>4, <2>5, <2>6 DEF r
<1> QED BY <1>3, <1>4

\* A slice sorted in place shows what it showed, sorted.
LEMMA SortedView ==
    ASSUME NEW h \in Heap, NEW s, IsSlice(h, s)
    PROVE  View(SortedHeap(h, s), s) = GoSort(View(h, s))
<1> DEFINE b == s.arr
           v == GoSort(View(h, s))
           g == SortedHeap(h, s)
<1>1. b \in 1..Len(h) /\ h[b] \in Seq(Action) /\ s.len \in Nat /\ s.len <= Len(h[b])
  BY HeapType DEF IsSlice, Slice
<1>2. v \in Seq(Action) /\ Len(v) = s.len
  BY ViewType, SortType
<1>3. g[b] = [j \in 1..Len(h[b]) |-> IF j <= s.len THEN v[j] ELSE h[b][j]]
  BY <1>1, HeapType DEF SortedHeap
<1>4. g \in Heap /\ Grown(h, g)
  BY SortedHeapType
<1> HIDE DEF v, g
<1>5. IsSlice(g, s)
  BY <1>1, <1>4 DEF IsSlice, Grown
<1>6. /\ View(g, s) \in Seq(Action) /\ Len(View(g, s)) = s.len
      /\ \A j \in 1..s.len : View(g, s)[j] = g[b][j]
  BY <1>4, <1>5, ViewType
<1>7. \A j \in 1..s.len : g[b][j] = v[j]
  BY <1>1, <1>3
<1>8. View(g, s) = v
  BY <1>2, <1>6, <1>7, SameSeq
<1> QED BY <1>8 DEF v, g

\* append shows what the slice showed and the new elements, in the slice's
\* array or in a new one, and writes to no other.
LEMMA AppendedView ==
    ASSUME NEW h \in Heap, NEW s, IsSlice(h, s), NEW new \in Seq(Action)
    PROVE  LET r == Appended(h, s, new) IN
           /\ View(r.heap, r.slice) = View(h, s) \o new
           /\ r.slice.arr \in {s.arr, Len(h) + 1}
           /\ \A a \in 1..Len(h) : a # s.arr => r.heap[a] = h[a]
<1> DEFINE b == s.arr
           need == s.len + Len(new)
           old == Len(h[b])
           cell(j) == IF j <= s.len THEN h[b][j]
                      ELSE IF j <= need THEN new[j - s.len] ELSE ZeroAction
           r == Appended(h, s, new)
           w == View(h, s) \o new
<1>1. b \in 1..Len(h) /\ old \in Nat /\ s.len \in Nat /\ s.len <= old
      /\ Len(h) \in Nat /\ Len(new) \in Nat /\ need \in Nat /\ 0 \in 0..Len(h)
      /\ s \in Slice
  BY HeapType DEF IsSlice, Slice
<1>2. r.heap \in Heap /\ IsSlice(r.heap, r.slice)
  <2>1. IsFull(h, 0, s)
    BY <1>1 DEF IsFull
  <2> QED BY <1>1, <2>1, AppendedType
<1>3. /\ w \in Seq(Action) /\ Len(w) = need
      /\ \A j \in 1..s.len : w[j] = h[b][j]
      /\ \A j \in 1..Len(new) : w[s.len + j] = new[j]
  <2>1. PICK v \in Seq(Action) : v = View(h, s) /\ Len(v) = s.len
    BY ViewType
  <2>2. \A j \in 1..s.len : v[j] = h[b][j]
    BY <2>1, ViewType
  <2>3. /\ v \o new \in Seq(Action) /\ Len(v \o new) = s.len + Len(new)
        /\ \A j \in 1..s.len : (v \o new)[j] = v[j]
        /\ \A j \in 1..Len(new) : (v \o new)[s.len + j] = new[j]
    BY <2>1, JoinedType
  <2> QED BY <2>1, <2>2, <2>3
<1>4. ASSUME NEW j \in 1..need
      PROVE  cell(j) = w[j]
  <2>1. CASE j \in 1..s.len
    BY <1>1, <1>3, <2>1
  <2>2. CASE \E x \in 1..Len(new) : j = s.len + x
    <3>1. PICK x \in 1..Len(new) : j = s.len + x
      BY <2>2
    <3>2. ~ (j <= s.len) /\ j - s.len = x /\ j <= need
      BY <1>1, <3>1
    <3> QED BY <1>3, <3>1, <3>2
  <2> QED BY <1>1, <2>1, <2>2, JoinedPlace
<1>5. CASE need <= old
  <2> DEFINE arr == [j \in 1..old |-> IF j <= need THEN cell(j) ELSE h[b][j]]
  <2>1. /\ r.heap = [h EXCEPT ![b] = arr]
        /\ r.slice = [arr |-> b, len |-> need]
    BY <1>5 DEF Appended
  <2>2. \A j \in 1..need : arr[j] = cell(j)
    BY <1>1, <1>5
  <2> HIDE DEF arr, cell
  <2>3. r.heap[b] = arr /\ \A a \in 1..Len(h) : a # b => r.heap[a] = h[a]
    BY <1>1, <2>1, HeapType
  <2>4. r.slice.arr = b /\ r.slice.len = need
    BY <2>1
  <2>5. \A j \in 1..need : r.heap[r.slice.arr][j] = w[j]
    BY <1>4, <2>2, <2>3, <2>4
  <2> HIDE DEF r, w
  <2>6. View(r.heap, r.slice) = w
    <3>1. /\ View(r.heap, r.slice) \in Seq(Action)
          /\ Len(View(r.heap, r.slice)) = need
          /\ \A j \in 1..need : View(r.heap, r.slice)[j] = r.heap[r.slice.arr][j]
      BY SMTT(30), <1>2, <2>4, ViewType
    <3> QED BY <1>3, <2>5, <3>1, SameSeq
  <2> QED BY <2>3, <2>4, <2>6 DEF r, w
<1>6. CASE ~ (need <= old)
  <2> DEFINE cap == NewCap(old, need)
             arr == [j \in 1..cap |-> cell(j)]
  <2>1. /\ r.heap = Append(h, arr)
        /\ r.slice = [arr |-> Len(h) + 1, len |-> need]
    BY <1>6 DEF Appended
  <2>2. cap \in Nat /\ need <= cap
    BY <1>1 DEF NewCap
  <2>3. \A j \in 1..need : arr[j] = cell(j)
    BY <1>1, <2>2
  <2> HIDE DEF arr, cell, cap
  <2>4. r.heap[Len(h) + 1] = arr /\ \A a \in 1..Len(h) : r.heap[a] = h[a]
    BY <1>1, <2>1 DEF Heap
  <2>5. r.slice.arr = Len(h) + 1 /\ r.slice.len = need
    BY <2>1
  <2>6. \A j \in 1..need : r.heap[r.slice.arr][j] = w[j]
    BY <1>4, <2>3, <2>4, <2>5
  <2> HIDE DEF r, w
  <2>7. View(r.heap, r.slice) = w
    <3>1. /\ View(r.heap, r.slice) \in Seq(Action)
          /\ Len(View(r.heap, r.slice)) = need
          /\ \A j \in 1..need : View(r.heap, r.slice)[j] = r.heap[r.slice.arr][j]
      BY SMTT(30), <1>2, <2>5, ViewType
    <3> QED BY <1>3, <2>6, <3>1, SameSeq
  <2> QED BY <2>4, <2>5, <2>7 DEF r, w
<1> QED BY <1>5, <1>6

-----------------------------------------------------------------------------
(* The inductive invariant. *)

Entry ==
    [kind : Kinds, extend : Names \cup {None},
     expect : [cond : {None, "cond"}, routes : SUBSET Routes], actions : Slice]

RouteEntry == [key : Names, mock : Entry]

N == Len(mocks)

Types ==
    /\ mocks \in Seq(Mock) /\ N > 0
    /\ phase \in {"validate", "templates", "put", "resolve", "done", "failed"}
    /\ i \in Nat \ {0}
    /\ phase \in {"validate", "templates", "put"} => i <= N
    /\ phase = "resolve" => i <= Len(order)
    /\ heap \in Heap /\ N <= Len(heap)
    /\ order \in Seq(Names) /\ templates \in Seq(Names)
    /\ behaviors \in [DOMAIN behaviors -> Entry]
    /\ routes \in [Routes -> Seq(RouteEntry)]

\* What Validate has passed.
Checked ==
    \A m \in 1..N :
        phase \in {"templates", "put", "resolve", "done"}
        \/ (phase = "validate" /\ m < i) =>
            mocks[m].kind \in Kinds /\ mocks[m].key \in Names

\* The ordered map.
Keyed ==
    /\ DOMAIN behaviors = {order[j] : j \in 1..Len(order)}
    /\ IsFiniteSet(DOMAIN behaviors)
    /\ Cardinality(DOMAIN behaviors) = Len(order)

Once == \A j, l \in 1..Len(order) : order[j] = order[l] => j = l

\* The array that a mock was parsed into has its actions, or has them sorted.
Arrays ==
    \A m \in 1..N : heap[m] \in {mocks[m].actions, GoSort(mocks[m].actions)}

\* No slice leaves room in such an array.
Slices ==
    /\ \A k \in DOMAIN behaviors :
        /\ IsSlice(heap, behaviors[k].actions)
        /\ IsFull(heap, N, behaviors[k].actions)
    /\ \A r \in Routes : \A j \in 1..Len(routes[r]) :
        /\ IsSlice(heap, routes[r][j].mock.actions)
        /\ IsFull(heap, N, routes[r][j].mock.actions)

\* How many mocks have been put.
Upto ==
    IF phase = "put" THEN i - 1 ELSE IF phase \in {"resolve", "done"} THEN N ELSE 0

\* The m-th mock defines key k, among the first n, and none behind it does.
Defines(m, k, n) ==
    /\ m \in 1..n /\ mocks[m].key = k
    /\ \A j \in 1..n : m < j => mocks[j].key # k

\* The second loop has yet to come to key k.
Pending(k) ==
    \/ phase = "put"
    \/ phase = "resolve" /\ \E j \in 1..Len(order) : i <= j /\ order[j] = k

\* Key k stands for the m-th mock, and has its actions as they were parsed,
\* and its expectation.
Registers(m, k) ==
    /\ Defines(m, k, Upto)
    /\ behaviors[k].kind = mocks[m].kind
    /\ behaviors[k].extend = mocks[m].extend
    /\ mocks[m].kind = "AbstractBehavior" \/ Pending(k) =>
        /\ behaviors[k].actions = [arr |-> m, len |-> Len(mocks[m].actions)]
        /\ behaviors[k].expect = mocks[m].expect

Texts ==
    /\ \A m \in 1..Upto : mocks[m].key \in DOMAIN behaviors
    /\ \A k \in DOMAIN behaviors : \E m \in 1..Upto : Registers(m, k)

IInv == Types /\ Checked /\ Keyed /\ Once /\ Arrays /\ Slices /\ Texts

\* The parts of a mock.
LEMMA MockParts ==
    ASSUME Types
    PROVE  /\ N \in Nat \ {0} /\ DOMAIN mocks = 1..N
           /\ \A m \in 1..N :
                /\ mocks[m] \in Mock /\ mocks[m].actions \in Seq(Action)
                /\ mocks[m].key \in Names \cup {None}
                /\ mocks[m].extend \in Names \cup {None}
                /\ mocks[m].expect \in [cond : {None, "cond"}, routes : SUBSET Routes]
<1>1. \A m \in 1..N : mocks[m] \in Mock
  BY DEF Types, N
<1>2. ASSUME NEW m \in 1..N
      PROVE  /\ mocks[m].actions \in Seq(Action)
             /\ mocks[m].key \in Names \cup {None}
             /\ mocks[m].extend \in Names \cup {None}
             /\ mocks[m].expect \in [cond : {None, "cond"}, routes : SUBSET Routes]
  BY <1>1, <1>2 DEF Mock
<1>3. N \in Nat \ {0} /\ DOMAIN mocks = 1..N
  BY DEF Types, N
<1> QED BY <1>1, <1>2, <1>3

\* It holds of what Load has read.
LEMMA InitIInv == Init => IInv
<1> SUFFICES ASSUME Init PROVE IInv
  OBVIOUS
<1>1. /\ mocks \in Seq(Mock) /\ N \in Nat \ {0}
      /\ \A m \in 1..N : mocks[m].actions \in Seq(Action)
  <2>1. mocks \in Seq(Mock) /\ mocks # <<>>
    BY RepoAssumption DEF Init
  <2>2. \A m \in 1..N : mocks[m] \in Mock
    BY <2>1 DEF N
  <2>3. \A m \in 1..N : mocks[m].actions \in Seq(Action)
    BY <2>2 DEF Mock
  <2>4. N \in Nat \ {0}
    BY <2>1 DEF N
  <2> QED BY <2>1, <2>3, <2>4
<1>2. /\ phase = "validate" /\ i = 1 /\ order = <<>> /\ behaviors = <<>>
      /\ templates = <<>> /\ routes = [r \in Routes |-> <<>>]
      /\ heap = [m \in 1..N |-> mocks[m].actions]
  BY DEF Init, N
<1>3. heap \in Heap /\ Len(heap) = N
  BY <1>1, <1>2 DEF Heap
<1>4. DOMAIN behaviors = {}
  BY <1>2
<1>5. Types
  <2>1. behaviors \in [DOMAIN behaviors -> Entry]
    BY <1>2
  <2>2. routes \in [Routes -> Seq(RouteEntry)]
    BY <1>2
  <2> QED BY <1>1, <1>2, <1>3, <2>1, <2>2 DEF Types
<1>6. Checked
  BY <1>2 DEF Checked
<1>7. Keyed
  BY <1>2, <1>4, FS_EmptySet DEF Keyed
<1>8. Arrays /\ Once
  BY <1>2 DEF Arrays, Once
<1>9. Slices
  BY <1>2, <1>4 DEF Slices
<1>10. Texts
  BY <1>2, <1>4 DEF Texts, Upto
<1> QED BY <1>5, <1>6, <1>7, <1>8, <1>9, <1>10 DEF IInv

\* Validate fills in the kind.
LEMMA WithKind ==
    ASSUME NEW m \in Mock, NEW k \in Kinds
    PROVE  /\ [m EXCEPT !.kind = k] \in Mock
           /\ [m EXCEPT !.kind = k].kind = k
           /\ [m EXCEPT !.kind = k].key = m.key
           /\ [m EXCEPT !.kind = k].actions = m.actions
BY DEF Mock

LEMMA ValidateMockIInv ==
    ASSUME IInv, ValidateMock
    PROVE  IInv'
<1> USE DEF IInv
<1>1. /\ phase = "validate" /\ i \in 1..N /\ N \in Nat \ {0} /\ mocks[i] \in Mock
      /\ UNCHANGED <<heap, order, behaviors, routes, templates>>
      /\ mocks \in Seq(Mock)
  BY MockParts DEF ValidateMock, Types
<1>2. DOMAIN behaviors = {}
  <2>1. Upto = 0
    BY <1>1 DEF Upto
  <2>2. 1..Upto = {}
    BY <2>1
  <2>3. Texts
    OBVIOUS
  <2> QED BY <2>2, <2>3 DEF Texts
<1>3. CASE ~ Valid(mocks[i])
  <2>1. phase' = "failed" /\ UNCHANGED <<mocks, i>>
    BY <1>3 DEF ValidateMock
  <2>2. Types' /\ Checked' /\ Keyed' /\ Arrays' /\ Slices'
    BY <1>1, <2>1 DEF Types, Checked, Keyed, Arrays, Slices, N
  <2>3. Once'
    BY <1>1 DEF Once
  <2>4. Texts'
    BY <1>1, <1>2, <2>1 DEF Texts, Upto
  <2> QED BY <2>2, <2>3, <2>4
<1>4. CASE Valid(mocks[i])
  <2> DEFINE new == [mocks[i] EXCEPT !.kind = KindOf(mocks[i])]
  <2>1. mocks' = [mocks EXCEPT ![i] = new] /\ Advance(N, "templates")
    BY <1>4 DEF ValidateMock, N
  <2>2. KindOf(mocks[i]) \in Kinds /\ mocks[i].key \in Names
    BY <1>1, <1>4 DEF Valid, Mock
  <2>3. /\ new \in Mock /\ new.kind \in Kinds /\ new.key = mocks[i].key
        /\ new.actions = mocks[i].actions
    BY <1>1, <2>2, WithKind
  <2> HIDE DEF new
  <2>4. /\ mocks' \in Seq(Mock) /\ N' = N
        /\ mocks'[i] = new /\ \A m \in 1..N : m # i => mocks'[m] = mocks[m]
    BY <1>1, <2>1, <2>3 DEF N
  <2>5. \A m \in 1..N : mocks'[m].actions = mocks[m].actions
    BY <2>3, <2>4
  <2>6. \/ i < N /\ i' = i + 1 /\ phase' = "validate"
        \/ i = N /\ i' = 1 /\ phase' = "templates"
    BY <1>1, <2>1 DEF Advance
  <2>7. Types'
    BY <1>1, <2>4, <2>6 DEF Types, N
  <2>8. Checked'
    <3> SUFFICES ASSUME NEW m \in 1..N, m < i \/ m = i
                 PROVE  mocks'[m].kind \in Kinds /\ mocks'[m].key \in Names
      BY <1>1, <2>4, <2>6 DEF Checked, N
    <3>1. CASE m = i
      BY <2>2, <2>3, <2>4, <3>1
    <3>2. CASE m < i
      BY <1>1, <2>4, <3>2 DEF Checked
    <3> QED BY <3>1, <3>2
  <2>9. Keyed'
    BY <1>1 DEF Keyed
  <2>13. Once'
    BY <1>1 DEF Once
  <2>10. Arrays'
    BY <1>1, <2>4, <2>5 DEF Arrays, N
  <2>11. Slices'
    BY <1>1, <2>4 DEF Slices, N
  <2>12. Texts'
    BY <1>1, <1>2, <2>6 DEF Texts, Upto
  <2> QED BY <2>7, <2>8, <2>9, <2>10, <2>11, <2>12, <2>13
<1> QED BY <1>3, <1>4

LEMMA PopulateTemplateIInv ==
    ASSUME IInv, PopulateTemplate
    PROVE  IInv'
<1> USE DEF IInv
<1>1. /\ phase = "templates" /\ i \in 1..N /\ N \in Nat \ {0}
      /\ UNCHANGED <<mocks, heap, order, behaviors, routes>>
      /\ N' = N
  BY MockParts DEF PopulateTemplate, Types, N
<1>2. DOMAIN behaviors = {}
  <2>1. Upto = 0
    BY <1>1 DEF Upto
  <2>2. 1..Upto = {}
    BY <2>1
  <2>3. Texts
    OBVIOUS
  <2> QED BY <2>2, <2>3 DEF Texts
<1>3. \/ phase' = "failed" /\ UNCHANGED <<i, templates>>
      \/ /\ templates' \in {templates, Append(templates, mocks[i].key)}
         /\ Advance(N, "put")
  BY DEF PopulateTemplate, N
<1>4. \/ phase' = "failed" /\ i' = i
      \/ i < N /\ i' = i + 1 /\ phase' = "templates"
      \/ i = N /\ i' = 1 /\ phase' = "put"
  BY <1>1, <1>3 DEF Advance
<1>5. templates' \in Seq(Names)
  <2>1. mocks[i].key \in Names
    BY <1>1 DEF Checked
  <2>2. templates \in Seq(Names)
    BY DEF Types
  <2>3. Append(templates, mocks[i].key) \in Seq(Names)
    BY <2>1, <2>2
  <2>4. CASE phase' = "failed" /\ UNCHANGED <<i, templates>>
    BY <2>2, <2>4
  <2>5. CASE templates' \in {templates, Append(templates, mocks[i].key)}
    BY <2>2, <2>3, <2>5
  <2> QED BY <1>3, <2>4, <2>5
<1>6. Types'
  BY <1>1, <1>4, <1>5 DEF Types
<1>7. Checked'
  BY <1>1, <1>4 DEF Checked
<1>8. Keyed' /\ Arrays' /\ Slices'
  BY <1>1 DEF Keyed, Arrays, Slices
<1>10. Once'
  BY <1>1 DEF Once
<1>9. Texts'
  <2>1. Upto' = 0
    BY <1>4 DEF Upto
  <2> QED BY <1>1, <1>2, <2>1 DEF Texts
<1> QED BY <1>6, <1>7, <1>8, <1>9, <1>10

\* The ordered map gets a key.
LEMMA KeyedGrows ==
    ASSUME Keyed, Once, order \in Seq(Names), NEW k \in Names,
           DOMAIN behaviors' = DOMAIN behaviors \cup {k},
           order' = IF k \in DOMAIN behaviors THEN order ELSE Append(order, k)
    PROVE  Keyed' /\ Once' /\ order' \in Seq(Names) /\ Len(order') \in Nat \ {0}
<1>1. CASE k \in DOMAIN behaviors
  <2>1. order' = order /\ DOMAIN behaviors' = DOMAIN behaviors
    BY <1>1
  <2>2. PICK j \in 1..Len(order) : order[j] = k
    BY <1>1 DEF Keyed
  <2>3. Len(order) \in Nat \ {0}
    BY <2>2
  <2>4. Keyed'
    BY <2>1 DEF Keyed
  <2>5. Once'
    BY <2>1 DEF Once
  <2> QED BY <2>1, <2>3, <2>4, <2>5
<1>2. CASE k \notin DOMAIN behaviors
  <2>1. order' = Append(order, k)
    BY <1>2
  <2>2. /\ order' \in Seq(Names) /\ Len(order') = Len(order) + 1
        /\ Len(order) \in Nat /\ order'[Len(order) + 1] = k
        /\ \A j \in 1..Len(order) : order'[j] = order[j]
    BY <2>1
  <2>3. DOMAIN behaviors' = {order'[j] : j \in 1..Len(order')}
    <3>1. DOMAIN behaviors = {order[j] : j \in 1..Len(order)}
      BY DEF Keyed
    <3>2. \A x \in DOMAIN behaviors : \E j \in 1..Len(order') : order'[j] = x
      BY <2>2, <3>1
    <3>3. \E j \in 1..Len(order') : order'[j] = k
      BY <2>2
    <3>4. \A j \in 1..Len(order') : order'[j] \in DOMAIN behaviors \cup {k}
      BY <2>2, <3>1
    <3> QED BY <3>2, <3>3, <3>4
  <2>4. /\ IsFiniteSet(DOMAIN behaviors')
        /\ Cardinality(DOMAIN behaviors') = Len(order) + 1
    BY <1>2, FS_AddElement DEF Keyed
  <2>5. ASSUME NEW j \in 1..Len(order'), NEW l \in 1..Len(order'),
               order'[j] = order'[l]
        PROVE  j = l
    <3>1. \A x \in 1..Len(order) : order'[x] # k
      BY <1>2, <2>2 DEF Keyed
    <3>2. CASE j = Len(order) + 1
      BY <2>2, <2>5, <3>1, <3>2
    <3>3. CASE l = Len(order) + 1
      BY <2>2, <2>5, <3>1, <3>3
    <3>4. CASE j # Len(order) + 1 /\ l # Len(order) + 1
      <4>1. j \in 1..Len(order) /\ l \in 1..Len(order)
        BY <2>2, <3>4
      <4>2. order[j] = order[l]
        BY <2>2, <2>5, <4>1
      <4> QED BY <4>1, <4>2 DEF Once
    <3> QED BY <3>2, <3>3, <3>4
  <2>6. Keyed' /\ Once'
    BY <2>2, <2>3, <2>4, <2>5 DEF Keyed, Once
  <2> QED BY <2>2, <2>6
<1> QED BY <1>1, <1>2

LEMMA PutBehaviorIInv ==
    ASSUME IInv, PutBehavior
    PROVE  IInv'
<1> DEFINE m == mocks[i]
           b == [kind |-> m.kind, extend |-> m.extend, expect |-> m.expect,
                 actions |-> [arr |-> i, len |-> Len(m.actions)]]
<1> USE DEF IInv
<1>1. /\ phase = "put" /\ i \in 1..N /\ N \in Nat \ {0} /\ N' = N
      /\ UNCHANGED <<mocks, heap, routes, templates>>
  BY MockParts DEF PutBehavior, Types, N
<1>2. /\ behaviors' = [k \in DOMAIN behaviors \cup {m.key} |->
                          IF k = m.key THEN b ELSE behaviors[k]]
      /\ order' = IF m.key \in DOMAIN behaviors THEN order ELSE Append(order, m.key)
      /\ Advance(N, "resolve")
  BY DEF PutBehavior, Registered, N
<1>3. /\ m.kind \in Kinds /\ m.key \in Names
      /\ m.actions \in Seq(Action) /\ Len(m.actions) \in Nat
      /\ m.extend \in Names \cup {None}
      /\ m.expect \in [cond : {None, "cond"}, routes : SUBSET Routes]
  BY <1>1, MockParts DEF Checked
<1>4. /\ b \in Entry /\ b.kind = m.kind /\ b.extend = m.extend
      /\ b.expect = m.expect
      /\ b.actions = [arr |-> i, len |-> Len(m.actions)]
  BY <1>1, <1>3 DEF Entry, Slice
<1> HIDE DEF b
<1>5. /\ DOMAIN behaviors' = DOMAIN behaviors \cup {m.key}
      /\ behaviors'[m.key] = b
      /\ \A k \in DOMAIN behaviors : k # m.key => behaviors'[k] = behaviors[k]
  BY <1>2
<1>6. \/ i < N /\ i' = i + 1 /\ phase' = "put"
      \/ i = N /\ i' = 1 /\ phase' = "resolve"
  BY <1>1, <1>2 DEF Advance
<1>7. Upto = i - 1 /\ Upto' = i
  BY <1>1, <1>6 DEF Upto
<1>8. Keyed' /\ Once' /\ order' \in Seq(Names) /\ Len(order') \in Nat \ {0}
  BY <1>2, <1>3, <1>5, KeyedGrows DEF Types
<1>9. Types'
  <2>1. behaviors' \in [DOMAIN behaviors' -> Entry]
    BY <1>2, <1>4 DEF Types
  <2> QED BY <1>1, <1>6, <1>8, <2>1 DEF Types
<1>10. Checked' /\ Arrays'
  BY <1>1, <1>6 DEF Checked, Arrays
<1>11. Slices'
  <2>1. IsSlice(heap, b.actions) /\ IsFull(heap, N, b.actions)
    <3>1. Len(heap[i]) = Len(m.actions)
      BY <1>1, <1>3, SortType DEF Arrays
    <3> QED BY <1>1, <1>3, <1>4, <3>1 DEF IsSlice, IsFull, Slice, Types
  <2>2. ASSUME NEW k \in DOMAIN behaviors'
        PROVE  /\ IsSlice(heap, behaviors'[k].actions)
               /\ IsFull(heap, N, behaviors'[k].actions)
    <3>1. CASE k = m.key
      BY <1>5, <2>1, <3>1
    <3>2. CASE k # m.key
      BY <1>5, <2>2, <3>2 DEF Slices
    <3> QED BY <3>1, <3>2
  <2> QED BY <1>1, <2>2 DEF Slices
<1>12. Texts'
  <2>1. \A j \in 1..i : mocks[j].key \in DOMAIN behaviors'
    <3> SUFFICES ASSUME NEW j \in 1..i PROVE mocks[j].key \in DOMAIN behaviors'
      OBVIOUS
    <3>1. CASE j = i
      BY <1>5, <3>1
    <3>2. CASE j # i
      <4>1. j \in 1..Upto
        BY <1>1, <1>7, <3>2
      <4> QED BY <1>5, <4>1 DEF Texts
    <3> QED BY <3>1, <3>2
  <2>2. ASSUME NEW k \in DOMAIN behaviors'
        PROVE  \E n \in 1..i : Registers(n, k)'
    <3>1. CASE k = m.key
      <4>1. PICK n \in 1..i : n = i
        BY <1>1
      <4>2. Defines(n, k, i)
        BY <1>1, <3>1, <4>1 DEF Defines
      <4>3. Defines(n, k, Upto)'
        BY <1>1, <1>7, <4>2 DEF Defines
      <4>4. behaviors'[k] = b /\ mocks'[n] = m
        BY <1>1, <1>5, <3>1, <4>1
      <4>5. /\ behaviors'[k].kind = mocks'[n].kind
            /\ behaviors'[k].extend = mocks'[n].extend
            /\ behaviors'[k].expect = mocks'[n].expect
            /\ behaviors'[k].actions = [arr |-> n, len |-> Len(mocks'[n].actions)]
        BY <1>4, <4>1, <4>4
      <4> QED BY ONLY <4>3, <4>5 DEF Registers
    <3>2. CASE k # m.key
      <4>1. k \in DOMAIN behaviors /\ behaviors'[k] = behaviors[k]
        BY <1>5, <2>2, <3>2
      <4>2. PICK n \in 1..(i - 1) : Registers(n, k)
        BY <1>7, <4>1 DEF Texts
      <4>3. Defines(n, k, i)
        BY <1>1, <1>7, <3>2, <4>2 DEF Registers, Defines
      <4>4. Defines(n, k, Upto)'
        BY <1>1, <1>7, <4>3 DEF Defines
      <4>5. n \in 1..i
        BY <1>1, <4>2
      <4>6. Pending(k)
        BY <1>1 DEF Pending
      <4> QED BY <1>1, <4>1, <4>2, <4>4, <4>5, <4>6 DEF Registers
    <3> QED BY <3>1, <3>2
  <2> QED BY <1>1, <1>7, <2>1, <2>2 DEF Texts
<1> QED BY <1>8, <1>9, <1>10, <1>11, <1>12

-----------------------------------------------------------------------------

\* What extending a behavior makes of it, and of the heap.
LEMMA ResolvedType ==
    ASSUME IInv, NEW k \in DOMAIN behaviors
    PROVE  LET new == Resolved(k) IN
           /\ new.heap \in Heap /\ Grown(heap, new.heap)
           /\ \A a \in 1..N : new.heap[a] = heap[a]
           /\ new.mock \in Entry /\ new.mock.kind = behaviors[k].kind
           /\ new.mock.extend = behaviors[k].extend
           /\ IsSlice(new.heap, new.mock.actions)
           /\ IsFull(new.heap, N, new.mock.actions)
<1> DEFINE b == behaviors[k]
           parent == behaviors[b.extend]
           joined == Appended(heap, parent.actions, View(heap, b.actions))
           new == Resolved(k)
<1>1. /\ heap \in Heap /\ N \in 0..Len(heap) /\ b \in Entry
      /\ IsSlice(heap, b.actions) /\ IsFull(heap, N, b.actions)
  BY MockParts, HeapType DEF IInv, Types, Slices
<1>2. CASE ~ Extends(b)
  <2>1. new = [mock |-> b, heap |-> heap]
    BY <1>2 DEF Resolved
  <2>2. Grown(heap, heap)
    BY <1>1, HeapType DEF Grown
  <2> QED BY <1>1, <2>1, <2>2
<1>3. CASE Extends(b)
  <2>1. /\ parent \in Entry /\ IsSlice(heap, parent.actions)
        /\ IsFull(heap, N, parent.actions)
    BY <1>3 DEF Extends, IInv, Types, Slices
  <2>2. View(heap, b.actions) \in Seq(Action)
    BY <1>1, ViewType
  <2>3. /\ joined.heap \in Heap /\ Grown(heap, joined.heap)
        /\ IsSlice(joined.heap, joined.slice) /\ IsFull(joined.heap, N, joined.slice)
        /\ \A a \in 1..N : joined.heap[a] = heap[a]
    BY <1>1, <2>1, <2>2, AppendedType
  <2> HIDE DEF joined
  <2>4. /\ new.heap = joined.heap
        /\ new.mock = PatchedWith(parent, b, joined.slice)
    BY <1>3 DEF Resolved, joined
  <2>5. joined.slice \in Slice
    BY <2>3 DEF IsSlice
  <2>6. /\ new.mock \in Entry /\ new.mock.kind = b.kind
        /\ new.mock.extend = b.extend
        /\ new.mock.actions = joined.slice
    BY <1>1, <2>1, <2>4, <2>5 DEF PatchedWith, Entry
  <2> QED BY <2>3, <2>4, <2>6
<1> QED BY <1>2, <1>3

\* The second loop comes to each key once.
LEMMA ResolvedIsNotPending ==
    ASSUME IInv, ResolveBehavior, NEW k, k = order[i]
    PROVE  /\ ~ Pending(k)'
           /\ \A j \in DOMAIN behaviors : Pending(j)' => Pending(j)
           /\ \A j \in DOMAIN behaviors :
                j # k /\ Pending(j) => Pending(j)'
<1>1. PICK l \in Nat \ {0} : l = i
  BY DEF IInv, Types
<1>2. k = order[l]
  BY <1>1
<1>3. /\ phase = "resolve" /\ l \in 1..Len(order) /\ Len(order) \in Nat
      /\ order' = order /\ Advance(Len(order), "done")
  BY <1>1 DEF ResolveBehavior, IInv, Types
<1>4. \/ l < Len(order) /\ phase' = "resolve" /\ i' = l + 1
      \/ l = Len(order) /\ phase' = "done"
  BY <1>1, <1>3 DEF Advance
<1>5. \A x \in 1..Len(order) : order[x] = k => x = l
  BY <1>2, <1>3 DEF IInv, Once
<1>6. ~ Pending(k)'
  BY <1>3, <1>4, <1>5 DEF Pending
<1>7. \A j \in DOMAIN behaviors : Pending(j)' => Pending(j)
  BY <1>1, <1>3, <1>4 DEF Pending
<1>8. ASSUME NEW j \in DOMAIN behaviors, j # k, Pending(j)
      PROVE  Pending(j)'
  <2>1. PICK x \in 1..Len(order) : l <= x /\ order[x] = j
    BY <1>1, <1>3, <1>8 DEF Pending
  <2>2. x # l
    BY <1>2, <1>8, <2>1
  <2> QED BY <1>3, <1>4, <2>1, <2>2 DEF Pending
<1> QED BY <1>6, <1>7, <1>8

LEMMA ResolveBehaviorIInv ==
    ASSUME IInv, ResolveBehavior, NEW k, k = order[i]
    PROVE  IInv'
<1> DEFINE new == Resolved(k)
<1> USE DEF IInv
<1>1. /\ phase = "resolve" /\ i \in 1..Len(order) /\ Len(order) \in Nat
      /\ UNCHANGED <<mocks, order, templates>> /\ N' = N
      /\ Advance(Len(order), "done") /\ N \in Nat \ {0}
  BY MockParts DEF ResolveBehavior, Types, N
<1>2. k \in DOMAIN behaviors /\ k \in Names
  <2>1. k \in DOMAIN behaviors
    BY <1>1 DEF Keyed
  <2>2. order \in Seq(Names)
    BY DEF Types
  <2> QED BY <1>1, <2>1, <2>2
<1>3. \/ phase' = "resolve" /\ i' \in Nat \ {0} /\ i' <= Len(order)
      \/ phase' = "done" /\ i' = 1
  BY <1>1 DEF Advance
<1>4. Upto = N /\ Upto' = N
  BY <1>1, <1>3 DEF Upto
<1>5. Checked'
  BY <1>1, <1>3 DEF Checked
<1>8. /\ ~ Pending(k)'
      /\ \A j \in DOMAIN behaviors : Pending(j)' => Pending(j)
      /\ \A j \in DOMAIN behaviors : j # k /\ Pending(j) => Pending(j)'
  BY <1>1, ResolvedIsNotPending
<1>6. CASE behaviors[k].kind = "AbstractBehavior"
  <2>1. UNCHANGED <<heap, behaviors, routes>>
    BY <1>6 DEF ResolveBehavior
  <2>2. Types'
    BY <1>1, <1>3, <2>1 DEF Types
  <2>3. Keyed' /\ Arrays' /\ Slices'
    BY <1>1, <2>1 DEF Keyed, Arrays, Slices
  <2>6. Once'
    BY <1>1 DEF Once
  <2>4. ASSUME NEW j \in DOMAIN behaviors, NEW m \in 1..N, Registers(m, j)
        PROVE  Registers(m, j)'
    BY <1>1, <1>4, <1>8, <2>1, <2>4 DEF Registers, Defines
  <2>5. Texts'
    BY <1>1, <1>4, <2>1, <2>4 DEF Texts
  <2> QED BY <1>5, <2>2, <2>3, <2>5, <2>6
<1>7. CASE behaviors[k].kind # "AbstractBehavior"
  <2> DEFINE s == new.mock.actions
  <2>1. /\ behaviors' = [behaviors EXCEPT ![k] = new.mock]
        /\ routes' = [r \in Routes |->
                IF r \in new.mock.expect.routes
                THEN Append(routes[r], [key |-> k, mock |-> new.mock])
                ELSE routes[r]]
        /\ heap' = SortedHeap(new.heap, s)
    BY <1>7 DEF ResolveBehavior
  <2>2. /\ new.heap \in Heap /\ Grown(heap, new.heap)
        /\ \A a \in 1..N : new.heap[a] = heap[a]
        /\ new.mock \in Entry /\ new.mock.kind = behaviors[k].kind
        /\ new.mock.extend = behaviors[k].extend
        /\ IsSlice(new.heap, s) /\ IsFull(new.heap, N, s)
    BY <1>2, ResolvedType
  <2> HIDE DEF new
  <2>3. heap \in Heap /\ N \in 0..Len(heap) /\ Len(heap) \in Nat
    BY <1>1, HeapType DEF Types
  <2>4. /\ heap' \in Heap /\ Grown(new.heap, heap')
        /\ \A a \in 1..Len(new.heap) : a # s.arr => heap'[a] = new.heap[a]
        /\ s.len = Len(new.heap[s.arr]) => heap'[s.arr] = GoSort(new.heap[s.arr])
    BY <2>1, <2>2, SortedHeapType
  <2>5. Grown(heap, heap') /\ Len(heap) <= Len(new.heap)
        /\ Len(new.heap) \in Nat /\ Len(heap') \in Nat
    <3>1. Len(new.heap) \in Nat /\ Len(heap') \in Nat
      BY <2>2, <2>4, HeapType
    <3> QED BY <2>2, <2>3, <2>4, <3>1 DEF Grown
  <2>6. IsSlice(heap', s) /\ IsFull(heap', N, s)
    <3>1. N \in 0..Len(new.heap)
      BY <2>3, <2>5
    <3> QED BY <2>2, <2>4, <3>1, GrownKeepsSlices
  <2>7. /\ DOMAIN behaviors' = DOMAIN behaviors /\ behaviors'[k] = new.mock
        /\ \A j \in DOMAIN behaviors : j # k => behaviors'[j] = behaviors[j]
    BY <1>2, <2>1
  <2>8. routes' \in [Routes -> Seq(RouteEntry)]
    <3>1. [key |-> k, mock |-> new.mock] \in RouteEntry
      BY <1>2, <2>2 DEF RouteEntry
    <3>2. \A r \in Routes : routes[r] \in Seq(RouteEntry)
      BY DEF Types
    <3>3. \A r \in Routes :
            Append(routes[r], [key |-> k, mock |-> new.mock]) \in Seq(RouteEntry)
      BY <3>1, <3>2
    <3> QED BY <2>1, <3>2, <3>3
  <2>9. Types'
    <3>1. behaviors' \in [DOMAIN behaviors' -> Entry]
      BY <1>2, <2>1, <2>2 DEF Types
    <3>2. N <= Len(heap')
      BY <2>3, <2>5 DEF Grown
    <3> QED BY <1>1, <1>3, <2>4, <2>8, <3>1, <3>2 DEF Types
  <2>10. Keyed'
    BY <1>1, <2>7 DEF Keyed
  <2>14. Once'
    BY <1>1 DEF Once
  <2>11. Arrays'
    <3> SUFFICES ASSUME NEW m \in 1..N
                 PROVE  heap'[m] \in {mocks[m].actions, GoSort(mocks[m].actions)}
      BY <1>1 DEF Arrays
    <3>1. /\ heap[m] \in {mocks[m].actions, GoSort(mocks[m].actions)}
          /\ new.heap[m] = heap[m] /\ m \in 1..Len(new.heap)
      BY <2>2, <2>3, <2>5 DEF Arrays
    <3>2. CASE m # s.arr
      BY <2>4, <3>1, <3>2
    <3>3. CASE m = s.arr
      <4>1. heap'[m] = GoSort(heap[m])
        BY <2>2, <2>4, <3>1, <3>3 DEF IsFull
      <4>2. mocks[m].actions \in Seq(Action)
        BY MockParts
      <4> QED BY <3>1, <4>1, <4>2, SortTwice
    <3> QED BY <3>2, <3>3
  <2>12. Slices'
    <3>1. ASSUME NEW j \in DOMAIN behaviors
          PROVE  /\ IsSlice(heap', behaviors'[j].actions)
                 /\ IsFull(heap', N, behaviors'[j].actions)
      <4>1. CASE j = k
        BY <2>6, <2>7, <4>1
      <4>2. CASE j # k
        <5>1. /\ behaviors'[j] = behaviors[j]
              /\ IsSlice(heap, behaviors[j].actions)
              /\ IsFull(heap, N, behaviors[j].actions)
          BY <2>7, <3>1, <4>2 DEF Slices
        <5> QED BY <2>3, <2>4, <2>5, <5>1, GrownKeepsSlices
      <4> QED BY <4>1, <4>2
    <3>2. ASSUME NEW r \in Routes, NEW j \in 1..Len(routes'[r])
          PROVE  /\ IsSlice(heap', routes'[r][j].mock.actions)
                 /\ IsFull(heap', N, routes'[r][j].mock.actions)
      <4>1. routes[r] \in Seq(RouteEntry)
        BY DEF Types
      <4>2. \/ j \in 1..Len(routes[r]) /\ routes'[r][j] = routes[r][j]
            \/ routes'[r][j] = [key |-> k, mock |-> new.mock]
        BY <2>1, <3>2, <4>1
      <4>3. CASE j \in 1..Len(routes[r]) /\ routes'[r][j] = routes[r][j]
        <5>1. /\ IsSlice(heap, routes[r][j].mock.actions)
              /\ IsFull(heap, N, routes[r][j].mock.actions)
          BY <3>2, <4>3 DEF Slices
        <5> QED BY <2>3, <2>4, <2>5, <4>3, <5>1, GrownKeepsSlices
      <4>4. CASE routes'[r][j] = [key |-> k, mock |-> new.mock]
        BY <2>6, <4>4
      <4> QED BY <4>2, <4>3, <4>4
    <3> QED BY <1>1, <2>7, <3>1, <3>2 DEF Slices
  <2>13. Texts'
    <3>1. ASSUME NEW j \in DOMAIN behaviors, NEW m \in 1..N, Registers(m, j)
          PROVE  Registers(m, j)'
      <4>1. Defines(m, j, Upto)'
        BY <1>1, <1>4, <3>1 DEF Registers, Defines
      <4>2. CASE j = k
        BY <1>1, <1>7, <1>8, <2>2, <2>7, <3>1, <4>1, <4>2 DEF Registers
      <4>3. CASE j # k
        BY <1>1, <1>8, <2>7, <3>1, <4>1, <4>3 DEF Registers
      <4> QED BY <4>2, <4>3
    <3>2. \A j \in DOMAIN behaviors : \E m \in 1..N : Registers(m, j)'
      BY <1>4, <3>1 DEF Texts
    <3> QED BY <1>1, <1>4, <2>7, <3>2 DEF Texts
  <2> QED BY <1>5, <2>9, <2>10, <2>11, <2>12, <2>13, <2>14
<1> QED BY <1>6, <1>7

LEMMA Inductive == IInv /\ [Next]_vars => IInv'
<1> SUFFICES ASSUME IInv, [Next]_vars PROVE IInv'
  OBVIOUS
<1>1. CASE Next
  <2>1. CASE ResolveBehavior
    <3>1. PICK k : k = order[i]
      OBVIOUS
    <3> QED BY <2>1, <3>1, ResolveBehaviorIInv
  <2> QED BY <1>1, <2>1, ValidateMockIInv, PopulateTemplateIInv, PutBehaviorIInv
          DEF Next
<1>2. CASE UNCHANGED vars
  <2> USE <1>2 DEF vars, N
  <2>1. Types'
    BY DEF IInv, Types
  <2>2. Checked' /\ Keyed' /\ Once' /\ Arrays'
    BY DEF IInv, Checked, Keyed, Once, Arrays
  <2>3. Slices'
    BY DEF IInv, Slices
  <2>4. Texts'
    BY DEF IInv, Texts, Registers, Defines, Upto, Pending
  <2> QED BY <2>1, <2>2, <2>3, <2>4 DEF IInv
<1> QED BY <1>1, <1>2

-----------------------------------------------------------------------------

\* When all mocks have been put, a key stands for its last definition.
LEMMA TextIs ==
    ASSUME IInv, Upto = N, NEW k \in DOMAIN behaviors
    PROVE  /\ Defined = DOMAIN behaviors
           /\ \E m \in 1..N : Registers(m, k) /\ Text(k) = mocks[m]
<1>1. N \in Nat \ {0}
  BY MockParts DEF IInv
<1>2. Defined = DOMAIN behaviors
  <2>1. \A x \in Defined : x \in DOMAIN behaviors
    BY DEF IInv, Texts, Defined, N
  <2>2. ASSUME NEW x \in DOMAIN behaviors PROVE x \in Defined
    <3>1. PICK m \in 1..N : Registers(m, x)
      BY <2>2 DEF IInv, Texts
    <3> QED BY <3>1 DEF Registers, Defines, Defined, N
  <2> QED BY <2>1, <2>2
<1>3. PICK m \in 1..N : Registers(m, k)
  BY DEF IInv, Texts
<1>4. /\ m \in 1..Len(mocks) /\ mocks[m].key = k
      /\ \A n \in m + 1..Len(mocks) : mocks[n].key # k
  BY <1>1, <1>3 DEF Registers, Defines, N
<1>5. \A l \in 1..Len(mocks) :
        /\ mocks[l].key = k
        /\ \A n \in l + 1..Len(mocks) : mocks[n].key # k
        => l = m
  BY <1>1, <1>4 DEF N
<1>6. Text(k) = mocks[m]
  BY <1>4, <1>5 DEF Text
<1> QED BY <1>2, <1>3, <1>6

\* A slice of a parsed array shows all of it.
LEMMA ParsedView ==
    ASSUME IInv, NEW k \in DOMAIN behaviors, NEW m \in 1..N,
           behaviors[k].actions = [arr |-> m, len |-> Len(mocks[m].actions)]
    PROVE  View(heap, behaviors[k].actions) = heap[m]
<1> DEFINE s == behaviors[k].actions
<1>1. s.arr = m /\ heap \in Heap /\ IsSlice(heap, s) /\ IsFull(heap, N, s)
  BY DEF IInv, Types, Slices
<1>2. s.len = Len(heap[s.arr])
  BY <1>1, MockParts DEF IsFull, IInv
<1> HIDE DEF s
<1>3. View(heap, s) = heap[s.arr]
  BY <1>1, <1>2, ViewType
<1> QED BY <1>1, <1>3 DEF s

\* Types; no slice ever leaves its array, and the ordered map has each key once
\* (populateBehaviors, patchedWith).
THEOREM TypeCorrect == Spec => []TypeOK
<1>1. IInv => TypeOK
  BY DEF IInv, Types, Keyed, Slices, TypeOK, N, Heap, SliceOK, IsSlice
<1> QED BY <1>1, InitIInv, Inductive, PTL DEF Spec

\* However many behaviors extend it, and each other, in whatever order, an
\* abstract behavior keeps its own actions (patchedWith, sort.Slice).
THEOREM AbstractsAreKept == Spec => []AbstractsKeepTheirActions
<1>1. IInv => AbstractsKeepTheirActions
  <2> SUFFICES ASSUME IInv, phase \in {"resolve", "done"}, NEW k \in Defined,
                      Text(k).kind = "AbstractBehavior"
               PROVE  View(heap, behaviors[k].actions) \in
                        {Text(k).actions, GoSort(Text(k).actions)}
    BY DEF AbstractsKeepTheirActions
  <2>1. Upto = N /\ N \in Nat \ {0}
    BY MockParts DEF IInv, Upto
  <2>2. k \in DOMAIN behaviors
    BY <2>1 DEF IInv, Texts, Defined, N
  <2>3. PICK m \in 1..N : Registers(m, k) /\ Text(k) = mocks[m]
    BY <2>1, <2>2, TextIs
  <2>4. behaviors[k].actions = [arr |-> m, len |-> Len(mocks[m].actions)]
    BY <2>3 DEF Registers
  <2>5. View(heap, behaviors[k].actions) = heap[m]
    BY <2>2, <2>4, ParsedView
  <2> QED BY <2>3, <2>5 DEF IInv, Arrays
<1> QED BY <1>1, InitIInv, Inductive, PTL DEF Spec

-----------------------------------------------------------------------------
(* The order in which a behavior's actions run. *)

\* Lists so short that Go's sort is an insertion sort.
FewActions ==
    \A input \in Inputs : \A m \in 1..Len(input) :
        /\ Len(input[m].actions) <= 6
        /\ \A n \in 1..Len(input) :
            n # m => Len(input[m].actions) + Len(input[n].actions) <= 6

Few ==
    \A m \in 1..N :
        /\ Len(mocks[m].actions) <= 6
        /\ \A n \in 1..N : n # m => Len(mocks[m].actions) + Len(mocks[n].actions) <= 6

\* The leaves that the second loop has passed: their list is ready, and it is
\* in a parsed array, which later sorts do not change, or in one that no other
\* behavior has.
Ready(k) == Upto = N /\ SingleLevel(k) /\ IsLeaf(k) /\ ~ Pending(k)

Alone(k) ==
    behaviors[k].actions.arr > N =>
        \A j \in DOMAIN behaviors :
            behaviors[j].actions.arr = behaviors[k].actions.arr => j = k

Leaves ==
    phase \in {"resolve", "done"} =>
        \A k \in DOMAIN behaviors : Ready(k) =>
            /\ View(heap, behaviors[k].actions) = StableSort(AllActions(k))
            /\ Alone(k)

LInv == IInv /\ Few /\ Leaves

LEMMA InitLInv == FewActions /\ Init => LInv
<1> SUFFICES ASSUME FewActions, Init PROVE LInv
  OBVIOUS
<1>1. Leaves
  BY DEF Init, Leaves
<1>2. Few
  BY DEF FewActions, Init, Few, N
<1> QED BY <1>1, <1>2, InitIInv DEF LInv

\* What the second loop does to the arrays and the views.
LEMMA ResolvedViews ==
    ASSUME IInv, ResolveBehavior, NEW k \in DOMAIN behaviors, k = order[i],
           behaviors[k].kind # "AbstractBehavior"
    PROVE  LET b == behaviors[k]
               parent == behaviors[b.extend]
               used == {b.actions.arr}
                        \cup IF Extends(b) THEN {parent.actions.arr} ELSE {}
               own == View(heap, b.actions)
           IN  /\ \A a \in 1..Len(heap) : a \notin used => heap'[a] = heap[a]
               /\ \A a \in 1..N : heap'[a] \in {heap[a], GoSort(heap[a])}
               /\ behaviors'[k].actions.arr \in used \cup {Len(heap) + 1}
               /\ View(heap', behaviors'[k].actions) =
                    GoSort(IF Extends(b) THEN View(heap, parent.actions) \o own
                           ELSE own)
<1> DEFINE b == behaviors[k]
           parent == behaviors[b.extend]
           own == View(heap, b.actions)
           joined == Appended(heap, parent.actions, own)
           new == Resolved(k)
           s == new.mock.actions
           used == {b.actions.arr}
                    \cup IF Extends(b) THEN {parent.actions.arr} ELSE {}
           list == IF Extends(b) THEN View(heap, parent.actions) \o own ELSE own
<1>1. /\ behaviors' = [behaviors EXCEPT ![k] = new.mock]
      /\ heap' = SortedHeap(new.heap, s)
  BY DEF ResolveBehavior
<1>2. behaviors'[k].actions = s
  BY <1>1
<1>3. /\ new.heap \in Heap /\ Grown(heap, new.heap)
      /\ \A a \in 1..N : new.heap[a] = heap[a]
      /\ IsSlice(new.heap, s) /\ IsFull(new.heap, N, s)
  BY ResolvedType
<1>4. /\ heap \in Heap /\ N \in 0..Len(heap) /\ Len(heap) \in Nat
      /\ IsSlice(heap, b.actions)
  BY MockParts, HeapType DEF IInv, Types, Slices
<1>5. own \in Seq(Action)
  BY <1>4, ViewType
<1>6. /\ View(new.heap, s) = list /\ s.arr \in used \cup {Len(heap) + 1}
      /\ \A a \in 1..Len(heap) : a \notin used => new.heap[a] = heap[a]
  <2>1. CASE Extends(b)
    <3>1. IsSlice(heap, parent.actions)
      BY <2>1 DEF Extends, IInv, Slices
    <3>2. /\ View(joined.heap, joined.slice) = View(heap, parent.actions) \o own
          /\ joined.slice.arr \in {parent.actions.arr, Len(heap) + 1}
          /\ \A a \in 1..Len(heap) : a # parent.actions.arr => joined.heap[a] = heap[a]
      <4> DEFINE q == parent.actions
                 w == own
                 r == Appended(heap, q, w)
      <4> HIDE DEF q, w
      <4>1. IsSlice(heap, q) /\ heap \in Heap /\ w \in Seq(Action)
        BY <1>4, <1>5, <3>1 DEF q, w
      <4>2. /\ View(r.heap, r.slice) = View(heap, q) \o w
            /\ r.slice.arr \in {q.arr, Len(heap) + 1}
            /\ \A a \in 1..Len(heap) : a # q.arr => r.heap[a] = heap[a]
        BY <4>1, AppendedView
      <4> QED BY <4>2 DEF q, w
    <3> HIDE DEF joined
    <3>3. new.heap = joined.heap /\ s = joined.slice
      BY <2>1 DEF Resolved, PatchedWith, joined
    <3> HIDE DEF new
    <3> QED BY <2>1, <3>2, <3>3
  <2>2. CASE ~ Extends(b)
    <3>1. new.heap = heap /\ s = b.actions
      BY <2>2 DEF Resolved
    <3> HIDE DEF new
    <3> QED BY <2>2, <3>1
  <2> QED BY <2>1, <2>2
<1> HIDE DEF new, used, list
<1>7. Len(new.heap) \in Nat /\ Len(heap) <= Len(new.heap)
  BY <1>3, HeapType DEF Grown
<1>8. /\ \A a \in 1..Len(new.heap) : a # s.arr => heap'[a] = new.heap[a]
      /\ s.len = Len(new.heap[s.arr]) => heap'[s.arr] = GoSort(new.heap[s.arr])
  BY <1>1, <1>3, SortedHeapType
<1>9. ASSUME NEW a \in 1..Len(heap), a \notin used
      PROVE  heap'[a] = heap[a]
  <2>1. a # s.arr
    BY <1>4, <1>6, <1>9
  <2>2. a \in 1..Len(new.heap)
    BY <1>4, <1>7
  <2> QED BY <1>6, <1>8, <1>9, <2>1, <2>2
<1>10. ASSUME NEW a \in 1..N
       PROVE  heap'[a] \in {heap[a], GoSort(heap[a])}
  <2>1. a \in 1..Len(new.heap) /\ new.heap[a] = heap[a]
    BY <1>3, <1>4, <1>7
  <2>2. CASE a # s.arr
    BY <1>8, <2>1, <2>2
  <2>3. CASE a = s.arr
    <3>1. s.len = Len(new.heap[s.arr])
      BY <1>3, <1>4, <2>3 DEF IsFull
    <3> QED BY <1>8, <2>1, <2>3, <3>1
  <2> QED BY <2>2, <2>3
<1>11. View(heap', s) = GoSort(list)
  BY <1>1, <1>3, <1>6, SortedView
<1> QED BY <1>2, <1>6, <1>9, <1>10, <1>11 DEF used, list

\* Where the texts' actions come from.
LEMMA AllActionsType ==
    ASSUME IInv, Upto = N, NEW k \in DOMAIN behaviors
    PROVE  AllActions(k) \in Seq(Action)
<1>1. Defined = DOMAIN behaviors
  BY TextIs
<1>2. \A x \in DOMAIN behaviors : Text(x).actions \in Seq(Action)
  <2> SUFFICES ASSUME NEW x \in DOMAIN behaviors PROVE Text(x).actions \in Seq(Action)
    OBVIOUS
  <2>1. PICK m \in 1..N : Text(x) = mocks[m]
    BY TextIs
  <2> QED BY <2>1, MockParts DEF IInv
<1>3. HasParent(k) => ParentText(k).actions \in Seq(Action)
  BY <1>1, <1>2 DEF HasParent, ParentText
<1> QED BY <1>2, <1>3 DEF AllActions

\* The list that the second loop makes for a behavior that extends an
\* abstract one, or nothing.
LEMMA ResolvedList ==
    ASSUME IInv, Few, ResolveBehavior, NEW k \in DOMAIN behaviors, k = order[i],
           SingleLevel(k)
    PROVE  LET b == behaviors[k]
               parent == behaviors[b.extend]
               own == View(heap, b.actions)
           IN  /\ GoSort(IF Extends(b) THEN View(heap, parent.actions) \o own ELSE own)
                    = StableSort(AllActions(k))
               /\ b.actions.arr <= N
               /\ Extends(b) => parent.actions.arr <= N
<1> DEFINE b == behaviors[k]
           p == b.extend
           own == View(heap, b.actions)
<1>1. /\ phase = "resolve" /\ i \in 1..Len(order) /\ Upto = N /\ N \in Nat
      /\ DOMAIN behaviors \subseteq Names
  <2>1. phase = "resolve" /\ i \in 1..Len(order) /\ Upto = N /\ N \in Nat
    BY MockParts DEF ResolveBehavior, IInv, Types, Upto
  <2>2. order \in Seq(Names) /\ DOMAIN behaviors = {order[j] : j \in 1..Len(order)}
    BY DEF IInv, Types, Keyed
  <2> QED BY <2>1, <2>2
<1>2. PICK m \in 1..N : Registers(m, k) /\ Text(k) = mocks[m]
  BY <1>1, TextIs
<1>3. Pending(k)
  BY <1>1 DEF Pending
<1>4. /\ b.actions = [arr |-> m, len |-> Len(mocks[m].actions)]
      /\ b.extend = mocks[m].extend /\ b.actions.arr = m
  BY <1>2, <1>3 DEF Registers
<1>5. own = heap[m]
  BY <1>4, ParsedView
<1>6. \A x \in 1..N :
        /\ mocks[x].actions \in Seq(Action) /\ Len(mocks[x].actions) \in Nat
        /\ heap[x] \in {mocks[x].actions, StableSort(mocks[x].actions)}
        /\ heap[x] \in Seq(Action) /\ Len(heap[x]) = Len(mocks[x].actions)
  <2> SUFFICES ASSUME NEW x \in 1..N
               PROVE  /\ mocks[x].actions \in Seq(Action)
                      /\ Len(mocks[x].actions) \in Nat
                      /\ heap[x] \in {mocks[x].actions, StableSort(mocks[x].actions)}
                      /\ heap[x] \in Seq(Action)
                      /\ Len(heap[x]) = Len(mocks[x].actions)
    OBVIOUS
  <2>1. mocks[x].actions \in Seq(Action) /\ Len(mocks[x].actions) <= 6
    BY MockParts DEF IInv, Few
  <2>2. GoSort(mocks[x].actions) = StableSort(mocks[x].actions)
    BY <2>1, ShortIsStable
  <2>3. heap[x] \in {mocks[x].actions, StableSort(mocks[x].actions)}
    BY <2>2 DEF IInv, Arrays
  <2> QED BY <2>1, <2>3, SortTakes
<1>7. CASE ~ Extends(b)
  <2>1. AllActions(k) = mocks[m].actions
    <3>1. ~ HasParent(k)
      BY <1>1, <1>2, <1>4, <1>7, TextIs, RepoAssumption DEF Extends, HasParent
    <3> QED BY <1>2, <3>1 DEF AllActions
  <2>2. GoSort(own) = StableSort(mocks[m].actions)
    <3>1. mocks[m].actions \in Seq(Action) /\ Len(mocks[m].actions) <= 6
      BY <1>6 DEF Few
    <3>2. GoSort(mocks[m].actions) = StableSort(mocks[m].actions)
      BY <3>1, ShortIsStable
    <3>3. GoSort(GoSort(mocks[m].actions)) = GoSort(mocks[m].actions)
      BY <3>1, SortTwice
    <3> QED BY <1>5, <1>6, <3>2, <3>3
  <2> QED BY <1>4, <1>7, <2>1, <2>2
<1>8. CASE Extends(b)
  <2>1. p \in DOMAIN behaviors /\ p # None
    BY <1>8 DEF Extends
  <2>2. PICK n \in 1..N : Registers(n, p) /\ Text(p) = mocks[n]
    BY <1>1, <2>1, TextIs
  <2>3. HasParent(k) /\ ParentText(k) = mocks[n]
    BY <1>1, <1>2, <1>4, <2>1, <2>2, TextIs DEF HasParent, ParentText
  <2>4. mocks[n].kind = "AbstractBehavior" /\ mocks[m].kind # "AbstractBehavior"
    BY <1>2, <2>3 DEF SingleLevel
  <2>5. behaviors[p].actions = [arr |-> n, len |-> Len(mocks[n].actions)]
    BY <2>2, <2>4 DEF Registers
  <2>6. View(heap, behaviors[p].actions) = heap[n] /\ behaviors[p].actions.arr = n
    BY <2>1, <2>5, ParsedView
  <2>7. AllActions(k) = mocks[n].actions \o mocks[m].actions
    BY <1>2, <2>3 DEF AllActions
  <2>8. Len(mocks[n].actions) + Len(mocks[m].actions) <= 6
    <3>1. n # m
      BY <2>4
    <3> QED BY <3>1 DEF Few
  <2>9. GoSort(heap[n] \o heap[m]) = StableSort(heap[n] \o heap[m])
    <3>1. heap[n] \o heap[m] \in Seq(Action) /\ Len(heap[n] \o heap[m]) <= 6
      <4>1. PICK u \in Seq(Action) : u = heap[n] /\ Len(u) = Len(mocks[n].actions)
        BY <1>6
      <4>2. PICK v \in Seq(Action) : v = heap[m] /\ Len(v) = Len(mocks[m].actions)
        BY <1>6
      <4>3. u \o v \in Seq(Action) /\ Len(u \o v) = Len(u) + Len(v)
        BY JoinedType
      <4> QED BY <2>8, <4>1, <4>2, <4>3
    <3> QED BY <3>1, ShortIsStable
  <2>10. StableSort(heap[n] \o heap[m]) = StableSort(AllActions(k))
    BY SMTT(30), <1>6, <2>7, SortOfSortedParts
  <2> QED BY <1>4, <1>5, <1>8, <2>6, <2>9, <2>10
<1> QED BY <1>7, <1>8

\* Sorting again changes nothing.
LEMMA SortOfSorted ==
    ASSUME NEW s \in Seq(Action)
    PROVE  GoSort(StableSort(s)) = StableSort(s)
<1> DEFINE t == StableSort(s)
<1>1. t \in Seq(Action) /\ Ascending(t)
  BY SortTakes, SortAscends
<1> HIDE DEF t
<1>2. GapPass(t) = t /\ StableSort(t) = t
  BY <1>1, GapKeepsSorted, SortKeepsSorted
<1>3. GoSort(t) = t
  BY <1>2 DEF GoSort
<1> QED BY <1>3 DEF t

\* Once read, the texts stand.
LEMMA SameTexts ==
    ASSUME mocks' = mocks
    PROVE  /\ N' = N /\ Defined' = Defined
           /\ \A k : /\ Text(k)' = Text(k)
                     /\ SingleLevel(k)' <=> SingleLevel(k)
                     /\ IsLeaf(k)' <=> IsLeaf(k)
                     /\ AllActions(k)' = AllActions(k)
<1>1. N' = N /\ Defined' = Defined
  BY DEF N, Defined
<1>2. ASSUME NEW k PROVE Text(k)' = Text(k)
  BY DEF Text
<1>3. ASSUME NEW k
      PROVE  HasParent(k)' <=> HasParent(k)
  BY <1>1, <1>2 DEF HasParent
<1>4. ASSUME NEW k
      PROVE  ParentText(k)' = ParentText(k)
  BY DEF ParentText, Text
<1>5. ASSUME NEW k PROVE SingleLevel(k)' <=> SingleLevel(k)
  BY <1>2, <1>3, <1>4 DEF SingleLevel
<1>6. ASSUME NEW k PROVE IsLeaf(k)' <=> IsLeaf(k)
  BY <1>1, <1>2 DEF IsLeaf
<1>7. ASSUME NEW k PROVE AllActions(k)' = AllActions(k)
  BY <1>2, <1>3, <1>4 DEF AllActions
<1> QED BY <1>1, <1>2, <1>5, <1>6, <1>7

LEMMA ResolveBehaviorLeaves ==
    ASSUME LInv, ResolveBehavior, NEW k \in DOMAIN behaviors, k = order[i], IInv'
    PROVE  Leaves'
<1> DEFINE b == behaviors[k]
           parent == behaviors[b.extend]
           used == {b.actions.arr}
                    \cup IF Extends(b) THEN {parent.actions.arr} ELSE {}
           own == View(heap, b.actions)
<1> USE DEF LInv
<1>1. /\ phase = "resolve" /\ Upto = N /\ N \in Nat \ {0}
      /\ mocks' = mocks /\ N' = N /\ heap \in Heap /\ N <= Len(heap)
      /\ Len(heap) \in Nat /\ Defined = DOMAIN behaviors
  BY MockParts, HeapType, TextIs DEF ResolveBehavior, IInv, Types, Upto, N
<1>2. /\ ~ Pending(k)'
      /\ \A j \in DOMAIN behaviors : j # k /\ Pending(j) => Pending(j)'
  BY ResolvedIsNotPending
<1>3. PICK m \in 1..N : Registers(m, k) /\ Text(k) = mocks[m]
  BY <1>1, TextIs
<1>4. b.kind = Text(k).kind /\ b.extend = Text(k).extend
  BY <1>3 DEF Registers
<1>5. DOMAIN behaviors' = DOMAIN behaviors
      /\ \A j \in DOMAIN behaviors : j # k => behaviors'[j] = behaviors[j]
  BY DEF ResolveBehavior
<1> SUFFICES ASSUME NEW j \in DOMAIN behaviors, phase' \in {"resolve", "done"},
                    Ready(j)'
             PROVE  /\ View(heap', behaviors'[j].actions) = StableSort(AllActions(j))
                    /\ Alone(j)'
  BY <1>1, <1>5, SameTexts DEF Leaves
<1>6. SingleLevel(j) /\ IsLeaf(j) /\ ~ Pending(j)'
  BY <1>1, SameTexts DEF Ready
<1>7. j # k =>
        /\ behaviors'[j] = behaviors[j] /\ Alone(j)
        /\ View(heap, behaviors[j].actions) = StableSort(AllActions(j))
  <2> SUFFICES ASSUME j # k
               PROVE  /\ behaviors'[j] = behaviors[j] /\ Ready(j)
    BY <1>1 DEF Leaves
  <2> QED BY <1>1, <1>2, <1>5, <1>6 DEF Ready
<1>8. CASE b.kind = "AbstractBehavior"
  <2>1. j # k
    BY <1>4, <1>6, <1>8 DEF SingleLevel
  <2>2. heap' = heap /\ behaviors' = behaviors
    BY <1>8 DEF ResolveBehavior
  <2>3. Alone(j)'
    BY <1>1, <1>7, <2>1, <2>2 DEF Alone
  <2> QED BY <1>7, <2>1, <2>2, <2>3
<1>9. CASE b.kind # "AbstractBehavior"
  <2>1. /\ \A a \in 1..Len(heap) : a \notin used => heap'[a] = heap[a]
        /\ \A a \in 1..N : heap'[a] \in {heap[a], GoSort(heap[a])}
        /\ behaviors'[k].actions.arr \in used \cup {Len(heap) + 1}
        /\ View(heap', behaviors'[k].actions) =
             GoSort(IF Extends(b) THEN View(heap, parent.actions) \o own ELSE own)
    BY <1>9, ResolvedViews
  <2>2. \A x \in DOMAIN behaviors :
          IsSlice(heap, behaviors[x].actions) /\ IsFull(heap, N, behaviors[x].actions)
    BY DEF IInv, Slices
  <2>3. \A x \in DOMAIN behaviors : behaviors[x].actions.arr \in 1..Len(heap)
    BY <2>2 DEF IsSlice
  <2>4. CASE j = k
    <3>1. /\ View(heap', behaviors'[k].actions) = StableSort(AllActions(k))
          /\ b.actions.arr <= N /\ Extends(b) => parent.actions.arr <= N
      BY <1>6, <2>1, <2>4, ResolvedList
    <3>2. b.actions.arr <= N /\ (Extends(b) => parent.actions.arr <= N)
      BY <1>6, <2>4, ResolvedList
    <3>3. behaviors'[k].actions.arr > N => behaviors'[k].actions.arr = Len(heap) + 1
      <4>1. \A a \in used : a <= N /\ a \in Nat
        BY <1>1, <2>3, <3>2 DEF Extends
      <4>2. PICK z : z = behaviors'[k].actions.arr
        OBVIOUS
      <4>3. z \in used \/ z = Len(heap) + 1
        BY <2>1, <4>2
      <4> HIDE DEF used
      <4>4. z \in used => ~ (z > N)
        BY <1>1, <4>1
      <4> QED BY <4>2, <4>3, <4>4
    <3>4. \A x \in DOMAIN behaviors :
            x # k => behaviors'[x].actions.arr # Len(heap) + 1
      BY <1>1, <1>5, <2>3
    <3>5. Alone(k)'
      BY <1>1, <1>5, <3>3, <3>4 DEF Alone
    <3> QED BY <2>4, <3>1, <3>5
  <2>5. CASE j # k
    <3> DEFINE s == behaviors[j].actions
               a == s.arr
    <3>1. /\ a \in 1..Len(heap) /\ behaviors'[j].actions = s
          /\ IsSlice(heap, s) /\ IsFull(heap, N, s)
          /\ View(heap, s) = StableSort(AllActions(j))
      BY <1>7, <2>2, <2>3, <2>5
    <3>2. heap' \in Heap /\ IsSlice(heap', s) /\ IsFull(heap', N, s)
      BY <1>1, <1>5, <3>1 DEF IInv, Types, Slices
    <3>3. CASE a <= N
      <4>1. View(heap, s) = heap[a] /\ View(heap', s) = heap'[a]
        BY <1>1, <3>1, <3>2, <3>3, ViewType DEF IsFull
      <4>2. GoSort(heap[a]) = heap[a]
        BY <1>1, <3>1, <4>1, AllActionsType, SortOfSorted
      <4>3. heap'[a] = heap[a]
        BY <1>1, <2>1, <3>1, <3>3, <4>2
      <4>4. Alone(j)'
        BY <1>1, <3>1, <3>3 DEF Alone
      <4> QED BY <3>1, <4>1, <4>3, <4>4
    <3>4. CASE ~ (a <= N)
      <4>1. \A x \in DOMAIN behaviors : x # j => behaviors[x].actions.arr # a
        BY <1>1, <1>7, <2>5, <3>1, <3>4 DEF Alone
      <4>2. Extends(b) => b.extend \in DOMAIN behaviors /\ b.extend # j
        BY <1>1, <1>4, <1>6 DEF Extends, IsLeaf
      <4>3. a \notin used
        BY <2>5, <4>1, <4>2
      <4>4. heap'[a] = heap[a]
        BY <2>1, <3>1, <4>3
      <4>5. View(heap', s) = View(heap, s)
        BY <4>4 DEF View
      <4>6. behaviors'[k].actions.arr # a
        BY SMTT(30), <1>1, <2>1, <3>1, <4>3
      <4>7. Alone(j)'
        BY <1>1, <1>5, <3>1, <4>1, <4>6 DEF Alone
      <4> QED BY <3>1, <4>5, <4>7
    <3> QED BY <3>3, <3>4
  <2> QED BY <2>4, <2>5
<1> QED BY <1>8, <1>9

LEMMA LeavesInductive == LInv /\ [Next]_vars => LInv'
<1> SUFFICES ASSUME LInv, [Next]_vars PROVE LInv'
  OBVIOUS
<1>1. IInv /\ IInv'
  BY Inductive DEF LInv
<1>2. /\ N' = N /\ N \in Nat \ {0}
      /\ \A m \in 1..N : mocks'[m].actions = mocks[m].actions
  <2>1. N \in Nat \ {0} /\ mocks \in Seq(Mock)
    BY <1>1, MockParts DEF IInv, Types
  <2>2. CASE ValidateMock
    <3>1. CASE ~ Valid(mocks[i])
      BY <2>1, <2>2, <3>1 DEF ValidateMock, N
    <3>2. CASE Valid(mocks[i])
      <4> DEFINE new == [mocks[i] EXCEPT !.kind = KindOf(mocks[i])]
      <4>1. mocks' = [mocks EXCEPT ![i] = new]
        BY <2>2, <3>2 DEF ValidateMock
      <4>2. i \in 1..N /\ mocks[i] \in Mock
        BY <1>1, <2>1, <2>2, MockParts DEF ValidateMock, IInv, Types
      <4>3. KindOf(mocks[i]) \in Kinds
        BY <3>2 DEF Valid
      <4>4. new \in Mock /\ new.actions = mocks[i].actions
        BY <4>2, <4>3, WithKind
      <4> HIDE DEF new
      <4>5. N' = N /\ mocks'[i] = new /\ \A m \in 1..N : m # i => mocks'[m] = mocks[m]
        BY <2>1, <4>1, <4>2, <4>4 DEF N
      <4> QED BY <2>1, <4>4, <4>5
    <3> QED BY <3>1, <3>2
  <2>3. CASE mocks' = mocks
    BY <2>1, <2>3 DEF N
  <2> QED BY <2>2, <2>3 DEF Next, vars, PopulateTemplate, PutBehavior, ResolveBehavior
<1>3. Few'
  BY <1>2 DEF LInv, Few
<1>4. CASE ValidateMock \/ PopulateTemplate
  <2>1. phase' \in {"validate", "templates", "put", "failed"}
    BY <1>4 DEF ValidateMock, PopulateTemplate, Advance
  <2> QED BY <1>1, <1>3, <2>1 DEF LInv, Leaves
<1>5. CASE PutBehavior
  <2>1. \/ phase' = "put"
        \/ phase' = "resolve" /\ i' = 1
    <3>1. phase = "put" /\ Advance(N, "resolve")
      BY <1>5 DEF PutBehavior, N
    <3>2. CASE i < N
      BY <3>1, <3>2 DEF Advance
    <3>3. CASE ~ (i < N)
      BY <3>1, <3>3 DEF Advance
    <3> QED BY <3>2, <3>3
  <2>2. phase' = "resolve" => \A k \in DOMAIN behaviors' : Pending(k)'
    <3> SUFFICES ASSUME phase' = "resolve", NEW k \in DOMAIN behaviors'
                 PROVE  Pending(k)'
      OBVIOUS
    <3>1. PICK j \in 1..Len(order') : order'[j] = k
      BY <1>1 DEF IInv, Keyed
    <3>2. i' = 1 /\ 1 <= j
      BY <2>1
    <3> QED BY <3>1, <3>2 DEF Pending
  <2>3. Leaves'
    BY <2>1, <2>2 DEF Leaves, Ready
  <2> QED BY <1>1, <1>3, <2>3 DEF LInv
<1>6. CASE ResolveBehavior
  <2>1. PICK k : k = order[i]
    OBVIOUS
  <2>2. k \in DOMAIN behaviors
    <3>1. phase = "resolve"
      BY <1>6 DEF ResolveBehavior
    <3>2. i \in Nat \ {0} /\ i <= Len(order) /\ order \in Seq(Names)
      BY <1>1, <3>1 DEF IInv, Types
    <3>3. i \in 1..Len(order)
      BY <3>2
    <3> QED BY <1>1, <2>1, <3>3 DEF IInv, Keyed
  <2> QED BY <1>1, <1>3, <1>6, <2>1, <2>2, ResolveBehaviorLeaves DEF LInv
<1>7. CASE UNCHANGED vars
  <2>1. Leaves'
    <3>1. UNCHANGED vars
      BY <1>7
    <3>2. Leaves /\ N' = N /\ Upto' = Upto
      BY <3>1, SameTexts DEF LInv, Upto, vars
    <3>3. ASSUME NEW k \in DOMAIN behaviors
          PROVE  /\ Ready(k)' => Ready(k)
                 /\ Alone(k) => Alone(k)'
                 /\ View(heap, behaviors[k].actions)' = View(heap, behaviors[k].actions)
                 /\ AllActions(k)' = AllActions(k)
      BY <3>1, <3>2, SameTexts DEF Ready, Alone, Pending, View, vars
    <3> QED BY <3>1, <3>2, <3>3 DEF Leaves, vars
  <2> QED BY <1>1, <1>3, <2>1 DEF LInv
<1> QED BY <1>4, <1>5, <1>6, <1>7 DEF Next

\* With lists of at most six actions, a behavior that nothing extends runs its
\* abstract parent's actions and its own in ascending order, and the parent's
\* first among equals, whoever shares the parent's array (populateBehaviors).
THEOREM LeavesAreInOrder ==
    ASSUME FewActions
    PROVE  Spec => []LeavesRunInOrder
<1>1. LInv => LeavesRunInOrder
  <2> SUFFICES ASSUME LInv, phase = "done", NEW k \in Defined,
                      SingleLevel(k), IsLeaf(k)
               PROVE  View(heap, behaviors[k].actions) = StableSort(AllActions(k))
    BY DEF LeavesRunInOrder
  <2>1. Upto = N /\ ~ Pending(k)
    BY DEF Upto, Pending
  <2>2. k \in DOMAIN behaviors
    BY <2>1 DEF LInv, IInv, Texts, Defined, N
  <2> QED BY <2>1, <2>2 DEF LInv, Leaves, Ready
<1> QED BY <1>1, InitLInv, LeavesInductive, PTL DEF Spec
-----------------------------------------------------------------------------
(* The order in which a route's behaviors are tried. *)

RouteKeys(r) == [j \in 1..Len(routes[r]) |-> routes[r][j].key]

Places == [m \in 1..N |-> m]

\* The ordered map has the keys in the order of the texts.
Placed == order = KeysOf(Sublists(Places, Firsts)[Upto])

\* How many keys the second loop has passed.
Passed ==
    IF phase = "resolve" THEN i - 1 ELSE IF phase = "done" THEN Len(order) ELSE 0

\* A route has those of its behaviors that the second loop has passed.
Listed ==
    /\ phase \notin {"resolve", "done"} => \A r \in Routes : routes[r] = <<>>
    /\ phase \in {"resolve", "done"} /\ AllSingleLevel =>
        \A r \in Routes : RouteKeys(r) = Sublists(order, AnswersTo(r))[Passed]

RInv == IInv /\ Placed /\ Listed

LEMMA PlacesType ==
    ASSUME NEW n \in Nat
    PROVE  /\ [m \in 1..n |-> m] \in Seq(Nat) /\ Len([m \in 1..n |-> m]) = n
           /\ \A m \in 1..n : [x \in 1..n |-> x][m] = m
<1>1. [m \in 1..n |-> m] \in [1..n -> Nat]
  OBVIOUS
<1> QED BY <1>1, IsSeq

\* Before the first loop.
LEMMA InitRInv == Init => RInv
<1> SUFFICES ASSUME Init PROVE RInv
  OBVIOUS
<1>1. /\ IInv /\ phase = "validate" /\ order = <<>>
      /\ routes = [r \in Routes |-> <<>>]
  BY InitIInv DEF Init
<1>2. N \in Nat /\ Upto = 0
  BY <1>1, MockParts DEF IInv, Upto
<1>3. Places \in Seq(Nat)
  BY <1>2, PlacesType DEF Places
<1>4. Sublists(Places, Firsts)[0] = <<>>
  BY <1>3, SublistsAreResults
<1>5. Placed
  BY <1>1, <1>2, <1>4 DEF Placed, KeysOf
<1>6. Listed
  BY <1>1 DEF Listed
<1> QED BY <1>1, <1>5, <1>6 DEF RInv

\* While the loops before it run, there are no keys.
LEMMA EarlierRInv ==
    ASSUME RInv, ValidateMock \/ PopulateTemplate
    PROVE  RInv'
<1>1. /\ IInv /\ IInv' /\ phase \in {"validate", "templates"}
      /\ UNCHANGED <<order, routes>>
  BY ValidateMockIInv, PopulateTemplateIInv
     DEF RInv, ValidateMock, PopulateTemplate
<1>2. /\ N' \in Nat /\ Upto = 0 /\ Upto' = 0
      /\ phase' \notin {"resolve", "done"}
  <2>1. N' \in Nat
    BY <1>1 DEF IInv, Types, N
  <2>2. \/ phase' \in {"validate", "templates", "failed"}
        \/ phase' = "put" /\ i' = 1
    <3>1. i \in Nat \ {0} /\ N \in Nat
      BY <1>1, MockParts DEF IInv, Types
    <3> QED BY <1>1, <3>1 DEF ValidateMock, PopulateTemplate, Advance
  <2> QED BY <1>1, <2>1, <2>2 DEF Upto
<1>3. order = <<>>
  <2>1. 1..Upto = {}
    BY <1>2
  <2>2. {order[j] : j \in 1..Len(order)} = {}
    BY <1>1, <2>1 DEF IInv, Texts, Keyed
  <2>3. order \in Seq(Names)
    BY <1>1 DEF IInv, Types
  <2>4. Len(order) = 0
    <3>1. Len(order) \in Nat
      BY <2>3
    <3>2. 1 \notin 1..Len(order)
      BY <2>2
    <3> QED BY <3>1, <3>2
  <2> QED BY <2>3, <2>4
<1>4. Placed'
  <2>1. Places' \in Seq(Nat)
    BY <1>2, PlacesType DEF Places
  <2>2. Sublists(Places', Firsts')[0] = <<>>
    BY <2>1, SublistsAreResults
  <2> QED BY <1>1, <1>2, <1>3, <2>2 DEF Placed, KeysOf
<1>5. Listed'
  BY <1>1, <1>2 DEF RInv, Listed
<1> QED BY <1>1, <1>4, <1>5 DEF RInv

\* A key's place is that of the first mock that defines it.
LEMMA PutBehaviorRInv ==
    ASSUME RInv, PutBehavior
    PROVE  RInv'
<1> DEFINE k == mocks[i].key
           F == Sublists(Places, Firsts)
<1>1. /\ IInv /\ IInv' /\ phase = "put" /\ i \in 1..N /\ N \in Nat
      /\ UNCHANGED <<mocks, routes>> /\ Advance(N, "resolve")
      /\ order' = IF k \in DOMAIN behaviors THEN order ELSE Append(order, k)
  BY PutBehaviorIInv, MockParts DEF RInv, IInv, Types, PutBehavior, Registered, N
<1>2. \/ i < N /\ i' = i + 1 /\ phase' = "put"
      \/ i = N /\ i' = 1 /\ phase' = "resolve"
  BY <1>1 DEF Advance
<1>3. Upto = i - 1 /\ Upto' = i /\ i - 1 \in Nat
  BY <1>1, <1>2 DEF Upto, N
<1>4. i \in Firsts <=> k \notin DOMAIN behaviors
  <2>1. \A n \in 1..(i - 1) : mocks[n].key \in DOMAIN behaviors
    BY <1>1, <1>3 DEF IInv, Texts
  <2>2. k \in DOMAIN behaviors => \E n \in 1..(i - 1) : mocks[n].key = k
    <3> SUFFICES ASSUME k \in DOMAIN behaviors
                 PROVE  \E n \in 1..(i - 1) : mocks[n].key = k
      OBVIOUS
    <3>1. PICK n \in 1..(i - 1) : Registers(n, k)
      BY <1>1, <1>3 DEF IInv, Texts
    <3> QED BY <3>1 DEF Registers, Defines
  <2> QED BY <1>1, <2>1, <2>2 DEF Firsts, N
<1>5. /\ Places \in Seq(Nat) /\ Len(Places) = N /\ Places[i] = i
  BY <1>1, PlacesType DEF Places
<1>6. F[i] = IF i \in Firsts THEN Append(F[i - 1], i) ELSE F[i - 1]
  BY SMTT(30), <1>1, <1>5, SublistsAreResults
<1>7. F[i - 1] \in Seq(Nat)
  BY <1>1, <1>3, <1>5, SublistsAreSequences
<1> HIDE DEF F
<1>8. order = KeysOf(F[i - 1])
  BY <1>3 DEF RInv, Placed, F
<1>9. Placed'
  <2>1. order' = KeysOf(F[i])
    <3>1. CASE i \in Firsts
      <4>1. F[i] = Append(F[i - 1], i) /\ order' = Append(order, k)
        BY <1>1, <1>4, <1>6, <3>1
      <4> DEFINE q == F[i - 1]
      <4>2. q \in Seq(Nat) /\ Len(q) \in Nat
        BY <1>7
      <4> HIDE DEF q
      <4>3. KeysOf(Append(q, i)) = Append(KeysOf(q), mocks[i].key)
        BY <1>1, <4>2 DEF KeysOf
      <4> QED BY <1>8, <4>1, <4>3 DEF q
    <3>2. CASE i \notin Firsts
      BY <1>1, <1>4, <1>6, <1>8, <3>2
    <3> QED BY <3>1, <3>2
  <2>2. PICK q : q = F[i]
    OBVIOUS
  <2>3. Sublists(Places', Firsts')[Upto'] = q
    BY <1>1, <1>3, <2>2 DEF F, Places, Firsts, N
  <2>4. order' = [j \in 1..Len(q) |-> mocks'[q[j]].key]
    BY <1>1, <2>1, <2>2 DEF KeysOf
  <2> QED BY <2>3, <2>4 DEF Placed, KeysOf
<1>10. Listed'
  <2>1. \A r \in Routes : routes'[r] = <<>>
    BY <1>1 DEF RInv, Listed
  <2>2. CASE phase' = "put"
    BY <2>1, <2>2 DEF Listed
  <2>3. CASE phase' = "resolve" /\ i' = 1
    <3>1. Passed' = 0 /\ order' \in Seq(Names)
      BY <1>1, <2>3 DEF Passed, IInv, Types
    <3>2. \A r \in Routes : Sublists(order', AnswersTo(r)')[0] = <<>>
      BY <3>1, SublistsAreResults
    <3>3. \A r \in Routes : RouteKeys(r)' = <<>>
      BY <2>1 DEF RouteKeys
    <3> QED BY <2>3, <3>1, <3>2, <3>3 DEF Listed
  <2> QED BY <1>2, <2>2, <2>3
<1> QED BY <1>1, <1>9, <1>10 DEF RInv

\* What a behavior that is looked at by the second loop expects.
LEMMA ResolvedExpects ==
    ASSUME IInv, ResolveBehavior, NEW k \in DOMAIN behaviors, k = order[i],
           SingleLevel(k)
    PROVE  Resolved(k).mock.expect = ExpectOf(k)
<1> DEFINE b == behaviors[k]
           p == b.extend
<1>1. /\ phase = "resolve" /\ i \in 1..Len(order) /\ Upto = N /\ N \in Nat
      /\ DOMAIN behaviors \subseteq Names
  <2>1. phase = "resolve" /\ i \in 1..Len(order) /\ Upto = N /\ N \in Nat
    BY MockParts DEF ResolveBehavior, IInv, Types, Upto
  <2>2. order \in Seq(Names) /\ DOMAIN behaviors = {order[j] : j \in 1..Len(order)}
    BY DEF IInv, Types, Keyed
  <2> QED BY <2>1, <2>2
<1>2. PICK m \in 1..N : Registers(m, k) /\ Text(k) = mocks[m]
  BY <1>1, TextIs
<1>3. Pending(k)
  BY <1>1 DEF Pending
<1>4. b.expect = Text(k).expect /\ p = Text(k).extend
  BY <1>2, <1>3 DEF Registers
<1>5. Defined = DOMAIN behaviors
  BY <1>1, TextIs
<1>6. Extends(b) <=> HasParent(k)
  BY <1>1, <1>4, <1>5, RepoAssumption DEF Extends, HasParent
<1>7. CASE ~ Extends(b)
  <2>1. Resolved(k).mock = b
    BY <1>7 DEF Resolved
  <2> QED BY <1>4, <1>6, <1>7, <2>1 DEF ExpectOf
<1>8. CASE Extends(b)
  <2>1. p \in DOMAIN behaviors /\ HasParent(k)
    BY <1>6, <1>8 DEF Extends
  <2>2. PICK x \in 1..N : Registers(x, p) /\ Text(p) = mocks[x]
    BY <1>1, <2>1, TextIs
  <2>3. mocks[x].kind = "AbstractBehavior" /\ ParentText(k) = mocks[x]
    BY <1>4, <2>1, <2>2 DEF SingleLevel, ParentText
  <2>4. behaviors[p].expect = ParentText(k).expect
    BY <2>2, <2>3 DEF Registers
  <2>5. Resolved(k).mock.expect =
            IF NoExpect(b.expect) THEN behaviors[p].expect ELSE b.expect
    BY <1>8 DEF Resolved, PatchedWith
  <2> QED BY <1>4, <2>1, <2>4, <2>5 DEF ExpectOf
<1> QED BY <1>7, <1>8

\* The second loop adds a behavior to the routes that it answers, and to no
\* other.
LEMMA ResolveBehaviorRInv ==
    ASSUME RInv, ResolveBehavior
    PROVE  RInv'
<1>0. PICK k : k = order[i]
  OBVIOUS
<1>1. /\ IInv /\ IInv' /\ phase = "resolve" /\ i \in 1..Len(order)
      /\ UNCHANGED <<mocks, order>> /\ Advance(Len(order), "done")
      /\ order \in Seq(Names) /\ k \in DOMAIN behaviors /\ Upto = N
      /\ routes \in [Routes -> Seq(RouteEntry)]
  <2>1. /\ IInv /\ IInv' /\ phase = "resolve" /\ i \in 1..Len(order)
        /\ UNCHANGED <<mocks, order>> /\ Advance(Len(order), "done")
        /\ order \in Seq(Names)
        /\ routes \in [Routes -> Seq(RouteEntry)]
    BY <1>0, ResolveBehaviorIInv DEF RInv, IInv, Types, ResolveBehavior
  <2>2. k \in DOMAIN behaviors
    BY <1>0, <2>1 DEF IInv, Keyed
  <2> QED BY <2>1, <2>2 DEF Upto
<1>2. \/ i < Len(order) /\ i' = i + 1 /\ phase' = "resolve"
      \/ i = Len(order) /\ phase' = "done"
  BY <1>1 DEF Advance
<1>3. Passed = i - 1 /\ Passed' = i /\ Upto' = N
  BY <1>1, <1>2 DEF Passed, Upto, N
<1>4. Placed'
  BY <1>1, <1>3 DEF RInv, Placed, Places, Firsts, KeysOf, N
<1>5. ASSUME AllSingleLevel, NEW r \in Routes
      PROVE  RouteKeys(r)' = Sublists(order, AnswersTo(r))[i]
  <2> DEFINE A == AnswersTo(r)
             before == Sublists(order, A)[i - 1]
  <2>1. RouteKeys(r) = before
    BY <1>1, <1>3, <1>5 DEF RInv, Listed
  <2>2. Sublists(order, A)[i] = IF k \in A THEN Append(before, k) ELSE before
    BY <1>0, <1>1, SublistsAreResults
  <2>3. PICK m \in 1..N : Registers(m, k) /\ Text(k) = mocks[m]
    BY <1>1, TextIs
  <2>4. k \in Defined /\ behaviors[k].kind = Text(k).kind
    BY <1>1, <2>3, TextIs DEF Registers
  <2>5. CASE behaviors[k].kind = "AbstractBehavior"
    <3>1. routes' = routes
      BY <1>0, <2>5 DEF ResolveBehavior
    <3>2. k \notin A
      BY <2>4, <2>5 DEF AnswersTo, SingleLevel
    <3> QED BY <2>1, <2>2, <3>1, <3>2 DEF RouteKeys
  <2>6. CASE behaviors[k].kind # "AbstractBehavior"
    <3> DEFINE new == Resolved(k).mock
               e == [key |-> k, mock |-> new]
    <3>1. SingleLevel(k)
      BY <1>5, <2>4, <2>6 DEF AllSingleLevel
    <3>2. new.expect = ExpectOf(k)
      BY <1>0, <1>1, <3>1, ResolvedExpects
    <3>3. k \in A <=> r \in new.expect.routes
      BY <2>4, <3>1, <3>2 DEF AnswersTo
    <3>4. routes'[r] = IF r \in new.expect.routes THEN Append(routes[r], e)
                       ELSE routes[r]
      BY <1>0, <2>6 DEF ResolveBehavior
    <3>5. routes[r] \in Seq(RouteEntry) /\ Len(routes[r]) \in Nat
      BY <1>1
    <3> HIDE DEF new, A, before
    <3>6. CASE k \in A
      <4>1. routes'[r] = Append(routes[r], e) /\ e.key = k
        BY <3>3, <3>4, <3>6
      <4> DEFINE q == routes[r]
      <4> HIDE DEF e, q
      <4>2. [j \in 1..Len(Append(q, e)) |-> Append(q, e)[j].key] =
                Append([j \in 1..Len(q) |-> q[j].key], k)
        BY <3>5, <4>1 DEF q
      <4>3. RouteKeys(r)' = Append(RouteKeys(r), k)
        BY <4>1, <4>2 DEF RouteKeys, q
      <4> QED BY <2>1, <2>2, <3>6, <4>3 DEF A, before
    <3>7. CASE k \notin A
      BY <2>1, <2>2, <3>3, <3>4, <3>7 DEF RouteKeys, A, before
    <3> QED BY <3>6, <3>7
  <2> QED BY <2>5, <2>6
<1>6. /\ AllSingleLevel' <=> AllSingleLevel
      /\ \A r \in Routes : AnswersTo(r)' = AnswersTo(r)
  BY <1>1 DEF AllSingleLevel, AnswersTo, SingleLevel, ExpectOf, HasParent,
              ParentText, Text, Defined
<1>7. Listed'
  BY <1>1, <1>2, <1>3, <1>5, <1>6 DEF Listed
<1> QED BY <1>1, <1>4, <1>7 DEF RInv

\* A route is answered by the behaviors whose expectation names it, each once,
\* in the order of their first definitions, with abstract behaviors' routes
\* passed on, and never by an abstract one (populateBehaviors).
THEOREM RoutesAreInOrder == Spec => []RoutesAnswerInOrder
<1>1. RInv /\ [Next]_vars => RInv'
  <2> SUFFICES ASSUME RInv, [Next]_vars PROVE RInv'
    OBVIOUS
  <2>1. CASE UNCHANGED vars
    <3>1. IInv'
      BY Inductive DEF RInv
    <3>2. Placed'
      BY <2>1 DEF vars, RInv, Placed, Places, Firsts, KeysOf, N, Upto
    <3>3. Listed'
      <4>1. /\ AllSingleLevel' <=> AllSingleLevel
            /\ \A r \in Routes : AnswersTo(r)' = AnswersTo(r)
        BY <2>1 DEF vars, AllSingleLevel, AnswersTo, SingleLevel, ExpectOf,
                    HasParent, ParentText, Text, Defined
      <4>2. \A r \in Routes : RouteKeys(r)' = RouteKeys(r)
        BY <2>1 DEF vars, RouteKeys
      <4> QED BY <2>1, <4>1, <4>2 DEF vars, RInv, Listed, Passed
    <3> QED BY <3>1, <3>2, <3>3 DEF RInv
  <2> QED BY <2>1, EarlierRInv, PutBehaviorRInv, ResolveBehaviorRInv DEF Next
<1>2. RInv => RoutesAnswerInOrder
  <2> SUFFICES ASSUME RInv, phase = "done", AllSingleLevel, NEW r \in Routes
               PROVE  [j \in 1..Len(routes[r]) |-> routes[r][j].key]
                        = Sublist(KeysInOrder, AnswersTo(r))
    BY DEF RoutesAnswerInOrder
  <2>1. RouteKeys(r) = Sublists(order, AnswersTo(r))[Len(order)]
    BY DEF RInv, Listed, Passed
  <2>2. N \in Nat /\ Upto = N
    BY MockParts DEF RInv, IInv, Upto
  <2>3. Len(Places) = N
    BY <2>2, PlacesType DEF Places
  <2>4. order = KeysInOrder
    BY <2>2, <2>3 DEF RInv, Placed, KeysInOrder, Places, Sublist, N
  <2> QED BY <2>1, <2>4 DEF RouteKeys, Sublist
<1> QED BY <1>1, <1>2, InitRInv, PTL DEF Spec
=============================================================================
