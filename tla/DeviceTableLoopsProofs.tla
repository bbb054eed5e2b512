----------------------- MODULE DeviceTableLoopsProofs -----------------------
(***************************************************************************)
(* The loops of the device-table-lite plugin compute what DeviceTableOps   *)
(* says, for every queue and table. Each loop has an invariant, a relation *)
(* between the state after k iterations and the state before the loop,     *)
(* that one iteration is shown to advance; LoopRule does the rest. Where   *)
(* DeviceTableOps gives a result as a set (what an enumeration or a stable *)
(* sort selects), the set is shown to have no other member.                *)
(***************************************************************************)
EXTENDS DeviceTableLoops, DeviceTableLemmas, TLAPS

-----------------------------------------------------------------------------
(* Loops *)

\* Induction over the naturals, as a fact about sets.
LEMMA Induction ==
  ASSUME NEW S, 0 \in S, \A n \in Nat : n \in S => n + 1 \in S
  PROVE  \A n \in Nat : n \in S
<1> SUFFICES ASSUME Nat \ S # {} PROVE FALSE
  OBVIOUS
<1>1. PICK x \in Nat \ S : \A y \in Nat \ S : x <= y
  BY NatSetHasMinimum
<1>2. x # 0 /\ x - 1 \in Nat
  OBVIOUS
<1> QED
  BY <1>1, <1>2

\* The states of a loop, up to its n-th iteration.
Runs(n, x, body, after) ==
  after = [k \in 0 .. n |-> IF k = 0 THEN x ELSE body[k][after[k - 1]]]

\* A loop has a run, of any length.
LEMMA RunExists ==
  ASSUME NEW x, NEW body
  PROVE  \A n \in Nat : \E after : Runs(n, x, body, after)
<1> DEFINE S == {n \in Nat : \E after : Runs(n, x, body, after)}
<1>1. 0 \in S
  <2>1. Runs(0, x, body, [k \in 0 .. 0 |-> x])
    BY DEF Runs
  <2> QED
    BY <2>1
<1>2. ASSUME NEW n \in Nat, n \in S
      PROVE  n + 1 \in S
  <2>1. PICK f : Runs(n, x, body, f)
    BY <1>2
  <2> DEFINE g == [k \in 0 .. n + 1 |->
                     IF k = n + 1 THEN body[n + 1][f[n]] ELSE f[k]]
  <2>2. ASSUME NEW k \in 0 .. n + 1
        PROVE  g[k] = IF k = 0 THEN x ELSE body[k][g[k - 1]]
    <3>1. CASE k = n + 1
      BY <3>1
    <3>2. CASE k # n + 1
      <4>1. k \in 0 .. n /\ g[k] = f[k] /\ (k # 0 => g[k - 1] = f[k - 1])
        BY <3>2
      <4> QED
        BY <2>1, <4>1 DEF Runs
    <3> QED
      BY <3>1, <3>2
  <2>3. g = [k \in 0 .. n + 1 |-> g[k]]
    OBVIOUS
  <2>4. Runs(n + 1, x, body, g)
    <3> HIDE DEF g
    <3> QED
      BY <2>2, <2>3 DEF Runs
  <2> QED
    BY <2>4
<1> HIDE DEF S
<1>3. \A n \in Nat : n \in S
  BY <1>1, <1>2, Induction
<1> QED
  BY <1>3 DEF S

\* The rule for loops: if the state is in I[0] before the loop, and the k-th
\* iteration takes I[k - 1] to I[k], then it is in I[n] after n iterations.
LEMMA LoopRule ==
  ASSUME NEW n \in Nat, NEW x, NEW body, NEW I, x \in I[0],
         \A k \in 1 .. n : \A y \in I[k - 1] : body[k][y] \in I[k]
  PROVE  Loop(n, x, body) \in I[n]
<1> DEFINE f == CHOOSE f : Runs(n, x, body, f)
<1>1. Runs(n, x, body, f)
  BY RunExists
<1>2. Loop(n, x, body) = f[n]
  BY DEF Loop, Runs
<1> HIDE DEF f
<1> DEFINE S == {k \in Nat : k <= n => f[k] \in I[k]}
<1>3. 0 \in S
  BY <1>1 DEF Runs
<1>4. ASSUME NEW k \in Nat, k \in S
      PROVE  k + 1 \in S
  <2> SUFFICES ASSUME k + 1 <= n PROVE f[k + 1] \in I[k + 1]
    OBVIOUS
  <2>1. k + 1 \in 1 .. n /\ k + 1 # 0 /\ (k + 1) - 1 = k /\ f[k] \in I[k]
    BY <1>4
  <2>2. f[k + 1] = body[k + 1][f[(k + 1) - 1]]
    BY <1>1, <2>1 DEF Runs
  <2> QED
    BY <2>1, <2>2
<1> HIDE DEF S
<1>5. \A k \in Nat : k \in S
  BY <1>3, <1>4, Induction
<1> QED
  BY <1>2, <1>5 DEF S

-----------------------------------------------------------------------------
(* Orders *)

Asymmetric(R) == \A x, y : <<x, y>> \in R => <<y, x>> \notin R
Ascends(m, f, R) == \A a, b \in 1 .. m : a < b => <<f[a], f[b]>> \in R
Covers(m, f, g) == \A b \in 1 .. m : \E a \in 1 .. m : g[b] = f[a]

\* Two sequences that list the same things in the same order are the same.
LEMMA ListedOnce ==
  ASSUME NEW m \in Nat, NEW f, NEW g, NEW R, Asymmetric(R),
         Ascends(m, f, R), Ascends(m, g, R), Covers(m, f, g), Covers(m, g, f)
  PROVE  \A a \in 1 .. m : f[a] = g[a]
<1> USE DEF Asymmetric, Ascends, Covers
<1> SUFFICES ASSUME {a \in 1 .. m : f[a] # g[a]} # {} PROVE FALSE
  OBVIOUS
<1> DEFINE T == {a \in 1 .. m : f[a] # g[a]}
<1>1. PICK a \in T : \A b \in T : a <= b
  <2>1. T \in SUBSET Nat /\ T # {}
    OBVIOUS
  <2> QED
    BY <2>1, NatSetHasMinimum
<1>2. PICK b \in 1 .. m : f[a] = g[b]
  OBVIOUS
<1>3. PICK c \in 1 .. m : g[a] = f[c]
  OBVIOUS
<1>4. ~ (<<f[a], f[a]>> \in R)
  OBVIOUS
<1>5. b > a
  <2>1. b # a
    BY <1>2
  <2>2. ASSUME b < a PROVE FALSE
    <3>1. b \notin T
      BY <1>1, <2>2
    <3>2. f[b] = f[a]
      BY <1>2, <3>1
    <3> QED
      BY <1>4, <2>2, <3>2
  <2> QED
    BY <2>1, <2>2
<1>6. c > a
  <2>1. c # a
    BY <1>3
  <2>2. ASSUME c < a PROVE FALSE
    <3>1. c \notin T
      BY <1>1, <2>2
    <3>2. g[c] = g[a]
      BY <1>3, <3>1
    <3> QED
      BY <2>2, <3>2
  <2> QED
    BY <2>1, <2>2
<1>7. <<g[a], f[a]>> \in R /\ <<f[a], g[a]>> \in R
  BY <1>2, <1>3, <1>5, <1>6
<1> QED
  BY <1>7

\* The function f enumerates K, a set of m numbers, in increasing order.
Enumerates(m, f, K) ==
  /\ f \in [1 .. m -> K]
  /\ \A a, b \in 1 .. m : a < b => f[a] < f[b]
  /\ \A x \in K : \E a \in 1 .. m : f[a] = x

\* An increasing enumeration is the only one.
LEMMA EnumerationIs ==
  ASSUME NEW m \in Nat, NEW K \in SUBSET Int, NEW f, Enumerates(m, f, K)
  PROVE  Cardinality(K) = m /\ Enumerations(K) = {f}
<1> USE DEF Enumerates
<1>1. Cardinality(K) = m
  <2>1. \A a, b \in 1 .. m : f[a] = f[b] => a = b
    <3> SUFFICES ASSUME NEW a \in 1 .. m, NEW b \in 1 .. m, f[a] = f[b], a # b
                 PROVE  FALSE
      OBVIOUS
    <3>1. a < b \/ b < a
      OBVIOUS
    <3>2. f[a] \in Int /\ f[b] \in Int
      OBVIOUS
    <3> QED
      BY <3>1, <3>2
  <2>2. f \in Bijection(1 .. m, K)
    BY <2>1 DEF Bijection, Injection, Surjection, IsInjective
  <2>3. ExistsBijection(1 .. m, K)
    BY <2>2 DEF ExistsBijection
  <2> QED
    BY <2>3, FS_CountingElements
<1>2. f \in Enumerations(K)
  BY <1>1 DEF Enumerations
<1>3. ASSUME NEW g \in Enumerations(K)
      PROVE  g = f
  <2>1. /\ g \in [1 .. m -> K]
        /\ \A a, b \in 1 .. m : a < b => g[a] < g[b]
        /\ \A x \in K : \E a \in 1 .. m : g[a] = x
    BY <1>1 DEF Enumerations
  <2> DEFINE R == {p \in Int \X Int : p[1] < p[2]}
  <2>2. Asymmetric(R)
    BY DEF Asymmetric
  <2>3. Ascends(m, f, R) /\ Ascends(m, g, R)
    BY <2>1 DEF Ascends
  <2>4. Covers(m, f, g) /\ Covers(m, g, f)
    BY <2>1 DEF Covers
  <2> HIDE DEF R
  <2>5. \A a \in 1 .. m : f[a] = g[a]
    BY <2>2, <2>3, <2>4, ListedOnce
  <2> QED
    BY <2>1, <2>5
<1> QED
  BY <1>1, <1>2, <1>3

\* The sequence r lists the tasks of s at the positions f.
Picks(r, s, m, f) == r = [j \in 1 .. m |-> s[f[j]]]

\* What KeepOnly selects is the one sequence that an enumeration picks.
LEMMA KeepOnlyIs ==
  ASSUME NEW s, NEW m \in Nat, NEW K \in SUBSET Int, NEW f, NEW r,
         Enumerates(m, f, K), Picks(r, s, m, f)
  PROVE  KeepOnly(s, K) = {r}
<1>1. Cardinality(K) = m /\ Enumerations(K) = {f}
  BY EnumerationIs
<1> QED
  BY <1>1 DEF KeepOnly, Picks

-----------------------------------------------------------------------------
(* The sort of the queue *)

\* Delays can be compared.
LEMMA DelayType ==
  ASSUME NEW s \in Queues, NEW k \in 1 .. Len(s)
  PROVE  s[k] \in Tasks /\ s[k].delay \in Int
<1>1. s[k] \in Tasks
  BY ElementOfSeq DEF Queues
<1> QED
  BY <1>1, SizesAssumption DEF Tasks

\* Where h puts the tasks of s they are sorted, those with one delay in their
\* order: then s has no other stable sort.
SortsInto(s, h) ==
  /\ h \in [1 .. Len(s) -> 1 .. Len(s)]
  /\ \A a, b \in 1 .. Len(s) : a < b =>
       \/ s[h[a]].delay < s[h[b]].delay
       \/ s[h[a]].delay = s[h[b]].delay /\ h[a] < h[b]

\* A stable sort loses no task.
LEMMA SortReachesAll ==
  ASSUME NEW s \in Queues, NEW h, SortsInto(s, h)
  PROVE  \A k \in 1 .. Len(s) : \E a \in 1 .. Len(s) : h[a] = k
<1>1. Len(s) \in Nat /\ h \in [1 .. Len(s) -> 1 .. Len(s)]
  BY DEF Queues, SortsInto
<1>2. ASSUME NEW a \in 1 .. Len(s), NEW b \in 1 .. Len(s), a # b
      PROVE  h[a] # h[b]
  <2>1. /\ h[a] \in 1 .. Len(s) /\ h[b] \in 1 .. Len(s)
        /\ s[h[a]].delay \in Int /\ s[h[b]].delay \in Int
    BY <1>1, DelayType
  <2>2. a < b \/ b < a
    BY <1>2
  <2> QED
    BY <2>1, <2>2 DEF SortsInto
<1> QED
  BY <1>1, <1>2, InjectionReachesAll

\* A queue has at most one stable sort.
LEMMA SortIs ==
  ASSUME NEW s \in Queues, NEW h, SortsInto(s, h)
  PROVE  StableSorts(s) = {[k \in 1 .. Len(s) |-> s[h[k]]]}
<1> DEFINE n == Len(s)
           R == {p \in (1 .. n) \X (1 .. n) :
                   \/ s[p[1]].delay < s[p[2]].delay
                   \/ s[p[1]].delay = s[p[2]].delay /\ p[1] < p[2]}
<1>1. n \in Nat
  BY DEF Queues
<1>2. Asymmetric(R)
  <2>1. \A a \in 1 .. n : s[a].delay \in Int
    BY DelayType
  <2> QED
    BY <2>1 DEF Asymmetric
<1>3. ASSUME NEW g, SortsInto(s, g)
      PROVE  Ascends(n, g, R)
  <2>1. \A a \in 1 .. n : g[a] \in 1 .. n
    BY <1>3 DEF SortsInto
  <2> QED
    BY <1>3, <2>1 DEF Ascends, SortsInto
<1>4. ASSUME NEW g, SortsInto(s, g)
      PROVE  g = h
  <2>1. \A a \in 1 .. n : g[a] \in 1 .. n /\ h[a] \in 1 .. n
    BY <1>4 DEF SortsInto
  <2>2. /\ \A k \in 1 .. n : \E a \in 1 .. n : g[a] = k
        /\ \A k \in 1 .. n : \E a \in 1 .. n : h[a] = k
    BY <1>4, SortReachesAll
  <2>3. Covers(n, g, h) /\ Covers(n, h, g)
    BY <2>1, <2>2 DEF Covers
  <2> HIDE DEF R
  <2>4. \A a \in 1 .. n : g[a] = h[a]
    BY <1>1, <1>2, <1>3, <1>4, <2>3, ListedOnce
  <2> QED
    BY <1>4, <2>4 DEF SortsInto
<1>5. StableSorts(s) =
        {[k \in 1 .. n |-> s[g[k]]] :
           g \in {f \in [1 .. n -> 1 .. n] : SortsInto(s, f)}}
  BY DEF StableSorts, SortsInto
<1>6. {f \in [1 .. n -> 1 .. n] : SortsInto(s, f)} = {h}
  <2>1. h \in [1 .. n -> 1 .. n]
    BY DEF SortsInto
  <2> QED
    BY <1>4, <2>1
<1> QED
  BY <1>5, <1>6

\* A queue that was rearranged, but not those of its tasks with one delay.
Rearranges(h, s, r) ==
  /\ h \in [1 .. Len(s) -> 1 .. Len(s)]
  /\ \A a \in 1 .. Len(s) : r[a] = s[h[a]]
  /\ \A a, b \in 1 .. Len(s) : a < b /\ r[a].delay = r[b].delay => h[a] < h[b]

Rearrangements(s) ==
  {r \in Queues : Len(r) = Len(s) /\ \E h : Rearranges(h, s, r)}

\* From position m on, no task is due earlier than one before it.
SortedFrom(r, m) ==
  \A a, b \in 1 .. Len(r) : a < b /\ m < b => r[a].delay <= r[b].delay

\* A rearrangement that is sorted is the stable sort.
LEMMA SortedRearrangement ==
  ASSUME NEW s \in Queues, NEW r \in Rearrangements(s), SortedFrom(r, 1)
  PROVE  StableSorts(s) = {r}
<1>1. PICK h : Rearranges(h, s, r)
  BY DEF Rearrangements
<1>2. r \in Queues /\ Len(r) = Len(s) /\ Len(s) \in Nat
  BY DEF Rearrangements, Queues
<1>3. ASSUME NEW a \in 1 .. Len(s), NEW b \in 1 .. Len(s), a < b
      PROVE  \/ s[h[a]].delay < s[h[b]].delay
             \/ s[h[a]].delay = s[h[b]].delay /\ h[a] < h[b]
  <2>1. r[a].delay <= r[b].delay
    BY <1>2, <1>3 DEF SortedFrom
  <2>2. r[a].delay \in Int /\ r[b].delay \in Int
    BY <1>2, DelayType
  <2>3. r[a] = s[h[a]] /\ r[b] = s[h[b]]
    BY <1>1 DEF Rearranges
  <2>4. r[a].delay = r[b].delay => h[a] < h[b]
    BY <1>1, <1>3 DEF Rearranges
  <2> QED
    BY <2>1, <2>2, <2>3, <2>4
<1>4. SortsInto(s, h)
  BY <1>1, <1>3 DEF SortsInto, Rearranges
<1>5. r = [k \in 1 .. Len(s) |-> s[h[k]]]
  BY <1>1, <1>2 DEF Rearranges, Queues
<1> QED
  BY <1>4, <1>5, SortIs

\* An iteration of the inner loop swaps two neighbours, or does nothing.
LEMMA SwapProperties ==
  ASSUME NEW r \in Queues, NEW k \in 1 .. Len(r) - 1
  PROVE  /\ SwapAt(r, k) \in Queues /\ Len(SwapAt(r, k)) = Len(r)
         /\ IF r[k].delay > r[k + 1].delay
            THEN \A j \in 1 .. Len(r) :
                   SwapAt(r, k)[j] = IF j = k THEN r[k + 1]
                                     ELSE IF j = k + 1 THEN r[k] ELSE r[j]
            ELSE SwapAt(r, k) = r
<1>1. Len(r) \in Nat /\ r \in [1 .. Len(r) -> Tasks]
  BY DEF Queues
<1>2. k \in 1 .. Len(r) /\ k + 1 \in 1 .. Len(r) /\ k # k + 1
  BY <1>1
<1>3. CASE r[k].delay > r[k + 1].delay
  <2> DEFINE u == [r EXCEPT ![k] = r[k + 1], ![k + 1] = r[k]]
  <2>1. SwapAt(r, k) = u
    BY <1>3 DEF SwapAt
  <2>2. u \in [1 .. Len(r) -> Tasks]
    BY <1>1, <1>2
  <2>3. \A j \in 1 .. Len(r) :
          u[j] = IF j = k THEN r[k + 1] ELSE IF j = k + 1 THEN r[k] ELSE r[j]
    BY <1>1, <1>2
  <2> HIDE DEF u
  <2>4. u \in Queues /\ Len(u) = Len(r)
    BY <1>1, <2>2 DEF Queues
  <2> QED
    BY <1>3, <2>1, <2>3, <2>4
<1>4. CASE ~ (r[k].delay > r[k + 1].delay)
  BY <1>4 DEF SwapAt
<1> QED
  BY <1>3, <1>4

\* It keeps the order of tasks with one delay.
LEMMA SwapRearranges ==
  ASSUME NEW s \in Queues, NEW r \in Rearrangements(s),
         NEW k \in 1 .. Len(s) - 1
  PROVE  SwapAt(r, k) \in Rearrangements(s)
<1> DEFINE n == Len(s)
           u == SwapAt(r, k)
<1>1. r \in Queues /\ Len(r) = n /\ n \in Nat /\ k \in 1 .. n
        /\ k + 1 \in 1 .. n
  BY DEF Rearrangements, Queues
<1>2. PICK h : Rearranges(h, s, r)
  BY DEF Rearrangements
<1>3. \A j \in 1 .. n : r[j].delay \in Int
  BY <1>1, DelayType
<1>4. CASE r[k].delay > r[k + 1].delay
  <2> DEFINE g == [j \in 1 .. n |-> IF j = k THEN h[k + 1]
                                    ELSE IF j = k + 1 THEN h[k] ELSE h[j]]
  <2>1. /\ u \in Queues /\ Len(u) = n
        /\ \A j \in 1 .. n : u[j] = IF j = k THEN r[k + 1]
                                    ELSE IF j = k + 1 THEN r[k] ELSE r[j]
    BY <1>1, <1>4, SwapProperties
  <2> HIDE DEF u
  <2>2. \A j \in 1 .. n : h[j] \in 1 .. n /\ r[j] = s[h[j]]
    BY <1>2 DEF Rearranges
  <2>3. g \in [1 .. n -> 1 .. n]
    BY <1>1, <2>2
  <2>4. \A j \in 1 .. n : u[j] = s[g[j]]
    BY <1>1, <2>1, <2>2
  <2>5. ASSUME NEW a \in 1 .. n, NEW b \in 1 .. n, a < b,
               u[a].delay = u[b].delay
        PROVE  g[a] < g[b]
    <3> DEFINE at(j) == IF j = k THEN k + 1 ELSE IF j = k + 1 THEN k ELSE j
    <3>1. /\ at(a) \in 1 .. n /\ at(b) \in 1 .. n
          /\ u[a] = r[at(a)] /\ u[b] = r[at(b)]
          /\ g[a] = h[at(a)] /\ g[b] = h[at(b)]
      BY <1>1, <2>1
    <3>2. ~ (a = k /\ b = k + 1)
      BY <1>1, <1>3, <1>4, <2>1, <2>5
    <3>3. at(a) < at(b)
      BY <1>1, <2>5, <3>2
    <3> HIDE DEF at, g
    <3> QED
      BY <1>2, <2>5, <3>1, <3>3 DEF Rearranges
  <2>6. Rearranges(g, s, u)
    <3> HIDE DEF g
    <3> QED
      BY <2>3, <2>4, <2>5 DEF Rearranges
  <2> QED
    BY <1>1, <2>1, <2>6 DEF Rearrangements, u
<1>5. CASE ~ (r[k].delay > r[k + 1].delay)
  BY <1>1, <1>5, SwapProperties
<1> QED
  BY <1>4, <1>5

\* A pass over the first m tasks brings the last of them to position m.
LEMMA PassProperties ==
  ASSUME NEW s \in Queues, NEW r \in Rearrangements(s), NEW m \in 2 .. Len(s),
         SortedFrom(r, m)
  PROVE  /\ BubblePass(r, m - 1) \in Rearrangements(s)
         /\ SortedFrom(BubblePass(r, m - 1), m - 1)
<1> DEFINE n == Len(s)
           Passed(k) == {u \in Rearrangements(s) :
                           /\ SortedFrom(u, m)
                           /\ \A a \in 1 .. k : u[a].delay <= u[k + 1].delay}
           I == [k \in 0 .. m - 1 |-> Passed(k)]
           body == [k \in 1 .. m - 1 |-> [u \in Queues |-> SwapAt(u, k)]]
<1>1. n \in Nat /\ m - 1 \in Nat /\ m \in 1 .. n
  BY DEF Queues
<1>2. r \in I[0]
  <2>1. 0 \in 0 .. m - 1
    BY <1>1
  <2> QED
    BY <2>1
<1>3. ASSUME NEW k \in 1 .. m - 1, NEW u \in I[k - 1]
      PROVE  body[k][u] \in I[k]
  <2>1. k - 1 \in 0 .. m - 1 /\ k \in 0 .. m - 1 /\ (k - 1) + 1 = k
    BY <1>1
  <2>2. /\ u \in Rearrangements(s) /\ SortedFrom(u, m)
        /\ \A a \in 1 .. k - 1 : u[a].delay <= u[k].delay
    BY <1>3, <2>1
  <2>3. u \in Queues /\ Len(u) = n
    BY <2>2 DEF Rearrangements
  <2> DEFINE v == SwapAt(u, k)
  <2>4. body[k][u] = v
    BY <2>3
  <2>5. k \in 1 .. n - 1 /\ k \in 1 .. n /\ k + 1 \in 1 .. n
    BY <1>1
  <2>6. v \in Rearrangements(s)
    BY <2>2, <2>5, SwapRearranges
  <2>7. /\ Len(v) = n
        /\ IF u[k].delay > u[k + 1].delay
           THEN \A j \in 1 .. n : v[j] = IF j = k THEN u[k + 1]
                                         ELSE IF j = k + 1 THEN u[k] ELSE u[j]
           ELSE v = u
    BY <2>3, <2>5, SwapProperties
  <2>8. \A j \in 1 .. n : u[j].delay \in Int
    BY <2>3, DelayType
  <2> HIDE DEF v
  <2>9. SortedFrom(v, m)
    <3> SUFFICES ASSUME NEW a \in 1 .. n, NEW b \in 1 .. n, a < b, m < b
                 PROVE  v[a].delay <= v[b].delay
      BY <2>7 DEF SortedFrom
    <3>1. v[b] = u[b]
      BY <1>1, <2>7
    <3>2. \A j \in 1 .. n : j < b => u[j].delay <= u[b].delay
      BY <2>2, <2>3 DEF SortedFrom
    <3> QED
      BY <1>1, <2>5, <2>7, <3>1, <3>2
  <2>10. ASSUME NEW a \in 1 .. k
         PROVE  v[a].delay <= v[k + 1].delay
    <3>1. a \in 1 .. n /\ a # k + 1 /\ (a = k \/ a \in 1 .. k - 1)
      BY <1>1, <2>5
    <3>2. u[a].delay <= u[k].delay
      BY <2>2, <2>5, <2>8, <3>1
    <3>3. CASE u[k].delay > u[k + 1].delay
      <4>1. v[k + 1] = u[k] /\ (v[a] = u[a] \/ v[a] = u[k + 1])
        BY <2>5, <2>7, <3>1, <3>3
      <4> QED
        BY <2>5, <2>8, <3>1, <3>2, <3>3, <4>1
    <3>4. CASE ~ (u[k].delay > u[k + 1].delay)
      <4>1. v = u
        BY <2>7, <3>4
      <4> QED
        BY <2>5, <2>8, <3>1, <3>2, <3>4, <4>1
    <3> QED
      BY <3>3, <3>4
  <2> QED
    BY <2>1, <2>4, <2>6, <2>9, <2>10
<1> HIDE DEF body, I
<1>4. Loop(m - 1, r, body) \in I[m - 1]
  BY <1>1, <1>2, <1>3, LoopRule
<1> DEFINE w == BubblePass(r, m - 1)
<1>5. /\ w \in Rearrangements(s) /\ SortedFrom(w, m)
      /\ \A a \in 1 .. m - 1 : w[a].delay <= w[m].delay
  BY <1>1, <1>4 DEF BubblePass, body, I
<1> HIDE DEF w
<1>6. SortedFrom(w, m - 1)
  <2>1. Len(w) = n
    BY <1>5 DEF Rearrangements
  <2> SUFFICES ASSUME NEW a \in 1 .. n, NEW b \in 1 .. n, a < b, m - 1 < b
               PROVE  w[a].delay <= w[b].delay
    BY <2>1 DEF SortedFrom
  <2>2. b = m \/ m < b
    BY <1>1
  <2> QED
    BY <1>5, <2>1, <2>2 DEF SortedFrom
<1> QED
  BY <1>5, <1>6 DEF w

\* A queue is a rearrangement of itself.
LEMMA Unarranged ==
  ASSUME NEW s \in Queues
  PROVE  s \in Rearrangements(s)
<1> DEFINE h == [a \in 1 .. Len(s) |-> a]
<1>1. Rearranges(h, s, s)
  BY DEF Rearranges
<1> QED
  BY <1>1 DEF Rearrangements

\* Pass by pass one more task at the end is where it belongs.
LEMMA BubbleSortSorts ==
  ASSUME NEW s \in Queues
  PROVE  /\ BubbleSort(s) \in Queues /\ Len(BubbleSort(s)) = Len(s)
         /\ BubbleSort(s) \in Rearrangements(s) /\ SortedFrom(BubbleSort(s), 1)
         /\ StableSorts(s) = {BubbleSort(s)}
<1> DEFINE n == Len(s)
           w == BubbleSort(s)
<1>1. n \in Nat /\ s \in Rearrangements(s)
  BY Unarranged DEF Queues
<1>2. ASSUME s = <<>>
      PROVE  w \in Rearrangements(s) /\ SortedFrom(w, 1)
  <2>1. w = s /\ Len(s) = 0
    BY <1>2 DEF BubbleSort
  <2>2. SortedFrom(s, 1)
    BY <2>1 DEF SortedFrom
  <2> QED
    BY <1>1, <2>1, <2>2
<1>3. ASSUME s # <<>>
      PROVE  w \in Rearrangements(s) /\ SortedFrom(w, 1)
  <2> DEFINE I == [k \in 0 .. n - 1 |->
                     {u \in Rearrangements(s) : SortedFrom(u, n - k)}]
             body == [p \in 1 .. n - 1 |->
                        [r \in Queues |-> BubblePass(r, n - p)]]
  <2>1. n - 1 \in Nat
    BY <1>1, <1>3 DEF Queues
  <2>2. s \in I[0]
    <3>1. SortedFrom(s, n)
      BY <1>1 DEF SortedFrom
    <3> QED
      BY <1>1, <2>1, <3>1
  <2>3. ASSUME NEW k \in 1 .. n - 1, NEW u \in I[k - 1]
        PROVE  body[k][u] \in I[k]
    <3>1. /\ k - 1 \in 0 .. n - 1 /\ k \in 0 .. n - 1
          /\ n - (k - 1) \in 2 .. n /\ (n - (k - 1)) - 1 = n - k
      BY <2>1
    <3>2. u \in Rearrangements(s) /\ SortedFrom(u, n - (k - 1))
      BY <2>3, <3>1
    <3>3. u \in Queues
      BY <3>2 DEF Rearrangements
    <3>4. /\ BubblePass(u, n - k) \in Rearrangements(s)
          /\ SortedFrom(BubblePass(u, n - k), n - k)
      BY <3>1, <3>2, PassProperties
    <3> QED
      BY <3>1, <3>3, <3>4
  <2> HIDE DEF I, body
  <2>4. Loop(n - 1, s, body) \in I[n - 1]
    BY <2>1, <2>2, <2>3, LoopRule
  <2>5. w = Loop(n - 1, s, body)
    BY <1>3 DEF BubbleSort, body
  <2>6. n - 1 \in 0 .. n - 1 /\ n - (n - 1) = 1
    BY <2>1
  <2> HIDE DEF w
  <2>7. I[n - 1] = {u \in Rearrangements(s) : SortedFrom(u, n - (n - 1))}
    BY <2>6 DEF I
  <2> QED
    BY <2>4, <2>5, <2>6, <2>7
<1> HIDE DEF w
<1>4. w \in Rearrangements(s) /\ SortedFrom(w, 1)
  BY <1>2, <1>3
<1>5. StableSorts(s) = {w}
  BY <1>4, SortedRearrangement
<1>6. w \in Queues /\ Len(w) = n
  BY <1>4 DEF Rearrangements
<1> QED
  BY <1>4, <1>5, <1>6 DEF w

\* Rearranging what was rearranged is rearranging, and so is appending a task
\* to it.
LEMMA RearrangedAgain ==
  ASSUME NEW s \in Queues, NEW r \in Rearrangements(s),
         NEW w \in Rearrangements(r)
  PROVE  w \in Rearrangements(s)
<1> DEFINE n == Len(s)
<1>1. PICK h : Rearranges(h, s, r)
  BY DEF Rearrangements
<1>2. PICK g : Rearranges(g, r, w)
  BY DEF Rearrangements
<1>3. n \in Nat /\ r \in Queues /\ Len(r) = n /\ w \in Queues /\ Len(w) = n
  BY DEF Rearrangements, Queues
<1> DEFINE k == [a \in 1 .. n |-> h[g[a]]]
<1>4. \A a \in 1 .. n : g[a] \in 1 .. n /\ h[a] \in 1 .. n
  BY <1>1, <1>2, <1>3 DEF Rearranges
<1>5. \A a \in 1 .. n : r[a] = s[h[a]] /\ w[a] = r[g[a]]
  BY <1>1, <1>2, <1>3 DEF Rearranges
<1>6. ASSUME NEW a \in 1 .. n, NEW b \in 1 .. n, a < b, w[a].delay = w[b].delay
      PROVE  k[a] < k[b]
  <2>1. g[a] < g[b]
    BY <1>2, <1>3, <1>6 DEF Rearranges
  <2>2. r[g[a]].delay = r[g[b]].delay
    BY <1>5, <1>6
  <2> QED
    BY <1>1, <1>4, <2>1, <2>2 DEF Rearranges
<1>7. k \in [1 .. n -> 1 .. n] /\ \A a \in 1 .. n : w[a] = s[k[a]]
  BY <1>4, <1>5
<1> HIDE DEF k
<1>8. Rearranges(k, s, w)
  BY <1>6, <1>7 DEF Rearranges
<1> QED
  BY <1>3, <1>8 DEF Rearrangements

\* See RearrangedAgain.
LEMMA RearrangedAppend ==
  ASSUME NEW s \in Queues, NEW r \in Rearrangements(s), NEW y \in Tasks
  PROVE  Append(r, y) \in Rearrangements(Append(s, y))
<1> DEFINE n == Len(s)
           v == Append(s, y)
           w == Append(r, y)
<1>1. PICK h : Rearranges(h, s, r)
  BY DEF Rearrangements
<1>2. n \in Nat /\ r \in Queues /\ Len(r) = n
  BY DEF Rearrangements, Queues
<1>3. /\ v \in Queues /\ Len(v) = n + 1 /\ v[n + 1] = y
      /\ \A a \in 1 .. n : v[a] = s[a]
      /\ w \in Queues /\ Len(w) = n + 1 /\ w[n + 1] = y
      /\ \A a \in 1 .. n : w[a] = r[a]
  BY <1>2 DEF Queues
<1> DEFINE k == [a \in 1 .. n + 1 |-> IF a = n + 1 THEN n + 1 ELSE h[a]]
<1>4. \A a \in 1 .. n : h[a] \in 1 .. n /\ r[a] = s[h[a]]
  BY <1>1 DEF Rearranges
<1>5. \A a \in 1 .. n + 1 : a = n + 1 \/ a \in 1 .. n
  BY <1>2
<1>6. k \in [1 .. n + 1 -> 1 .. n + 1]
        /\ \A a \in 1 .. n : k[a] = h[a] /\ k[n + 1] = n + 1
  BY <1>2, <1>4, <1>5
<1> HIDE DEF k, v, w
<1>7. \A a \in 1 .. n + 1 : w[a] = v[k[a]]
  BY <1>2, <1>3, <1>4, <1>5, <1>6
<1>8. ASSUME NEW a \in 1 .. n + 1, NEW b \in 1 .. n + 1, a < b,
             w[a].delay = w[b].delay
      PROVE  k[a] < k[b]
  <2>1. a \in 1 .. n /\ k[a] \in 1 .. n
    BY <1>2, <1>4, <1>6, <1>8
  <2>2. CASE b = n + 1
    BY <1>2, <1>6, <2>1, <2>2
  <2>3. CASE b \in 1 .. n
    BY <1>1, <1>3, <1>6, <1>8, <2>1, <2>3 DEF Rearranges
  <2> QED
    BY <1>5, <2>2, <2>3
<1>9. Rearranges(k, v, w)
  BY <1>3, <1>6, <1>7, <1>8 DEF Rearranges
<1> QED
  BY <1>3, <1>9 DEF Rearrangements, v, w

\* A queue is a function of its positions.
LEMMA QueueIsFunction ==
  ASSUME NEW s \in Seq(Tasks)
  PROVE  s \in [1 .. Len(s) -> Tasks]
OBVIOUS

\* Sorting a sorted queue changes nothing.
LEMMA SortedStays ==
  ASSUME NEW s \in Queues, SortedByDelay(s)
  PROVE  StableSorts(s) = {s}
<1>1. SortedFrom(s, 1)
  BY DEF SortedByDelay, SortedFrom
<1> QED
  BY <1>1, Unarranged, SortedRearrangement

\* Sorting before a task is appended makes no difference to sorting after it.
LEMMA SortedInBetween ==
  ASSUME NEW s \in Queues, NEW y \in Tasks
  PROVE  StableSorts(Append(s, y)) = {BubbleSort(Append(BubbleSort(s), y))}
<1> DEFINE r == BubbleSort(s)
           v == Append(s, y)
           w == BubbleSort(Append(r, y))
<1>1. r \in Queues /\ r \in Rearrangements(s)
  BY BubbleSortSorts
<1> HIDE DEF r
<1>2. v \in Queues /\ Append(r, y) \in Queues
  BY <1>1 DEF Queues
<1>3. Append(r, y) \in Rearrangements(v)
  BY <1>1, RearrangedAppend
<1>4. w \in Rearrangements(Append(r, y)) /\ SortedFrom(w, 1)
  BY <1>2, BubbleSortSorts
<1> HIDE DEF v, w
<1>5. w \in Rearrangements(v)
  BY <1>2, <1>3, <1>4, RearrangedAgain
<1>6. StableSorts(v) = {w}
  BY <1>2, <1>4, <1>5, SortedRearrangement
<1> QED
  BY <1>6 DEF r, v, w

\* Loops of one and of two iterations.
LEMMA LoopOfOneOrTwo ==
  ASSUME NEW x, NEW body
  PROVE  /\ Loop(1, x, body) = body[1][x]
         /\ Loop(2, x, body) = body[2][body[1][x]]
<1> DEFINE I == [k \in 0 .. 2 |-> IF k = 0 THEN {x} ELSE
                                  IF k = 1 THEN {body[1][x]}
                                  ELSE {body[2][body[1][x]]}]
<1>1. I[0] = {x} /\ I[1] = {body[1][x]} /\ I[2] = {body[2][body[1][x]]}
  OBVIOUS
<1> HIDE DEF I
<1>2. \A k \in 1 .. 2 : \A y \in I[k - 1] : body[k][y] \in I[k]
  <2>1. \A y \in I[1 - 1] : body[1][y] \in I[1]
    BY <1>1
  <2>2. \A y \in I[2 - 1] : body[2][y] \in I[2]
    BY <1>1
  <2>3. \A k \in 1 .. 2 : k = 1 \/ k = 2
    OBVIOUS
  <2> QED
    BY <2>1, <2>2, <2>3
<1>3. Loop(1, x, body) \in I[1]
  <2>1. \A k \in 1 .. 1 : \A y \in I[k - 1] : body[k][y] \in I[k]
    BY <1>2
  <2> QED
    BY <1>1, <2>1, LoopRule
<1>4. Loop(2, x, body) \in I[2]
  BY <1>1, <1>2, LoopRule
<1> QED
  BY <1>1, <1>3, <1>4

\* Adding in turn is adding once, or twice.
LEMMA AddInTurnIs ==
  ASSUME NEW s \in Queues, NEW x \in Tasks, NEW y \in Tasks
  PROVE  /\ AddQueueEntry(s, x) \in Queues
         /\ AddInTurn(s, <<x>>) = AddQueueEntry(s, x)
         /\ AddInTurn(s, <<x, y>>) = AddQueueEntry(AddQueueEntry(s, x), y)
<1>1. AddQueueEntry(s, x) \in Queues
  <2>1. Append(s, x) \in Queues
    BY DEF Queues
  <2> QED
    BY <2>1, BubbleSortSorts DEF AddQueueEntry
<1>2. AddInTurn(s, <<x>>) = AddQueueEntry(s, x)
  <2> DEFINE body == [k \in 1 .. 1 |->
                        [r \in Queues |-> AddQueueEntry(r, <<x>>[k])]]
  <2>1. body[1][s] = AddQueueEntry(s, x)
    OBVIOUS
  <2>2. AddInTurn(s, <<x>>) = Loop(1, s, body)
    BY DEF AddInTurn
  <2> HIDE DEF body
  <2> QED
    BY <2>1, <2>2, LoopOfOneOrTwo
<1>3. AddInTurn(s, <<x, y>>) = AddQueueEntry(AddQueueEntry(s, x), y)
  <2> DEFINE body == [k \in 1 .. 2 |->
                        [r \in Queues |-> AddQueueEntry(r, <<x, y>>[k])]]
  <2>1. body[1][s] = AddQueueEntry(s, x)
    OBVIOUS
  <2>2. body[2][AddQueueEntry(s, x)] = AddQueueEntry(AddQueueEntry(s, x), y)
    BY <1>1
  <2>3. AddInTurn(s, <<x, y>>) = Loop(2, s, body)
    BY DEF AddInTurn
  <2> HIDE DEF body
  <2> QED
    BY <2>1, <2>2, <2>3, LoopOfOneOrTwo
<1> QED
  BY <1>1, <1>2, <1>3

\* What Enqueue sorts: the queue with as many of the new tasks as fit.
LEMMA EnqueueIs ==
  ASSUME NEW s \in Queues, Len(s) <= MaxQueueSize, NEW x \in Tasks,
         NEW y \in Tasks
  PROVE  /\ Len(s) = MaxQueueSize =>
              Enqueue(s, <<x>>) = StableSorts(s)
                /\ Enqueue(s, <<x, y>>) = StableSorts(s)
         /\ Len(s) < MaxQueueSize =>
              Enqueue(s, <<x>>) = StableSorts(Append(s, x))
         /\ Len(s) = MaxQueueSize - 1 =>
              Enqueue(s, <<x, y>>) = StableSorts(Append(s, x))
         /\ Len(s) < MaxQueueSize - 1 =>
              Enqueue(s, <<x, y>>) = StableSorts(Append(Append(s, x), y))
<1> DEFINE Taken(ts, m) == [k \in 1 .. Len(s) + m |->
                              IF k <= Len(s) THEN s[k] ELSE ts[k - Len(s)]]
<1>1. Len(s) \in Nat /\ MaxQueueSize \in Nat
        /\ s = [k \in 1 .. Len(s) |-> s[k]]
  BY SizesAssumption DEF Queues
<1>2. \A ts : Taken(ts, 0) = s
  BY <1>1
<1>3. \A ts : ts[1] = x => Taken(ts, 1) = Append(s, x)
  <2> TAKE ts
  <2> HAVE ts[1] = x
  <2>1. Append(s, x) \in [1 .. Len(s) + 1 -> Tasks]
    <3>1. Append(s, x) \in Seq(Tasks) /\ Len(Append(s, x)) = Len(s) + 1
      BY <1>1 DEF Queues
    <3> QED
      BY <3>1, QueueIsFunction
  <2>2. \A k \in 1 .. Len(s) + 1 :
          Append(s, x)[k] = IF k <= Len(s) THEN s[k] ELSE ts[k - Len(s)]
    <3> TAKE k \in 1 .. Len(s) + 1
    <3>1. CASE k <= Len(s)
      BY <1>1, <3>1 DEF Queues
    <3>2. CASE ~ (k <= Len(s))
      BY <1>1, <3>2 DEF Queues
    <3> QED
      BY <3>1, <3>2
  <2> QED
    BY <2>1, <2>2
<1>4. Taken(<<x, y>>, 2) = Append(Append(s, x), y)
  <2>1. Append(Append(s, x), y) \in [1 .. Len(s) + 2 -> Tasks]
    <3>1. Append(s, x) \in Seq(Tasks) /\ Len(Append(s, x)) = Len(s) + 1
      BY <1>1 DEF Queues
    <3>2. /\ Append(Append(s, x), y) \in Seq(Tasks)
          /\ Len(Append(Append(s, x), y)) = Len(s) + 2
      BY <1>1, <3>1
    <3> QED
      BY <3>2, QueueIsFunction
  <2>2. \A k \in 1 .. Len(s) + 2 :
          Append(Append(s, x), y)[k] =
            IF k <= Len(s) THEN s[k] ELSE <<x, y>>[k - Len(s)]
    <3> TAKE k \in 1 .. Len(s) + 2
    <3>1. CASE k <= Len(s)
      BY <1>1, <3>1 DEF Queues
    <3>2. CASE k = Len(s) + 1
      BY <1>1, <3>2 DEF Queues
    <3>3. CASE k = Len(s) + 2
      BY <1>1, <3>3 DEF Queues
    <3> QED
      BY <1>1, <3>1, <3>2, <3>3
  <2> QED
    BY <2>1, <2>2
<1>5. Len(<<x>>) = 1 /\ Len(<<x, y>>) = 2 /\ <<x>>[1] = x /\ <<x, y>>[1] = x
  OBVIOUS
<1>6. ASSUME NEW ts
      PROVE  Enqueue(s, ts) =
               StableSorts(Taken(ts,
                                 IF Len(ts) <= MaxQueueSize - Len(s)
                                 THEN Len(ts) ELSE MaxQueueSize - Len(s)))
  BY DEF Enqueue
<1> HIDE DEF Taken
<1>7. ASSUME Len(s) = MaxQueueSize
      PROVE  Enqueue(s, <<x>>) = StableSorts(s)
               /\ Enqueue(s, <<x, y>>) = StableSorts(s)
  <2>1. MaxQueueSize - Len(s) = 0
    BY <1>1, <1>7
  <2> QED
    BY <1>2, <1>5, <1>6, <2>1
<1>8. ASSUME Len(s) < MaxQueueSize
      PROVE  Enqueue(s, <<x>>) = StableSorts(Append(s, x))
  <2>1. 1 <= MaxQueueSize - Len(s)
    BY <1>1, <1>8
  <2> QED
    BY <1>3, <1>5, <1>6, <2>1
<1>9. ASSUME Len(s) = MaxQueueSize - 1
      PROVE  Enqueue(s, <<x, y>>) = StableSorts(Append(s, x))
  <2>1. MaxQueueSize - Len(s) = 1
    BY <1>1, <1>9
  <2>2. Enqueue(s, <<x, y>>) = StableSorts(Taken(<<x, y>>, 1))
    <3>1. ~ (Len(<<x, y>>) <= MaxQueueSize - Len(s))
      BY <1>5, <2>1
    <3> QED
      BY <1>6, <2>1, <3>1
  <2> QED
    BY <1>3, <1>5, <2>2
<1>10. ASSUME Len(s) < MaxQueueSize - 1
       PROVE  Enqueue(s, <<x, y>>) = StableSorts(Append(Append(s, x), y))
  <2>1. 2 <= MaxQueueSize - Len(s)
    BY <1>1, <1>10
  <2> QED
    BY <1>4, <1>5, <1>6, <2>1
<1> QED
  BY <1>7, <1>8, <1>9, <1>10

\* As many insertions as there are tasks, or as there is room, are Enqueue.
LEMMA AddingInTurn ==
  ASSUME NEW s \in Queues, Len(s) <= MaxQueueSize, SortedByDelay(s),
         NEW x \in Tasks, NEW y \in Tasks
  PROVE  /\ Enqueue(s, <<x>>) = {AddInTurn(s, <<x>>)}
         /\ Enqueue(s, <<x, y>>) = {AddInTurn(s, <<x, y>>)}
<1> DEFINE r == AddQueueEntry(s, x)
           v == Append(s, x)
<1>1. /\ r \in Queues /\ AddInTurn(s, <<x>>) = r
      /\ AddInTurn(s, <<x, y>>) = AddQueueEntry(r, y)
  BY AddInTurnIs
<1>2. v \in Queues /\ Len(v) = Len(s) + 1 /\ Len(s) \in Nat
        /\ MaxQueueSize \in Nat
  BY SizesAssumption DEF Queues
<1>3. CASE Len(s) = MaxQueueSize
  <2>1. r = s /\ AddQueueEntry(s, y) = s
    BY <1>3 DEF AddQueueEntry
  <2>2. StableSorts(s) = {s}
    BY SortedStays
  <2>3. Enqueue(s, <<x>>) = StableSorts(s)
          /\ Enqueue(s, <<x, y>>) = StableSorts(s)
    BY <1>3, EnqueueIs
  <2> QED
    BY <1>1, <2>1, <2>2, <2>3
<1>4. CASE Len(s) # MaxQueueSize
  <2>1. r = BubbleSort(v)
    BY <1>4 DEF AddQueueEntry
  <2> HIDE DEF r, v
  <2>2. Len(r) = Len(s) + 1 /\ StableSorts(v) = {r}
    BY <1>2, <2>1, BubbleSortSorts
  <2>3. Enqueue(s, <<x>>) = StableSorts(v)
    <3>1. Len(s) < MaxQueueSize
      BY <1>2, <1>4
    <3> QED
      BY <3>1, EnqueueIs DEF v
  <2>4. CASE Len(s) = MaxQueueSize - 1
    <3>1. Enqueue(s, <<x, y>>) = StableSorts(v)
      BY <2>4, EnqueueIs DEF v
    <3>2. AddQueueEntry(r, y) = r
      BY <1>2, <2>2, <2>4 DEF AddQueueEntry
    <3> QED
      BY <1>1, <2>2, <2>3, <3>1, <3>2
  <2>5. CASE Len(s) < MaxQueueSize - 1
    <3>1. Enqueue(s, <<x, y>>) = StableSorts(Append(v, y))
      BY <2>5, EnqueueIs DEF v
    <3>2. AddQueueEntry(r, y) = BubbleSort(Append(r, y))
      BY <1>2, <2>2, <2>5 DEF AddQueueEntry
    <3>3. StableSorts(Append(v, y)) = {BubbleSort(Append(r, y))}
      BY <1>2, <2>1, SortedInBetween
    <3> QED
      BY <1>1, <2>2, <2>3, <3>1, <3>2, <3>3
  <2> QED
    BY <1>2, <1>4, <2>4, <2>5
<1> QED
  BY <1>3, <1>4

-----------------------------------------------------------------------------
(* The loop that deletes the tasks of a device *)

\* The run of neighbouring tasks of e that ends at k, or goes on, starts at b.
Start(s, e, b, k) ==
  /\ b \in 1 .. k
  /\ \A j \in b .. k : s[j].eui64 = e
  /\ b > 1 => s[b - 1].eui64 # e

\* Every task of e belongs to a run,
LEMMA RunStarts ==
  ASSUME NEW s \in Queues, NEW e, NEW k \in 1 .. Len(s), s[k].eui64 = e
  PROVE  \E b \in 1 .. k : Start(s, e, b, k)
<1> DEFINE T == {b \in 1 .. k : \A j \in b .. k : s[j].eui64 = e}
<1>1. Len(s) \in Nat
  BY DEF Queues
<1>2. k \in T
  OBVIOUS
<1>3. PICK b \in T : \A c \in T : b <= c
  <2>1. T \in SUBSET Nat /\ T # {}
    BY <1>1, <1>2
  <2> HIDE DEF T
  <2> QED
    BY <2>1, NatSetHasMinimum
<1>4. ASSUME b > 1, s[b - 1].eui64 = e PROVE FALSE
  <2>1. b - 1 \in T
    <3>1. \A j \in b - 1 .. k : j = b - 1 \/ j \in b .. k
      BY <1>1, <1>3
    <3> QED
      BY <1>1, <1>3, <1>4, <3>1
  <2> QED
    BY <1>1, <1>3, <2>1
<1> QED
  BY <1>3, <1>4 DEF Start

\* and to no other.
LEMMA OneStart ==
  ASSUME NEW s \in Queues, NEW e, NEW k \in 1 .. Len(s), NEW b, NEW c,
         Start(s, e, b, k), Start(s, e, c, k)
  PROVE  b = c
<1>1. Len(s) \in Nat /\ b \in 1 .. k /\ c \in 1 .. k
  BY DEF Queues, Start
<1>2. ~ (b < c)
  <2>1. b < c => c - 1 \in b .. k /\ c > 1
    BY <1>1
  <2> QED
    BY <2>1 DEF Start
<1>3. ~ (c < b)
  <2>1. c < b => b - 1 \in c .. k /\ b > 1
    BY <1>1
  <2> QED
    BY <2>1 DEF Start
<1> QED
  BY <1>1, <1>2, <1>3

\* Membership of Skipped, by the distance to the start of the run.
LEMMA SkippedIs ==
  ASSUME NEW s \in Queues, NEW e, NEW k \in 1 .. Len(s)
  PROVE  /\ s[k].eui64 # e => k \in Skipped(s, e)
         /\ \A b : s[k].eui64 = e /\ Start(s, e, b, k) =>
              (k \in Skipped(s, e) <=> (k - b) % 2 = 1)
<1>1. Len(s) \in Nat /\ DOMAIN s = 1 .. Len(s)
  BY DEF Queues
<1>2. s[k].eui64 # e => k \in Skipped(s, e)
  BY <1>1 DEF Skipped
<1>3. ASSUME NEW b, s[k].eui64 = e, Start(s, e, b, k)
      PROVE  k \in Skipped(s, e) <=> (k - b) % 2 = 1
  <2>1. k \in Skipped(s, e) <=>
          \E c \in 1 .. k : Start(s, e, c, k) /\ (k - c) % 2 = 1
    BY <1>1, <1>3 DEF Skipped, Start
  <2>2. \A c \in 1 .. k : Start(s, e, c, k) => c = b
    BY <1>3, OneStart
  <2>3. b \in 1 .. k
    BY <1>3 DEF Start
  <2> QED
    BY <1>3, <2>1, <2>2, <2>3
<1> QED
  BY <1>2, <1>3

\* Of a run the first task is deleted, and of two neighbours one.
LEMMA SkippedAlternates ==
  ASSUME NEW s \in Queues, NEW e, NEW k \in 1 .. Len(s), s[k].eui64 = e
  PROVE  /\ k = 1 \/ s[k - 1].eui64 # e => k \notin Skipped(s, e)
         /\ k + 1 <= Len(s) /\ s[k + 1].eui64 = e =>
              (k + 1 \in Skipped(s, e) <=> k \notin Skipped(s, e))
<1>1. Len(s) \in Nat
  BY DEF Queues
<1>2. ASSUME k = 1 \/ s[k - 1].eui64 # e PROVE k \notin Skipped(s, e)
  <2>1. Start(s, e, k, k)
    BY <1>2 DEF Start
  <2>2. (k - k) % 2 = 0
    BY <1>1
  <2> QED
    BY <2>1, <2>2, SkippedIs
<1>3. ASSUME k + 1 <= Len(s), s[k + 1].eui64 = e
      PROVE  k + 1 \in Skipped(s, e) <=> k \notin Skipped(s, e)
  <2>1. PICK b \in 1 .. k : Start(s, e, b, k)
    BY RunStarts
  <2>2. Start(s, e, b, k + 1)
    <3>1. \A j \in b .. k + 1 : j = k + 1 \/ j \in b .. k
      BY <1>1
    <3> QED
      BY <1>1, <1>3, <2>1, <3>1 DEF Start
  <2>3. k + 1 \in 1 .. Len(s)
    BY <1>1, <1>3
  <2>4. (k + 1 - b) % 2 = 1 <=> (k - b) % 2 # 1
    BY <1>1, <2>1
  <2>5. k \in Skipped(s, e) <=> (k - b) % 2 = 1
    BY <2>1, SkippedIs
  <2>6. k + 1 \in Skipped(s, e) <=> (k + 1 - b) % 2 = 1
    <3>1. \A p \in 1 .. Len(s) : s[p].eui64 = e /\ Start(s, e, b, p) =>
            (p \in Skipped(s, e) <=> (p - b) % 2 = 1)
      BY SkippedIs
    <3> QED
      BY <1>3, <2>2, <2>3, <3>1
  <2> QED
    BY <2>4, <2>5, <2>6
<1> QED
  BY <1>2, <1>3

\* After k iterations r is what is left of s: the tasks at the positions f, of
\* which the first k are those the loop has stepped over.
SteppedOver(s, e, k, r, f) ==
  LET d == Len(s) - Len(r)
  IN  /\ d \in 0 .. k
      /\ f \in [1 .. Len(r) -> 1 .. Len(s)]
      /\ \A j \in 1 .. Len(r) : r[j] = s[f[j]]
      /\ \A a, b \in 1 .. Len(r) : a < b => f[a] < f[b]
      /\ \A j \in 1 .. Len(r) :
           IF j <= k THEN f[j] \in Skipped(s, e) /\ f[j] <= k + d
           ELSE f[j] = j + d
      /\ \A p \in Skipped(s, e) :
           p <= k + d => \E j \in 1 .. Len(r) : j <= k /\ f[j] = p
      /\ k + d < Len(s) /\ s[k + d + 1].eui64 = e =>
           k + d + 1 \notin Skipped(s, e)

\* One iteration of the deleting loop.
LEMMA DeletionStep ==
  ASSUME NEW s \in Queues, NEW e, NEW k \in 1 .. Len(s), NEW r \in Queues,
         NEW f, SteppedOver(s, e, k - 1, r, f)
  PROVE  LET u == IF k <= Len(r) /\ r[k].eui64 = e THEN DeleteTask(r, k) ELSE r
         IN  u \in Queues /\ \E g : SteppedOver(s, e, k, u, g)
<1> DEFINE n == Len(s)
           m == Len(r)
           d == n - m
           K == Skipped(s, e)
<1>1. n \in Nat /\ m \in Nat /\ d \in 0 .. k - 1 /\ m <= n
  BY DEF Queues, SteppedOver
<1>2. /\ f \in [1 .. m -> 1 .. n]
      /\ \A j \in 1 .. m : r[j] = s[f[j]]
      /\ \A a, b \in 1 .. m : a < b => f[a] < f[b]
      /\ \A j \in 1 .. m : j <= k - 1 => f[j] \in K /\ f[j] <= k - 1 + d
      /\ \A j \in 1 .. m : ~ (j <= k - 1) => f[j] = j + d
      /\ \A p \in K : p <= k - 1 + d => \E j \in 1 .. m : j <= k - 1 /\ f[j] = p
      /\ k - 1 + d < n /\ s[k - 1 + d + 1].eui64 = e => k - 1 + d + 1 \notin K
  BY DEF SteppedOver
<1>3. K \subseteq 1 .. n
  BY DEF Skipped, Queues
<1> HIDE DEF K, n, m
<1>4. CASE m < k
  <2>1. ~ (k <= m)
    BY <1>1, <1>4
  <2>2. SteppedOver(s, e, k, r, f)
    <3>1. \A j \in 1 .. m : j <= k /\ f[j] \in K /\ f[j] <= k + d
      BY <1>1, <1>2, <1>4
    <3>2. \A p \in K : \E j \in 1 .. m : j <= k /\ f[j] = p
      <4>1. \A p \in K : p <= k - 1 + d
        BY <1>1, <1>3, <1>4
      <4> QED
        BY <1>1, <1>2, <4>1
    <3>3. ~ (k + d < n) /\ d \in 0 .. k
      BY <1>1, <1>4
    <3> QED
      BY <1>2, <3>1, <3>2, <3>3 DEF SteppedOver, K, n, m
  <2> QED
    BY <2>1, <2>2 DEF m
<1>5. ASSUME k <= m, r[k].eui64 # e
      PROVE  SteppedOver(s, e, k, r, f)
  <2>1. k + d \in 1 .. n /\ k \in 1 .. m /\ f[k] = k + d
          /\ k - 1 + d + 1 = k + d
    BY <1>1, <1>2, <1>5
  <2>2. s[k + d].eui64 # e
    BY <1>2, <1>5, <2>1
  <2>3. k + d \in K
    BY <2>1, <2>2, SkippedIs DEF K, n
  <2>4. \A j \in 1 .. m :
          IF j <= k THEN f[j] \in K /\ f[j] <= k + d ELSE f[j] = j + d
    <3> TAKE j \in 1 .. m
    <3>1. j <= k - 1 \/ j = k \/ (~ (j <= k) /\ ~ (j <= k - 1))
      BY <1>1
    <3> QED
      BY <1>1, <1>2, <2>1, <2>3, <3>1
  <2>5. \A p \in K : p <= k + d => \E j \in 1 .. m : j <= k /\ f[j] = p
    <3> TAKE p \in K
    <3> HAVE p <= k + d
    <3>1. CASE p = k + d
      BY <2>1, <3>1
    <3>2. CASE p # k + d
      <4>1. p <= k - 1 + d
        BY <1>1, <1>3, <3>2
      <4>2. PICK j \in 1 .. m : j <= k - 1 /\ f[j] = p
        BY <1>2, <4>1
      <4>3. j <= k
        BY <1>1, <4>2
      <4> QED
        BY <4>2, <4>3
    <3> QED
      BY <3>1, <3>2
  <2>6. k + d < n /\ s[k + d + 1].eui64 = e => k + d + 1 \notin K
    <3>1. k + d < n => k + d + 1 \in 1 .. n /\ (k + d + 1) - 1 = k + d
      BY <1>1, <2>1
    <3> QED
      BY <2>2, <3>1, SkippedAlternates DEF K, n
  <2>7. d \in 0 .. k
    BY <1>1
  <2> QED
    BY <1>2, <2>4, <2>5, <2>6, <2>7 DEF SteppedOver, K, n, m
<1>6. ASSUME k <= m, r[k].eui64 = e
      PROVE  DeleteTask(r, k) \in Queues
               /\ \E g : SteppedOver(s, e, k, DeleteTask(r, k), g)
  <2> DEFINE u == DeleteTask(r, k)
             g == [j \in 1 .. m - 1 |-> IF j < k THEN f[j] ELSE f[j + 1]]
             h == k + d
  <2>1. /\ h \in 1 .. n /\ k \in 1 .. m /\ f[k] = h /\ k - 1 + d + 1 = h
        /\ k - 1 + d < n
    BY <1>1, <1>2, <1>6
  <2>2. s[h].eui64 = e /\ h \notin K
    BY <1>2, <1>6, <2>1
  <2>0. h = k + d /\ h \in Int
    BY <2>1
  <2> HIDE DEF h
  <2>3. ASSUME h + 1 <= n PROVE h + 1 \in K
    <3>1. h + 1 \in 1 .. n
      BY <1>1, <2>1, <2>3
    <3>2. CASE s[h + 1].eui64 = e
      BY <2>1, <2>2, <2>3, <3>2, SkippedAlternates DEF K, n
    <3>3. CASE s[h + 1].eui64 # e
      BY <3>1, <3>3, SkippedIs DEF K, n
    <3> QED
      BY <3>2, <3>3
  <2>4. ASSUME h + 2 <= n, s[h + 2].eui64 = e PROVE h + 2 \notin K
    <3>1. h + 2 \in 1 .. n /\ h + 1 \in 1 .. n /\ (h + 2) - 1 = h + 1
            /\ (h + 1) + 1 = h + 2
      BY <1>1, <2>1, <2>4
    <3>2. h + 1 \in K
      BY <1>1, <2>3, <3>1
    <3>3. CASE s[h + 1].eui64 = e
      <4>1. h + 1 <= n /\ (h + 1) + 1 <= n
        BY <1>1, <3>1
      <4>2. (h + 1) + 1 \in K <=> h + 1 \notin K
        BY <2>4, <3>1, <3>3, <4>1, SkippedAlternates DEF K, n
      <4> QED
        BY <3>1, <3>2, <4>2
    <3>4. CASE s[h + 1].eui64 # e
      BY <2>4, <3>1, <3>4, SkippedAlternates DEF K, n
    <3> QED
      BY <3>3, <3>4
  <2>5. u \in Queues /\ Len(u) = m - 1
    BY <2>1, DeleteTaskProperties DEF m, Queues
  <2>6. \A j \in 1 .. m - 1 : u[j] = IF j < k THEN r[j] ELSE r[j + 1]
    BY DEF DeleteTask, m
  <2>7. n - Len(u) = d + 1 /\ d + 1 \in 0 .. k /\ k + (d + 1) = h + 1
          /\ h + 1 + 1 = h + 2
    BY <1>1, <2>5, <2>0
  <2>8. \A j \in 1 .. m - 1 : j \in 1 .. m /\ j + 1 \in 1 .. m
    BY <1>1
  <2>9. g \in [1 .. m - 1 -> 1 .. n] /\ \A j \in 1 .. m - 1 : u[j] = s[g[j]]
    BY <1>2, <2>6, <2>8
  <2>10. ASSUME NEW a \in 1 .. m - 1, NEW b \in 1 .. m - 1, a < b
         PROVE g[a] < g[b]
    <3> DEFINE at(j) == IF j < k THEN j ELSE j + 1
    <3>1. at(a) \in 1 .. m /\ at(b) \in 1 .. m /\ g[a] = f[at(a)]
            /\ g[b] = f[at(b)]
      BY <2>8
    <3>2. at(a) < at(b)
      BY <1>1, <2>10
    <3> HIDE DEF at, g
    <3> QED
      BY <1>2, <3>1, <3>2
  <2>11. ASSUME NEW j \in 1 .. m - 1
         PROVE  IF j <= k THEN g[j] \in K /\ g[j] <= h + 1
                ELSE g[j] = j + (d + 1)
    <3>1. CASE j < k
      <4>1. g[j] = f[j] /\ j <= k - 1 /\ j <= k
        BY <1>1, <2>8, <3>1
      <4>2. f[j] \in K /\ f[j] <= k - 1 + d
        BY <1>2, <2>8, <4>1
      <4>3. f[j] <= h + 1
        <5>1. f[j] \in 1 .. n
          BY <1>2, <2>8
        <5> QED
          BY <1>1, <2>0, <4>2, <5>1
      <4> QED
        BY <4>1, <4>2, <4>3
    <3>2. CASE j = k
      <4>1. g[j] = f[k + 1] /\ k + 1 \in 1 .. m /\ ~ (k + 1 <= k - 1) /\ k <= k
        BY <1>1, <2>8, <3>2
      <4>2. f[k + 1] = k + 1 + d /\ k + 1 + d = h + 1 /\ h + 1 <= n
        BY <1>1, <1>2, <4>1, <2>0
      <4> QED
        BY <1>1, <2>3, <3>2, <4>1, <4>2, <2>0
    <3>3. CASE k < j
      <4>1. g[j] = f[j + 1] /\ j + 1 \in 1 .. m /\ ~ (j + 1 <= k - 1)
              /\ ~ (j <= k)
        BY <1>1, <2>8, <3>3
      <4>2. f[j + 1] = j + 1 + d
        BY <1>2, <4>1
      <4> QED
        BY <1>1, <4>1, <4>2
    <3> QED
      BY <1>1, <3>1, <3>2, <3>3
  <2>12. ASSUME NEW p \in K, p <= h + 1
         PROVE  \E j \in 1 .. m - 1 : j <= k /\ g[j] = p
    <3>1. p \in 1 .. n /\ p # h
      BY <1>3, <2>2
    <3>2. CASE p <= k - 1 + d
      <4>1. PICK j \in 1 .. m : j <= k - 1 /\ f[j] = p
        BY <1>2, <3>2
      <4>2. j \in 1 .. m - 1 /\ j < k /\ j <= k
        BY <1>1, <1>6, <4>1
      <4> QED
        BY <4>1, <4>2
    <3>3. CASE p = h + 1
      <4>1. k \in 1 .. m - 1 /\ k + 1 \in 1 .. m /\ ~ (k + 1 <= k - 1)
              /\ k <= k
        BY <1>1, <2>1, <3>1, <3>3, <2>0
      <4>2. g[k] = f[k + 1] /\ f[k + 1] = k + 1 + d
        BY <1>2, <4>1
      <4>3. k + 1 + d = p
        BY <1>1, <3>3, <2>0
      <4> QED
        BY <4>1, <4>2, <4>3
    <3> QED
      BY <1>1, <2>12, <3>1, <3>2, <3>3, <2>0
  <2>13. h + 1 < n /\ s[h + 1 + 1].eui64 = e => h + 1 + 1 \notin K
    <3>1. h + 1 < n => h + 2 <= n
      BY <1>1, <2>0
    <3> QED
      BY <2>4, <2>7, <3>1
  <2> HIDE DEF u, g
  <2>14. SteppedOver(s, e, k, u, g)
    <3>1. Len(s) - Len(u) = d + 1
      BY <2>7 DEF n
    <3> HIDE DEF d
    <3> QED
      BY <2>5, <2>7, <2>9, <2>10, <2>11, <2>12, <2>13, <3>1
         DEF SteppedOver, K, n
  <2> QED
    BY <2>5, <2>14 DEF u
<1>7. CASE k <= m
  BY <1>5, <1>6, <1>7 DEF m
<1> QED
  BY <1>1, <1>4, <1>7

\* The deleting loop.
LEMMA DeletionIs ==
  ASSUME NEW s \in Queues, NEW e
  PROVE  DeleteTasksOf(s, e) = {DeleteLoop(s, e)}
<1> DEFINE n == Len(s)
           I == [k \in 0 .. n |->
                   {r \in Queues : \E f : SteppedOver(s, e, k, r, f)}]
           body == [k \in 1 .. n |-> [r \in Queues |->
                      IF k <= Len(r) /\ r[k].eui64 = e THEN DeleteTask(r, k)
                      ELSE r]]
<1>1. n \in Nat /\ s \in [1 .. n -> Tasks]
  BY DEF Queues
<1>2. s \in I[0]
  <2> DEFINE f == [j \in 1 .. n |-> j]
  <2>1. \A p \in Skipped(s, e) : p \in 1 .. n
    BY <1>1 DEF Skipped
  <2>2. ASSUME 0 < n, s[0 + 0 + 1].eui64 = e
        PROVE 0 + 0 + 1 \notin Skipped(s, e)
    <3>1. 1 \in 1 .. Len(s) /\ 0 + 0 + 1 = 1
      BY <1>1, <2>2
    <3> QED
      BY <2>2, <3>1, SkippedAlternates
  <2>3. f \in [1 .. n -> 1 .. n] /\ \A j \in 1 .. n : f[j] = j
    OBVIOUS
  <2> HIDE DEF f
  <2>4. n - n = 0
    BY <1>1
  <2>5. SteppedOver(s, e, 0, s, f)
    BY <1>1, <2>1, <2>2, <2>3, <2>4 DEF SteppedOver
  <2> QED
    BY <1>1, <2>5
<1>3. ASSUME NEW k \in 1 .. n, NEW r \in I[k - 1]
      PROVE  body[k][r] \in I[k]
  <2>1. k - 1 \in 0 .. n /\ k \in 0 .. n
    BY <1>1
  <2>2. r \in Queues
    BY <1>3, <2>1
  <2>3. PICK f : SteppedOver(s, e, k - 1, r, f)
    BY <1>3, <2>1
  <2> DEFINE u == IF k <= Len(r) /\ r[k].eui64 = e THEN DeleteTask(r, k) ELSE r
  <2>4. body[k][r] = u
    BY <2>2
  <2>5. u \in Queues /\ \E g : SteppedOver(s, e, k, u, g)
    BY <2>2, <2>3, DeletionStep
  <2> HIDE DEF u, body
  <2> QED
    BY <2>1, <2>4, <2>5
<1> DEFINE w == DeleteLoop(s, e)
<1>4. w = Loop(n, s, body)
  BY DEF DeleteLoop
<1> HIDE DEF I, body, w
<1>5. Loop(n, s, body) \in I[n]
  BY <1>1, <1>2, <1>3, LoopRule
<1>6. w \in Queues /\ \E f : SteppedOver(s, e, n, w, f)
  BY <1>1, <1>4, <1>5 DEF I
<1>7. PICK f : SteppedOver(s, e, n, w, f)
  BY <1>6
<1> DEFINE m == Len(w)
           K == Skipped(s, e)
<1>8. m \in Nat /\ m <= n /\ w = [j \in 1 .. m |-> w[j]]
  BY <1>1, <1>6, <1>7 DEF SteppedOver, Queues
<1>9. \A j \in 1 .. m : j <= n
  BY <1>1, <1>8
<1>10. K \in SUBSET Int /\ \A p \in K : p <= n + (n - m)
  BY <1>1, <1>8 DEF Skipped
<1>11. f \in [1 .. m -> K]
  BY <1>7, <1>9 DEF SteppedOver
<1>12. /\ \A j \in 1 .. m : w[j] = s[f[j]]
       /\ \A a, b \in 1 .. m : a < b => f[a] < f[b]
       /\ \A p \in K : \E j \in 1 .. m : f[j] = p
  BY <1>7, <1>10 DEF SteppedOver
<1> HIDE DEF K, m, n
<1>13. Enumerates(m, f, K)
  BY <1>11, <1>12 DEF Enumerates
<1>14. Picks(w, s, m, f)
  BY <1>8, <1>12 DEF Picks
<1>15. KeepOnly(s, K) = {w}
  BY <1>8, <1>10, <1>13, <1>14, KeepOnlyIs
<1> QED
  BY <1>15 DEF DeleteTasksOf, w, K

-----------------------------------------------------------------------------
(* The tick *)

Young(s) == {k \in 1 .. Len(s) : s[k].waitTime + 1 <= MaxWaitTicks}

\* A task that has not waited too long is a task after the tick.
LEMMA AgedTask ==
  ASSUME NEW x \in Tasks, x.waitTime + 1 <= MaxWaitTicks
  PROVE  AgeTask(x) \in Tasks
<1>1. /\ x \in [eui64 : Euis, nodeId : NodeIds, endpoint : Endpoints,
                state : Phases, delay : 0 .. RetryTicks,
                waitTime : 0 .. MaxWaitTicks]
      /\ RetryTicks \in Nat /\ MaxWaitTicks \in Nat
  BY SizesAssumption DEF Tasks
<1>2. x.delay \in 0 .. RetryTicks /\ x.waitTime \in 0 .. MaxWaitTicks
  BY <1>1
<1> DEFINE d == IF x.delay = 0 THEN 0 ELSE x.delay - 1
           w == x.waitTime + 1
<1>3. d \in 0 .. RetryTicks /\ w \in 0 .. MaxWaitTicks
  BY <1>1, <1>2
<1>4. AgeTask(x) = [x EXCEPT !.waitTime = w, !.delay = d]
  BY DEF AgeTask
<1> HIDE DEF d, w
<1>5. [x EXCEPT !.waitTime = w, !.delay = d]
        \in [eui64 : Euis, nodeId : NodeIds, endpoint : Endpoints,
             state : Phases, delay : 0 .. RetryTicks,
             waitTime : 0 .. MaxWaitTicks]
  BY <1>1, <1>3
<1> QED
  BY <1>4, <1>5 DEF Tasks

\* After k iterations the queue of x lists the tasks of s at the positions f;
\* those before x.i were aged, and none of them had waited too long.
TickedTo(s, k, x, f) ==
  LET m == Len(x.queue)
      d == Len(s) - m
  IN  /\ d \in 0 .. k /\ x.i = k + 1 - d
      /\ f \in [1 .. m -> 1 .. Len(s)]
      /\ \A a, b \in 1 .. m : a < b => f[a] < f[b]
      /\ \A j \in 1 .. m :
           IF j < x.i
           THEN f[j] \in Young(s) /\ f[j] <= k /\ x.queue[j] = AgeTask(s[f[j]])
           ELSE f[j] = j + d /\ x.queue[j] = s[f[j]]
      /\ \A p \in Young(s) : p <= k => \E j \in 1 .. m : j < x.i /\ f[j] = p

\* One iteration of the tick loop, which is never past the end of the queue.
LEMMA TickStep ==
  ASSUME NEW s \in Queues, NEW k \in 1 .. Len(s),
         NEW x \in [queue : Queues, i : Nat], NEW f, TickedTo(s, k - 1, x, f)
  PROVE  /\ x.i <= Len(x.queue)
         /\ TickAt(x) \in [queue : Queues, i : Nat]
         /\ \E g : TickedTo(s, k, TickAt(x), g)
<1> DEFINE n == Len(s)
           r == x.queue
           m == Len(r)
           i == x.i
           d == n - m
           Y == Young(s)
<1>1. n \in Nat /\ m \in Nat /\ d \in 0 .. k - 1 /\ m <= n /\ i \in Nat
        /\ i = k - d
      /\ r \in Queues
  BY DEF Queues, TickedTo
<1>2. /\ f \in [1 .. m -> 1 .. n]
      /\ \A a, b \in 1 .. m : a < b => f[a] < f[b]
      /\ \A j \in 1 .. m : j < i => f[j] \in Y /\ f[j] <= k - 1
         /\ r[j] = AgeTask(s[f[j]])
      /\ \A j \in 1 .. m : ~ (j < i) => f[j] = j + d /\ r[j] = s[f[j]]
      /\ \A p \in Y : p <= k - 1 => \E j \in 1 .. m : j < i /\ f[j] = p
  BY DEF TickedTo
<1>3. Y \subseteq 1 .. n
  BY DEF Young
<1>4. i \in 1 .. m /\ f[i] = k /\ r[i] = s[k] /\ k \in 1 .. n
  <2>1. i \in 1 .. m /\ ~ (i < i) /\ i + d = k
    BY <1>1
  <2> QED
    BY <1>2, <2>1
<1>5. k \in Y <=> r[i].waitTime + 1 <= MaxWaitTicks
  BY <1>4 DEF Young, n
<1>6. r[i] \in Tasks /\ r[i].waitTime \in Nat /\ MaxWaitTicks \in Nat
  <2>1. r[i] \in Tasks
    BY <1>1, <1>4, ElementOfSeq DEF Queues
  <2> QED
    BY <2>1, SizesAssumption DEF Tasks
<1> HIDE DEF Y, n, m
<1>7. CASE k \in Y
  <2> DEFINE u == [r EXCEPT ![i] = AgeTask(r[i])]
             y == [queue |-> u, i |-> i + 1]
  <2>1. TickAt(x) = y
    <3>1. ~ (r[i].waitTime + 1 > MaxWaitTicks)
      BY <1>5, <1>6, <1>7
    <3> QED
      BY <3>1 DEF TickAt
  <2>2. AgeTask(r[i]) \in Tasks
    BY <1>5, <1>6, <1>7, AgedTask
  <2>3. /\ u \in [1 .. m -> Tasks]
        /\ \A j \in 1 .. m : u[j] = IF j = i THEN AgeTask(s[k]) ELSE r[j]
    <3>1. r \in [1 .. m -> Tasks]
      BY <1>1 DEF Queues, m
    <3> HIDE DEF r, i
    <3> QED
      BY <1>4, <2>2, <3>1
  <2> HIDE DEF u
  <2>4. u \in Queues /\ Len(u) = m
    BY <1>1, <2>3 DEF Queues
  <2>5. y \in [queue : Queues, i : Nat] /\ y.queue = u /\ y.i = i + 1
    BY <1>1, <2>4
  <2> HIDE DEF y, r, i
  <2>6. d \in 0 .. k /\ i + 1 = k + 1 - d
    BY <1>1
  <2>7. ASSUME NEW j \in 1 .. m
        PROVE  IF j < i + 1
               THEN f[j] \in Y /\ f[j] <= k /\ u[j] = AgeTask(s[f[j]])
               ELSE f[j] = j + d /\ u[j] = s[f[j]]
    <3>1. CASE j < i
      <4>1. j < i + 1 /\ j # i /\ f[j] \in 1 .. n
        BY <1>1, <1>2, <3>1
      <4>2. f[j] \in Y /\ f[j] <= k - 1 /\ u[j] = AgeTask(s[f[j]])
        BY <1>2, <2>3, <3>1, <4>1
      <4>3. f[j] <= k
        BY <1>1, <4>1, <4>2
      <4> QED
        BY <4>1, <4>2, <4>3
    <3>2. CASE j = i
      <4>1. j < i + 1 /\ u[j] = AgeTask(s[k]) /\ f[j] = k /\ k <= k
        BY <1>1, <1>4, <2>3, <3>2
      <4> QED
        BY <1>7, <4>1
    <3>3. CASE i < j
      <4>1. ~ (j < i) /\ ~ (j < i + 1) /\ j # i
        BY <1>1, <3>3
      <4> QED
        BY <1>2, <2>3, <4>1
    <3> QED
      BY <1>1, <3>1, <3>2, <3>3
  <2>8. ASSUME NEW p \in Y, p <= k
        PROVE  \E j \in 1 .. m : j < i + 1 /\ f[j] = p
    <3>1. CASE p = k
      <4>1. i < i + 1
        BY <1>1
      <4> QED
        BY <1>4, <3>1, <4>1
    <3>2. CASE p # k
      <4>1. p <= k - 1
        BY <1>3, <1>4, <2>8, <3>2
      <4>2. PICK j \in 1 .. m : j < i /\ f[j] = p
        BY <1>2, <4>1
      <4>3. j < i + 1
        BY <1>1, <4>2
      <4> QED
        BY <4>2, <4>3
    <3> QED
      BY <3>1, <3>2
  <2>9. TickedTo(s, k, y, f)
    <3>1. Len(y.queue) = m /\ n - m = d
      BY <2>4, <2>5
    <3> HIDE DEF d
    <3>2. y.i = k + 1 - d
      BY <2>5, <2>6
    <3>3. \A j \in 1 .. m :
            IF j < y.i
            THEN f[j] \in Y /\ f[j] <= k /\ y.queue[j] = AgeTask(s[f[j]])
            ELSE f[j] = j + d /\ y.queue[j] = s[f[j]]
      BY <2>5, <2>7
    <3>4. \A p \in Y : p <= k => \E j \in 1 .. m : j < y.i /\ f[j] = p
      BY <2>5, <2>8
    <3> QED
      BY <1>2, <2>6, <3>1, <3>2, <3>3, <3>4 DEF TickedTo, Y, n
  <2> QED
    BY <1>4, <2>1, <2>5, <2>9 DEF m, r, i
<1>8. CASE k \notin Y
  <2> DEFINE u == DeleteTask(r, i)
             y == [queue |-> u, i |-> i]
             g == [j \in 1 .. m - 1 |-> IF j < i THEN f[j] ELSE f[j + 1]]
  <2>1. TickAt(x) = y
    <3>1. r[i].waitTime + 1 > MaxWaitTicks
      BY <1>5, <1>6, <1>8
    <3>2. TickAt(x) = [x EXCEPT !.queue = DeleteTask(@, x.i)]
      BY <3>1 DEF TickAt
    <3> QED
      BY <3>2
  <2>2. u \in Queues /\ Len(u) = m - 1
    <3>1. r \in Seq(Tasks) /\ i \in 1 .. Len(r)
      BY <1>1, <1>4 DEF m, Queues
    <3> HIDE DEF r, i
    <3> QED
      BY <3>1, DeleteTaskProperties DEF m, Queues
  <2>3. \A j \in 1 .. m - 1 : u[j] = IF j < i THEN r[j] ELSE r[j + 1]
    BY DEF DeleteTask, m
  <2> HIDE DEF u
  <2>4. y \in [queue : Queues, i : Nat] /\ y.queue = u /\ y.i = i
    BY <1>1, <2>2
  <2> HIDE DEF y, r, i
  <2>5. n - Len(u) = d + 1 /\ d + 1 \in 0 .. k /\ i = k + 1 - (d + 1)
    BY <1>1, <2>2
  <2>6. \A j \in 1 .. m - 1 : j \in 1 .. m /\ j + 1 \in 1 .. m
    BY <1>1
  <2>7. g \in [1 .. m - 1 -> 1 .. n]
    BY <1>2, <2>6
  <2>8. ASSUME NEW a \in 1 .. m - 1, NEW b \in 1 .. m - 1, a < b
        PROVE g[a] < g[b]
    <3> DEFINE at(j) == IF j < i THEN j ELSE j + 1
    <3>1. at(a) \in 1 .. m /\ at(b) \in 1 .. m /\ g[a] = f[at(a)]
            /\ g[b] = f[at(b)]
      BY <2>6
    <3>2. at(a) < at(b)
      BY <1>1, <2>8
    <3> HIDE DEF at, g
    <3> QED
      BY <1>2, <3>1, <3>2
  <2>9. ASSUME NEW j \in 1 .. m - 1
        PROVE  IF j < i
               THEN g[j] \in Y /\ g[j] <= k /\ u[j] = AgeTask(s[g[j]])
               ELSE g[j] = j + (d + 1) /\ u[j] = s[g[j]]
    <3>1. CASE j < i
      <4>1. g[j] = f[j] /\ u[j] = r[j] /\ j \in 1 .. m /\ f[j] \in 1 .. n
        BY <1>2, <2>3, <2>6, <3>1
      <4>2. f[j] \in Y /\ f[j] <= k - 1 /\ r[j] = AgeTask(s[f[j]])
        BY <1>2, <3>1, <4>1
      <4>3. f[j] <= k
        BY <1>1, <4>1, <4>2
      <4> QED
        BY <3>1, <4>1, <4>2, <4>3
    <3>2. CASE ~ (j < i)
      <4>1. /\ g[j] = f[j + 1] /\ u[j] = r[j + 1] /\ j + 1 \in 1 .. m
            /\ ~ (j + 1 < i)
        BY <1>1, <2>3, <2>6, <3>2
      <4>2. f[j + 1] = (j + 1) + d /\ r[j + 1] = s[f[j + 1]]
        BY <1>2, <4>1
      <4>3. (j + 1) + d = j + (d + 1)
        BY <1>1
      <4> QED
        BY <3>2, <4>1, <4>2, <4>3
    <3> QED
      BY <3>1, <3>2
  <2>10. ASSUME NEW p \in Y, p <= k
         PROVE  \E j \in 1 .. m - 1 : j < i /\ g[j] = p
    <3>1. p <= k - 1
      BY <1>3, <1>4, <1>8, <2>10
    <3>2. PICK j \in 1 .. m : j < i /\ f[j] = p
      BY <1>2, <3>1
    <3>3. j \in 1 .. m - 1
      BY <1>1, <1>4, <3>2
    <3> QED
      BY <3>2, <3>3
  <2> HIDE DEF g
  <2>11. TickedTo(s, k, y, g)
    <3> DEFINE l == m - 1
               c == d + 1
    <3>1. Len(y.queue) = l /\ n - l = c
      BY <2>2, <2>4, <2>5
    <3>2. c \in 0 .. k /\ y.i = k + 1 - c
      BY <2>4, <2>5
    <3>3. \A j \in 1 .. l :
            IF j < y.i
            THEN g[j] \in Y /\ g[j] <= k /\ y.queue[j] = AgeTask(s[g[j]])
            ELSE g[j] = j + c /\ y.queue[j] = s[g[j]]
      BY <2>4, <2>9
    <3>4. \A p \in Y : p <= k => \E j \in 1 .. l : j < y.i /\ g[j] = p
      BY <2>4, <2>10
    <3>5. g \in [1 .. l -> 1 .. n] /\ \A a, b \in 1 .. l : a < b => g[a] < g[b]
      BY <2>7, <2>8
    <3> HIDE DEF l, c
    <3> QED
      BY <3>1, <3>2, <3>3, <3>4, <3>5 DEF TickedTo, Y, n
  <2> QED
    BY <1>4, <2>1, <2>4, <2>11 DEF m, r, i
<1> QED
  BY <1>7, <1>8

\* The tick loop.
LEMMA TickIs ==
  ASSUME NEW s \in Queues
  PROVE  AgedQueues(s) = {TickLoop(s)}
<1> DEFINE n == Len(s)
           X == [queue : Queues, i : Nat]
           x0 == [queue |-> s, i |-> 1]
           I == [k \in 0 .. n |-> {x \in X : \E f : TickedTo(s, k, x, f)}]
           body == [k \in 1 .. n |-> [x \in [queue : Queues, i : Nat] |->
                      IF x.i <= Len(x.queue) THEN TickAt(x) ELSE x]]
<1>1. n \in Nat /\ s \in [1 .. n -> Tasks]
  BY DEF Queues
<1>2. x0 \in I[0]
  <2> DEFINE f == [j \in 1 .. n |-> j]
  <2>1. \A p \in Young(s) : p \in 1 .. n
    BY <1>1 DEF Young
  <2>2. f \in [1 .. n -> 1 .. n] /\ \A j \in 1 .. n : f[j] = j
    OBVIOUS
  <2> HIDE DEF f
  <2>3. n - n = 0 /\ x0.queue = s /\ x0.i = 1 /\ x0 \in X
    BY <1>1
  <2> HIDE DEF x0
  <2>4. TickedTo(s, 0, x0, f)
    BY <1>1, <2>1, <2>2, <2>3 DEF TickedTo
  <2> QED
    BY <1>1, <2>3, <2>4
<1>3. ASSUME NEW k \in 1 .. n, NEW x \in I[k - 1]
      PROVE  body[k][x] \in I[k]
  <2>1. k - 1 \in 0 .. n /\ k \in 0 .. n
    BY <1>1
  <2>2. x \in [queue : Queues, i : Nat]
    BY <1>3, <2>1
  <2>3. PICK f : TickedTo(s, k - 1, x, f)
    BY <1>3, <2>1
  <2>4. /\ x.i <= Len(x.queue) /\ TickAt(x) \in [queue : Queues, i : Nat]
        /\ \E g : TickedTo(s, k, TickAt(x), g)
    BY <2>2, <2>3, TickStep
  <2>5. body[k][x] = TickAt(x)
    BY <2>2, <2>4
  <2> HIDE DEF body
  <2> QED
    BY <2>1, <2>4, <2>5
<1> DEFINE y == Loop(n, x0, body)
           w == TickLoop(s)
<1>4. w = y.queue
  BY DEF TickLoop
<1> HIDE DEF I, body, w
<1>5. y \in I[n]
  <2> HIDE DEF x0
  <2> QED
    BY <1>1, <1>2, <1>3, LoopRule
<1>6. y \in X /\ \E f : TickedTo(s, n, y, f)
  BY <1>1, <1>5 DEF I
<1> HIDE DEF y
<1>7. PICK f : TickedTo(s, n, y, f)
  BY <1>6
<1> DEFINE m == Len(w)
           K == Young(s)
           v == [k \in 1 .. n |-> AgeTask(s[k])]
<1>8. m \in Nat /\ m <= n /\ w = [j \in 1 .. m |-> w[j]]
        /\ y.i = n + 1 - (n - m)
  BY <1>1, <1>4, <1>6, <1>7 DEF TickedTo, Queues
<1>9. (\A j \in 1 .. m : j < y.i) /\ \A p \in K : p <= n
  BY <1>1, <1>8 DEF Young
<1>10. K \in SUBSET Int /\ K \subseteq 1 .. n
  BY <1>1 DEF Young
<1>11. f \in [1 .. m -> K] /\ \A j \in 1 .. m : w[j] = AgeTask(s[f[j]])
  BY <1>4, <1>7, <1>9 DEF TickedTo
<1>12. /\ \A a, b \in 1 .. m : a < b => f[a] < f[b]
       /\ \A p \in K : \E j \in 1 .. m : f[j] = p
  BY <1>4, <1>7, <1>9 DEF TickedTo
<1>13. \A j \in 1 .. m : w[j] = v[f[j]]
  BY <1>10, <1>11
<1>14. AgedQueues(s) = KeepOnly(v, K)
  BY DEF AgedQueues, Young
<1> HIDE DEF K, m, n, v
<1>15. Enumerates(m, f, K)
  BY <1>11, <1>12 DEF Enumerates
<1>16. Picks(w, v, m, f)
  BY <1>8, <1>13 DEF Picks
<1>17. KeepOnly(v, K) = {w}
  BY <1>8, <1>10, <1>15, <1>16, KeepOnlyIs
<1> QED
  BY <1>14, <1>17 DEF w

-----------------------------------------------------------------------------
(* The chains of slots of one device *)

\* The table in which the slots of the device from i on were changed.
Changed(u, i, set) ==
  [j \in Idx |-> IF i \in Idx /\ j \in SameDeviceFrom(u, i) THEN set[u[j]]
                 ELSE u[j]]

\* After k iterations the slots of the device before x.i are changed, and none
\* else; the iterations have come past k slots, or to the end.
FollowedTo(u, i, set, k, x) ==
  /\ x.i \in SameDeviceFrom(u, i) \cup {NullIndex}
  /\ x.i = NullIndex \/ x.i >= i + k
  /\ \A j \in Idx :
       x.table[j] = IF j \in SameDeviceFrom(u, i) /\ j < x.i THEN set[u[j]]
                    ELSE u[j]

\* One iteration of a chain.
LEMMA FollowStep ==
  ASSUME NEW u \in Tables, NEW i \in Idx, NEW set \in [Entries -> Entries],
         NEW k \in Nat, NEW x \in [table : Tables, i : Idx \cup {NullIndex}],
         x.i # NullIndex, FollowedTo(u, i, set, k, x)
  PROVE  /\ Follow(x, set) \in [table : Tables, i : Idx \cup {NullIndex}]
         /\ FollowedTo(u, i, set, k + 1, Follow(x, set))
<1> DEFINE S == SameDeviceFrom(u, i)
           at == x.i
           v == x.table
           T == {j \in Idx : j > at /\ v[j].eui64 = v[at].eui64}
           next == FirstOf(T)
           w == [v EXCEPT ![at] = set[v[at]]]
<1>1. /\ at \in Idx /\ at \in S /\ at >= i + k /\ v \in Tables
      /\ \A j \in Idx : v[j] = IF j \in S /\ j < at THEN set[u[j]] ELSE u[j]
  BY DEF FollowedTo
<1>2. Idx \subseteq Nat /\ NullIndex \in Nat /\ \A j \in Idx : j < NullIndex
  BY SizesAssumption DEF Idx, NullIndex
<1>3. \A j : j \in S <=> j \in Idx /\ j >= i /\ u[j].eui64 = u[i].eui64
  BY DEF SameDeviceFrom
<1> HIDE DEF S, at, v
<1>4. v[at] = u[at] /\ u[at].eui64 = u[i].eui64
  BY <1>1, <1>2, <1>3
<1>5. \A j \in Idx : j > at => v[j] = u[j]
  BY <1>1, <1>2
<1>6. \A j : j \in T <=> j \in S /\ j > at
  <2> TAKE j
  <2>1. j \in T => j \in S /\ j > at
    BY <1>1, <1>2, <1>3, <1>4, <1>5
  <2>2. j \in S /\ j > at => j \in T
    BY <1>1, <1>2, <1>3, <1>4, <1>5
  <2> QED
    BY <2>1, <2>2
<1>7. /\ T = {} => next = NullIndex
      /\ T # {} => next \in T /\ \A j \in T : next <= j
  <2>1. T \in SUBSET Idx
    OBVIOUS
  <2> HIDE DEF T
  <2> QED
    BY <2>1, FirstOfProperties
<1>8. Follow(x, set) = [table |-> w, i |-> next]
  BY DEF Follow, FindNextEndpoint, at, v
<1>9. /\ w \in Tables
      /\ \A j \in Idx : w[j] = IF j = at THEN set[u[at]] ELSE v[j]
  <2>1. v \in [Idx -> Entries] /\ set[v[at]] \in Entries
    BY <1>1 DEF Tables
  <2> QED
    BY <1>1, <1>4, <2>1 DEF Tables
<1> HIDE DEF T, next, w
<1>10. next \in S \cup {NullIndex} /\ (next = NullIndex \/ next >= i + (k + 1))
  <2>1. next \in T => next \in Nat /\ next > at /\ next \in S
    BY <1>2, <1>3, <1>6
  <2> QED
    BY <1>1, <1>2, <1>7, <2>1
<1>11. ASSUME NEW j \in Idx
       PROVE  w[j] = IF j \in S /\ j < next THEN set[u[j]] ELSE u[j]
  <2>1. at < next
    <3>1. next \in T => next > at /\ next \in Nat
      BY <1>2, <1>3, <1>6
    <3> QED
      BY <1>1, <1>2, <1>7, <3>1
  <2>2. next \in Nat
    <3>1. next \in T => next \in Nat
      BY <1>2, <1>3, <1>6
    <3> QED
      BY <1>2, <1>7, <3>1
  <2>3. CASE j = at
    BY <1>1, <1>9, <2>1, <2>3
  <2>4. CASE j # at /\ j \in S /\ j < at
    <3>1. j < next
      BY <1>1, <1>2, <2>1, <2>2, <2>4
    <3> QED
      BY <1>1, <1>9, <2>4, <3>1
  <2>5. CASE j # at /\ ~ (j \in S /\ j < at)
    <3>1. w[j] = u[j]
      BY <1>1, <1>9, <2>5
    <3>2. ~ (j \in S /\ j < next)
      <4>1. SUFFICES ASSUME j \in S, j < next PROVE FALSE
        OBVIOUS
      <4>2. j > at
        BY <1>1, <1>2, <2>5, <4>1
      <4>3. j \in T
        BY <1>6, <4>1, <4>2
      <4>4. next <= j
        BY <1>7, <4>3
      <4> QED
        BY <1>2, <2>2, <4>1, <4>4
    <3> QED
      BY <3>1, <3>2
  <2> QED
    BY <2>3, <2>4, <2>5
<1>12. S \subseteq Idx
  BY <1>3
<1> QED
  BY <1>8, <1>9, <1>10, <1>11, <1>12 DEF FollowedTo, S

\* A chain changes the slots of the device, for any change.
LEMMA ChainIs ==
  ASSUME NEW u \in Tables, NEW i \in Idx \cup {NullIndex},
         NEW set \in [Entries -> Entries]
  PROVE  Chain(u, i, set) = Changed(u, i, set)
<1> DEFINE X == [table : Tables, i : Idx \cup {NullIndex}]
           x0 == [table |-> u, i |-> i]
           I == [k \in 0 .. TableSize |->
                   {x \in X : IF i \in Idx THEN FollowedTo(u, i, set, k, x)
                              ELSE x = x0}]
           body == [k \in 1 .. TableSize |->
                      [x \in [table : Tables, i : Idx \cup {NullIndex}] |->
                         IF x.i = NullIndex THEN x ELSE Follow(x, set)]]
           y == Loop(TableSize, x0, body)
<1>1. /\ TableSize \in Nat /\ Idx \subseteq Nat /\ NullIndex = TableSize
      /\ NullIndex \notin Idx /\ \A j \in Idx : j < TableSize
  BY SizesAssumption DEF Idx, NullIndex
<1>2. x0 \in X /\ x0.table = u /\ x0.i = i
  OBVIOUS
<1>3. ASSUME i \in Idx PROVE FollowedTo(u, i, set, 0, x0)
  <2> HIDE DEF x0
  <2>1. i \in SameDeviceFrom(u, i) /\ i >= i + 0
    BY <1>1, <1>3 DEF SameDeviceFrom
  <2>2. \A j \in Idx : j \in SameDeviceFrom(u, i) => ~ (j < i)
    BY <1>1, <1>3 DEF SameDeviceFrom
  <2> QED
    BY <1>2, <2>1, <2>2 DEF FollowedTo
<1>4. x0 \in I[0]
  <2>1. 0 \in 0 .. TableSize
    BY <1>1
  <2> HIDE DEF x0
  <2> QED
    BY <1>2, <1>3, <2>1
<1>5. ASSUME NEW k \in 1 .. TableSize, NEW x \in I[k - 1]
      PROVE  body[k][x] \in I[k]
  <2>1. k - 1 \in 0 .. TableSize /\ k \in 0 .. TableSize /\ k - 1 \in Nat
          /\ (k - 1) + 1 = k
    BY <1>1
  <2>2. /\ x \in X
        /\ IF i \in Idx THEN FollowedTo(u, i, set, k - 1, x) ELSE x = x0
    <3> HIDE DEF x0
    <3> QED
      BY <1>5, <2>1
  <2>3. body[k][x] = IF x.i = NullIndex THEN x ELSE Follow(x, set)
    BY <2>2
  <2> HIDE DEF body, x0
  <2>4. CASE x.i = NullIndex
    <3>1. i \in Idx => FollowedTo(u, i, set, k, x)
      BY <2>2, <2>4 DEF FollowedTo
    <3> QED
      BY <2>1, <2>2, <2>3, <2>4, <3>1
  <2>5. CASE x.i # NullIndex
    <3>1. i \in Idx
      BY <1>2, <2>2, <2>5
    <3>2. /\ Follow(x, set) \in X
          /\ FollowedTo(u, i, set, (k - 1) + 1, Follow(x, set))
      BY <2>1, <2>2, <2>5, <3>1, FollowStep
    <3> QED
      BY <2>1, <2>3, <2>5, <3>1, <3>2
  <2> QED
    BY <2>4, <2>5
<1>6. Chain(u, i, set) = y.table
  BY DEF Chain
<1> HIDE DEF I, body, x0
<1>7. y \in I[TableSize]
  BY <1>1, <1>4, <1>5, LoopRule
<1>8. /\ y \in X
      /\ IF i \in Idx THEN FollowedTo(u, i, set, TableSize, y) ELSE y = x0
  BY <1>1, <1>7 DEF I
<1> HIDE DEF y
<1>9. y.table = [j \in Idx |-> y.table[j]] /\ u = [j \in Idx |-> u[j]]
  BY <1>8 DEF Tables
<1>10. CASE i \in Idx
  <2>1. y.i = NullIndex
    <3>1. y.i \in SameDeviceFrom(u, i) => y.i \in Idx /\ y.i < TableSize
      BY <1>1 DEF SameDeviceFrom
    <3>2. /\ y.i \in SameDeviceFrom(u, i) \cup {NullIndex}
          /\ y.i = NullIndex \/ y.i >= i + TableSize
      BY <1>8, <1>10 DEF FollowedTo
    <3>3. i \in Nat /\ (y.i \in Idx => y.i \in Nat)
      BY <1>1, <1>10
    <3>4. y.i \in Idx /\ y.i < TableSize => ~ (y.i >= i + TableSize)
      BY <1>1, <3>3
    <3> QED
      BY <3>1, <3>2, <3>4
  <2>2. \A j \in Idx :
          y.table[j] = IF j \in SameDeviceFrom(u, i) THEN set[u[j]] ELSE u[j]
    BY <1>1, <1>8, <1>10, <2>1 DEF FollowedTo
  <2> QED
    BY <1>6, <1>9, <1>10, <2>2 DEF Changed
<1>11. CASE i \notin Idx
  BY <1>2, <1>6, <1>8, <1>9, <1>11 DEF Changed
<1> QED
  BY <1>10, <1>11

\* A chain that finds the next slot late does the same if the EUI64, by which
\* it is found, is not changed.
LEMMA LateChainIs ==
  ASSUME NEW u \in Tables, NEW i \in Idx \cup {NullIndex},
         NEW set \in [Entries -> Entries],
         \A x \in Entries : set[x].eui64 = x.eui64
  PROVE  LateChain(u, i, set) = Changed(u, i, set)
<1>1. ASSUME NEW x \in [table : Tables, i : Idx \cup {NullIndex}],
             x.i # NullIndex
      PROVE  FollowLate(x, set) = Follow(x, set)
  <2> DEFINE v == [x.table EXCEPT ![x.i] = set[@]]
  <2>1. x.i \in Idx /\ x.table \in [Idx -> Entries]
    BY <1>1 DEF Tables
  <2>2. \A j \in Idx : v[j].eui64 = x.table[j].eui64
    BY <2>1
  <2>3. {j \in Idx : j > x.i /\ v[j].eui64 = v[x.i].eui64}
          = {j \in Idx : j > x.i /\ x.table[j].eui64 = x.table[x.i].eui64}
    BY <2>1, <2>2
  <2> HIDE DEF v
  <2>4. FindNextEndpoint(v, x.i) = FindNextEndpoint(x.table, x.i)
    BY <2>3 DEF FindNextEndpoint
  <2> QED
    BY <2>4 DEF FollowLate, Follow, v
<1>2. LateChain(u, i, set) = Chain(u, i, set)
  <2>1. [k \in 1 .. TableSize |-> [x \in [table : Tables, i : Idx \cup {NullIndex}] |->
           IF x.i = NullIndex THEN x ELSE FollowLate(x, set)]]
        = [k \in 1 .. TableSize |-> [x \in [table : Tables, i : Idx \cup {NullIndex}] |->
             IF x.i = NullIndex THEN x ELSE Follow(x, set)]]
    BY <1>1
  <2> QED
    BY <2>1 DEF LateChain, Chain
<1> QED
  BY <1>2, ChainIs

\* The three chains of the plugin.
LEMMA ChainsAre ==
  ASSUME NEW u \in Tables
  PROVE  /\ \A i \in Idx : DeleteEntry(u, i) = DeleteChain(u, i)
         /\ \A i \in Idx : \A s \in DeviceStates :
              UpdateDeviceState(u, i, s) = StateChain(u, i, s)
         /\ \A old : \A n \in NodeIds :
              UpdateNodeId(u, old, n) =
                NodeIdChain(u, IndexFromNodeId(u, old), n)
<1>1. ASSUME NEW i \in Idx PROVE DeleteEntry(u, i) = DeleteChain(u, i)
  <2> DEFINE set == [x \in Entries |-> NullEntry]
  <2>1. NullEntry \in Entries
    BY SizesAssumption
       DEF NullEntry, Entries, Endpoints, UnknownEndpoint, DeviceStates,
           StateNull
  <2>2. set \in [Entries -> Entries] /\ \A j \in Idx : set[u[j]] = NullEntry
    BY <2>1 DEF Tables
  <2>3. DeleteChain(u, i) = Chain(u, i, set)
    BY DEF DeleteChain
  <2> HIDE DEF set
  <2> QED
    BY <2>2, <2>3, ChainIs DEF Changed, DeleteEntry
<1>2. ASSUME NEW i \in Idx, NEW s \in DeviceStates
      PROVE  UpdateDeviceState(u, i, s) = StateChain(u, i, s)
  <2> DEFINE set == [x \in Entries |-> [x EXCEPT !.state = s]]
  <2>1. set \in [Entries -> Entries]
          /\ \A j \in Idx : set[u[j]] = [u[j] EXCEPT !.state = s]
    BY DEF Tables, Entries
  <2>2. /\ StateChain(u, i, s) = LateChain(u, i, set)
        /\ \A x \in Entries : set[x].eui64 = x.eui64
    BY DEF StateChain, Entries
  <2> HIDE DEF set
  <2>3. LateChain(u, i, set) = Changed(u, i, set)
    BY <2>1, <2>2, LateChainIs
  <2>4. Changed(u, i, set) =
          [j \in Idx |-> IF j \in SameDeviceFrom(u, i)
                         THEN [u[j] EXCEPT !.state = s] ELSE u[j]]
    BY <2>1 DEF Changed
  <2> QED
    BY <2>2, <2>3, <2>4 DEF UpdateDeviceState
<1>3. ASSUME NEW old, NEW n \in NodeIds
      PROVE  UpdateNodeId(u, old, n) =
               NodeIdChain(u, IndexFromNodeId(u, old), n)
  <2> DEFINE set == [x \in Entries |-> [x EXCEPT !.nodeId = n]]
             i == IndexFromNodeId(u, old)
             S == {j \in Idx : u[j].nodeId = old}
  <2>1. set \in [Entries -> Entries]
          /\ \A j \in Idx : set[u[j]] = [u[j] EXCEPT !.nodeId = n]
    BY DEF Tables, Entries
  <2>2. /\ NodeIdChain(u, i, n) = LateChain(u, i, set)
        /\ \A x \in Entries : set[x].eui64 = x.eui64
    BY DEF NodeIdChain, Entries
  <2>3. i \in Idx \cup {NullIndex}
    <3>1. S \in SUBSET Idx /\ i = FirstOf(S)
      BY DEF IndexFromNodeId
    <3> HIDE DEF S, i
    <3> QED
      BY <3>1, FirstOfProperties
  <2>4. UpdateNodeId(u, old, n) =
          [j \in Idx |-> IF i \in Idx /\ j \in SameDeviceFrom(u, i)
                         THEN [u[j] EXCEPT !.nodeId = n] ELSE u[j]]
    BY DEF UpdateNodeId
  <2> HIDE DEF set, i
  <2>5. LateChain(u, i, set) = Changed(u, i, set)
    BY <2>1, <2>2, <2>3, LateChainIs
  <2>6. Changed(u, i, set) =
          [j \in Idx |-> IF i \in Idx /\ j \in SameDeviceFrom(u, i)
                         THEN [u[j] EXCEPT !.nodeId = n] ELSE u[j]]
    BY <2>1 DEF Changed
  <2>7. UpdateNodeId(u, old, n) = NodeIdChain(u, i, n)
    BY <2>2, <2>4, <2>5, <2>6
  <2> QED
    BY <2>7 DEF i
<1> QED
  BY <1>1, <1>2, <1>3

-----------------------------------------------------------------------------
(* Saving *)

\* After k iterations r lists the records of the occupied slots before k, which
\* f enumerates.
SavedTo(u, k, r, f) ==
  /\ r \in Seq(Records)
  /\ Enumerates(Len(r), f, {i \in Occupied(u) : i < k})
  /\ \A j \in 1 .. Len(r) : r[j] = RecordOf(u[f[j]])

\* An occupied slot is saved as a record.
LEMMA RecordType ==
  ASSUME NEW u \in Tables, NEW i \in Occupied(u)
  PROVE  RecordOf(u[i]) \in Records
BY DEF Tables, Occupied, Entries, RecordOf, Records

\* One iteration of the save loop.
LEMMA SaveStep ==
  ASSUME NEW u \in Tables, NEW k \in Idx, NEW r, NEW f, SavedTo(u, k, r, f)
  PROVE  \E g : SavedTo(u, k + 1,
                        IF u[k].nodeId # NullNodeId
                        THEN Append(r, RecordOf(u[k])) ELSE r, g)
<1> DEFINE m == Len(r)
           K == {i \in Occupied(u) : i < k}
           L == {i \in Occupied(u) : i < k + 1}
<1>1. /\ m \in Nat /\ k \in Nat /\ r \in Seq(Records)
      /\ f \in [1 .. m -> K]
      /\ \A a, b \in 1 .. m : a < b => f[a] < f[b]
      /\ \A i \in K : \E a \in 1 .. m : f[a] = i
      /\ \A j \in 1 .. m : r[j] = RecordOf(u[f[j]])
  BY SizesAssumption DEF SavedTo, Enumerates, Idx
<1>2. Occupied(u) \subseteq Nat
  BY DEF Occupied, Idx
<1>3. CASE u[k].nodeId # NullNodeId
  <2> DEFINE v == Append(r, RecordOf(u[k]))
             g == [j \in 1 .. m + 1 |-> IF j = m + 1 THEN k ELSE f[j]]
  <2>1. k \in Occupied(u)
    BY <1>3 DEF Occupied
  <2>2. /\ v \in Seq(Records) /\ Len(v) = m + 1
        /\ v[m + 1] = RecordOf(u[k]) /\ \A j \in 1 .. m : v[j] = r[j]
    BY <1>1, <2>1, RecordType
  <2>3. \A j \in 1 .. m + 1 : j = m + 1 \/ j \in 1 .. m
    BY <1>1
  <2>4. K \subseteq L /\ k \in L /\ \A i \in L : i = k \/ i \in K
    BY <1>1, <1>2, <2>1
  <2>5. g[m + 1] = k /\ \A j \in 1 .. m : g[j] = f[j] /\ f[j] \in K /\ f[j] < k
    BY <1>1
  <2>6. g \in [1 .. m + 1 -> L]
    BY <1>1, <2>3, <2>4
  <2> HIDE DEF g, v, L
  <2>7. ASSUME NEW a \in 1 .. m + 1, NEW b \in 1 .. m + 1, a < b
        PROVE g[a] < g[b]
    <3>1. a \in 1 .. m
      BY <1>1, <2>7
    <3>2. CASE b = m + 1
      BY <2>5, <3>1, <3>2
    <3>3. CASE b \in 1 .. m
      BY <1>1, <2>5, <2>7, <3>1, <3>3
    <3> QED
      BY <2>3, <3>2, <3>3
  <2>8. \A i \in L : \E a \in 1 .. m + 1 : g[a] = i
    <3> TAKE i \in L
    <3>1. CASE i = k
      BY <1>1, <2>5, <3>1
    <3>2. CASE i \in K
      <4>1. PICK a \in 1 .. m : f[a] = i
        BY <1>1, <3>2
      <4> QED
        BY <1>1, <2>5, <4>1
    <3> QED
      BY <2>4, <3>1, <3>2
  <2>9. \A j \in 1 .. m + 1 : v[j] = RecordOf(u[g[j]])
    BY <1>1, <2>2, <2>3, <2>5
  <2>10. SavedTo(u, k + 1, v, g)
    BY <2>2, <2>6, <2>7, <2>8, <2>9 DEF SavedTo, Enumerates, L
  <2> QED
    BY <1>3, <2>10 DEF v
<1>4. CASE u[k].nodeId = NullNodeId
  <2>1. k \notin Occupied(u)
    BY <1>4 DEF Occupied
  <2>2. L = K
    BY <1>1, <1>2, <2>1
  <2>3. SavedTo(u, k + 1, r, f)
    BY <2>2 DEF SavedTo
  <2> QED
    BY <1>4, <2>3
<1> QED
  BY <1>3, <1>4

\* A table has one image: the one that some enumeration of its slots gives.
LEMMA SavedIs ==
  ASSUME NEW u \in Tables, NEW r, NEW f, NEW m \in Nat,
         Enumerates(m, f, Occupied(u)), r \in Seq(Records), Len(r) = m,
         \A j \in 1 .. m : r[j] = RecordOf(u[f[j]])
  PROVE  SavedImages(u) = {r}
<1>1. Occupied(u) \in SUBSET Int
  BY DEF Occupied, Idx
<1>2. Cardinality(Occupied(u)) = m /\ Enumerations(Occupied(u)) = {f}
  BY <1>1, EnumerationIs
<1>3. r = [j \in 1 .. m |-> RecordOf(u[f[j]])]
  <2>1. r = [j \in 1 .. m |-> r[j]]
    OBVIOUS
  <2> QED
    BY <2>1
<1> QED
  BY <1>2, <1>3 DEF SavedImages

\* The save loop.
LEMMA SaveIs ==
  ASSUME NEW u \in Tables
  PROVE  SavedImages(u) = {SaveLoop(u)}
<1> DEFINE I == [k \in 0 .. TableSize |->
                   {r \in Seq(Records) : \E f : SavedTo(u, k, r, f)}]
           body == [k \in 1 .. TableSize |-> [r \in Seq(Records) |->
                      IF u[k - 1].nodeId # NullNodeId
                      THEN Append(r, RecordOf(u[k - 1])) ELSE r]]
           w == SaveLoop(u)
<1>1. TableSize \in Nat
  BY SizesAssumption
<1>2. <<>> \in I[0]
  <2>1. {i \in Occupied(u) : i < 0} = {}
    BY DEF Occupied, Idx
  <2>2. SavedTo(u, 0, <<>>, <<>>)
    BY <2>1 DEF SavedTo, Enumerates
  <2> QED
    BY <1>1, <2>2
<1>3. ASSUME NEW k \in 1 .. TableSize, NEW r \in I[k - 1]
      PROVE  body[k][r] \in I[k]
  <2>1. k - 1 \in 0 .. TableSize /\ k \in 0 .. TableSize /\ k - 1 \in Idx
          /\ (k - 1) + 1 = k
    BY <1>1 DEF Idx
  <2>2. r \in Seq(Records)
    BY <1>3, <2>1
  <2>3. PICK f : SavedTo(u, k - 1, r, f)
    BY <1>3, <2>1
  <2> DEFINE v == IF u[k - 1].nodeId # NullNodeId
                  THEN Append(r, RecordOf(u[k - 1])) ELSE r
  <2>4. body[k][r] = v
    BY <2>2
  <2>5. PICK g : SavedTo(u, (k - 1) + 1, v, g)
    BY <2>1, <2>3, SaveStep
  <2> HIDE DEF v, body
  <2>6. SavedTo(u, k, v, g) /\ v \in Seq(Records)
    BY <2>1, <2>5 DEF SavedTo
  <2> QED
    BY <2>1, <2>4, <2>6
<1>4. w = Loop(TableSize, <<>>, body)
  BY DEF SaveLoop
<1> HIDE DEF I, body, w
<1>5. w \in I[TableSize]
  BY <1>1, <1>2, <1>3, <1>4, LoopRule
<1>6. PICK f : SavedTo(u, TableSize, w, f)
  BY <1>1, <1>5 DEF I
<1> DEFINE K == {i \in Occupied(u) : i < TableSize}
<1>7. K = Occupied(u)
  BY <1>1 DEF Occupied, Idx
<1>8. /\ w \in Seq(Records)
      /\ Enumerates(Len(w), f, K)
      /\ \A j \in 1 .. Len(w) : w[j] = RecordOf(u[f[j]])
  BY <1>6 DEF SavedTo
<1> HIDE DEF K
<1>9. Len(w) \in Nat /\ Enumerates(Len(w), f, Occupied(u))
  BY <1>7, <1>8
<1> QED
  BY <1>8, <1>9, SavedIs DEF w

-----------------------------------------------------------------------------
(* Loading *)

\* The numbers of a text are of the kind their places say.
TypedText(text) ==
  /\ Len(text.numbers) \in Nat
  /\ \A i \in 1 .. Len(text.numbers) :
       /\ i % 3 = 1 => text.numbers[i] \in NodeIds \cup {NullNodeId}
       /\ i % 3 = 2 => text.numbers[i] \in Endpoints
       /\ i % 3 = 0 => text.numbers[i] \in Euis \cup {NullEui}

\* The first w records of d are read from the text, and the end of the file is
\* noticed with the next one.
ReadsFirst(text, d, w) ==
  /\ TypedText(text)
  /\ w \in 0 .. Len(d)
  /\ \A k \in Nat : feof(text, k) <=> k > w
  /\ \A k \in 1 .. w : /\ text.numbers[3 * k - 2] = d[k].nodeId
                       /\ text.numbers[3 * k - 1] = d[k].endpoint
                       /\ text.numbers[3 * k] = d[k].eui64

\* The end mark follows those records.
EndsWithMark(text, w) ==
  Len(text.numbers) = 3 * w + 1 /\ text.numbers[3 * w + 1] = NullNodeId

EntryOf(r) ==
  [nodeId |-> r.nodeId, endpoint |-> r.endpoint, eui64 |-> r.eui64,
   state |-> StateJoined]

LoadStates == [table : Tables, left : Leftovers, ended : BOOLEAN]

\* What the k-th iteration reads to.
Number(text, i, v) == IF i <= Len(text.numbers) THEN text.numbers[i] ELSE v

ReadEntry(x, text, k) ==
  LET n == Number(text, 3 * k - 2, x.left.nodeId)
      p == Number(text, 3 * k - 1, x.left.endpoint)
  IN  IF n = NullNodeId
      THEN [x.table[k - 1] EXCEPT !.nodeId = n, !.endpoint = p]
      ELSE [nodeId |-> n, endpoint |-> p,
            eui64 |-> Number(text, 3 * k, x.left.eui64), state |-> StateJoined]

ReadAt(y, x, text, k) ==
  /\ y \in LoadStates
  /\ y.left.endpoint = x.left.endpoint
  /\ y.ended = feof(text, k)
  /\ \A j \in Idx :
       y.table[j] = IF j = k - 1 THEN ReadEntry(x, text, k) ELSE x.table[j]

\* One call of LoadAt reads one entry to its slot.
LEMMA LoadAtReads ==
  ASSUME NEW text, TypedText(text), NEW k \in 1 .. TableSize,
         NEW x \in LoadStates
  PROVE  ReadAt(LoadAt(x, text, k), x, text, k)
<1> DEFINE n == Number(text, 3 * k - 2, x.left.nodeId)
           p == Number(text, 3 * k - 1, x.left.endpoint)
           e == Number(text, 3 * k, x.left.eui64)
           z == ReadEntry(x, text, k)
           v == [x.table EXCEPT ![k - 1] = z]
           l == [x.left EXCEPT !.nodeId = n]
           y == [table |-> v, left |-> l, ended |-> feof(text, k)]
<1>1. /\ TableSize \in Nat /\ k \in Nat /\ k - 1 \in Idx
      /\ 3 * (k - 1) + 1 = 3 * k - 2 /\ 3 * (k - 1) + 2 = 3 * k - 1
         /\ 3 * (k - 1) + 3 = 3 * k
  BY SizesAssumption DEF Idx
<1>2. LoadAt(x, text, k) = y
  BY <1>1 DEF LoadAt, ReadEntry, Number
<1>3. /\ x.table \in [Idx -> Entries] /\ x.left \in Leftovers
      /\ x.left.nodeId \in NodeIds \cup {NullNodeId}
         /\ x.left.endpoint \in Endpoints
      /\ x.left.eui64 \in Euis \cup {NullEui}
  BY DEF LoadStates, Tables, Leftovers
<1>4. (3 * k - 2) % 3 = 1 /\ (3 * k - 1) % 3 = 2 /\ (3 * k) % 3 = 0
      /\ 3 * k - 2 >= 1 /\ 3 * k - 1 >= 1 /\ 3 * k >= 1
      /\ 3 * k - 2 \in Int /\ 3 * k - 1 \in Int /\ 3 * k \in Int
  BY <1>1
<1>5. ASSUME NEW i \in Int, i >= 1, NEW c
      PROVE  /\ i % 3 = 1 /\ c \in NodeIds \cup {NullNodeId} =>
                  Number(text, i, c) \in NodeIds \cup {NullNodeId}
             /\ i % 3 = 2 /\ c \in Endpoints => Number(text, i, c) \in Endpoints
             /\ i % 3 = 0 /\ c \in Euis \cup {NullEui} =>
                  Number(text, i, c) \in Euis \cup {NullEui}
  <2>1. CASE i <= Len(text.numbers)
    <3>1. i \in 1 .. Len(text.numbers) /\ Number(text, i, c) = text.numbers[i]
      BY <1>5, <2>1 DEF TypedText, Number
    <3> QED
      BY <3>1 DEF TypedText
  <2>2. CASE ~ (i <= Len(text.numbers))
    BY <2>2 DEF Number
  <2> QED
    BY <2>1, <2>2
<1>6. n \in NodeIds \cup {NullNodeId} /\ p \in Endpoints
        /\ e \in Euis \cup {NullEui}
  BY <1>3, <1>4, <1>5
<1>7. z = IF n = NullNodeId
          THEN [x.table[k - 1] EXCEPT !.nodeId = n, !.endpoint = p]
          ELSE [nodeId |-> n, endpoint |-> p, eui64 |-> e,
                state |-> StateJoined]
  BY DEF ReadEntry
<1> HIDE DEF n, p, e, z
<1>8. z \in Entries
  <2>1. x.table[k - 1] \in Entries
    BY <1>1, <1>3
  <2> QED
    BY <1>6, <1>7, <2>1 DEF Entries, DeviceStates
<1>9. v \in Tables /\ \A j \in Idx : v[j] = IF j = k - 1 THEN z ELSE x.table[j]
  BY <1>1, <1>3, <1>8 DEF Tables
<1>10. l \in Leftovers /\ l.endpoint = x.left.endpoint
  BY <1>3, <1>6 DEF Leftovers
<1>11. feof(text, k) \in BOOLEAN
  BY DEF feof
<1> HIDE DEF v, l
<1>12. /\ y \in LoadStates /\ y.table = v /\ y.left = l
          /\ y.ended = feof(text, k)
  BY <1>9, <1>10, <1>11 DEF LoadStates
<1> HIDE DEF y
<1> QED
  BY <1>2, <1>9, <1>10, <1>12 DEF z, ReadAt

\* After k iterations: the records read so far are in their slots, the slots
\* behind them are freed once the end was noticed, the others as they were.
LoadedTo(u, text, g, d, w, k, x) ==
  /\ x \in LoadStates
  /\ x.left.endpoint = g
  /\ x.ended <=> k > w
  /\ \A j \in Idx :
       /\ j < k /\ j < w => x.table[j] = EntryOf(d[j + 1])
       /\ j < k /\ j > w => x.table[j] = [u[j] EXCEPT !.nodeId = NullNodeId]
       /\ j < k /\ j = w /\ EndsWithMark(text, w) =>
            x.table[j] = [u[j] EXCEPT !.nodeId = NullNodeId, !.endpoint = g]
       /\ ~ (j < k) => x.table[j] = u[j]

\* One iteration of the load loop.
LEMMA LoadStep ==
  ASSUME NEW u \in Tables, NEW text, NEW g, NEW d \in Seq(Records), NEW w,
         ReadsFirst(text, d, w), NEW k \in 1 .. TableSize, NEW x,
         LoadedTo(u, text, g, d, w, k - 1, x)
  PROVE  LoadedTo(u, text, g, d, w, k,
                  IF x.ended THEN [x EXCEPT !.table[k - 1].nodeId = NullNodeId]
                  ELSE LoadAt(x, text, k))
<1> DEFINE l == k - 1
           y == IF x.ended THEN [x EXCEPT !.table[k - 1].nodeId = NullNodeId]
                ELSE LoadAt(x, text, k)
<1>1. /\ TableSize \in Nat /\ k \in Nat /\ l \in Nat /\ l \in Idx /\ k = l + 1
      /\ Idx \subseteq Nat /\ Len(d) \in Nat /\ w \in Nat /\ w <= Len(d)
  BY SizesAssumption DEF Idx, ReadsFirst
<1>2. /\ x \in LoadStates /\ x.left.endpoint = g /\ (x.ended <=> l > w)
      /\ \A j \in Idx :
           /\ j < l /\ j < w => x.table[j] = EntryOf(d[j + 1])
           /\ j < l /\ j > w => x.table[j] = [u[j] EXCEPT !.nodeId = NullNodeId]
           /\ j < l /\ j = w /\ EndsWithMark(text, w) =>
                x.table[j] = [u[j] EXCEPT !.nodeId = NullNodeId, !.endpoint = g]
           /\ ~ (j < l) => x.table[j] = u[j]
  BY DEF LoadedTo
<1>3. x.table \in [Idx -> Entries] /\ u \in [Idx -> Entries]
  BY <1>2 DEF LoadStates, Tables
<1> HIDE DEF l
<1>4. x.table[l] = u[l]
  <2>1. ~ (l < l)
    BY <1>1
  <2> QED
    BY <1>1, <1>2, <2>1
\* It is enough to know the one slot that the iteration sets.
<1>5. ASSUME NEW v, NEW z,
             v \in LoadStates, v.left.endpoint = g, v.ended <=> k > w,
             \A j \in Idx : v.table[j] = IF j = l THEN z ELSE x.table[j],
             l < w => z = EntryOf(d[l + 1]),
             l > w => z = [u[l] EXCEPT !.nodeId = NullNodeId],
             l = w /\ EndsWithMark(text, w) =>
               z = [u[l] EXCEPT !.nodeId = NullNodeId, !.endpoint = g]
      PROVE  LoadedTo(u, text, g, d, w, k, v)
  <2>1. ASSUME NEW j \in Idx
        PROVE  /\ j < k /\ j < w => v.table[j] = EntryOf(d[j + 1])
               /\ j < k /\ j > w =>
                    v.table[j] = [u[j] EXCEPT !.nodeId = NullNodeId]
               /\ j < k /\ j = w /\ EndsWithMark(text, w) =>
                    v.table[j] = [u[j] EXCEPT !.nodeId = NullNodeId,
                                              !.endpoint = g]
               /\ ~ (j < k) => v.table[j] = u[j]
    <3>1. CASE j = l
      <4>1. j < k /\ v.table[j] = z
        BY <1>1, <1>5, <3>1
      <4> QED
        BY <1>5, <3>1, <4>1
    <3>2. CASE j # l
      <4>1. (j < k <=> j < l) /\ v.table[j] = x.table[j]
        BY <1>1, <1>5, <3>2
      <4> QED
        BY <1>2, <4>1
    <3> QED
      BY <3>1, <3>2
  <2> QED
    BY <1>5, <2>1 DEF LoadedTo
<1>6. CASE x.ended
  <2> DEFINE z == [x.table[l] EXCEPT !.nodeId = NullNodeId]
             v == [x.table EXCEPT ![l] = z]
  <2>1. y = [x EXCEPT !.table = v]
    BY <1>6 DEF l
  <2>2. z \in Entries
    <3>1. x.table[l] \in Entries
      BY <1>1, <1>3
    <3> QED
      BY <3>1 DEF Entries
  <2>3. v \in Tables /\ \A j \in Idx : v[j] = IF j = l THEN z ELSE x.table[j]
    <3> HIDE DEF z
    <3> QED
      BY <1>1, <1>3, <2>2 DEF Tables
  <2>4. z = [u[l] EXCEPT !.nodeId = NullNodeId]
    BY <1>4
  <2> HIDE DEF v, y, z
  <2>5. y \in LoadStates /\ y.left = x.left /\ y.ended = x.ended /\ y.table = v
    BY <1>2, <2>1, <2>3 DEF LoadStates
  <2>6. l > w /\ (y.ended <=> k > w)
    <3>1. l > w
      BY <1>2, <1>6
    <3>2. k > w
      BY <1>1, <3>1
    <3> QED
      BY <1>6, <2>5, <3>1, <3>2
  <2>7. ~ (l < w) /\ l # w
    BY <1>1, <2>6
  <2>8. LoadedTo(u, text, g, d, w, k, y)
    BY <1>2, <1>5, <2>3, <2>4, <2>5, <2>6, <2>7
  <2> QED
    BY <2>8 DEF y
<1>7. CASE ~ x.ended
  <2> DEFINE z == ReadEntry(x, text, k)
  <2>1. y = LoadAt(x, text, k)
    BY <1>7
  <2> HIDE DEF y
  <2>2. /\ y \in LoadStates /\ y.left.endpoint = x.left.endpoint
        /\ y.ended = feof(text, k)
        /\ \A j \in Idx : y.table[j] = IF j = l THEN z ELSE x.table[j]
    <3>1. TypedText(text)
      BY DEF ReadsFirst
    <3> HIDE DEF z
    <3>2. x \in LoadStates
      BY <1>2
    <3>3. ReadAt(y, x, text, k)
      BY <2>1, <3>1, <3>2, LoadAtReads
    <3> QED
      BY <3>3 DEF ReadAt, l, z
  <2>3. ~ (l > w) /\ (y.ended <=> k > w)
    <3>1. feof(text, k) <=> k > w
      BY <1>1 DEF ReadsFirst
    <3> QED
      BY <1>2, <1>7, <2>2, <3>1
  <2>4. ASSUME l < w PROVE z = EntryOf(d[l + 1])
    <3>1. k \in 1 .. w /\ k \in 1 .. Len(d) /\ ~ (k > w)
      BY <1>1, <2>4
    <3>2. ~ (Len(text.numbers) < 3 * k)
      BY <1>1, <3>1 DEF ReadsFirst, feof
    <3>3. 3 * k - 2 <= Len(text.numbers) /\ 3 * k - 1 <= Len(text.numbers)
          /\ 3 * k <= Len(text.numbers)
      BY <1>1, <3>2 DEF ReadsFirst, TypedText
    <3>4. d[k].nodeId # NullNodeId
      <4>1. d[k] \in Records
        BY <3>1, ElementOfSeq
      <4> QED
        BY <4>1, NullAssumption DEF Records
    <3>5. /\ text.numbers[3 * k - 2] = d[k].nodeId
          /\ text.numbers[3 * k - 1] = d[k].endpoint
          /\ text.numbers[3 * k] = d[k].eui64
      BY <3>1 DEF ReadsFirst
    <3>6. z = EntryOf(d[k])
      BY <3>3, <3>4, <3>5 DEF ReadEntry, Number, EntryOf
    <3> QED
      BY <1>1, <3>6
  <2>5. ASSUME l = w, EndsWithMark(text, w)
        PROVE  z = [u[l] EXCEPT !.nodeId = NullNodeId, !.endpoint = g]
    <3>1. 3 * k - 2 = 3 * w + 1 /\ Len(text.numbers) = 3 * w + 1
          /\ text.numbers[3 * w + 1] = NullNodeId
      BY <1>1, <2>5 DEF EndsWithMark
    <3>2. 3 * k - 2 <= Len(text.numbers) /\ ~ (3 * k - 1 <= Len(text.numbers))
      BY <1>1, <3>1
    <3>3. x.table[k - 1] = u[l]
      BY <1>4 DEF l
    <3> QED
      BY <1>2, <3>1, <3>2, <3>3 DEF ReadEntry, Number
  <2> HIDE DEF z
  <2>6. LoadedTo(u, text, g, d, w, k, y)
    BY <1>2, <1>5, <2>2, <2>3, <2>4, <2>5
  <2> QED
    BY <2>6 DEF y
<1> QED
  BY <1>6, <1>7

\* The load loop.
LEMMA LoadIs ==
  ASSUME NEW u \in Tables, NEW text, NEW left \in Leftovers,
         NEW d \in Seq(Records),
         NEW w, ReadsFirst(text, d, w)
  PROVE  \E y : /\ LoadedTo(u, text, left.endpoint, d, w, TableSize, y)
                /\ LoadLoop(u, text, left) = y.table
<1> DEFINE g == left.endpoint
           x0 == [table |-> u, left |-> left, ended |-> FALSE]
           I == [k \in 0 .. TableSize |->
                   {x \in LoadStates : LoadedTo(u, text, g, d, w, k, x)}]
           body == [k \in 1 .. TableSize |->
                      [x \in [table : Tables, left : Leftovers,
                              ended : BOOLEAN] |->
                         IF x.ended
                         THEN [x EXCEPT !.table[k - 1].nodeId = NullNodeId]
                         ELSE LoadAt(x, text, k)]]
           y == Loop(TableSize, x0, body)
<1>1. TableSize \in Nat /\ Idx \subseteq Nat /\ w \in Nat
  BY SizesAssumption DEF Idx, ReadsFirst
<1>2. x0 \in I[0]
  <2>1. x0 \in LoadStates /\ x0.table = u /\ x0.left = left /\ x0.ended = FALSE
    BY DEF LoadStates
  <2> HIDE DEF x0
  <2>2. ~ (0 > w) /\ \A j \in Idx : ~ (j < 0)
    BY <1>1
  <2>3. LoadedTo(u, text, g, d, w, 0, x0)
    BY <2>1, <2>2 DEF LoadedTo
  <2> QED
    BY <1>1, <2>1, <2>3
<1>3. ASSUME NEW k \in 1 .. TableSize, NEW x \in I[k - 1]
      PROVE  body[k][x] \in I[k]
  <2>1. k - 1 \in 0 .. TableSize /\ k \in 0 .. TableSize
    BY <1>1
  <2>2. x \in LoadStates /\ LoadedTo(u, text, g, d, w, k - 1, x)
    BY <1>3, <2>1
  <2> DEFINE v == IF x.ended THEN [x EXCEPT !.table[k - 1].nodeId = NullNodeId]
                  ELSE LoadAt(x, text, k)
  <2>3. body[k][x] = v
    BY <2>2 DEF LoadStates
  <2>4. LoadedTo(u, text, g, d, w, k, v)
    BY <2>2, LoadStep
  <2> HIDE DEF v, body
  <2>5. v \in LoadStates
    BY <2>4 DEF LoadedTo
  <2> QED
    BY <2>1, <2>3, <2>4, <2>5
<1>4. LoadLoop(u, text, left) = y.table
  BY DEF LoadLoop
<1> HIDE DEF I, body, x0
<1>5. y \in I[TableSize]
  BY <1>1, <1>2, <1>3, LoopRule
<1>6. LoadedTo(u, text, g, d, w, TableSize, y)
  BY <1>1, <1>5 DEF I
<1> HIDE DEF y
<1> QED
  BY <1>4, <1>6

Numbers == NodeIds \cup {NullNodeId} \cup Endpoints \cup Euis \cup {NullEui}

\* Where the numbers of a record are in the text.
LEMMA TextIs ==
  ASSUME NEW d \in Seq(Records)
  PROVE  /\ Text(d) \in Seq(Numbers)
         /\ Len(Text(d)) = 3 * Len(d) + 1
         /\ Text(d)[3 * Len(d) + 1] = NullNodeId
         /\ \A k \in 1 .. Len(d) : /\ Text(d)[3 * k - 2] = d[k].nodeId
                                   /\ Text(d)[3 * k - 1] = d[k].endpoint
                                   /\ Text(d)[3 * k] = d[k].eui64
         /\ \A i \in 1 .. 3 * Len(d) + 1 :
              /\ i % 3 = 1 => Text(d)[i] \in NodeIds \cup {NullNodeId}
              /\ i % 3 = 2 => Text(d)[i] \in Endpoints
              /\ i % 3 = 0 => Text(d)[i] \in Euis \cup {NullEui}
<1> DEFINE n == 3 * Len(d)
           V == Numbers
<1>1. Len(d) \in Nat /\ n \in Nat /\ n % 3 = 0 /\ (n + 1) % 3 = 1
  OBVIOUS
<1>2. ASSUME NEW i \in 1 .. n
      PROVE  LET k == (i + 2) \div 3
             IN  /\ k \in 1 .. Len(d)
                 /\ i % 3 = 1 => i = 3 * k - 2 /\ Text(d)[i] = d[k].nodeId
                 /\ i % 3 = 2 => i = 3 * k - 1 /\ Text(d)[i] = d[k].endpoint
                 /\ i % 3 = 0 => i = 3 * k /\ Text(d)[i] = d[k].eui64
                 /\ i % 3 \in {0, 1, 2}
  <2> DEFINE k == (i + 2) \div 3
  <2>1. k \in 1 .. Len(d) /\ i % 3 \in {0, 1, 2}
    BY <1>1
  <2>2. /\ i % 3 = 1 => i = 3 * k - 2
        /\ i % 3 = 2 => i = 3 * k - 1
        /\ i % 3 = 0 => i = 3 * k
    BY <1>1
  <2>3. i \in 1 .. n + 1 /\ ~ (i > n)
    BY <1>1
  <2>4. Text(d)[i] = CASE i % 3 = 1 -> d[k].nodeId
                       [] i % 3 = 2 -> d[k].endpoint
                       [] i % 3 = 0 -> d[k].eui64
    BY <2>3 DEF Text
  <2> HIDE DEF k
  <2>5. /\ i % 3 = 1 => Text(d)[i] = d[k].nodeId
        /\ i % 3 = 2 => Text(d)[i] = d[k].endpoint
        /\ i % 3 = 0 => Text(d)[i] = d[k].eui64
    BY <2>4
  <2> QED
    BY <2>1, <2>2, <2>5 DEF k
<1>3. Text(d)[n + 1] = NullNodeId
  <2>1. n + 1 \in 1 .. n + 1 /\ n + 1 > n
    BY <1>1
  <2> QED
    BY <2>1 DEF Text
<1>4. ASSUME NEW k \in 1 .. Len(d)
      PROVE  /\ Text(d)[3 * k - 2] = d[k].nodeId
             /\ Text(d)[3 * k - 1] = d[k].endpoint
             /\ Text(d)[3 * k] = d[k].eui64
  <2>1. /\ 3 * k - 2 \in 1 .. n /\ (3 * k - 2) % 3 = 1
           /\ ((3 * k - 2) + 2) \div 3 = k
        /\ 3 * k - 1 \in 1 .. n /\ (3 * k - 1) % 3 = 2
           /\ ((3 * k - 1) + 2) \div 3 = k
        /\ 3 * k \in 1 .. n /\ (3 * k) % 3 = 0 /\ (3 * k + 2) \div 3 = k
    BY <1>1
  <2> HIDE DEF n
  <2>2. Text(d)[3 * k - 2] = d[k].nodeId
    BY <1>2, <2>1
  <2>3. Text(d)[3 * k - 1] = d[k].endpoint
    BY <1>2, <2>1
  <2>4. Text(d)[3 * k] = d[k].eui64
    BY <1>2, <2>1
  <2> QED
    BY <2>2, <2>3, <2>4
<1>5. ASSUME NEW i \in 1 .. n + 1
      PROVE  /\ i % 3 = 1 => Text(d)[i] \in NodeIds \cup {NullNodeId}
             /\ i % 3 = 2 => Text(d)[i] \in Endpoints
             /\ i % 3 = 0 => Text(d)[i] \in Euis \cup {NullEui}
             /\ i % 3 \in {0, 1, 2}
  <2>1. CASE i = n + 1
    BY <1>1, <1>3, <2>1
  <2>2. CASE i # n + 1
    <3>1. i \in 1 .. n
      BY <1>1, <2>2
    <3>2. d[(i + 2) \div 3] \in Records
      BY <1>2, <3>1, ElementOfSeq
    <3>3. /\ d[(i + 2) \div 3].nodeId \in NodeIds
          /\ d[(i + 2) \div 3].endpoint \in Endpoints
          /\ d[(i + 2) \div 3].eui64 \in Euis \cup {NullEui}
      BY <3>2 DEF Records
    <3> QED
      BY <1>2, <3>1, <3>3
  <2> QED
    BY <2>1, <2>2
<1>6. Text(d) \in [1 .. n + 1 -> V]
  <2>1. \A i \in 1 .. n + 1 : Text(d)[i] \in V
    BY <1>5 DEF Numbers
  <2> HIDE DEF V
  <2> QED
    BY <2>1 DEF Text
<1>7. Text(d) \in Seq(V) /\ Len(Text(d)) = n + 1
  <2> HIDE DEF V, n
  <2> QED
    BY <1>1, <1>6
<1> QED
  BY <1>3, <1>4, <1>5, <1>7

\* The whole file is read to its end mark.
LEMMA WholeText ==
  ASSUME NEW d \in Seq(Records)
  PROVE  LET text == [numbers |-> Text(d), cut |-> FALSE]
         IN  ReadsFirst(text, d, Len(d)) /\ EndsWithMark(text, Len(d))
<1> DEFINE text == [numbers |-> Text(d), cut |-> FALSE]
           n == Len(d)
<1>1. /\ n \in Nat /\ text.numbers = Text(d) /\ text.cut = FALSE
      /\ Len(Text(d)) = 3 * n + 1 /\ Text(d)[3 * n + 1] = NullNodeId
  BY TextIs
<1>2. TypedText(text)
  BY <1>1, TextIs DEF TypedText
<1>3. ASSUME NEW k \in Nat PROVE feof(text, k) <=> k > n
  <2>1. feof(text, k) <=> 3 * n + 1 < 3 * k
    BY <1>1 DEF feof
  <2> QED
    BY <1>1, <2>1
<1>4. n \in 0 .. Len(d)
  BY <1>1
<1>5. \A k \in 1 .. n : /\ text.numbers[3 * k - 2] = d[k].nodeId
                        /\ text.numbers[3 * k - 1] = d[k].endpoint
                        /\ text.numbers[3 * k] = d[k].eui64
  BY <1>1, TextIs
<1> HIDE DEF text
<1>6. ReadsFirst(text, d, n)
  BY <1>2, <1>3, <1>4, <1>5 DEF ReadsFirst
<1>7. EndsWithMark(text, n)
  BY <1>1 DEF EndsWithMark
<1> QED
  BY <1>6, <1>7 DEF text

\* Of a torn file the numbers that are left are read to the last whole record.
LEMMA PrefixText ==
  ASSUME NEW d \in Seq(Records), NEW text, TypedText(text),
         NEW l \in 0 .. 3 * Len(d),
         text.cut \in BOOLEAN,
         Len(text.numbers) = l + (IF text.cut THEN 1 ELSE 0),
         \A i \in 1 .. l : text.numbers[i] = Text(d)[i]
  PROVE  ReadsFirst(text, d, l \div 3)
<1> DEFINE w == l \div 3
<1>1. Len(d) \in Nat /\ l \in Nat /\ w \in 0 .. Len(d) /\ 3 * w <= l
        /\ l < 3 * w + 3
  OBVIOUS
<1>2. ASSUME NEW k \in Nat PROVE feof(text, k) <=> k > w
  <2>1. feof(text, k) <=> l < 3 * k
    <3>1. CASE text.cut
      BY <1>1, <3>1 DEF feof
    <3>2. CASE ~ text.cut
      BY <1>1, <3>2 DEF feof
    <3> QED
      BY <3>1, <3>2
  <2> HIDE DEF w
  <2> QED
    BY <1>1, <2>1
<1> HIDE DEF w
<1>3. ASSUME NEW k \in 1 .. w
      PROVE  /\ text.numbers[3 * k - 2] = d[k].nodeId
             /\ text.numbers[3 * k - 1] = d[k].endpoint
             /\ text.numbers[3 * k] = d[k].eui64
  <2>1. /\ k \in 1 .. Len(d)
        /\ 3 * k - 2 \in 1 .. l /\ 3 * k - 1 \in 1 .. l /\ 3 * k \in 1 .. l
    BY <1>1
  <2> QED
    BY <2>1, TextIs
<1> QED
  BY <1>1, <1>2, <1>3 DEF ReadsFirst, w

\* The part of the file that holds whole records.
WholeRecords(text) == (Len(text.numbers) - (IF text.cut THEN 1 ELSE 0)) \div 3

\* Every torn file is such a prefix, with or without a cut number.
LEMMA TornTextsRead ==
  ASSUME NEW d \in Seq(Records), NEW text \in TornTexts(d)
  PROVE  ReadsFirst(text, d, WholeRecords(text))
<1> DEFINE whole == Text(d)
           n == 3 * Len(d)
           S == Numbers
           Values(k) == CASE k % 3 = 1 -> NodeIds
                          [] k % 3 = 2 -> Endpoints
                          [] k % 3 = 0 -> Euis \cup {NullEui}
<1>1. /\ n \in Nat /\ whole \in Seq(S) /\ Len(whole) = n + 1
      /\ \A i \in 1 .. n + 1 :
           /\ i % 3 = 1 => whole[i] \in NodeIds \cup {NullNodeId}
           /\ i % 3 = 2 => whole[i] \in Endpoints
           /\ i % 3 = 0 => whole[i] \in Euis \cup {NullEui}
  BY TextIs
<1>2. \/ \E k \in 0 .. n :
           text = [numbers |-> SubSeq(whole, 1, k), cut |-> FALSE]
      \/ \E k \in 1 .. n + 1 : \E v \in Values(k) :
           text = [numbers |-> Append(SubSeq(whole, 1, k - 1), v), cut |-> TRUE]
  <2>1. Len(whole) - 1 = n
    BY <1>1
  <2> HIDE DEF n
  <2> QED
    BY <1>1, <2>1 DEF TornTexts
<1> HIDE DEF whole, S
<1>3. ASSUME NEW l \in 0 .. n
      PROVE  LET s == SubSeq(whole, 1, l)
             IN  /\ s \in Seq(S) /\ Len(s) = l
                 /\ \A i \in 1 .. l : s[i] = whole[i]
  <2> HIDE DEF n
  <2> QED
    BY <1>1
\* It is enough to know how many numbers were written whole.
<1>4. ASSUME NEW l \in 0 .. n, TypedText(text), text.cut \in BOOLEAN,
             Len(text.numbers) = l + (IF text.cut THEN 1 ELSE 0),
             \A i \in 1 .. l : text.numbers[i] = whole[i]
      PROVE  ReadsFirst(text, d, WholeRecords(text))
  <2>1. Len(text.numbers) - (IF text.cut THEN 1 ELSE 0) = l
    BY <1>4
  <2> HIDE DEF n
  <2>2. ReadsFirst(text, d, l \div 3)
    BY <1>4, PrefixText DEF n, whole
  <2> QED
    BY <2>1, <2>2 DEF WholeRecords
<1>5. CASE \E k \in 0 .. n :
             text = [numbers |-> SubSeq(whole, 1, k), cut |-> FALSE]
  <2>1. PICK l \in 0 .. n :
               text = [numbers |-> SubSeq(whole, 1, l), cut |-> FALSE]
    BY <1>5
  <2> DEFINE s == SubSeq(whole, 1, l)
  <2>2. s \in Seq(S) /\ Len(s) = l /\ \A i \in 1 .. l : s[i] = whole[i]
    BY <1>3
  <2> HIDE DEF s, n
  <2>3. text.numbers = s /\ text.cut = FALSE
    BY <2>1 DEF s
  <2>4. \A i \in 1 .. l : i \in 1 .. n + 1
    BY <1>1
  <2>5. TypedText(text)
    BY <1>1, <2>2, <2>3, <2>4 DEF TypedText
  <2>6. Len(text.numbers) = l + (IF text.cut THEN 1 ELSE 0)
    BY <1>1, <2>2, <2>3
  <2> QED
    BY <1>4, <2>2, <2>3, <2>5, <2>6
<1>6. CASE \E k \in 1 .. n + 1 : \E v \in Values(k) :
             text = [numbers |-> Append(SubSeq(whole, 1, k - 1), v),
                     cut |-> TRUE]
  <2>1. PICK k \in 1 .. n + 1 : \E v \in Values(k) :
               text = [numbers |-> Append(SubSeq(whole, 1, k - 1), v),
                       cut |-> TRUE]
    BY <1>6
  <2>2. PICK v \in Values(k) :
               text = [numbers |-> Append(SubSeq(whole, 1, k - 1), v),
                       cut |-> TRUE]
    BY <2>1
  <2> DEFINE l == k - 1
             s == SubSeq(whole, 1, l)
  <2>3. /\ k % 3 = 1 => v \in NodeIds \cup {NullNodeId}
        /\ k % 3 = 2 => v \in Endpoints
        /\ k % 3 = 0 => v \in Euis \cup {NullEui}
    BY <2>2
  <2>4. l \in 0 .. n /\ l \in Nat /\ k = l + 1
    BY <1>1
  <2> HIDE DEF l, n, Values
  <2>5. s \in Seq(S) /\ Len(s) = l /\ \A i \in 1 .. l : s[i] = whole[i]
    BY <1>3, <2>4
  <2>6. text.numbers = Append(s, v) /\ text.cut = TRUE
    BY <2>2, <2>4 DEF s, l
  <2> HIDE DEF s
  <2>7. /\ Len(Append(s, v)) = k /\ Append(s, v)[k] = v
        /\ \A i \in 1 .. l : Append(s, v)[i] = s[i]
    BY <2>4, <2>5
  <2>8. \A i \in 1 .. k : i = k \/ (i \in 1 .. l /\ i \in 1 .. n + 1)
    BY <1>1, <2>4
  <2>9. TypedText(text)
    <3>1. ASSUME NEW i \in 1 .. k
          PROVE  /\ i % 3 = 1 => text.numbers[i] \in NodeIds \cup {NullNodeId}
                 /\ i % 3 = 2 => text.numbers[i] \in Endpoints
                 /\ i % 3 = 0 => text.numbers[i] \in Euis \cup {NullEui}
      <4>1. CASE i = k
        BY <2>3, <2>6, <2>7, <4>1
      <4>2. CASE i # k
        <5>1. i \in 1 .. n + 1 /\ text.numbers[i] = whole[i]
          BY <2>5, <2>6, <2>7, <2>8, <4>2
        <5> QED
          BY <1>1, <5>1
      <4> QED
        BY <4>1, <4>2
    <3>2. Len(text.numbers) = k /\ k \in Nat
      BY <2>4, <2>6, <2>7
    <3> QED
      BY <3>1, <3>2 DEF TypedText
  <2>10. Len(text.numbers) = l + (IF text.cut THEN 1 ELSE 0)
    BY <2>4, <2>6, <2>7
  <2>11. \A i \in 1 .. l : text.numbers[i] = whole[i]
    BY <2>5, <2>6, <2>7
  <2> QED
    BY <1>4, <2>4, <2>6, <2>9, <2>10, <2>11
<1> QED
  BY <1>2, <1>5, <1>6

\* A load of the whole file is what LoadTable says.
LEMMA WholeLoad ==
  ASSUME NEW u \in Tables, NEW d \in Seq(Records), NEW left \in Leftovers
  PROVE  LoadLoop(u, [numbers |-> Text(d), cut |-> FALSE], left)
           = LoadTable(u, d, left.endpoint)
<1> DEFINE text == [numbers |-> Text(d), cut |-> FALSE]
           w == Len(d)
           g == left.endpoint
<1>1. ReadsFirst(text, d, w) /\ EndsWithMark(text, w) /\ w \in Nat
  BY WholeText
<1> HIDE DEF text, w, g
<1>2. PICK y : LoadedTo(u, text, g, d, w, TableSize, y)
        /\ LoadLoop(u, text, left) = y.table
  BY <1>1, LoadIs DEF g
<1>3. y.table \in [Idx -> Entries] /\ u \in [Idx -> Entries]
  BY <1>2 DEF LoadedTo, LoadStates, Tables
<1>4. ASSUME NEW j \in Idx
      PROVE  y.table[j] =
               IF j < w THEN EntryOf(d[j + 1])
               ELSE [u[j] EXCEPT !.nodeId = NullNodeId,
                                 !.endpoint = IF j = w THEN g ELSE @]
  <2>1. j \in Nat /\ j < TableSize
    BY SizesAssumption DEF Idx
  <2>2. /\ j < w => y.table[j] = EntryOf(d[j + 1])
        /\ j > w => y.table[j] = [u[j] EXCEPT !.nodeId = NullNodeId]
        /\ j = w => y.table[j] = [u[j] EXCEPT !.nodeId = NullNodeId,
                                              !.endpoint = g]
    BY <1>1, <1>2, <2>1 DEF LoadedTo
  <2>3. CASE j < w
    BY <2>2, <2>3
  <2>4. CASE j = w
    BY <1>1, <2>2, <2>4
  <2>5. CASE j > w
    <3>1. u[j] \in Entries
      BY <1>3
    <3>2. [u[j] EXCEPT !.nodeId = NullNodeId]
            = [u[j] EXCEPT !.nodeId = NullNodeId, !.endpoint = u[j].endpoint]
      BY <3>1 DEF Entries
    <3>3. ~ (j < w) /\ j # w
      BY <1>1, <2>1, <2>5
    <3> QED
      BY <2>2, <2>5, <3>2, <3>3
  <2> QED
    BY <1>1, <2>1, <2>3, <2>4, <2>5
<1>5. LoadTable(u, d, g) =
        [j \in Idx |-> IF j < w THEN EntryOf(d[j + 1])
                       ELSE [u[j] EXCEPT !.nodeId = NullNodeId,
                                         !.endpoint = IF j = w THEN g ELSE @]]
  BY DEF LoadTable, EntryOf, w
<1>6. y.table = LoadTable(u, d, g)
  BY <1>3, <1>4, <1>5
<1> QED
  BY <1>2, <1>6 DEF text, g

\* What was loaded from a saved table is saved again as it was.
LEMMA LoadedIsSaved ==
  ASSUME NEW u \in Tables, NEW d \in Seq(Records), Len(d) <= TableSize,
         NEW g \in Endpoints
  PROVE  SaveLoop(LoadTable(u, d, g)) = d
<1> DEFINE v == LoadTable(u, d, g)
           m == Len(d)
           f == [k \in 1 .. m |-> k - 1]
<1>1. /\ m \in Nat /\ v \in Tables
      /\ \A i \in Idx : /\ i < m => /\ i + 1 \in 1 .. m
                                   /\ RecordOf(v[i]) = d[i + 1]
                        /\ i >= m => v[i].nodeId = NullNodeId
  BY LoadTableProperties DEF Tables
<1>2. \A k \in 1 .. m : k - 1 \in Idx /\ k - 1 < m /\ (k - 1) + 1 = k
  BY <1>1, SizesAssumption DEF Idx
<1> HIDE DEF v
<1>3. \A i \in Idx : i \in Int /\ (i < m \/ i >= m)
  BY <1>1 DEF Idx
<1>4. \A k \in 1 .. m : d[k] \in Records /\ d[k] = RecordOf(v[k - 1])
  BY <1>1, <1>2, ElementOfSeq
<1>5. ASSUME NEW k \in 1 .. m PROVE k - 1 \in Occupied(v)
  <2>1. d[k].nodeId \in NodeIds
    BY <1>4 DEF Records
  <2>2. d[k].nodeId = v[k - 1].nodeId
    <3>1. d[k] = RecordOf(v[k - 1])
      BY <1>4
    <3> QED
      BY ONLY <3>1 DEF RecordOf
  <2> QED
    BY <1>2, <2>1, <2>2, NullAssumption DEF Occupied
<1>6. \A i \in Occupied(v) : i \in Idx /\ i < m /\ i + 1 \in 1 .. m
  BY <1>1, <1>3 DEF Occupied
<1>7. f \in [1 .. m -> Occupied(v)] /\ \A k \in 1 .. m : f[k] = k - 1
  BY <1>5
<1> HIDE DEF f
<1>8. \A a, b \in 1 .. m : a < b => f[a] < f[b]
  BY <1>1, <1>7
<1>9. \A i \in Occupied(v) : \E k \in 1 .. m : f[k] = i
  <2> TAKE i \in Occupied(v)
  <2>1. i + 1 \in 1 .. m /\ (i + 1) - 1 = i
    BY <1>3, <1>6
  <2> QED
    BY <1>7, <2>1
<1>10. Enumerates(m, f, Occupied(v))
  BY <1>7, <1>8, <1>9 DEF Enumerates
<1>11. \A k \in 1 .. m : d[k] = RecordOf(v[f[k]])
  BY <1>4, <1>7
<1>12. SavedImages(v) = {d}
  BY <1>1, <1>10, <1>11, SavedIs
<1>13. SavedImages(v) = {SaveLoop(v)}
  BY <1>1, SaveIs
<1> QED
  BY <1>12, <1>13 DEF v

-----------------------------------------------------------------------------
(* The properties *)

\* The queue and the table a comparison starts from.
QueueAndTable == q \in Queues /\ Len(q) <= MaxQueueSize /\ t \in Tables

\* The slots that are compared are slots of a table.
LEMMA SomeEntriesType == SomeEntries \subseteq Entries
BY DEF SomeEntries

\* Queue and table keep their types.
LEMMA QueueAndTableType == Spec => []QueueAndTable
<1>1. Init => QueueAndTable
  <2>1. EmptyTable \in Tables
    BY EmptyTableType DEF Tables
  <2> QED
    BY <2>1, SizesAssumption DEF Init, QueueAndTable, Queues
<1>2. ASSUME QueueAndTable, [AppendTask \/ ClearQueue \/ SetSlot]_<<q, t>>
      PROVE  QueueAndTable'
  <2> USE DEF QueueAndTable
  <2>1. CASE AppendTask
    <3>1. PICK x \in SomeTasks : q' = Append(q, x)
      BY <2>1 DEF AppendTask
    <3>2. x \in Tasks
      BY DEF SomeTasks
    <3>3. q' \in Seq(Tasks) /\ Len(q') = Len(q) + 1
      BY <1>2, <3>1, <3>2 DEF Queues
    <3>4. Len(q) < MaxQueueSize /\ Len(q) \in Nat /\ MaxQueueSize \in Nat
            /\ t' = t
      BY <1>2, <2>1, SizesAssumption DEF AppendTask, Queues
    <3> QED
      BY <1>2, <3>3, <3>4 DEF Queues
  <2>2. CASE ClearQueue
    BY <1>2, <2>2, SizesAssumption DEF ClearQueue, Queues
  <2>3. CASE SetSlot
    <3>1. PICK i \in Idx, x \in SomeEntries : t' = [t EXCEPT ![i] = x]
      BY <2>3 DEF SetSlot
    <3>2. x \in Entries
      BY SomeEntriesType
    <3> QED
      BY <1>2, <2>3, <3>1, <3>2 DEF SetSlot, Tables
  <2>4. CASE UNCHANGED <<q, t>>
    BY <1>2, <2>4
  <2> QED
    BY <1>2, <2>1, <2>2, <2>3, <2>4
<1> QED
  BY <1>1, <1>2, PTL DEF Spec

\* bubbleSortQueue is a stable sort, whatever the size of the queue.
THEOREM SortIsStable == Spec => []BubbleSortIsStable
<1>1. QueueAndTable => BubbleSortIsStable
  BY BubbleSortSorts DEF QueueAndTable, BubbleSortIsStable
<1> QED
  BY <1>1, QueueAndTableType, PTL

\* addQueueEntry for each of one or two endpoints, sorting after each, is what
\* Enqueue says.
THEOREM AddingIsEnqueue == Spec => []AddingInTurnIsEnqueue
<1>1. QueueAndTable => AddingInTurnIsEnqueue
  <2>1. SomeTasks \subseteq Tasks
    BY DEF SomeTasks
  <2> QED
    BY <2>1, AddingInTurn DEF QueueAndTable, AddingInTurnIsEnqueue
<1> QED
  BY <1>1, QueueAndTableType, PTL

\* The deleting loop of the join and the leave handler deletes every second
\* task of a run of neighbours, as DeleteTasksOf says.
THEOREM DeletionSkips == Spec => []DeletionLoopSkips
<1>1. QueueAndTable => DeletionLoopSkips
  BY DeletionIs DEF QueueAndTable, DeletionLoopSkips
<1> QED
  BY <1>1, QueueAndTableType, PTL

\* updateTaskQueueByTick ages every task once and drops those that have waited
\* too long, as AgedQueues says.
THEOREM EveryTaskAges == Spec => []TickAgesEveryTask
<1>1. QueueAndTable => TickAgesEveryTask
  BY TickIs DEF QueueAndTable, TickAgesEveryTask
<1> QED
  BY <1>1, QueueAndTableType, PTL

\* The chains through emAfDeviceTableFindNextEndpoint change every slot of the
\* device from the first one on, and no other.
THEOREM ChainsReachAll == Spec => []ChainsReachTheDevice
<1>1. QueueAndTable => ChainsReachTheDevice
  <2>1. StateLeft \in DeviceStates
    BY DEF DeviceStates
  <2> QED
    BY <2>1, ChainsAre DEF QueueAndTable, ChainsReachTheDevice
<1> QED
  BY <1>1, QueueAndTableType, PTL

\* A save writes records, and no more of them than there are slots.
LEMMA SavedType ==
  ASSUME NEW u \in Tables
  PROVE  SaveLoop(u) \in Seq(Records) /\ Len(SaveLoop(u)) <= TableSize
<1>1. SaveLoop(u) \in SavedImages(u)
  BY SaveIs
<1> QED
  BY <1>1, SavedImageProperties DEF Tables

\* The other tables are tables.
LEMMA OtherTable ==
  ASSUME NEW i \in Idx, NEW x \in SomeEntries
  PROVE  [EmptyTable EXCEPT ![i] = x] \in Tables
BY SomeEntriesType, EmptyTableType DEF Tables

\* What emAfDeviceTableSave wrote emAfDeviceTableLoad brings back, into any
\* other table.
THEOREM LoadRestores == Spec => []LoadRestoresTheSavedTable
<1>1. ASSUME QueueAndTable PROVE LoadRestoresTheSavedTable
  <2>1. t \in Tables
    BY <1>1 DEF QueueAndTable
  <2> DEFINE d == SaveLoop(t)
  <2>2. SavedImages(t) = {d} /\ d \in Seq(Records) /\ Len(d) <= TableSize
    BY <2>1, SaveIs, SavedType
  <2> HIDE DEF d
  <2>3. ASSUME NEW i \in Idx, NEW x \in SomeEntries, NEW g \in Endpoints
        PROVE  LET other == [EmptyTable EXCEPT ![i] = x]
                   loaded == LoadTable(other, d, g)
               IN  /\ SaveLoop(loaded) = d
                   /\ loaded = LoadLoop(other,
                                 [numbers |-> Text(d), cut |-> FALSE],
                                 [nodeId |-> NullNodeId, endpoint |-> g,
                                  eui64 |-> NullEui])
    <3> DEFINE other == [EmptyTable EXCEPT ![i] = x]
               left == [nodeId |-> NullNodeId, endpoint |-> g,
                        eui64 |-> NullEui]
    <3>1. other \in Tables
      BY OtherTable
    <3>2. left \in Leftovers /\ left.endpoint = g
      BY DEF Leftovers
    <3> HIDE DEF other, left
    <3>3. SaveLoop(LoadTable(other, d, g)) = d
      BY <2>2, <3>1, LoadedIsSaved
    <3>4. LoadLoop(other, [numbers |-> Text(d), cut |-> FALSE], left)
            = LoadTable(other, d, g)
      BY <2>2, <3>1, <3>2, WholeLoad
    <3> QED
      BY <3>3, <3>4 DEF other, left
  <2> QED
    BY <2>2, <2>3 DEF LoadRestoresTheSavedTable, d
<1> QED
  BY <1>1, QueueAndTableType, PTL

\* Of a file that a crash cut short, wherever and in the middle of any number,
\* emAfDeviceTableLoad makes the records that were written whole, and at most
\* one slot behind them.
THEOREM TornSaveIsAPrefix == Spec => []TornSaveLoadsAPrefix
<1>1. ASSUME QueueAndTable PROVE TornSaveLoadsAPrefix
  <2>1. t \in Tables
    BY <1>1 DEF QueueAndTable
  <2> DEFINE d == SaveLoop(t)
  <2>2. d \in Seq(Records) /\ Len(d) <= TableSize /\ Len(d) \in Nat
    BY <2>1, SavedType
  <2> HIDE DEF d
  <2>3. ASSUME NEW text \in TornTexts(d), NEW i \in Idx, NEW x \in SomeEntries,
               NEW left \in Leftovers
        PROVE  LET loaded == LoadLoop([EmptyTable EXCEPT ![i] = x], text, left)
               IN  /\ \A j \in 0 .. WholeRecords(text) - 1 :
                        RecordOf(loaded[j]) = d[j + 1]
                   /\ Occupied(loaded) \subseteq 0 .. WholeRecords(text)
    <3> DEFINE other == [EmptyTable EXCEPT ![i] = x]
               w == WholeRecords(text)
    <3>1. other \in Tables
      BY OtherTable
    <3>2. ReadsFirst(text, d, w)
      BY <2>2, TornTextsRead
    <3> HIDE DEF other, w
    <3>3. PICK y : /\ LoadedTo(other, text, left.endpoint, d, w, TableSize, y)
                   /\ LoadLoop(other, text, left) = y.table
      BY <2>2, <3>1, <3>2, LoadIs
    <3>4. w \in Nat /\ w <= Len(d) /\ w <= TableSize /\ TableSize \in Nat
      BY <2>2, <3>2, SizesAssumption DEF ReadsFirst
    <3>5. ASSUME NEW j \in 0 .. w - 1
          PROVE  RecordOf(y.table[j]) = d[j + 1]
      <4>1. j \in Idx /\ j < TableSize /\ j < w /\ j + 1 \in 1 .. Len(d)
        BY <2>2, <3>4 DEF Idx
      <4>2. y.table[j] = EntryOf(d[j + 1])
        BY <3>3, <4>1 DEF LoadedTo
      <4>3. d[j + 1] \in Records
        BY <2>2, <4>1, ElementOfSeq
      <4> QED
        BY <4>2, <4>3 DEF EntryOf, RecordOf, Records
    <3>6. ASSUME NEW j \in Occupied(y.table) PROVE j \in 0 .. w
      <4>1. j \in Idx /\ j \in Nat /\ j < TableSize
              /\ y.table[j].nodeId # NullNodeId
        BY <3>4 DEF Occupied, Idx
      <4>2. ASSUME j > w PROVE FALSE
        <5>1. y.table[j] = [other[j] EXCEPT !.nodeId = NullNodeId]
          BY <3>3, <4>1, <4>2 DEF LoadedTo
        <5>2. other[j] \in Entries
          BY <3>1, <4>1 DEF Tables
        <5> QED
          BY <4>1, <5>1, <5>2 DEF Entries
      <4> QED
        BY <3>4, <4>1, <4>2
    <3> QED
      BY <3>3, <3>5, <3>6 DEF other, w
  <2> QED
    BY <2>3 DEF TornSaveLoadsAPrefix, WholeRecords, d
<1> QED
  BY <1>1, QueueAndTableType, PTL
=============================================================================
