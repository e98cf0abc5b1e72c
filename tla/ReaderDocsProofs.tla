-------------------------- MODULE ReaderDocsProofs --------------------------
(* Proofs about DocNumbers and ReaderDocs, for any number of sub readers of   *)
(* any sizes, empty ones included.                                            *)
EXTENDS ReaderDocs, FiniteSetTheorems, TLAPS

-----------------------------------------------------------------------------
(* Induction over the natural numbers, for sets, and what it says of loops.   *)

LEMMA LeastNumber ==
  ASSUME NEW S \in SUBSET Nat, S # {}
  PROVE  \E x \in S : \A y \in S : x <= y
<1> DEFINE R == {ss \in Nat \X Nat : ss[1] < ss[2]}
<1>1. IsWellFoundedOn(R, Nat)
  BY NatLessThanWellFounded, Zenon DEF OpToRel
<1>2. ASSUME NEW x \in Nat, NEW y \in Nat, x < y PROVE <<x, y>> \in R
  BY <1>2
<1> HIDE DEF R
<1>3. PICK x \in S : \A y \in S : ~(<<y, x>> \in R)
  BY <1>1, WFMin
<1>4. ASSUME NEW y \in S PROVE x <= y
  <2>1. ~(y < x)
    BY <1>2, <1>3
  <2> QED BY <2>1
<1> QED BY <1>4

LEMMA Induct ==
  ASSUME NEW S, 0 \in S, \A n \in Nat : n \in S => n + 1 \in S
  PROVE  \A n \in Nat : n \in S
<1> DEFINE T == {n \in Nat : n \notin S}
<1>1. SUFFICES ASSUME T # {} PROVE FALSE
  OBVIOUS
<1>2. PICK x \in T : \A y \in T : x <= y
  <2>1. T \in SUBSET Nat
    OBVIOUS
  <2> HIDE DEF T
  <2> QED BY <1>1, <2>1, LeastNumber
<1>3. x \in Nat /\ x # 0 /\ x \notin S
  OBVIOUS
<1>4. x - 1 \in Nat /\ x - 1 \notin T
  BY <1>2, <1>3
<1>5. x - 1 \in S
  BY <1>4
<1>6. (x - 1) + 1 \in S
  BY <1>4, <1>5
<1> QED BY <1>3, <1>6

(* A loop that runs N times from s0 on: the states it goes through. *)
IsLoop(f, S, s0, N, step) ==
  /\ f \in [0..N -> S]
  /\ f[0] = s0 /\ \A k \in 1..N : f[k] = step[k][f[k - 1]]

LEMMA Loop ==
  ASSUME NEW S, NEW s0 \in S, NEW N \in Nat, NEW step \in [1..N -> [S -> S]]
  PROVE  \E f : IsLoop(f, S, s0, N, step)
<1> DEFINE P(n, f) == f[0] = s0 /\ \A k \in 1..n : f[k] = step[k][f[k - 1]]
           T == {n \in Nat : n <= N => \E f \in [0..n -> S] : P(n, f)}
<1>1. 0 \in T
  <2>1. [k \in 0..0 |-> s0] \in [0..0 -> S] /\ P(0, [k \in 0..0 |-> s0])
    OBVIOUS
  <2> QED BY <2>1
<1>2. ASSUME NEW n \in Nat, n \in T PROVE n + 1 \in T
  <2>1. SUFFICES ASSUME n + 1 <= N PROVE \E f \in [0..n + 1 -> S] : P(n + 1, f)
    OBVIOUS
  <2>2. PICK f \in [0..n -> S] : P(n, f)
    BY <1>2, <2>1
  <2> DEFINE g == [k \in 0..n + 1 |-> IF k = n + 1 THEN step[n + 1][f[n]] ELSE f[k]]
  <2>3. f[n] \in S /\ step[n + 1] \in [S -> S]
    BY <2>1
  <2>4. g \in [0..n + 1 -> S]
    BY <2>3
  <2>5. ASSUME NEW k \in 1..n + 1 PROVE g[k] = step[k][g[k - 1]]
    <3>1. CASE k = n + 1
      BY <3>1
    <3>2. CASE k # n + 1
      <4>1. k \in 1..n /\ k - 1 \in 0..n /\ k - 1 # n + 1 /\ k \in 0..n + 1 /\ k - 1 \in 0..n + 1
        BY <3>2
      <4> QED BY <2>2, <3>2, <4>1
    <3> QED BY <3>1, <3>2
  <2>6. g[0] = s0
    BY <2>2
  <2> QED BY <2>4, <2>5, <2>6
<1>3. N \in T
  <2> HIDE DEF T
  <2> QED BY <1>1, <1>2, Induct
<1> QED BY <1>3 DEF IsLoop

-----------------------------------------------------------------------------
(* The table of starts *)

(* What frt_mr_init computes. *)
IsStarts(starts, sizes) ==
  /\ starts \in [1..Len(sizes) + 1 -> Nat]
  /\ starts[1] = 0
  /\ \A i \in 1..Len(sizes) : starts[i + 1] = starts[i] + sizes[i]

LEMMA StartsDef ==
  ASSUME NEW sizes \in Seq(Nat)
  PROVE  IsStarts(Starts(sizes), sizes)
<1> DEFINE n == Len(sizes)
           step == [k \in 1..n |-> [x \in Nat |-> x + sizes[k]]]
           E(h) == h = [i \in 1..Len(sizes) + 1 |-> IF i = 1 THEN 0 ELSE h[i - 1] + sizes[i - 1]]
<1>0. n \in Nat
  OBVIOUS
<1>1. step \in [1..n -> [Nat -> Nat]]
  OBVIOUS
<1>a. PICK f : IsLoop(f, Nat, 0, n, step)
  <2>1. 0 \in Nat
    OBVIOUS
  <2> HIDE DEF step, n
  <2> QED BY <1>0, <1>1, <2>1, Loop
<1>2. f \in [0..n -> Nat] /\ f[0] = 0 /\ \A k \in 1..n : f[k] = step[k][f[k - 1]]
  BY <1>a DEF IsLoop
<1> DEFINE g == [i \in 1..n + 1 |-> f[i - 1]]
<1>3. \A k \in 1..n : f[k] = f[k - 1] + sizes[k]
  <2>1. ASSUME NEW k \in 1..n PROVE f[k] = f[k - 1] + sizes[k]
    <3>1. k - 1 \in 0..n /\ f[k - 1] \in Nat
      <4> HIDE DEF n
      <4> QED BY <1>0, <1>2
    <3>2. step[k][f[k - 1]] = f[k - 1] + sizes[k]
      BY <3>1
    <3> HIDE DEF step
    <3> QED BY <1>2, <3>2
  <2> QED BY <2>1
<1>4. E(g)
  <2>1. ASSUME NEW i \in 1..n + 1 PROVE g[i] = IF i = 1 THEN 0 ELSE g[i - 1] + sizes[i - 1]
    <3>1. CASE i = 1
      BY <1>0, <1>2, <3>1
    <3>2. CASE i # 1
      <4>1. i - 1 \in 1..n /\ i - 1 \in 1..n + 1 /\ (i - 1) - 1 \in 0..n
        BY <1>0, <3>2
      <4> QED BY <1>0, <1>3, <3>2, <4>1
    <3> QED BY <3>1, <3>2
  <2> QED BY <2>1
<1>5. E(Starts(sizes))
  <2>1. Starts(sizes) = CHOOSE h : E(h)
    BY DEF Starts
  <2> HIDE DEF E
  <2> QED BY <1>4, <2>1
<1> QED
  <2> DEFINE s == Starts(sizes)
  <2>1. DOMAIN s = 1..n + 1
    BY <1>5
  <2>2. s[1] = 0
    BY <1>0, <1>5
  <2>3. ASSUME NEW i \in 1..n PROVE s[i + 1] = s[i] + sizes[i]
    BY <1>0, <1>5
  <2> DEFINE T == {k \in Nat : k <= n => s[k + 1] \in Nat}
  <2> HIDE DEF s
  <2>4. 0 \in T
    BY <2>2
  <2>5. ASSUME NEW k \in Nat, k \in T PROVE k + 1 \in T
    BY <1>0, <2>3, <2>5
  <2>6. \A k \in Nat : k \in T
    <3> HIDE DEF T
    <3> QED BY <2>4, <2>5, Induct
  <2>7. ASSUME NEW i \in 1..n + 1 PROVE s[i] \in Nat
    <3>1. i - 1 \in Nat /\ i - 1 <= n
      BY <1>1
    <3>2. i - 1 \in T
      BY <2>6, <3>1
    <3> QED BY <3>1, <3>2
  <2>8. s = [i \in 1..n + 1 |-> s[i]]
    BY <1>5 DEF s
  <2> QED BY <2>2, <2>3, <2>7, <2>8 DEF IsStarts, s

LEMMA StartsGrow ==
  ASSUME NEW sizes \in Seq(Nat), NEW starts, IsStarts(starts, sizes),
         NEW i \in 1..Len(sizes) + 1, NEW j \in 1..Len(sizes) + 1, i <= j
  PROVE  starts[i] <= starts[j]
<1> DEFINE n == Len(sizes)
           T == {k \in Nat : i + k <= n + 1 => starts[i] <= starts[i + k]}
<1>1. n \in Nat /\ i \in Nat /\ j \in Nat /\ i >= 1
  OBVIOUS
<1>a. starts \in [1..n + 1 -> Nat]
  BY DEF IsStarts
<1>2. 0 \in T
  <2>1. starts[i] \in Nat /\ i + 0 = i
    BY <1>1, <1>a
  <2> QED BY <2>1
<1>3. ASSUME NEW k \in Nat, k \in T PROVE k + 1 \in T
  <2>1. SUFFICES ASSUME i + (k + 1) <= n + 1 PROVE starts[i] <= starts[i + (k + 1)]
    OBVIOUS
  <2>2. i + k \in 1..n /\ i + k \in 1..n + 1 /\ i + (k + 1) = (i + k) + 1
    BY <1>1, <2>1
  <2>3. starts[(i + k) + 1] = starts[i + k] + sizes[i + k]
    BY <2>2 DEF IsStarts
  <2>4. starts[i] \in Nat /\ starts[i + k] \in Nat /\ sizes[i + k] \in Nat
    BY <1>a, <2>2
  <2>5. starts[i] <= starts[i + k]
    BY <1>3, <2>2
  <2> QED BY <2>2, <2>3, <2>4, <2>5
<1>4. j - i \in T
  <2>1. j - i \in Nat
    BY <1>1
  <2> HIDE DEF T
  <2> QED BY <1>2, <1>3, <2>1, Induct
<1> QED
  <2>1. i + (j - i) = j
    BY <1>1
  <2> QED BY <1>1, <1>4, <2>1

-----------------------------------------------------------------------------
(* The binary search *)

LEMMA Middle ==
  ASSUME NEW lo \in Int, NEW hi \in Int, lo <= hi
  PROVE  (lo + hi) \div 2 \in lo..hi
OBVIOUS

(* The scan of mr_reader_index_i ends at the last part with the same start. *)
IsLastMatch(starts, mid, m) ==
  /\ m \in mid..Len(starts) - 1
  /\ starts[m] = starts[mid]
  /\ m < Len(starts) - 1 => starts[m + 1] # starts[mid]

LEMMA LastMatchDef ==
  ASSUME NEW n \in Nat, NEW starts \in [1..n + 1 -> Nat], NEW mid \in 1..n
  PROVE  IsLastMatch(starts, mid, LastMatch(starts, mid))
<1> DEFINE T == {m \in mid..n : m < n => starts[m + 1] # starts[mid]}
           E(m) == /\ \A j \in mid..m : starts[j] = starts[mid]
                   /\ m < Len(starts) - 1 => starts[m + 1] # starts[mid]
<1>1. Len(starts) - 1 = n
  OBVIOUS
<1>2. T \in SUBSET Nat /\ n \in T
  OBVIOUS
<1>3. PICK m \in T : \A k \in T : m <= k
  <2> HIDE DEF T
  <2> QED BY <1>2, LeastNumber
<1>4. ASSUME NEW j \in mid..m PROVE starts[j] = starts[mid]
  <2>1. CASE j = mid
    BY <2>1
  <2>2. CASE j # mid
    <3>1. j - 1 \in mid..n /\ ~(m <= j - 1) /\ j - 1 < n /\ (j - 1) + 1 = j
      BY <2>2
    <3>2. j - 1 \notin T
      BY <1>3, <3>1
    <3> QED BY <3>1, <3>2
  <2> QED BY <2>1, <2>2
<1>5. m \in mid..Len(starts) - 1 /\ E(m)
  BY <1>1, <1>4
<1>6. LastMatch(starts, mid) = CHOOSE k \in mid..Len(starts) - 1 : E(k)
  BY DEF LastMatch
<1>7. LastMatch(starts, mid) \in mid..Len(starts) - 1 /\ E(LastMatch(starts, mid))
  <2> HIDE DEF E
  <2> QED BY <1>5, <1>6
<1>8. LastMatch(starts, mid) \in mid..LastMatch(starts, mid)
  BY <1>1, <1>7
<1> QED BY <1>7, <1>8 DEF IsLastMatch

(* A state of the search. After k turns it is over, or at most n - k parts    *)
(* are between lo and hi; the parts before lo begin before d, the ones behind *)
(* hi after it.                                                               *)
SearchStates(n) == [lo : 1..n + 1, hi : 0..n, found : BOOLEAN]

SearchInv(starts, n, d, k, s) ==
  /\ s \in SearchStates(n)
  /\ s.found => /\ s.hi >= 1 /\ starts[s.hi] = d
                /\ s.hi < n => starts[s.hi + 1] # d
  /\ ~s.found => /\ s.lo <= s.hi + 1
                 /\ \A j \in 1..n : j < s.lo => starts[j] <= d
                 /\ \A j \in 1..n : j > s.hi => starts[j] > d
                 /\ s.hi < s.lo \/ s.hi - s.lo + 1 <= n - k

LEMMA TurnType ==
  ASSUME NEW n \in Nat, NEW starts \in [1..n + 1 -> Nat], NEW d \in Nat,
         NEW s \in SearchStates(n)
  PROVE  Turn(starts, d, s) \in SearchStates(n)
<1> DEFINE mid == (s.lo + s.hi) \div 2
<1>1. s.lo \in 1..n + 1 /\ s.hi \in 0..n /\ s.found \in BOOLEAN
  BY DEF SearchStates
<1>2. CASE s.found \/ s.hi < s.lo
  BY <1>2 DEF Turn
<1>3. CASE ~(s.found \/ s.hi < s.lo)
  <2>1. mid \in s.lo..s.hi
    BY <1>1, <1>3, Middle
  <2> HIDE DEF mid
  <2>2. mid \in 1..n /\ mid - 1 \in 0..n /\ mid + 1 \in 1..n + 1
    BY <1>1, <2>1
  <2>3. LastMatch(starts, mid) \in 0..n
    <3>1. LastMatch(starts, mid) \in mid..Len(starts) - 1
      BY <2>2, LastMatchDef DEF IsLastMatch
    <3>2. Len(starts) - 1 = n
      OBVIOUS
    <3> QED BY <2>2, <3>1, <3>2
  <2>4. /\ [s EXCEPT !.hi = mid - 1] \in SearchStates(n)
        /\ [s EXCEPT !.lo = mid + 1] \in SearchStates(n)
        /\ [s EXCEPT !.hi = LastMatch(starts, mid), !.found = TRUE] \in SearchStates(n)
    BY <2>2, <2>3 DEF SearchStates
  <2>5. Turn(starts, d, s) = IF d < starts[mid] THEN [s EXCEPT !.hi = mid - 1]
                             ELSE IF d > starts[mid] THEN [s EXCEPT !.lo = mid + 1]
                             ELSE [s EXCEPT !.hi = LastMatch(starts, mid), !.found = TRUE]
    BY <1>3 DEF Turn, mid
  <2> QED BY <2>4, <2>5
<1> QED BY <1>2, <1>3

LEMMA TurnSearches ==
  ASSUME NEW sizes \in Seq(Nat), NEW starts, IsStarts(starts, sizes),
         NEW d \in Nat, NEW k \in Nat, NEW s,
         SearchInv(starts, Len(sizes), d, k, s)
  PROVE  SearchInv(starts, Len(sizes), d, k + 1, Turn(starts, d, s))
<1> DEFINE n == Len(sizes)
           mid == (s.lo + s.hi) \div 2
           t == Turn(starts, d, s)
<1>1. n \in Nat /\ starts \in [1..n + 1 -> Nat]
  BY DEF IsStarts
<1>a. ASSUME NEW i \in 1..n, NEW j \in 1..n, i <= j PROVE starts[i] <= starts[j]
  <2>1. i \in 1..n + 1 /\ j \in 1..n + 1
    BY <1>1
  <2> QED BY <1>a, <2>1, StartsGrow
<1> HIDE DEF n
<1>b. n \in Nat
  BY <1>1
<1>2. s \in SearchStates(n) /\ s.lo \in 1..n + 1 /\ s.hi \in 0..n /\ s.found \in BOOLEAN
  BY DEF SearchInv, SearchStates, n
<1>3. t \in SearchStates(n)
  BY <1>1, <1>2, TurnType
<1>4. CASE s.found \/ s.hi < s.lo
  <2>1. t = s
    BY <1>4 DEF Turn
  <2> HIDE DEF t
  <2> QED BY <1>1, <1>2, <1>4, <2>1 DEF SearchInv, n, t
<1>5. CASE ~(s.found \/ s.hi < s.lo)
  <2>1. mid \in s.lo..s.hi
    BY <1>2, <1>5, Middle
  <2> HIDE DEF mid
  <2>2. mid \in 1..n /\ starts[mid] \in Nat
    BY <1>1, <1>2, <2>1
  <2>3. t = IF d < starts[mid] THEN [s EXCEPT !.hi = mid - 1]
            ELSE IF d > starts[mid] THEN [s EXCEPT !.lo = mid + 1]
            ELSE [s EXCEPT !.hi = LastMatch(starts, mid), !.found = TRUE]
    BY <1>5 DEF Turn, mid
  <2>4. /\ \A j \in 1..n : j < s.lo => starts[j] <= d
        /\ \A j \in 1..n : j > s.hi => starts[j] > d
    BY <1>2, <1>5 DEF SearchInv, n
  <2>8. s.hi - s.lo + 1 <= n - k
    BY <1>2, <1>5 DEF SearchInv, n
  <2>9. s.lo \in Int /\ s.hi \in Int /\ mid \in Int /\ s.lo <= mid /\ mid <= s.hi
    BY <1>2, <2>1
  <2> HIDE DEF t
  <2>5. CASE d < starts[mid]
    <3>1. t.lo = s.lo /\ t.hi = mid - 1 /\ t.found = FALSE
      BY <1>2, <1>5, <2>3, <2>5 DEF SearchStates
    <3>2. ASSUME NEW j \in 1..n, j > t.hi PROVE starts[j] > d
      <4>1. mid <= j /\ starts[j] \in Nat
        BY <1>1, <2>2, <3>1, <3>2
      <4>2. starts[mid] <= starts[j]
        BY <1>a, <2>2, <4>1
      <4> QED BY <2>2, <2>5, <4>1, <4>2
    <3>3. t.lo <= t.hi + 1 /\ t.hi - t.lo + 1 <= n - (k + 1)
      BY <1>b, <2>8, <2>9, <3>1
    <3> QED BY <1>3, <2>4, <3>1, <3>2, <3>3 DEF SearchInv, n, t
  <2>6. CASE d > starts[mid]
    <3>1. t.lo = mid + 1 /\ t.hi = s.hi /\ t.found = FALSE
      BY <1>2, <1>5, <2>2, <2>3, <2>6 DEF SearchStates
    <3>2. ASSUME NEW j \in 1..n, j < t.lo PROVE starts[j] <= d
      <4>1. j <= mid /\ starts[j] \in Nat
        BY <1>1, <2>2, <3>1, <3>2
      <4>2. starts[j] <= starts[mid]
        BY <1>a, <2>2, <4>1
      <4> QED BY <2>2, <2>6, <4>1, <4>2
    <3>3. t.lo <= t.hi + 1 /\ t.hi - t.lo + 1 <= n - (k + 1)
      BY <1>b, <2>8, <2>9, <3>1
    <3> QED BY <1>3, <2>4, <3>1, <3>2, <3>3 DEF SearchInv, n, t
  <2>7. CASE d = starts[mid]
    <3>1. t.hi = LastMatch(starts, mid) /\ t.found = TRUE
      BY <1>2, <2>2, <2>3, <2>7 DEF SearchStates
    <3>2. IsLastMatch(starts, mid, t.hi)
      BY <1>1, <2>2, <3>1, LastMatchDef
    <3>3. Len(starts) - 1 = n
      BY <1>1
    <3>4. t.hi >= 1 /\ starts[t.hi] = d /\ (t.hi < n => starts[t.hi + 1] # d)
      BY <2>2, <2>7, <3>2, <3>3 DEF IsLastMatch
    <3> QED BY <1>3, <3>1, <3>4 DEF SearchInv, n, t
  <2> QED BY <2>2, <2>5, <2>6, <2>7
<1> QED BY <1>4, <1>5

(* How mr_reader_index_i and msea_get_searcher_index end: they return the     *)
(* part that has document d, also if others begin with the same number.       *)
Has(starts, i, d) == starts[i] <= d /\ d < starts[i + 1]

\* Binary search over the starts (mr_reader_index_i, msea_get_searcher_index)
\* returns the one sub reader or index that has the document, whatever the
\* number of parts and their sizes, parts of no documents included.
THEOREM SearchResolves ==
  ASSUME NEW sizes \in Seq(Nat), NEW d \in Nat,
         d < Starts(sizes)[Len(sizes) + 1]
  PROVE  /\ IndexOf(Starts(sizes), d) \in 1..Len(sizes)
         /\ Has(Starts(sizes), IndexOf(Starts(sizes), d), d)
<1> DEFINE n == Len(sizes)
           starts == Starts(sizes)
           S == SearchStates(n)
           s0 == [lo |-> 1, hi |-> n, found |-> FALSE]
           step == [k \in 1..n |-> [s \in S |-> Turn(starts, d, s)]]
           E(h) == h = [k \in 0..Len(starts) - 1 |->
                          IF k = 0 THEN [lo |-> 1, hi |-> Len(starts) - 1, found |-> FALSE]
                          ELSE Turn(starts, d, h[k - 1])]
           turn == CHOOSE h : E(h)
<1>1. IsStarts(starts, sizes)
  BY StartsDef
<1>2. IndexOf(starts, d) = turn[Len(starts) - 1].hi
  BY DEF IndexOf
<1> HIDE DEF starts
<1>3. n \in Nat /\ starts \in [1..n + 1 -> Nat] /\ starts[1] = 0
  BY <1>1 DEF IsStarts
<1>4. Len(starts) - 1 = n
  BY <1>3
<1>5. s0 \in S
  BY <1>3 DEF SearchStates
<1>6. step \in [1..n -> [S -> S]]
  <2>1. ASSUME NEW s \in S PROVE Turn(starts, d, s) \in S
    BY <1>3, TurnType
  <2> HIDE DEF S
  <2> QED BY <2>1
<1>7. PICK f : IsLoop(f, S, s0, n, step)
  <2> HIDE DEF S, s0, step, n
  <2> QED BY <1>3, <1>5, <1>6, Loop
<1>8. E(f)
  <2>1. f \in [0..n -> S] /\ f[0] = s0 /\ \A k \in 1..n : f[k] = step[k][f[k - 1]]
    BY <1>7 DEF IsLoop
  <2>2. ASSUME NEW k \in 1..n PROVE f[k] = Turn(starts, d, f[k - 1])
    <3>1. f[k - 1] \in S
      <4>1. k - 1 \in 0..n
        BY <1>3
      <4> HIDE DEF S
      <4> QED BY <2>1, <4>1
    <3> HIDE DEF S
    <3> QED BY <2>1, <3>1
  <2> HIDE DEF S, n, step
  <2> QED BY <1>3, <1>4, <2>1, <2>2
<1>9. E(turn)
  <2> HIDE DEF E
  <2> QED BY <1>8
<1> HIDE DEF turn
<1>10. turn[0] = s0 /\ \A k \in 1..n : turn[k] = Turn(starts, d, turn[k - 1])
  <2> HIDE DEF n
  <2>1. n \in Nat
    BY <1>3
  <2>2. turn = [k \in 0..n |-> IF k = 0 THEN s0 ELSE Turn(starts, d, turn[k - 1])]
    BY <1>4, <1>9, Zenon
  <2> HIDE DEF s0
  <2>3. 0 \in 0..n /\ \A k \in 1..n : k \in 0..n /\ k # 0
    BY <2>1
  <2> QED BY <2>2, <2>3, Zenon
<1> DEFINE T == {k \in Nat : k <= n => SearchInv(starts, n, d, k, turn[k])}
<1>11. 0 \in T
  <2>1. SearchInv(starts, n, d, 0, s0)
    <3> HIDE DEF n
    <3> QED BY <1>3, <1>5 DEF SearchInv
  <2> QED BY <1>10, <2>1
<1>12. ASSUME NEW k \in Nat, k \in T PROVE k + 1 \in T
  <2>1. SUFFICES ASSUME k + 1 <= n PROVE SearchInv(starts, n, d, k + 1, turn[k + 1])
    OBVIOUS
  <2>2. SearchInv(starts, n, d, k, turn[k])
    BY <1>3, <1>12, <2>1
  <2>3. SearchInv(starts, n, d, k + 1, Turn(starts, d, turn[k]))
    BY <1>1, <2>2, TurnSearches
  <2>4. k + 1 \in 1..n /\ (k + 1) - 1 = k
    BY <1>3, <2>1
  <2>5. turn[k + 1] = Turn(starts, d, turn[k])
    BY <1>10, <2>4
  <2> QED BY <2>3, <2>5
<1>13. SearchInv(starts, n, d, n, turn[n])
  <2>1. n \in T
    <3> HIDE DEF T
    <3> QED BY <1>3, <1>11, <1>12, Induct
  <2> QED BY <1>3, <2>1
<1> DEFINE s == turn[n]
<1> HIDE DEF s, n
<1>14. s.lo \in 1..n + 1 /\ s.hi \in 0..n /\ s.found \in BOOLEAN
  BY <1>13 DEF SearchInv, SearchStates, s
<1>15. d < starts[n + 1] /\ n >= 1
  <2>1. d < starts[n + 1]
    BY DEF starts, n
  <2> QED BY <1>3, <2>1
<1>16. s.hi \in 1..n /\ Has(starts, s.hi, d)
  <2>1. CASE s.found
    <3>1. s.hi >= 1 /\ starts[s.hi] = d /\ (s.hi < n => starts[s.hi + 1] # d)
      BY <1>13, <2>1 DEF SearchInv, s
    <3>2. s.hi \in 1..n /\ s.hi \in 1..n + 1 /\ s.hi + 1 \in 1..n + 1 /\ s.hi <= s.hi + 1
      BY <1>3, <1>14, <3>1
    <3>3. starts[s.hi] <= starts[s.hi + 1]
      BY <1>1, <3>2, StartsGrow DEF n
    <3>4. starts[s.hi] \in Nat /\ starts[s.hi + 1] \in Nat
      BY <1>3, <3>2
    <3>5. s.hi < n \/ s.hi = n
      BY <1>3, <3>2
    <3> QED BY <1>15, <3>1, <3>2, <3>3, <3>4, <3>5 DEF Has
  <2>2. CASE ~s.found
    <3>1. /\ \A j \in 1..n : j < s.lo => starts[j] <= d
          /\ \A j \in 1..n : j > s.hi => starts[j] > d
      BY <1>13, <2>2 DEF SearchInv, s
    <3>2. s.lo <= s.hi + 1 /\ (s.hi < s.lo \/ s.hi - s.lo + 1 <= n - n)
      BY <1>13, <2>2 DEF SearchInv, s
    <3>3. s.lo = s.hi + 1
      BY <1>3, <1>14, <3>2
    <3>4. s.hi # 0
      <4>1. SUFFICES ASSUME s.hi = 0 PROVE FALSE
        OBVIOUS
      <4>2. 1 \in 1..n /\ 1 > s.hi
        BY <1>3, <1>15, <4>1
      <4>3. starts[1] > d
        BY <3>1, <4>2
      <4> QED BY <1>3, <4>3
    <3>5. s.hi \in 1..n /\ s.hi < s.lo
      BY <1>3, <1>14, <3>3, <3>4
    <3>6. starts[s.hi] <= d
      BY <3>1, <3>5
    <3>7. d < starts[s.hi + 1]
      <4>1. CASE s.hi = n
        BY <1>15, <4>1
      <4>2. CASE s.hi # n
        <5>1. s.hi + 1 \in 1..n /\ s.hi + 1 > s.hi
          BY <1>3, <3>5, <4>2
        <5>2. starts[s.hi + 1] > d /\ starts[s.hi + 1] \in Nat
          BY <1>3, <3>1, <5>1
        <5> QED BY <5>2
      <4> QED BY <4>1, <4>2
    <3> QED BY <3>5, <3>6, <3>7 DEF Has
  <2> QED BY <1>14, <2>1, <2>2
<1> QED BY <1>2, <1>4, <1>16 DEF s, n, starts

-----------------------------------------------------------------------------
(* Readers *)

Sizes(r) == [i \in DOMAIN r.subs |-> r.subs[i].seg.size]
FieldsOf(r) == 0..Len(r.fis) - 1
Locals(r, i) == 0..r.subs[i].seg.size - 1

CacheShape(r) ==
  /\ DOMAIN r.norms_cache = FieldsOf(r)
  /\ \A f \in FieldsOf(r) : r.norms_cache[f].cached \in BOOLEAN

MapsShape(r) ==
  /\ \A i \in DOMAIN r.subs : IsFieldMap(r.maps[i], r.fis)
  /\ ~r.ext => r.maps = SameNumbers(r.subs, r.fis)

Shape(r) ==
  /\ r = [multi |-> r.multi, ext |-> r.ext, subs |-> r.subs, starts |-> r.starts,
          fis |-> r.fis, maps |-> r.maps, num_docs_cache |-> r.num_docs_cache,
          has_deletions |-> r.has_deletions, norms_cache |-> r.norms_cache]
  /\ r.multi \in BOOLEAN /\ r.ext \in BOOLEAN /\ r.has_deletions \in BOOLEAN
  /\ IsSubs(r.subs)
  /\ r.starts = Starts(Sizes(r))
  /\ Len(r.fis) \in Nat
  /\ MapsShape(r)
  /\ CacheShape(r)

LEMMA SizesSeq ==
  ASSUME NEW r, IsSubs(r.subs)
  PROVE  /\ Sizes(r) \in Seq(Nat) /\ Len(Sizes(r)) = Len(r.subs) /\ Len(r.subs) \in Nat
         /\ \A i \in DOMAIN r.subs : Sizes(r)[i] = r.subs[i].seg.size /\ r.subs[i].seg.size \in Nat
<1> DEFINE n == Len(r.subs)
<1>1. n \in Nat /\ DOMAIN r.subs = 1..n /\ \A i \in DOMAIN r.subs : r.subs[i].seg.size \in Nat
  BY DEF IsSubs, IsSub
<1> HIDE DEF n
<1>2. Sizes(r) = [i \in 1..n |-> r.subs[i].seg.size]
  BY <1>1 DEF Sizes
<1>3. Sizes(r) \in Seq(Nat) /\ Len(Sizes(r)) = n
  BY <1>1, <1>2
<1> QED BY <1>1, <1>2, <1>3 DEF n

(* The table of a reader: sub reader i has the numbers from starts[i] on. *)
LEMMA ReaderStarts ==
  ASSUME NEW r, IsSubs(r.subs), r.starts = Starts(Sizes(r))
  PROVE  /\ r.starts \in [1..Len(r.subs) + 1 -> Nat] /\ r.starts[1] = 0
         /\ MaxDoc(r) \in Nat
         /\ \A i \in DOMAIN r.subs : r.starts[i + 1] = r.starts[i] + r.subs[i].seg.size
         /\ \A i, j \in 1..Len(r.subs) + 1 : i <= j => r.starts[i] <= r.starts[j]
<1>1. /\ Sizes(r) \in Seq(Nat) /\ Len(Sizes(r)) = Len(r.subs) /\ Len(r.subs) \in Nat
      /\ \A i \in DOMAIN r.subs : Sizes(r)[i] = r.subs[i].seg.size /\ r.subs[i].seg.size \in Nat
  BY SizesSeq
<1>2. IsStarts(r.starts, Sizes(r))
  BY <1>1, StartsDef
<1>3. r.starts \in [1..Len(r.subs) + 1 -> Nat] /\ r.starts[1] = 0
  BY <1>1, <1>2 DEF IsStarts
<1>4. MaxDoc(r) \in Nat
  <2>1. Len(r.subs) + 1 \in 1..Len(r.subs) + 1
    BY <1>1
  <2> QED BY <1>3, <2>1 DEF MaxDoc
<1>5. DOMAIN r.subs = 1..Len(r.subs)
  BY DEF IsSubs
<1>6. \A i \in DOMAIN r.subs : r.starts[i + 1] = r.starts[i] + r.subs[i].seg.size
  BY <1>1, <1>2, <1>5 DEF IsStarts
<1>7. ASSUME NEW i \in 1..Len(r.subs) + 1, NEW j \in 1..Len(r.subs) + 1, i <= j
      PROVE  r.starts[i] <= r.starts[j]
  BY <1>1, <1>2, <1>7, StartsGrow
<1> QED BY <1>3, <1>4, <1>6, <1>7

(* A document number and its sub reader determine each other. *)
LEMMA PartsApart ==
  ASSUME NEW r, IsSubs(r.subs), r.starts = Starts(Sizes(r)), NEW d \in Nat,
         NEW i \in DOMAIN r.subs, NEW j \in DOMAIN r.subs,
         Has(r.starts, i, d), Has(r.starts, j, d)
  PROVE  i = j
<1>1. Len(r.subs) \in Nat /\ DOMAIN r.subs = 1..Len(r.subs)
  BY DEF IsSubs
<1>2. /\ r.starts \in [1..Len(r.subs) + 1 -> Nat]
      /\ \A x, y \in 1..Len(r.subs) + 1 : x <= y => r.starts[x] <= r.starts[y]
  BY ReaderStarts
<1>3. ASSUME NEW x \in DOMAIN r.subs, NEW y \in DOMAIN r.subs, x < y,
             Has(r.starts, x, d), Has(r.starts, y, d)
      PROVE  FALSE
  <2>1. x + 1 \in 1..Len(r.subs) + 1 /\ y \in 1..Len(r.subs) + 1 /\ x + 1 <= y
    BY <1>1, <1>3
  <2>2. r.starts[x + 1] <= r.starts[y] /\ r.starts[x + 1] \in Nat /\ r.starts[y] \in Nat
    BY <1>2, <2>1
  <2> QED BY <1>3, <2>2 DEF Has
<1>4. i \in Int /\ j \in Int
  BY <1>1
<1> QED BY <1>3, <1>4

LEMMA ReaderIndexHas ==
  ASSUME NEW r, IsSubs(r.subs), r.starts = Starts(Sizes(r)), NEW d \in 0..MaxDoc(r) - 1
  PROVE  /\ ReaderIndex(r, d) \in DOMAIN r.subs /\ Has(r.starts, ReaderIndex(r, d), d)
         /\ d - r.starts[ReaderIndex(r, d)] \in Locals(r, ReaderIndex(r, d))
         /\ d = r.starts[ReaderIndex(r, d)] + (d - r.starts[ReaderIndex(r, d)])
<1> DEFINE i == ReaderIndex(r, d)
<1>1. /\ Sizes(r) \in Seq(Nat) /\ Len(Sizes(r)) = Len(r.subs) /\ Len(r.subs) \in Nat
      /\ DOMAIN r.subs = 1..Len(r.subs)
      /\ \A j \in DOMAIN r.subs : r.subs[j].seg.size \in Nat
  BY SizesSeq DEF IsSubs
<1>2. /\ MaxDoc(r) \in Nat /\ r.starts \in [1..Len(r.subs) + 1 -> Nat]
      /\ \A j \in DOMAIN r.subs : r.starts[j + 1] = r.starts[j] + r.subs[j].seg.size
  BY ReaderStarts
<1>3. d \in Nat /\ d < MaxDoc(r)
  BY <1>2
<1>4. d < Starts(Sizes(r))[Len(Sizes(r)) + 1]
  BY <1>1, <1>3 DEF MaxDoc
<1>5. i \in 1..Len(Sizes(r)) /\ Has(r.starts, i, d)
  BY <1>1, <1>3, <1>4, SearchResolves DEF ReaderIndex
<1> HIDE DEF i
<1>6. i \in DOMAIN r.subs /\ i \in 1..Len(r.subs) + 1
  BY <1>1, <1>5
<1>7. r.starts[i] \in Nat /\ r.subs[i].seg.size \in Nat /\ r.starts[i + 1] = r.starts[i] + r.subs[i].seg.size
  BY <1>1, <1>2, <1>6
<1>8. d - r.starts[i] \in Locals(r, i) /\ d = r.starts[i] + (d - r.starts[i])
  BY <1>3, <1>5, <1>7 DEF Has, Locals
<1> QED BY <1>5, <1>6, <1>8 DEF i

LEMMA LocalHas ==
  ASSUME NEW r, IsSubs(r.subs), r.starts = Starts(Sizes(r)),
         NEW i \in DOMAIN r.subs, NEW k \in Locals(r, i)
  PROVE  /\ r.starts[i] \in Nat /\ k \in Nat /\ r.starts[i] + k \in 0..MaxDoc(r) - 1
         /\ Has(r.starts, i, r.starts[i] + k)
<1>1. /\ Len(r.subs) \in Nat /\ DOMAIN r.subs = 1..Len(r.subs)
      /\ r.subs[i].seg.size \in Nat
  BY DEF IsSubs, IsSub
<1>2. /\ MaxDoc(r) \in Nat /\ r.starts \in [1..Len(r.subs) + 1 -> Nat]
      /\ r.starts[i + 1] = r.starts[i] + r.subs[i].seg.size
      /\ \A x, y \in 1..Len(r.subs) + 1 : x <= y => r.starts[x] <= r.starts[y]
  BY ReaderStarts
<1>3. i + 1 \in 1..Len(r.subs) + 1 /\ i \in 1..Len(r.subs) + 1 /\ i + 1 <= Len(r.subs) + 1
      /\ Len(r.subs) + 1 \in 1..Len(r.subs) + 1
  BY <1>1
<1>4. r.starts[i + 1] <= MaxDoc(r) /\ r.starts[i] \in Nat
  BY <1>2, <1>3 DEF MaxDoc
<1>5. k \in Nat /\ k < r.subs[i].seg.size
  BY <1>1 DEF Locals
<1>6. r.starts[i + 1] = r.starts[i] + r.subs[i].seg.size /\ MaxDoc(r) \in Nat
  BY <1>2
<1> QED BY <1>1, <1>4, <1>5, <1>6 DEF Has

LEMMA PartOfLocal ==
  ASSUME NEW r, IsSubs(r.subs), r.starts = Starts(Sizes(r)),
         NEW i \in DOMAIN r.subs, NEW k \in Locals(r, i)
  PROVE  PartOf(r, r.starts[i] + k) = i
<1> DEFINE d == r.starts[i] + k
<1>1. d \in Nat /\ Has(r.starts, i, d)
  <2>1. r.starts[i] \in Nat /\ k \in Nat /\ Has(r.starts, i, r.starts[i] + k)
    BY LocalHas
  <2> QED BY <2>1
<1> HIDE DEF d
<1>2. PartOf(r, d) = CHOOSE j \in DOMAIN r.subs : Has(r.starts, j, d)
  BY DEF PartOf, Has
<1>3. PartOf(r, d) \in DOMAIN r.subs /\ Has(r.starts, PartOf(r, d), d)
  BY <1>1, <1>2
<1>4. PartOf(r, d) = i
  BY <1>1, <1>3, PartsApart
<1> QED BY <1>4 DEF d

LEMMA PartOfIndex ==
  ASSUME NEW r, IsSubs(r.subs), r.starts = Starts(Sizes(r)), NEW d \in 0..MaxDoc(r) - 1
  PROVE  PartOf(r, d) = ReaderIndex(r, d)
<1> DEFINE i == ReaderIndex(r, d)
           k == d - r.starts[i]
<1>1. i \in DOMAIN r.subs /\ k \in Locals(r, i) /\ d = r.starts[i] + k
  BY ReaderIndexHas
<1> HIDE DEF i, k
<1>2. PartOf(r, r.starts[i] + k) = i
  BY <1>1, PartOfLocal
<1> QED BY <1>1, <1>2 DEF i

(* g are the documents that the sub readers have deleted. *)
DelsAgree(r, g) ==
  /\ g \subseteq 0..MaxDoc(r) - 1
  /\ \A i \in DOMAIN r.subs : \A k \in Locals(r, i) :
       r.starts[i] + k \in g <=> k \in r.subs[i].del

LEMMA DeletedAgree ==
  ASSUME NEW r, IsSubs(r.subs), r.starts = Starts(Sizes(r))
  PROVE  DelsAgree(r, Deleted(r))
<1>1. Deleted(r) \subseteq 0..MaxDoc(r) - 1
  BY DEF Deleted
<1>2. ASSUME NEW i \in DOMAIN r.subs, NEW k \in Locals(r, i)
      PROVE  r.starts[i] + k \in Deleted(r) <=> k \in r.subs[i].del
  <2> DEFINE d == r.starts[i] + k
  <2>1. d \in 0..MaxDoc(r) - 1 /\ r.starts[i] \in Nat /\ k \in Nat
    BY LocalHas
  <2>2. PartOf(r, d) = i
    BY PartOfLocal
  <2>3. d - r.starts[i] = k
    BY <2>1
  <2> HIDE DEF d
  <2>4. d \in Deleted(r) <=> d - r.starts[i] \in r.subs[i].del
    BY <2>1, <2>2 DEF Deleted
  <2> QED BY <2>3, <2>4 DEF d
<1> QED BY <1>1, <1>2 DEF DelsAgree

LEMMA AgreeDeleted ==
  ASSUME NEW r, IsSubs(r.subs), r.starts = Starts(Sizes(r)), NEW g, DelsAgree(r, g)
  PROVE  g = Deleted(r)
<1>1. g \subseteq 0..MaxDoc(r) - 1 /\ Deleted(r) \subseteq 0..MaxDoc(r) - 1
  BY DEF DelsAgree, Deleted
<1>2. ASSUME NEW d \in 0..MaxDoc(r) - 1 PROVE d \in g <=> d \in Deleted(r)
  <2> DEFINE i == ReaderIndex(r, d)
             k == d - r.starts[i]
  <2>1. i \in DOMAIN r.subs /\ k \in Locals(r, i) /\ d = r.starts[i] + k
    BY ReaderIndexHas
  <2> HIDE DEF i, k
  <2>2. r.starts[i] + k \in g <=> r.starts[i] + k \in Deleted(r)
    BY <2>1, DeletedAgree DEF DelsAgree
  <2> QED BY <2>1, <2>2
<1> QED BY <1>1, <1>2

-----------------------------------------------------------------------------
(* mr_num_docs: the sum over the sub readers is the number of documents that  *)
(* are not deleted.                                                           *)

LEMMA FiniteNumbers ==
  ASSUME NEW m \in Nat
  PROVE  IsFiniteSet(0..m - 1) /\ Cardinality(0..m - 1) = m
<1>1. 0 \in Int /\ m - 1 \in Int
  OBVIOUS
<1>2. IsFiniteSet(0..m - 1) /\ Cardinality(0..m - 1) = IF 0 > m - 1 THEN 0 ELSE (m - 1) - 0 + 1
  BY <1>1, FS_Interval
<1>3. (IF 0 > m - 1 THEN 0 ELSE (m - 1) - 0 + 1) = m
  OBVIOUS
<1> QED BY <1>2, <1>3

LEMMA DelFinite ==
  ASSUME NEW sub, IsSub(sub)
  PROVE  IsFiniteSet(sub.del) /\ Cardinality(sub.del) \in Nat
<1>1. sub.seg.size \in Nat /\ sub.del \in SUBSET (0..sub.seg.size - 1)
  BY DEF IsSub
<1>2. IsFiniteSet(0..sub.seg.size - 1)
  BY <1>1, FS_Interval
<1>3. IsFiniteSet(sub.del)
  BY <1>1, <1>2, FS_Subset
<1> QED BY <1>3, FS_CardinalityType

IsLive(live, r) ==
  /\ live \in [0..Len(r.subs) -> Int]
  /\ live[0] = 0
  /\ \A i \in 1..Len(r.subs) :
       live[i] = live[i - 1] + r.subs[i].seg.size - Cardinality(r.subs[i].del)

LEMMA LiveDocsDef ==
  ASSUME NEW r, IsSubs(r.subs)
  PROVE  \E live : IsLive(live, r) /\ LiveDocs(r) = live[Len(r.subs)]
<1> DEFINE n == Len(r.subs)
           step == [i \in 1..n |-> [x \in Int |-> x + r.subs[i].seg.size - Cardinality(r.subs[i].del)]]
           E(h) == h = [i \in 0..Len(r.subs) |->
                          IF i = 0 THEN 0
                          ELSE h[i - 1] + r.subs[i].seg.size - Cardinality(r.subs[i].del)]
           live == CHOOSE h : E(h)
<1>1. n \in Nat /\ DOMAIN r.subs = 1..n
  BY DEF IsSubs
<1>2. ASSUME NEW i \in 1..n
      PROVE  r.subs[i].seg.size \in Nat /\ Cardinality(r.subs[i].del) \in Nat
  <2>1. IsSub(r.subs[i])
    BY <1>1 DEF IsSubs
  <2> QED BY <2>1, DelFinite DEF IsSub
<1>3. step \in [1..n -> [Int -> Int]]
  <2> HIDE DEF n
  <2> QED BY <1>2
<1>4. PICK f : IsLoop(f, Int, 0, n, step)
  <2>1. 0 \in Int
    OBVIOUS
  <2> HIDE DEF step, n
  <2> QED BY <1>1, <1>3, <2>1, Loop
<1>5. f \in [0..n -> Int] /\ f[0] = 0 /\ \A i \in 1..n : f[i] = step[i][f[i - 1]]
  BY <1>4 DEF IsLoop
<1>6. ASSUME NEW i \in 1..n
      PROVE  f[i] = f[i - 1] + r.subs[i].seg.size - Cardinality(r.subs[i].del)
  <2>1. i - 1 \in 0..n
    <3> HIDE DEF n
    <3> QED BY <1>1
  <2>2. f[i - 1] \in Int
    BY <1>5, <2>1
  <2> QED BY <1>5, <2>2
<1>7. E(f)
  <2> HIDE DEF step
  <2> QED BY <1>5, <1>6
<1>8. E(live)
  <2> HIDE DEF E
  <2> QED BY <1>7
<1>9. LiveDocs(r) = live[n]
  BY DEF LiveDocs
<1> HIDE DEF live
<1>10. live[0] = 0
  BY <1>1, <1>8
<1>11. \A i \in 1..n : live[i] = live[i - 1] + r.subs[i].seg.size - Cardinality(r.subs[i].del)
  <2>1. \A i \in 1..n : i \in 0..n /\ i # 0
    <3> HIDE DEF n
    <3> QED BY <1>1
  <2> QED BY <1>8, <2>1, Zenon
<1> DEFINE T == {k \in Nat : k <= n => live[k] \in Int}
<1>12. 0 \in T
  BY <1>10
<1>13. ASSUME NEW k \in Nat, k \in T PROVE k + 1 \in T
  <2>1. SUFFICES ASSUME k + 1 <= n PROVE live[k + 1] \in Int
    OBVIOUS
  <2>2. k + 1 \in 1..n /\ (k + 1) - 1 = k /\ live[k] \in Int
    <3> HIDE DEF n
    <3> QED BY <1>1, <1>13, <2>1
  <2>3. live[k + 1] = live[k] + r.subs[k + 1].seg.size - Cardinality(r.subs[k + 1].del)
    BY <1>11, <2>2
  <2>4. r.subs[k + 1].seg.size \in Nat /\ Cardinality(r.subs[k + 1].del) \in Nat
    BY <1>2, <2>2
  <2> QED BY <2>2, <2>3, <2>4
<1>14. \A k \in Nat : k \in T
  <2> HIDE DEF T
  <2> QED BY <1>12, <1>13, Induct
<1>15. live \in [0..n -> Int]
  <2>1. ASSUME NEW k \in 0..n PROVE live[k] \in Int
    <3>1. k \in Nat /\ k <= n
      BY <1>1
    <3> QED BY <1>14, <3>1
  <2>2. live = [i \in 0..n |-> live[i]]
    BY <1>8
  <2> QED BY <2>1, <2>2
<1> QED BY <1>9, <1>10, <1>11, <1>15 DEF IsLive

LEMMA ShiftCounts ==
  ASSUME NEW D \in SUBSET Nat, IsFiniteSet(D), NEW s \in Nat
  PROVE  /\ IsFiniteSet({s + k : k \in D})
         /\ Cardinality({s + k : k \in D}) = Cardinality(D)
<1> DEFINE T == {s + k : k \in D}
           f == [k \in D |-> s + k]
<1>1. f \in [D -> T] /\ \A t \in T : \E k \in D : f[k] = t
  OBVIOUS
<1>2. ASSUME NEW a \in D, NEW b \in D, f[a] = f[b] PROVE a = b
  <2>1. s + a = s + b /\ a \in Nat /\ b \in Nat
    BY <1>2
  <2> QED BY <2>1
<1>3. f \in Bijection(D, T)
  <2>1. DOMAIN f = D
    OBVIOUS
  <2> HIDE DEF f, T
  <2> QED BY <1>1, <1>2, <2>1 DEF Bijection, Injection, Surjection, IsInjective
<1>4. ExistsBijection(D, T)
  BY <1>3 DEF ExistsBijection
<1> HIDE DEF T
<1> QED BY <1>4, FS_Bijection DEF T

LEMMA LiveCount ==
  ASSUME NEW r, IsSubs(r.subs), r.starts = Starts(Sizes(r)), NEW g, DelsAgree(r, g)
  PROVE  LiveDocs(r) = MaxDoc(r) - Cardinality(g) /\ Cardinality(g) \in 0..MaxDoc(r)
<1> DEFINE n == Len(r.subs)
           B(i) == {d \in g : d < r.starts[i]}
<1>1. n \in Nat /\ DOMAIN r.subs = 1..n /\ \A i \in 1..n : IsSub(r.subs[i])
  BY DEF IsSubs
<1>2. /\ r.starts \in [1..n + 1 -> Nat] /\ r.starts[1] = 0 /\ MaxDoc(r) \in Nat
      /\ MaxDoc(r) = r.starts[n + 1]
  BY ReaderStarts DEF MaxDoc
<1>3. PICK live : IsLive(live, r) /\ LiveDocs(r) = live[n]
  BY LiveDocsDef
<1>4. g \subseteq 0..MaxDoc(r) - 1
  BY DEF DelsAgree
<1>5. IsFiniteSet(g) /\ Cardinality(g) \in 0..MaxDoc(r)
  <2>1. IsFiniteSet(0..MaxDoc(r) - 1) /\ Cardinality(0..MaxDoc(r) - 1) = MaxDoc(r)
    BY <1>2, FiniteNumbers
  <2>2. IsFiniteSet(g) /\ Cardinality(g) <= MaxDoc(r)
    BY <1>4, <2>1, FS_Subset
  <2> QED BY <1>2, <2>2, FS_CardinalityType
<1>6. \A i \in 1..n + 1 : IsFiniteSet(B(i)) /\ Cardinality(B(i)) \in Nat
  <2>1. ASSUME NEW i \in 1..n + 1 PROVE IsFiniteSet(B(i)) /\ Cardinality(B(i)) \in Nat
    <3>1. B(i) \in SUBSET g
      OBVIOUS
    <3> HIDE DEF B
    <3> QED BY <1>5, <3>1, FS_Subset, FS_CardinalityType
  <2> QED BY <2>1
<1>7. ASSUME NEW i \in 1..n
      PROVE  Cardinality(B(i + 1)) = Cardinality(B(i)) + Cardinality(r.subs[i].del)
  <2> DEFINE D == r.subs[i].del
             s == r.starts[i]
             M == {s + k : k \in D}
  <2>1. IsFiniteSet(D) /\ IsSub(r.subs[i])
    BY <1>1, DelFinite
  <2>2. r.subs[i].seg.size \in Nat /\ D \subseteq Locals(r, i) /\ D \in SUBSET Nat
    BY <2>1 DEF IsSub, Locals
  <2>3. i \in 1..n + 1 /\ i + 1 \in 1..n + 1
    BY <1>1
  <2>4. s \in Nat /\ r.starts[i + 1] = s + r.subs[i].seg.size /\ r.starts[i + 1] \in Nat
    BY <1>1, <1>2, <2>3, ReaderStarts
  <2>5. IsFiniteSet(M) /\ Cardinality(M) = Cardinality(D)
    <3> HIDE DEF D, s
    <3> QED BY <2>1, <2>2, <2>4, ShiftCounts
  <2>6. B(i + 1) = B(i) \cup M
    <3>1. ASSUME NEW d \in g PROVE d \in B(i + 1) <=> d \in B(i) \cup M
      <4>1. d \in Nat
        BY <1>2, <1>4
      <4>2. CASE d < s
        <5>1. d < r.starts[i + 1]
          BY <2>2, <2>4, <4>1, <4>2
        <5> QED BY <4>2, <5>1
      <4>3. CASE s <= d /\ d < r.starts[i + 1]
        <5>1. d - s \in Locals(r, i) /\ s + (d - s) = d
          BY <2>2, <2>4, <4>1, <4>3 DEF Locals
        <5>2. d - s \in D
          BY <1>1, <5>1 DEF DelsAgree
        <5> QED BY <4>3, <5>1, <5>2
      <4>4. CASE d >= r.starts[i + 1]
        <5>1. ~(d < s) /\ ~(d < r.starts[i + 1])
          BY <2>2, <2>4, <4>1, <4>4
        <5>2. ASSUME NEW k \in D PROVE d # s + k
          <6>1. k \in Nat /\ k < r.subs[i].seg.size
            BY <2>2 DEF Locals
          <6> QED BY <2>2, <2>4, <4>1, <4>4, <6>1
        <5> QED BY <5>1, <5>2
      <4> QED BY <2>4, <4>1, <4>2, <4>3, <4>4
    <3>2. ASSUME NEW k \in D PROVE s + k \in g
      BY <1>1, <2>2 DEF DelsAgree
    <3>3. M \subseteq g
      BY <3>2
    <3> HIDE DEF M
    <3> QED BY <3>1, <3>3
  <2>7. B(i) \cap M = {}
    <3>1. ASSUME NEW k \in D PROVE ~(s + k < r.starts[i])
      BY <2>2, <2>4
    <3> QED BY <3>1
  <2> HIDE DEF B, M, D
  <2>8. Cardinality(B(i) \cup M) = Cardinality(B(i)) + Cardinality(M) - Cardinality({})
    BY <1>6, <2>3, <2>5, <2>7, FS_Union
  <2>9. Cardinality(B(i)) \in Nat /\ Cardinality(M) \in Nat
    BY <1>6, <2>3, <2>5, FS_CardinalityType
  <2> QED BY <2>5, <2>6, <2>8, <2>9, FS_EmptySet DEF D
<1> DEFINE P(i) == live[i] = r.starts[i + 1] - Cardinality(B(i + 1))
           T == {i \in Nat : i <= n => P(i)}
<1>8. 0 \in T
  <2>1. B(1) = {}
    <3>1. \A d \in g : d \in Nat
      BY <1>2, <1>4
    <3> QED BY <1>2, <3>1
  <2>2. live[0] = 0
    BY <1>3 DEF IsLive
  <2> HIDE DEF B
  <2>3. Cardinality(B(1)) = 0
    BY <2>1, FS_EmptySet, Zenon
  <2>4. r.starts[0 + 1] = 0 /\ 0 + 1 = 1
    BY <1>2
  <2>5. P(0)
    BY <2>2, <2>3, <2>4
  <2> HIDE DEF P
  <2> QED BY <2>5
<1>9. ASSUME NEW i \in Nat, i \in T PROVE i + 1 \in T
  <2> DEFINE j == i + 1
  <2> HIDE DEF B, P, n
  <2>1. SUFFICES ASSUME i + 1 <= n PROVE P(j)
    OBVIOUS
  <2>2. j \in 1..n /\ j - 1 = i /\ j \in 1..n + 1 /\ i <= n
    BY <1>1, <2>1
  <2>3. live[i] = r.starts[j] - Cardinality(B(j))
    <3>1. P(i)
      BY <1>9, <2>2
    <3> QED BY <3>1 DEF P
  <2> HIDE DEF j, T
  <2>4. live[j] = live[i] + r.subs[j].seg.size - Cardinality(r.subs[j].del)
    BY <1>3, <2>2 DEF IsLive, n
  <2>5. Cardinality(B(j + 1)) = Cardinality(B(j)) + Cardinality(r.subs[j].del)
    BY <1>7, <2>2
  <2>6. r.starts[j + 1] = r.starts[j] + r.subs[j].seg.size
    BY <1>1, <2>2, ReaderStarts
  <2>7. /\ r.subs[j].seg.size \in Nat /\ Cardinality(r.subs[j].del) \in Nat
        /\ r.starts[j] \in Nat /\ Cardinality(B(j)) \in Nat
    BY <1>1, <1>2, <1>6, <2>2, DelFinite DEF IsSub
  <2>8. live[j] = r.starts[j + 1] - Cardinality(B(j + 1))
    BY <2>3, <2>4, <2>5, <2>6, <2>7
  <2> QED BY <2>8 DEF P
<1>10. n \in T
  <2> HIDE DEF T
  <2> QED BY <1>1, <1>8, <1>9, Induct
<1>11. live[n] = r.starts[n + 1] - Cardinality(B(n + 1))
  <2>1. P(n)
    <3> HIDE DEF P, n
    <3> QED BY <1>1, <1>10
  <2> QED BY <2>1
<1>12. B(n + 1) = g
  <2>1. \A d \in g : d < r.starts[n + 1]
    BY <1>2, <1>4
  <2> QED BY <2>1
<1> QED BY <1>2, <1>3, <1>5, <1>11, <1>12

-----------------------------------------------------------------------------
(* The inductive invariant *)

\* The norm of document d for field f: the one that was set, else the one that
\* was flushed with the document.
NormOf(r, ds, ns, f, d) ==
  IF <<d, f>> \in ns THEN 2 ELSE IF r.fis[f + 1] \in DOMAIN ds[d + 1] THEN 1 ELSE 0

NormsAgree(r, ds, ns) ==
  \A i \in DOMAIN r.subs : \A k \in Locals(r, i), f \in FieldsOf(r) :
    SubNorm(r.subs[i], r.maps[i][f], k) = NormOf(r, ds, ns, f, r.starts[i] + k)

NormedType(r, ns) == ns \subseteq (0..MaxDoc(r) - 1) \X FieldsOf(r)

CountAgrees(r, g) == r.num_docs_cache \in {-1, MaxDoc(r) - Cardinality(g)}

CacheAgrees(r, ds, ns) ==
  \A f \in FieldsOf(r) : r.norms_cache[f].cached =>
    r.norms_cache[f].bytes = [d \in 1..MaxDoc(r) |-> NormOf(r, ds, ns, f, d - 1)]

IInv(r, ds, g, ns) ==
  /\ Shape(r)
  /\ Len(ds) = MaxDoc(r)
  /\ DelsAgree(r, g)
  /\ r.has_deletions \/ g = {}
  /\ NormedType(r, ns)
  /\ NormsAgree(r, ds, ns)
  /\ CountAgrees(r, g)
  /\ CacheAgrees(r, ds, ns)

Inv == IInv(ir, docs, gone, normed) /\ CachesAreFresh

-----------------------------------------------------------------------------
(* The norms of a field, document by document and sub reader by sub reader *)

LEMMA NormsTable ==
  ASSUME NEW r, IsSubs(r.subs), r.starts = Starts(Sizes(r)), NEW ds, NEW ns,
         NormsAgree(r, ds, ns), NEW f \in FieldsOf(r)
  PROVE  AllNorms(r, f) = [d \in 1..MaxDoc(r) |-> NormOf(r, ds, ns, f, d - 1)]
<1>1. MaxDoc(r) \in Nat
  BY ReaderStarts
<1>2. ASSUME NEW k \in 1..MaxDoc(r)
      PROVE  LET i == PartOf(r, k - 1) IN
             SubNorm(r.subs[i], r.maps[i][f], k - 1 - r.starts[i]) = NormOf(r, ds, ns, f, k - 1)
  <2> DEFINE d == k - 1
             i == ReaderIndex(r, d)
             l == d - r.starts[i]
  <2>1. d \in 0..MaxDoc(r) - 1
    BY <1>1
  <2> HIDE DEF d
  <2>2. i \in DOMAIN r.subs /\ l \in Locals(r, i) /\ d = r.starts[i] + l
    BY <2>1, ReaderIndexHas
  <2>3. PartOf(r, d) = i
    BY <2>1, PartOfIndex
  <2> HIDE DEF i, l
  <2>4. SubNorm(r.subs[i], r.maps[i][f], l) = NormOf(r, ds, ns, f, d)
    BY <2>2 DEF NormsAgree
  <2>5. SubNorm(r.subs[i], r.maps[i][f], d - r.starts[i]) = NormOf(r, ds, ns, f, d)
    BY <2>4 DEF l
  <2> QED BY <2>3, <2>5, Zenon DEF d
<1> QED BY <1>2, Zenon DEF AllNorms

LEMMA TableNorms ==
  ASSUME NEW r, IsSubs(r.subs), r.starts = Starts(Sizes(r)), NEW ds, NEW ns,
         \A f \in FieldsOf(r) :
           AllNorms(r, f) = [d \in 1..MaxDoc(r) |-> NormOf(r, ds, ns, f, d - 1)]
  PROVE  NormsAgree(r, ds, ns)
<1>1. SUFFICES ASSUME NEW i \in DOMAIN r.subs, NEW k \in Locals(r, i), NEW f \in FieldsOf(r)
               PROVE  SubNorm(r.subs[i], r.maps[i][f], k) = NormOf(r, ds, ns, f, r.starts[i] + k)
  BY DEF NormsAgree
<1> DEFINE d == r.starts[i] + k
           e == d + 1
<1>2. MaxDoc(r) \in Nat /\ r.starts[i] \in Nat /\ k \in Nat /\ d \in 0..MaxDoc(r) - 1
  BY ReaderStarts, LocalHas
<1>3. PartOf(r, d) = i
  BY PartOfLocal
<1>4. d - r.starts[i] = k
  BY <1>2
<1> HIDE DEF d
<1>5. e \in 1..MaxDoc(r) /\ e - 1 = d
  BY <1>2
<1> HIDE DEF e
<1>6. AllNorms(r, f)[e] = SubNorm(r.subs[i], r.maps[i][f], k)
  BY <1>3, <1>4, <1>5 DEF AllNorms
<1>7. AllNorms(r, f)[e] = NormOf(r, ds, ns, f, d)
  BY <1>5
<1> QED BY <1>6, <1>7 DEF d

(* frt_mr_init: a reader as it is opened. *)
LEMMA ReaderShape ==
  ASSUME NEW r, IsSubs(r.subs), Len(r.fis) \in Nat, r.ext \in BOOLEAN, MapsShape(r),
         r = Reader(r.subs, r.fis, r.maps, r.ext)
  PROVE  /\ Shape(r) /\ r.num_docs_cache = -1
         /\ r.has_deletions = (\E i \in DOMAIN r.subs : r.subs[i].bv)
         /\ \A f \in FieldsOf(r) : r.norms_cache[f].cached = FALSE
<1>1. r = [multi |-> r.ext \/ Len(r.subs) # 1, ext |-> r.ext, subs |-> r.subs,
           starts |-> Starts(Sizes(r)),
           fis |-> r.fis, maps |-> r.maps, num_docs_cache |-> -1,
           has_deletions |-> \E i \in DOMAIN r.subs : r.subs[i].bv,
           norms_cache |-> [f \in FieldsOf(r) |-> NoNorms]]
  BY Zenon DEF Reader, Sizes, FieldsOf
<1>2. /\ r.multi = (r.ext \/ Len(r.subs) # 1) /\ r.starts = Starts(Sizes(r))
      /\ r.num_docs_cache = -1 /\ r.has_deletions = (\E i \in DOMAIN r.subs : r.subs[i].bv)
      /\ r.norms_cache = [f \in FieldsOf(r) |-> NoNorms]
  <2> DEFINE multi == r.ext \/ Len(r.subs) # 1
             ext == r.ext
             subs == r.subs
             starts == Starts(Sizes(r))
             fis == r.fis
             maps == r.maps
             dels == \E i \in DOMAIN r.subs : r.subs[i].bv
             cache == [f \in FieldsOf(r) |-> NoNorms]
  <2>1. r = [multi |-> multi, ext |-> ext, subs |-> subs, starts |-> starts, fis |-> fis,
             maps |-> maps, num_docs_cache |-> -1, has_deletions |-> dels,
             norms_cache |-> cache]
    BY <1>1, Zenon
  <2> HIDE DEF multi, ext, subs, starts, fis, maps, dels, cache
  <2>2. /\ r.multi = multi /\ r.starts = starts /\ r.num_docs_cache = -1
        /\ r.has_deletions = dels /\ r.norms_cache = cache
    BY <2>1
  <2> QED BY <2>2, Zenon DEF multi, starts, dels, cache
<1>3. r = [multi |-> r.multi, ext |-> r.ext, subs |-> r.subs, starts |-> r.starts,
          fis |-> r.fis, maps |-> r.maps, num_docs_cache |-> r.num_docs_cache,
          has_deletions |-> r.has_deletions, norms_cache |-> r.norms_cache]
  BY <1>1, <1>2, Zenon
<1>4. r.multi \in BOOLEAN /\ r.has_deletions \in BOOLEAN
  BY <1>2, Zenon
<1>5. \A f \in FieldsOf(r) : r.norms_cache[f].cached = FALSE
  BY <1>2 DEF NoNorms
<1>6. CacheShape(r)
  BY <1>2, <1>5 DEF CacheShape
<1> QED BY <1>2, <1>3, <1>4, <1>5, <1>6, Zenon DEF Shape

(* A reader that is opened on the right documents starts right. *)
LEMMA Opened ==
  ASSUME NEW r, NEW ds, NEW g, NEW ns,
         IsSubs(r.subs), Len(r.fis) \in Nat, r.ext \in BOOLEAN, MapsShape(r),
         r = Reader(r.subs, r.fis, r.maps, r.ext),
         Len(ds) = MaxDoc(r), DelsAgree(r, g), NormedType(r, ns), NormsAgree(r, ds, ns)
  PROVE  IInv(r, ds, g, ns)
<1>1. /\ Shape(r) /\ r.num_docs_cache = -1
      /\ r.has_deletions = (\E i \in DOMAIN r.subs : r.subs[i].bv)
      /\ \A f \in FieldsOf(r) : r.norms_cache[f].cached = FALSE
  BY ReaderShape
<1>2. r.has_deletions \/ g = {}
  <2>1. SUFFICES ASSUME NEW d \in g PROVE r.has_deletions
    OBVIOUS
  <2> DEFINE i == ReaderIndex(r, d)
             k == d - r.starts[i]
  <2>2. r.starts = Starts(Sizes(r)) /\ d \in 0..MaxDoc(r) - 1
    BY <1>1, <2>1 DEF Shape, DelsAgree
  <2>3. i \in DOMAIN r.subs /\ k \in Locals(r, i) /\ d = r.starts[i] + k
    BY <2>2, ReaderIndexHas
  <2> HIDE DEF i, k
  <2>4. k \in r.subs[i].del
    BY <2>1, <2>3 DEF DelsAgree
  <2>5. r.subs[i].bv = (r.subs[i].del # {})
    BY <2>3 DEF IsSubs, IsSub
  <2>6. r.subs[i].bv
    BY <2>4, <2>5
  <2> QED BY <1>1, <2>3, <2>6
<1>3. CountAgrees(r, g)
  BY <1>1 DEF CountAgrees
<1>4. CacheAgrees(r, ds, ns)
  BY <1>1 DEF CacheAgrees
<1> QED BY <1>1, <1>2, <1>3, <1>4 DEF IInv

LEMMA RightNormsTable ==
  ASSUME Len(docs) = MaxDoc(ir), NEW f
  PROVE  RightNorms(f) = [d \in 1..MaxDoc(ir) |-> NormOf(ir, docs, normed, f, d - 1)]
<1>1. ASSUME NEW d \in 1..MaxDoc(ir), MaxDoc(ir) \in Nat PROVE (d - 1) + 1 = d
  BY <1>1
<1> QED BY <1>1 DEF RightNorms, NormOf

LEMMA InitInv ==
  ASSUME ReaderInit
  PROVE  Inv
<1>1. /\ IsSubs(ir.subs) /\ Len(ir.fis) \in Nat /\ ir.ext \in BOOLEAN
      /\ ir = Reader(ir.subs, ir.fis, ir.maps, ir.ext)
      /\ MapsShape(ir) /\ Len(docs) = MaxDoc(ir)
      /\ gone = Deleted(ir) /\ normed = {}
      /\ reply = [about |-> "none", right |-> TRUE]
  BY DEF ReaderInit, MapsShape
<1>2. Shape(ir)
  BY <1>1, ReaderShape
<1>3. ir.starts = Starts(Sizes(ir))
  BY <1>2 DEF Shape
<1>4. DelsAgree(ir, gone)
  BY <1>1, <1>3, DeletedAgree
<1>5. NormedType(ir, normed)
  BY <1>1 DEF NormedType
<1>6. NormsAgree(ir, docs, normed)
  <2>1. \A f \in FieldsOf(ir) : AllNorms(ir, f) = RightNorms(f)
    BY DEF ReaderInit, FieldsOf, UsedFields
  <2>2. \A f \in FieldsOf(ir) :
          AllNorms(ir, f) = [d \in 1..MaxDoc(ir) |-> NormOf(ir, docs, normed, f, d - 1)]
    BY <1>1, <2>1, RightNormsTable
  <2> QED BY <1>1, <1>3, <2>2, TableNorms
<1>7. IInv(ir, docs, gone, normed)
  BY <1>1, <1>4, <1>5, <1>6, Opened
<1>8. CachesAreFresh
  BY <1>1 DEF CachesAreFresh
<1> QED BY <1>7, <1>8 DEF Inv

-----------------------------------------------------------------------------
(* Changes of the reader *)

(* s has the segments of r. *)
SameSegments(r, s) ==
  /\ IsSubs(s.subs) /\ Len(s.subs) = Len(r.subs) /\ s.starts = r.starts /\ s.fis = r.fis
  /\ \A i \in DOMAIN r.subs : s.subs[i].seg = r.subs[i].seg

LEMMA SegmentsSame ==
  ASSUME NEW r, NEW s, IsSubs(r.subs), r.starts = Starts(Sizes(r)), SameSegments(r, s)
  PROVE  /\ DOMAIN s.subs = DOMAIN r.subs /\ s.starts = Starts(Sizes(s))
         /\ MaxDoc(s) = MaxDoc(r) /\ FieldsOf(s) = FieldsOf(r)
         /\ \A i \in DOMAIN r.subs : Locals(s, i) = Locals(r, i)
<1>1. DOMAIN s.subs = DOMAIN r.subs
  BY DEF IsSubs, SameSegments
<1>2. Sizes(s) = Sizes(r)
  BY <1>1 DEF Sizes, SameSegments
<1> QED BY <1>1, <1>2 DEF SameSegments, MaxDoc, FieldsOf, Locals

AreDels(sub, D, b) == D \subseteq 0..sub.seg.size - 1 /\ b = (D # {})
SubOf(seg, norms, del, bv) == [seg |-> seg, norms |-> norms, del |-> del, bv |-> bv]
WithDels(sub, D, b) == [sub EXCEPT !.del = D, !.bv = b]

DelsOnly(new, sub, D) ==
  IsSub(new) /\ new.seg = sub.seg /\ new.norms = sub.norms /\ new.del = D

LEMMA SubRecord ==
  ASSUME NEW seg, NEW norms, NEW del, NEW bv, NEW D, NEW b
  PROVE  WithDels(SubOf(seg, norms, del, bv), D, b) = SubOf(seg, norms, D, b)
<1> DEFINE s == [seg |-> seg, norms |-> norms, del |-> del, bv |-> bv]
<1>1. DOMAIN s = {"seg", "norms", "del", "bv"} /\ s.seg = seg /\ s.norms = norms
  OBVIOUS
<1>2. WithDels(s, D, b) =
        [x \in DOMAIN s |-> IF x = "bv" THEN b ELSE IF x = "del" THEN D ELSE s[x]]
  <2> HIDE DEF s
  <2> QED BY <1>1 DEF WithDels
<1> QED BY <1>1, <1>2 DEF SubOf

LEMMA SubDeletes ==
  ASSUME NEW sub, IsSub(sub), NEW D, NEW b, AreDels(sub, D, b)
  PROVE  DelsOnly(WithDels(sub, D, b), sub, D)
<1> DEFINE new == WithDels(sub, D, b)
           seg == sub.seg
           norms == sub.norms
           del == sub.del
           bv == sub.bv
<1>1. sub = [seg |-> seg, norms |-> norms, del |-> del, bv |-> bv]
  BY DEF IsSub
<1>2. /\ seg.size \in Nat
      /\ \A fnum \in DOMAIN norms : DOMAIN norms[fnum] = 1..seg.size
      /\ D \subseteq 0..seg.size - 1
  BY DEF IsSub, AreDels
<1> HIDE DEF seg, norms, del, bv
<1>3. new = [seg |-> seg, norms |-> norms, del |-> D, bv |-> b]
  <2>1. sub = SubOf(seg, norms, del, bv)
    BY <1>1, Zenon DEF SubOf
  <2>2. new = SubOf(seg, norms, D, b)
    BY <2>1, SubRecord
  <2> QED BY <2>2, Zenon DEF SubOf
<1> HIDE DEF new
<1>4. new.seg = seg /\ new.norms = norms /\ new.del = D /\ new.bv = b
  BY <1>3
<1>5. new = [seg |-> new.seg, norms |-> new.norms, del |-> new.del, bv |-> new.bv]
  BY <1>3, <1>4
<1>6. IsSub(new)
  <2>1. new.bv = (new.del # {})
    BY <1>4 DEF AreDels
  <2> QED BY <1>2, <1>4, <1>5, <2>1, Zenon DEF IsSub
<1> QED BY <1>4, <1>6, Zenon DEF seg, norms, new, DelsOnly

(* A call that leaves the norms of the sub readers alone. *)
LEMMA NormsKept ==
  ASSUME NEW r, NEW s, IsSubs(r.subs), r.starts = Starts(Sizes(r)), SameSegments(r, s),
         s.maps = r.maps, \A i \in DOMAIN r.subs : s.subs[i].norms = r.subs[i].norms,
         NEW ds, NEW ns, NormsAgree(r, ds, ns)
  PROVE  NormsAgree(s, ds, ns)
<1>1. /\ DOMAIN s.subs = DOMAIN r.subs /\ FieldsOf(s) = FieldsOf(r)
      /\ s.starts = r.starts /\ s.fis = r.fis
      /\ \A i \in DOMAIN r.subs : Locals(s, i) = Locals(r, i)
  BY SegmentsSame DEF SameSegments
<1>2. ASSUME NEW i \in DOMAIN r.subs, NEW k \in Locals(r, i), NEW f \in FieldsOf(r)
      PROVE  SubNorm(s.subs[i], s.maps[i][f], k) = NormOf(s, ds, ns, f, s.starts[i] + k)
  <2>1. SubNorm(r.subs[i], r.maps[i][f], k) = NormOf(r, ds, ns, f, r.starts[i] + k)
    BY DEF NormsAgree
  <2>2. NormOf(s, ds, ns, f, s.starts[i] + k) = NormOf(r, ds, ns, f, r.starts[i] + k)
    BY <1>1, Zenon DEF NormOf
  <2>3. SubNorm(s.subs[i], s.maps[i][f], k) = SubNorm(r.subs[i], r.maps[i][f], k)
    BY Zenon DEF SubNorm
  <2> QED BY <2>1, <2>2, <2>3
<1> QED BY <1>1, <1>2 DEF NormsAgree

(* The record of a reader, and what every call keeps of it. *)
IsReader(r) ==
  r = [multi |-> r.multi, ext |-> r.ext, subs |-> r.subs, starts |-> r.starts,
       fis |-> r.fis, maps |-> r.maps, num_docs_cache |-> r.num_docs_cache,
       has_deletions |-> r.has_deletions, norms_cache |-> r.norms_cache]

ReaderFields == {"multi", "ext", "subs", "starts", "fis", "maps", "num_docs_cache",
                 "has_deletions", "norms_cache"}

IsRecord(r) == DOMAIN r = ReaderFields /\ r = [x \in ReaderFields |-> r[x]]

LEMMA ReaderRecord ==
  ASSUME NEW r, IsReader(r)
  PROVE  IsRecord(r)
<1> DEFINE a == r.multi
           b == r.ext
           c == r.subs
           d == r.starts
           e == r.fis
           f == r.maps
           g == r.num_docs_cache
           h == r.has_deletions
           i == r.norms_cache
           q == [multi |-> a, ext |-> b, subs |-> c, starts |-> d, fis |-> e, maps |-> f,
                 num_docs_cache |-> g, has_deletions |-> h, norms_cache |-> i]
<1>1. r = q
  BY Zenon DEF IsReader
<1> HIDE DEF a, b, c, d, e, f, g, h, i
<1>2. IsRecord(q)
  BY DEF ReaderFields, IsRecord
<1> HIDE DEF q
<1> QED BY <1>1, <1>2, Zenon

LEMMA RecordReader ==
  ASSUME NEW r, r = [x \in ReaderFields |-> r[x]]
  PROVE  IsReader(r)
<1> DEFINE q == [multi |-> r.multi, ext |-> r.ext, subs |-> r.subs, starts |-> r.starts,
                 fis |-> r.fis, maps |-> r.maps, num_docs_cache |-> r.num_docs_cache,
                 has_deletions |-> r.has_deletions, norms_cache |-> r.norms_cache]
<1>1. DOMAIN q = ReaderFields /\ q = [x \in ReaderFields |-> q[x]]
  BY DEF ReaderFields
<1>2. ASSUME NEW x \in ReaderFields PROVE r[x] = q[x]
  BY DEF ReaderFields
<1> HIDE DEF q
<1>3. r = q
  BY <1>1, <1>2
<1> QED BY <1>3, Zenon DEF q, IsReader

LEMMA ShapeKept ==
  ASSUME NEW r, NEW s, Shape(r), SameSegments(r, s), IsReader(s), s.multi = r.multi,
         s.ext = r.ext, s.maps = r.maps, s.has_deletions \in BOOLEAN, CacheShape(s)
  PROVE  Shape(s)
<1>1. /\ DOMAIN s.subs = DOMAIN r.subs /\ s.starts = Starts(Sizes(s)) /\ s.fis = r.fis
      /\ IsSubs(s.subs)
  BY SegmentsSame DEF Shape, SameSegments
<1>2. MapsShape(s)
  BY <1>1 DEF Shape, MapsShape, SameNumbers
<1>3. s.multi \in BOOLEAN /\ s.ext \in BOOLEAN /\ Len(s.fis) \in Nat
  BY <1>1 DEF Shape
<1> QED BY <1>1, <1>2, <1>3, Zenon DEF Shape, IsReader

FieldsKept(r, s) ==
  /\ s.multi = r.multi /\ s.ext = r.ext /\ s.starts = r.starts /\ s.fis = r.fis
  /\ s.maps = r.maps /\ IsReader(s)

(* Calls that change the deletions only. *)
OnlyDels(r, s) ==
  /\ FieldsKept(r, s) /\ s.norms_cache = r.norms_cache /\ s.num_docs_cache = -1
  /\ s.has_deletions \in BOOLEAN
  /\ Len(s.subs) = Len(r.subs) /\ DOMAIN s.subs = DOMAIN r.subs
  /\ \A i \in DOMAIN r.subs : DelsOnly(s.subs[i], r.subs[i], s.subs[i].del)

LEMMA OnlyDelsSegments ==
  ASSUME NEW r, NEW s, IsSubs(r.subs), OnlyDels(r, s)
  PROVE  SameSegments(r, s)
<1>1. IsSubs(s.subs)
  BY DEF OnlyDels, DelsOnly, IsSubs
<1> QED BY <1>1 DEF OnlyDels, DelsOnly, FieldsKept, SameSegments

LEMMA OnlyDelsInv ==
  ASSUME NEW r, NEW s, NEW ds, NEW g, NEW ns, NEW h, IInv(r, ds, g, ns), OnlyDels(r, s),
         DelsAgree(s, h), s.has_deletions \/ h = {}
  PROVE  IInv(s, ds, h, ns)
<1>1. Shape(r) /\ IsSubs(r.subs) /\ r.starts = Starts(Sizes(r))
  BY DEF IInv, Shape
<1>2. SameSegments(r, s)
  BY <1>1, OnlyDelsSegments
<1>3. /\ DOMAIN s.subs = DOMAIN r.subs /\ s.starts = Starts(Sizes(s))
      /\ MaxDoc(s) = MaxDoc(r) /\ FieldsOf(s) = FieldsOf(r)
      /\ \A j \in DOMAIN r.subs : Locals(s, j) = Locals(r, j)
  BY <1>1, <1>2, SegmentsSame
<1>4. /\ s.multi = r.multi /\ s.ext = r.ext /\ s.maps = r.maps /\ s.fis = r.fis
      /\ IsReader(s) /\ s.norms_cache = r.norms_cache /\ s.num_docs_cache = -1
      /\ s.has_deletions \in BOOLEAN
  BY DEF OnlyDels, FieldsKept
<1>5. Shape(s)
  <2>1. CacheShape(s)
    BY <1>1, <1>3, <1>4 DEF Shape, CacheShape
  <2> QED BY <1>1, <1>2, <1>4, <2>1, ShapeKept
<1>6. NormedType(s, ns) /\ CountAgrees(s, h) /\ Len(ds) = MaxDoc(s)
  BY <1>3, <1>4 DEF IInv, NormedType, CountAgrees
<1>7. NormsAgree(s, ds, ns)
  <2>1. \A j \in DOMAIN r.subs : s.subs[j].norms = r.subs[j].norms
    BY DEF OnlyDels, DelsOnly
  <2>2. NormsAgree(r, ds, ns)
    BY DEF IInv
  <2> QED BY <1>1, <1>2, <1>4, <2>1, <2>2, NormsKept, Zenon
<1>8. CacheAgrees(s, ds, ns)
  <2>1. \A f, e : NormOf(s, ds, ns, f, e) = NormOf(r, ds, ns, f, e)
    BY <1>4 DEF NormOf
  <2> QED BY <1>3, <1>4, <2>1 DEF IInv, CacheAgrees
<1> QED BY <1>5, <1>6, <1>7, <1>8 DEF IInv

DocDeleted(r, d) ==
  LET i == ReaderIndex(r, d) IN
  [r EXCEPT !.subs[i].del = @ \cup {d - r.starts[i]}, !.subs[i].bv = TRUE,
            !.num_docs_cache = -1, !.has_deletions = TRUE]

DocDeletedIn(r, s, i, d) ==
  /\ FieldsKept(r, s) /\ s.norms_cache = r.norms_cache
  /\ s.num_docs_cache = -1 /\ s.has_deletions = TRUE
  /\ s.subs = [r.subs EXCEPT ![i] =
                 WithDels(r.subs[i], r.subs[i].del \cup {d - r.starts[i]}, TRUE)]

LEMMA DocDeletedFields ==
  ASSUME NEW r, IsReader(r), NEW d, NEW i, i = ReaderIndex(r, d), i \in DOMAIN r.subs,
         NEW s, s = DocDeleted(r, d)
  PROVE  DocDeletedIn(r, s, i, d)
<1> DEFINE k == d - r.starts[i]
           subs == r.subs
<1>1. IsRecord(r)
  BY ReaderRecord
<1>2. s = [r EXCEPT !.subs[i].del = @ \cup {k}, !.subs[i].bv = TRUE,
                    !.num_docs_cache = -1, !.has_deletions = TRUE]
  BY Zenon DEF DocDeleted
<1> HIDE DEF k
<1>3. /\ s.multi = r.multi /\ s.ext = r.ext /\ s.starts = r.starts
      /\ s.fis = r.fis /\ s.maps = r.maps /\ s.norms_cache = r.norms_cache
      /\ s.num_docs_cache = -1 /\ s.has_deletions = TRUE
  BY <1>1, <1>2 DEF IsRecord, ReaderFields
<1>4. s = [x \in ReaderFields |-> s[x]]
  <2>1. s = [[[[r EXCEPT !.subs[i].del = @ \cup {k}] EXCEPT !.subs[i].bv = TRUE]
                EXCEPT !.num_docs_cache = -1] EXCEPT !.has_deletions = TRUE]
    BY <1>2
  <2> QED BY <1>1, <2>1 DEF IsRecord, ReaderFields
<1>5. s.subs = [[subs EXCEPT ![i].del = @ \cup {k}] EXCEPT ![i].bv = TRUE]
  BY <1>1, <1>2 DEF IsRecord, ReaderFields
<1>6. s.subs = [subs EXCEPT ![i] = WithDels(subs[i], subs[i].del \cup {k}, TRUE)]
  <2>1. i \in DOMAIN subs
    OBVIOUS
  <2> HIDE DEF subs
  <2> QED BY <1>5, <2>1 DEF WithDels
<1>7. IsReader(s)
  BY <1>4, RecordReader
<1> QED BY <1>3, <1>6, <1>7, Zenon DEF k, DocDeletedIn, FieldsKept

LEMMA DeleteDocInv ==
  ASSUME NEW r, NEW ds, NEW g, NEW ns, IInv(r, ds, g, ns), NEW d \in 0..MaxDoc(r) - 1,
         NEW s, s = DocDeleted(r, d)
  PROVE  IInv(s, ds, g \cup {d}, ns)
<1> DEFINE i == ReaderIndex(r, d)
           k == d - r.starts[i]
           old == r.subs[i]
           E == old.del \cup {k}
           new == WithDels(old, E, TRUE)
<1>1. Shape(r) /\ IsSubs(r.subs) /\ r.starts = Starts(Sizes(r))
  BY DEF IInv, Shape
<1>2. i \in DOMAIN r.subs /\ k \in Locals(r, i) /\ d = r.starts[i] + k
  BY <1>1, ReaderIndexHas
<1>3. IsReader(r)
  BY <1>1, Zenon DEF Shape, IsReader
<1>4. /\ s.multi = r.multi /\ s.ext = r.ext /\ s.starts = r.starts
      /\ s.fis = r.fis /\ s.maps = r.maps /\ s.norms_cache = r.norms_cache
      /\ s.num_docs_cache = -1 /\ s.has_deletions = TRUE
      /\ s.subs = [r.subs EXCEPT ![i] = new]
      /\ IsReader(s)
  <2> HIDE DEF i
  <2>1. i = ReaderIndex(r, d)
    BY DEF i
  <2>2. DocDeletedIn(r, s, i, d)
    BY <1>2, <1>3, <2>1, DocDeletedFields
  <2> QED BY <2>2, Zenon DEF DocDeletedIn, FieldsKept
<1> HIDE DEF i, k
<1>5. IsSub(old)
  BY <1>1, <1>2 DEF IsSubs
<1>6. IsSub(new) /\ new.seg = old.seg /\ new.norms = old.norms /\ new.del = E
  <2>1. E \subseteq 0..old.seg.size - 1
    BY <1>2, <1>5 DEF IsSub, Locals
  <2> DEFINE flag == TRUE
  <2>2. AreDels(old, E, flag) /\ new = WithDels(old, E, flag)
    BY <2>1 DEF AreDels
  <2> HIDE DEF E, old, flag, new
  <2>3. DelsOnly(new, old, E)
    BY <1>5, <2>2, SubDeletes
  <2> QED BY <2>3, Zenon DEF DelsOnly
<1> HIDE DEF new
<1>7. OnlyDels(r, s)
  <2>1. Len(s.subs) = Len(r.subs) /\ DOMAIN s.subs = DOMAIN r.subs
    BY <1>1, <1>4 DEF IsSubs
  <2>2. ASSUME NEW j \in DOMAIN r.subs PROVE DelsOnly(s.subs[j], r.subs[j], s.subs[j].del)
    <3>1. CASE j = i
      BY <1>4, <1>6, <3>1 DEF DelsOnly
    <3>2. CASE j # i
      <4>1. s.subs[j] = r.subs[j] /\ IsSub(r.subs[j])
        BY <1>1, <1>4, <3>2 DEF IsSubs
      <4> QED BY <4>1 DEF DelsOnly
    <3> QED BY <3>1, <3>2
  <2> QED BY <1>4, <2>1, <2>2 DEF OnlyDels, FieldsKept
<1>8. /\ DOMAIN s.subs = DOMAIN r.subs /\ MaxDoc(s) = MaxDoc(r)
      /\ \A j \in DOMAIN r.subs : Locals(s, j) = Locals(r, j)
  BY <1>1, <1>7, OnlyDelsSegments, SegmentsSame
<1>9. DelsAgree(s, g \cup {d})
  <2>1. g \cup {d} \subseteq 0..MaxDoc(s) - 1
    BY <1>8 DEF IInv, DelsAgree
  <2>2. ASSUME NEW j \in DOMAIN r.subs, NEW l \in Locals(r, j)
        PROVE  r.starts[j] + l \in g \cup {d} <=> l \in s.subs[j].del
    <3>1. r.starts[j] + l \in g <=> l \in r.subs[j].del
      BY DEF IInv, DelsAgree
    <3>2. CASE j = i
      <4>1. s.subs[j].del = r.subs[j].del \cup {k}
        BY <1>2, <1>4, <1>6, <3>2
      <4>2. r.starts[j] + l = d <=> l = k
        <5>1. r.starts[i] \in Nat /\ k \in Nat /\ l \in Nat
          BY <1>1, <1>2, <3>2, LocalHas
        <5> QED BY <1>2, <3>2, <5>1
      <4> QED BY <3>1, <4>1, <4>2
    <3>3. CASE j # i
      <4>1. s.subs[j] = r.subs[j]
        BY <1>4, <3>3
      <4>2. r.starts[j] + l # d
        <5>1. PartOf(r, r.starts[j] + l) = j /\ PartOf(r, r.starts[i] + k) = i
          BY <1>1, <1>2, PartOfLocal
        <5> QED BY <1>2, <3>3, <5>1
      <4> QED BY <3>1, <4>1, <4>2
    <3> QED BY <3>2, <3>3
  <2> QED BY <1>4, <1>8, <2>1, <2>2 DEF DelsAgree
<1> QED BY <1>4, <1>7, <1>9, OnlyDelsInv

Undeleted(r) ==
  [r EXCEPT !.subs = [i \in DOMAIN @ |-> [@[i] EXCEPT !.del = {}, !.bv = FALSE]],
            !.num_docs_cache = -1, !.has_deletions = FALSE]

LEMMA UndeleteAllInv ==
  ASSUME NEW r, NEW ds, NEW g, NEW ns, IInv(r, ds, g, ns), NEW s, s = Undeleted(r)
  PROVE  IInv(s, ds, {}, ns)
<1> DEFINE cleared == [i \in DOMAIN r.subs |-> WithDels(r.subs[i], {}, FALSE)]
<1>1. Shape(r) /\ IsSubs(r.subs) /\ r.starts = Starts(Sizes(r)) /\ IsReader(r)
  BY DEF IInv, Shape, IsReader
<1>2. IsRecord(r)
  BY <1>1, ReaderRecord
<1>3. s = [[[r EXCEPT !.subs = cleared] EXCEPT !.num_docs_cache = -1]
             EXCEPT !.has_deletions = FALSE]
  BY DEF Undeleted, WithDels
<1> HIDE DEF cleared
<1>4. /\ s.multi = r.multi /\ s.ext = r.ext /\ s.starts = r.starts
      /\ s.fis = r.fis /\ s.maps = r.maps /\ s.norms_cache = r.norms_cache
      /\ s.num_docs_cache = -1 /\ s.has_deletions = FALSE /\ s.subs = cleared
      /\ s = [x \in ReaderFields |-> s[x]]
  BY <1>2, <1>3 DEF IsRecord, ReaderFields
<1>5. IsReader(s)
  BY <1>4, RecordReader
<1>6. ASSUME NEW i \in DOMAIN r.subs
      PROVE  DelsOnly(cleared[i], r.subs[i], {})
  <2> DEFINE D == {}
             b == FALSE
  <2>1. IsSub(r.subs[i]) /\ AreDels(r.subs[i], D, b)
    BY <1>1 DEF IsSubs, AreDels
  <2>2. cleared[i] = WithDels(r.subs[i], D, b)
    BY DEF cleared
  <2>3. DelsOnly(WithDels(r.subs[i], D, b), r.subs[i], D)
    <3> HIDE DEF D, b
    <3> QED BY <2>1, SubDeletes
  <2> QED BY <2>2, <2>3
<1>7. OnlyDels(r, s)
  <2>1. DOMAIN r.subs = 1..Len(r.subs) /\ Len(r.subs) \in Nat
    BY <1>1 DEF IsSubs
  <2>2. DOMAIN s.subs = DOMAIN r.subs /\ Len(s.subs) = Len(r.subs)
    BY <1>4, <2>1 DEF cleared
  <2>3. \A i \in DOMAIN r.subs : DelsOnly(s.subs[i], r.subs[i], s.subs[i].del)
    BY <1>4, <1>6 DEF DelsOnly
  <2> QED BY <1>4, <1>5, <2>2, <2>3 DEF OnlyDels, FieldsKept
<1>8. DelsAgree(s, {})
  <2>1. DOMAIN s.subs = DOMAIN r.subs
    BY <1>7 DEF OnlyDels
  <2>2. \A i \in DOMAIN s.subs : s.subs[i].del = {}
    BY <1>4, <1>6, <2>1 DEF DelsOnly
  <2> QED BY <2>2 DEF DelsAgree
<1> QED BY <1>7, <1>8, OnlyDelsInv

-----------------------------------------------------------------------------
(* Questions *)

LEMMA OnlyCachesInv ==
  ASSUME NEW r, NEW ds, NEW g, NEW ns, IInv(r, ds, g, ns), NEW s, FieldsKept(r, s),
         s.subs = r.subs, s.has_deletions = r.has_deletions,
         s.num_docs_cache \in {-1, MaxDoc(r) - Cardinality(g)},
         DOMAIN s.norms_cache = FieldsOf(r),
         \A f \in FieldsOf(r) :
           /\ s.norms_cache[f].cached \in BOOLEAN
           /\ s.norms_cache[f].cached =>
                s.norms_cache[f].bytes = [d \in 1..MaxDoc(r) |-> NormOf(r, ds, ns, f, d - 1)]
  PROVE  IInv(s, ds, g, ns)
<1>1. Shape(r) /\ IsSubs(r.subs) /\ r.starts = Starts(Sizes(r))
  BY DEF IInv, Shape
<1>2. /\ s.multi = r.multi /\ s.ext = r.ext /\ s.starts = r.starts /\ s.fis = r.fis
      /\ s.maps = r.maps /\ IsReader(s)
  BY DEF FieldsKept
<1>3. SameSegments(r, s)
  BY <1>1, <1>2 DEF SameSegments
<1>4. MaxDoc(s) = MaxDoc(r) /\ FieldsOf(s) = FieldsOf(r) /\ \A i : Locals(s, i) = Locals(r, i)
  BY <1>2, Zenon DEF MaxDoc, FieldsOf, Locals
<1>5. Shape(s)
  <2>1. CacheShape(s) /\ s.has_deletions \in BOOLEAN
    BY <1>1, <1>4 DEF Shape, CacheShape
  <2> QED BY <1>1, <1>2, <1>3, <2>1, ShapeKept
<1>6. DelsAgree(s, g) /\ NormedType(s, ns) /\ CountAgrees(s, g) /\ Len(ds) = MaxDoc(s)
  BY <1>2, <1>4 DEF IInv, DelsAgree, NormedType, CountAgrees
<1>7. NormsAgree(s, ds, ns)
  <2>1. NormsAgree(r, ds, ns)
    BY DEF IInv
  <2>2. \A i \in DOMAIN r.subs : s.subs[i].norms = r.subs[i].norms
    OBVIOUS
  <2> QED BY <1>1, <1>2, <1>3, <2>1, <2>2, NormsKept
<1>8. CacheAgrees(s, ds, ns)
  <2>1. \A f, e : NormOf(s, ds, ns, f, e) = NormOf(r, ds, ns, f, e)
    BY <1>2 DEF NormOf
  <2> QED BY <1>4, <2>1 DEF CacheAgrees
<1> QED BY <1>5, <1>6, <1>7, <1>8 DEF IInv

(* mr_num_docs keeps the number it gives. *)
Counted(r, num) == [r EXCEPT !.num_docs_cache = IF r.multi THEN num ELSE @]

LEMMA NumDocsInv ==
  ASSUME NEW r, NEW ds, NEW g, NEW ns, IInv(r, ds, g, ns), NEW num, NEW s,
         num = IF r.multi /\ r.num_docs_cache # -1 THEN r.num_docs_cache ELSE LiveDocs(r),
         s = Counted(r, num)
  PROVE  IInv(s, ds, g, ns) /\ num = Len(ds) - Cardinality(g)
<1>1. Shape(r) /\ IsSubs(r.subs) /\ r.starts = Starts(Sizes(r)) /\ IsReader(r)
  BY DEF IInv, Shape, IsReader
<1>2. LiveDocs(r) = MaxDoc(r) - Cardinality(g)
  BY <1>1, LiveCount DEF IInv
<1>3. num = MaxDoc(r) - Cardinality(g)
  BY <1>2 DEF IInv, CountAgrees
<1>4. IsRecord(r)
  BY <1>1, ReaderRecord
<1> DEFINE cnt == IF r.multi THEN num ELSE r.num_docs_cache
<1>5. s = [r EXCEPT !.num_docs_cache = cnt]
  BY DEF Counted
<1>6. cnt \in {-1, MaxDoc(r) - Cardinality(g)}
  BY <1>3 DEF IInv, CountAgrees
<1> HIDE DEF cnt
<1>7. /\ s.multi = r.multi /\ s.ext = r.ext /\ s.starts = r.starts
      /\ s.fis = r.fis /\ s.maps = r.maps /\ s.norms_cache = r.norms_cache
      /\ s.num_docs_cache = cnt /\ s.has_deletions = r.has_deletions /\ s.subs = r.subs
      /\ s = [x \in ReaderFields |-> s[x]]
  BY <1>4, <1>5 DEF IsRecord, ReaderFields
<1>8. IsReader(s)
  BY <1>7, RecordReader
<1>9. FieldsKept(r, s)
  BY <1>7, <1>8 DEF FieldsKept
<1>10. /\ DOMAIN r.norms_cache = FieldsOf(r)
       /\ \A f \in FieldsOf(r) :
            /\ r.norms_cache[f].cached \in BOOLEAN
            /\ r.norms_cache[f].cached =>
                 r.norms_cache[f].bytes = [d \in 1..MaxDoc(r) |-> NormOf(r, ds, ns, f, d - 1)]
  BY <1>1 DEF IInv, Shape, CacheShape, CacheAgrees
<1>11. IInv(s, ds, g, ns)
  BY <1>6, <1>7, <1>9, <1>10, OnlyCachesInv
<1> QED BY <1>3, <1>11 DEF IInv

NormTable(r, ds, ns, f) == [d \in 1..MaxDoc(r) |-> NormOf(r, ds, ns, f, d - 1)]

(* mr_get_norms keeps the norms it gives. *)
WithNorms(r, f, got) ==
  [r EXCEPT !.norms_cache[f] = IF r.multi THEN [cached |-> TRUE, bytes |-> got] ELSE @]

LEMMA GetNormsInv ==
  ASSUME NEW r, NEW ds, NEW g, NEW ns, IInv(r, ds, g, ns), NEW f \in FieldsOf(r), NEW got, NEW s,
         got = IF r.norms_cache[f].cached THEN r.norms_cache[f].bytes ELSE AllNorms(r, f),
         s = WithNorms(r, f, got)
  PROVE  IInv(s, ds, g, ns) /\ got = NormTable(r, ds, ns, f)
<1> DEFINE Right(e) == [d \in 1..MaxDoc(r) |-> NormOf(r, ds, ns, e, d - 1)]
<1>1. Shape(r) /\ IsSubs(r.subs) /\ r.starts = Starts(Sizes(r)) /\ IsReader(r)
  BY DEF IInv, Shape, IsReader
<1>2. AllNorms(r, f) = Right(f)
  <2>1. NormsAgree(r, ds, ns)
    BY DEF IInv
  <2> QED BY <1>1, <2>1, NormsTable
<1>3. /\ DOMAIN r.norms_cache = FieldsOf(r)
      /\ \A e \in FieldsOf(r) :
           /\ r.norms_cache[e].cached \in BOOLEAN
           /\ r.norms_cache[e].cached => r.norms_cache[e].bytes = Right(e)
  BY <1>1 DEF IInv, Shape, CacheShape, CacheAgrees
<1> HIDE DEF Right
<1>4. got = Right(f)
  BY <1>2, <1>3
<1>5. IsRecord(r)
  BY <1>1, ReaderRecord
<1> DEFINE entry == IF r.multi THEN [cached |-> TRUE, bytes |-> got] ELSE r.norms_cache[f]
           cache == [r.norms_cache EXCEPT ![f] = entry]
<1>6. entry.cached \in BOOLEAN /\ (entry.cached => entry.bytes = Right(f))
  BY <1>3, <1>4
<1>7. s = [r EXCEPT !.norms_cache = cache]
  BY DEF WithNorms
<1> HIDE DEF entry
<1>8. /\ DOMAIN cache = FieldsOf(r)
      /\ \A e \in FieldsOf(r) : cache[e].cached \in BOOLEAN
                                /\ (cache[e].cached => cache[e].bytes = Right(e))
  BY <1>3, <1>6
<1> HIDE DEF cache
<1>9. /\ s.multi = r.multi /\ s.ext = r.ext /\ s.starts = r.starts
      /\ s.fis = r.fis /\ s.maps = r.maps /\ s.norms_cache = cache
      /\ s.num_docs_cache = r.num_docs_cache /\ s.has_deletions = r.has_deletions
      /\ s.subs = r.subs /\ s = [x \in ReaderFields |-> s[x]]
  BY <1>5, <1>7 DEF IsRecord, ReaderFields
<1>10. FieldsKept(r, s)
  BY <1>9, RecordReader DEF FieldsKept
<1>11. s.num_docs_cache \in {-1, MaxDoc(r) - Cardinality(g)}
  BY <1>9 DEF IInv, CountAgrees
<1>12. IInv(s, ds, g, ns)
  BY <1>8, <1>9, <1>10, <1>11, OnlyCachesInv DEF Right
<1> QED BY <1>4, <1>12 DEF Right, NormTable

-----------------------------------------------------------------------------
(* Norms *)

\* The norms of a sub reader with the one of field f and document k set.
NormSet(norms, f, k) == IF f \notin DOMAIN norms THEN norms ELSE [norms EXCEPT ![f][k + 1] = 2]

NumbersOf(sub) == 0..sub.seg.size - 1

IsNormSet(new, sub, f, k) ==
  /\ DOMAIN new = DOMAIN sub.norms
  /\ \A e \in DOMAIN sub.norms : DOMAIN new[e] = 1..sub.seg.size
  /\ \A e \in DOMAIN sub.norms, l \in NumbersOf(sub) :
       new[e][l + 1] = IF e = f /\ l = k THEN 2 ELSE sub.norms[e][l + 1]

LEMMA NormSetValues ==
  ASSUME NEW sub, IsSub(sub), NEW f, NEW k \in NumbersOf(sub)
  PROVE  IsNormSet(NormSet(sub.norms, f, k), sub, f, k)
<1> DEFINE norms == sub.norms
           n == sub.seg.size
           new == NormSet(norms, f, k)
<1>1. n \in Nat /\ k \in 0..n - 1 /\ \A e \in DOMAIN norms : DOMAIN norms[e] = 1..n
  BY DEF IsSub, NumbersOf
<1> HIDE DEF norms, n
<1>2. k + 1 \in 1..n
  BY <1>1
<1>3. DOMAIN new = DOMAIN norms
  BY DEF NormSet
<1>4. ASSUME NEW e \in DOMAIN norms PROVE DOMAIN new[e] = 1..n
  BY <1>1, <1>4 DEF NormSet
<1>5. ASSUME NEW e \in DOMAIN norms, NEW l \in 0..n - 1
      PROVE  new[e][l + 1] = IF e = f /\ l = k THEN 2 ELSE norms[e][l + 1]
  <2>1. l + 1 \in 1..n /\ (l + 1 = k + 1 <=> l = k)
    BY <1>1
  <2>2. CASE e = f
    <3>1. new[e] = [norms[e] EXCEPT ![k + 1] = 2]
      BY <1>5, <2>2 DEF NormSet
    <3>2. l + 1 \in DOMAIN norms[e]
      BY <1>1, <1>5, <2>1
    <3> QED BY <2>1, <2>2, <3>1, <3>2
  <2>3. CASE e # f
    <3>1. new[e] = norms[e]
      BY <1>5, <2>3 DEF NormSet
    <3> QED BY <2>3, <3>1
  <2> QED BY <2>2, <2>3
<1> QED BY <1>3, <1>4, <1>5 DEF norms, n, IsNormSet, NumbersOf

SubNormed(sub, f, k) == [sub EXCEPT !.norms = NormSet(sub.norms, f, k)]

NormsOnly(new, sub, f, k) ==
  /\ IsSub(new) /\ new.seg = sub.seg /\ new.del = sub.del
  /\ new.norms = NormSet(sub.norms, f, k)

LEMMA SubNormedOnly ==
  ASSUME NEW sub, IsSub(sub), NEW f, NEW k \in NumbersOf(sub)
  PROVE  NormsOnly(SubNormed(sub, f, k), sub, f, k)
<1> DEFINE seg == sub.seg
           norms == sub.norms
           del == sub.del
           bv == sub.bv
           set == NormSet(norms, f, k)
           new == SubNormed(sub, f, k)
<1>1. sub = [seg |-> seg, norms |-> norms, del |-> del, bv |-> bv]
  BY DEF IsSub
<1>2. /\ seg.size \in Nat /\ del \subseteq 0..seg.size - 1 /\ bv = (del # {})
  BY DEF IsSub
<1>3. \A e \in DOMAIN set : DOMAIN set[e] = 1..seg.size
  <2>1. IsNormSet(set, sub, f, k)
    BY NormSetValues
  <2> HIDE DEF set
  <2> QED BY <2>1, Zenon DEF IsNormSet
<1>4. new = [sub EXCEPT !.norms = set]
  BY DEF SubNormed
<1> HIDE DEF seg, norms, del, bv, set, new
<1>5. new = [seg |-> seg, norms |-> set, del |-> del, bv |-> bv]
  BY <1>1, <1>4
<1>6. new.seg = seg /\ new.norms = set /\ new.del = del /\ new.bv = bv
  BY <1>5
<1>7. new = [seg |-> new.seg, norms |-> new.norms, del |-> new.del, bv |-> new.bv]
  BY <1>5, <1>6
<1>8. IsSub(new)
  <2>1. new.bv = (new.del # {})
    BY <1>2, <1>6
  <2>2. new.seg.size \in Nat /\ new.del \subseteq 0..new.seg.size - 1
    BY <1>2, <1>6
  <2>3. \A e \in DOMAIN new.norms : DOMAIN new.norms[e] = 1..new.seg.size
    BY <1>3, <1>6, Zenon
  <2> QED BY <1>7, <2>1, <2>2, <2>3, Zenon DEF IsSub
<1> QED BY <1>6, <1>8 DEF seg, norms, del, set, new, NormsOnly

\* The reader with the norm of document d set for a field that has number f in
\* the index and in the sub reader.
DocNormed(r, d, f) ==
  LET i == ReaderIndex(r, d) IN
  [r EXCEPT !.norms_cache[f] = NoNorms,
            !.subs[i].norms = IF f \notin DOMAIN @ THEN @
                              ELSE [@ EXCEPT ![f][d - r.starts[i] + 1] = 2]]

DocNormedIn(r, s, i, d, f) ==
  /\ FieldsKept(r, s)
  /\ s.num_docs_cache = r.num_docs_cache /\ s.has_deletions = r.has_deletions
  /\ s.norms_cache = [r.norms_cache EXCEPT ![f] = NoNorms]
  /\ s.subs = [r.subs EXCEPT ![i] = SubNormed(r.subs[i], f, d - r.starts[i])]

LEMMA DocNormedFields ==
  ASSUME NEW r, IsReader(r), NEW d, NEW f, NEW i, i = ReaderIndex(r, d), i \in DOMAIN r.subs,
         NEW s, s = DocNormed(r, d, f)
  PROVE  DocNormedIn(r, s, i, d, f)
<1> DEFINE k == d - r.starts[i]
           subs == [r.subs EXCEPT ![i] = SubNormed(r.subs[i], f, k)]
           cache == [r.norms_cache EXCEPT ![f] = NoNorms]
<1>1. IsRecord(r)
  BY ReaderRecord
<1>2. s = [r EXCEPT !.norms_cache[f] = NoNorms,
                    !.subs[i].norms = IF f \notin DOMAIN @ THEN @ ELSE [@ EXCEPT ![f][k + 1] = 2]]
  BY Zenon DEF DocNormed
<1> HIDE DEF k
<1>3. s = [[r EXCEPT !.norms_cache = cache] EXCEPT !.subs = subs]
  BY <1>1, <1>2 DEF IsRecord, ReaderFields, SubNormed, NormSet
<1> HIDE DEF cache, subs
<1>4. /\ s.multi = r.multi /\ s.ext = r.ext /\ s.starts = r.starts
      /\ s.fis = r.fis /\ s.maps = r.maps /\ s.norms_cache = cache
      /\ s.num_docs_cache = r.num_docs_cache /\ s.has_deletions = r.has_deletions
      /\ s.subs = subs /\ s = [x \in ReaderFields |-> s[x]]
  BY <1>1, <1>3 DEF IsRecord, ReaderFields
<1>5. FieldsKept(r, s)
  BY <1>4, RecordReader DEF FieldsKept
<1> QED BY <1>4, <1>5, Zenon DEF k, subs, cache, DocNormedIn

NowNormed(r, ns, i, d, f) == IF f \in DOMAIN r.subs[i].norms THEN ns \cup {<<d, f>>} ELSE ns

LEMMA SetNormInv ==
  ASSUME NEW r, NEW ds, NEW g, NEW ns, IInv(r, ds, g, ns),
         NEW d \in 0..MaxDoc(r) - 1, NEW f \in FieldsOf(r), NEW i, i = ReaderIndex(r, d),
         r.maps[i][f] = f, NEW s, s = DocNormed(r, d, f),
         NEW ms, ms = NowNormed(r, ns, i, d, f)
  PROVE  IInv(s, ds, g, ms)
<1> DEFINE k == d - r.starts[i]
<1>1. Shape(r) /\ IsSubs(r.subs) /\ r.starts = Starts(Sizes(r)) /\ IsReader(r)
  BY DEF IInv, Shape, IsReader
<1>2. i \in DOMAIN r.subs /\ k \in Locals(r, i) /\ d = r.starts[i] + k
  BY <1>1, ReaderIndexHas
<1>3. DocNormedIn(r, s, i, d, f)
  BY <1>1, <1>2, DocNormedFields
<1>4. /\ s.multi = r.multi /\ s.ext = r.ext /\ s.starts = r.starts /\ s.fis = r.fis
      /\ s.maps = r.maps /\ IsReader(s)
      /\ s.num_docs_cache = r.num_docs_cache /\ s.has_deletions = r.has_deletions
      /\ s.norms_cache = [r.norms_cache EXCEPT ![f] = NoNorms]
      /\ s.subs = [r.subs EXCEPT ![i] = SubNormed(r.subs[i], f, k)]
  BY <1>3 DEF DocNormedIn, FieldsKept
<1> HIDE DEF k
<1>5. IsSub(r.subs[i]) /\ NormsOnly(SubNormed(r.subs[i], f, k), r.subs[i], f, k)
  <2>1. IsSub(r.subs[i]) /\ k \in NumbersOf(r.subs[i])
    BY <1>1, <1>2 DEF IsSubs, Locals, NumbersOf
  <2> QED BY <2>1, SubNormedOnly
<1>6. /\ DOMAIN s.subs = DOMAIN r.subs /\ Len(s.subs) = Len(r.subs)
      /\ \A j \in DOMAIN r.subs : j # i => s.subs[j] = r.subs[j]
      /\ NormsOnly(s.subs[i], r.subs[i], f, k)
  <2>1. DOMAIN r.subs = 1..Len(r.subs) /\ Len(r.subs) \in Nat
    BY <1>1 DEF IsSubs
  <2> QED BY <1>2, <1>4, <1>5, <2>1
<1>7. SameSegments(r, s)
  <2>1. DOMAIN r.subs = 1..Len(r.subs) /\ Len(r.subs) \in Nat /\ \A j \in DOMAIN r.subs : IsSub(r.subs[j])
    BY <1>1 DEF IsSubs
  <2>2. \A j \in DOMAIN r.subs : IsSub(s.subs[j]) /\ s.subs[j].seg = r.subs[j].seg
    BY <1>6, <2>1 DEF NormsOnly
  <2>3. IsSubs(s.subs)
    BY <1>6, <2>1, <2>2 DEF IsSubs
  <2> QED BY <1>4, <1>6, <2>2, <2>3 DEF SameSegments
<1>8. /\ s.starts = Starts(Sizes(s)) /\ MaxDoc(s) = MaxDoc(r) /\ FieldsOf(s) = FieldsOf(r)
      /\ \A j \in DOMAIN r.subs : Locals(s, j) = Locals(r, j)
  BY <1>1, <1>7, SegmentsSame
<1>9. Shape(s)
  <2>1. DOMAIN r.norms_cache = FieldsOf(r) /\ \A e \in FieldsOf(r) : r.norms_cache[e].cached \in BOOLEAN
    BY <1>1 DEF Shape, CacheShape
  <2>2. CacheShape(s)
    <3>1. DOMAIN s.norms_cache = FieldsOf(s)
      BY <1>4, <1>8, <2>1
    <3>2. ASSUME NEW e \in FieldsOf(r) PROVE s.norms_cache[e].cached \in BOOLEAN
      <4>1. CASE e = f
        <5>1. s.norms_cache[e] = NoNorms
          BY <1>4, <2>1, <4>1
        <5>2. NoNorms.cached = FALSE
          BY DEF NoNorms
        <5> QED BY <5>1, <5>2
      <4>2. CASE e # f
        BY <1>4, <2>1, <4>2
      <4> QED BY <4>1, <4>2
    <3> QED BY <1>8, <3>1, <3>2 DEF CacheShape
  <2>3. s.has_deletions \in BOOLEAN
    BY <1>1, <1>4 DEF Shape
  <2> QED BY <1>1, <1>4, <1>7, <2>2, <2>3, ShapeKept
<1>10. DelsAgree(s, g)
  <2>1. \A j \in DOMAIN r.subs : s.subs[j].del = r.subs[j].del
    BY <1>6 DEF NormsOnly
  <2> QED BY <1>4, <1>6, <1>8, <2>1 DEF IInv, DelsAgree
<1>11. NormedType(s, ms)
  BY <1>8 DEF IInv, NormedType, NowNormed
<1>12. CountAgrees(s, g) /\ Len(ds) = MaxDoc(s)
  BY <1>4, <1>8 DEF IInv, CountAgrees
<1>13. ASSUME NEW e, NEW x, e # f \/ x # d
       PROVE  NormOf(s, ds, ms, e, x) = NormOf(r, ds, ns, e, x)
  <2>1. <<x, e>> \in ms <=> <<x, e>> \in ns
    BY <1>13 DEF NowNormed
  <2> QED BY <1>4, <2>1 DEF NormOf
<1>14. NormsAgree(s, ds, ms)
  <2>1. SUFFICES ASSUME NEW j \in DOMAIN r.subs, NEW l \in Locals(r, j), NEW e \in FieldsOf(r)
                 PROVE  SubNorm(s.subs[j], r.maps[j][e], l) = NormOf(s, ds, ms, e, r.starts[j] + l)
    BY <1>4, <1>6, <1>8 DEF NormsAgree
  <2>2. SubNorm(r.subs[j], r.maps[j][e], l) = NormOf(r, ds, ns, e, r.starts[j] + l)
    BY DEF IInv, NormsAgree
  <2>3. CASE j # i
    <3>1. r.starts[j] + l # d
      <4>1. PartOf(r, r.starts[j] + l) = j /\ PartOf(r, r.starts[i] + k) = i
        BY <1>1, <1>2, PartOfLocal
      <4> QED BY <1>2, <2>3, <4>1
    <3> QED BY <1>6, <1>13, <2>2, <2>3, <3>1
  <2>4. CASE j = i
    <3> DEFINE x == r.maps[i][e]
               old == r.subs[i].norms
               new == s.subs[i].norms
    <3>1. l \in NumbersOf(r.subs[i]) /\ k \in NumbersOf(r.subs[i])
      BY <1>2, <2>4 DEF Locals, NumbersOf
    <3>2. new = NormSet(old, f, k)
      BY <1>6 DEF NormsOnly
    <3>3. IsNormSet(new, r.subs[i], f, k)
      BY <1>5, <3>1, <3>2, NormSetValues
    <3>4. /\ DOMAIN new = DOMAIN old
          /\ \A y \in DOMAIN old : new[y][l + 1] = IF y = f /\ l = k THEN 2 ELSE old[y][l + 1]
      <4> HIDE DEF new
      <4> QED BY <3>1, <3>3, Zenon DEF IsNormSet
    <3>5. r.starts[j] + l = d <=> l = k
      <4> DEFINE b == r.starts[i]
      <4>1. b \in Nat /\ k \in Nat /\ l \in Nat /\ d = b + k /\ r.starts[j] = b
        BY <1>1, <1>2, <2>4, LocalHas
      <4> HIDE DEF b
      <4>2. b + l = b + k <=> l = k
        BY <4>1
      <4> QED BY <4>1, <4>2
    <3>6. x = f <=> e = f
      <4>1. f # -1 /\ f \in 0..Len(r.fis) - 1 /\ e \in 0..Len(r.fis) - 1
        BY DEF FieldsOf
      <4>2. r.maps[i][e] = r.maps[i][f] => e = f \/ r.maps[i][e] = -1
        BY <1>1, <1>2, <4>1 DEF Shape, MapsShape, IsFieldMap
      <4> QED BY <4>1, <4>2
    <3>7. SubNorm(s.subs[j], x, l) = IF x \in DOMAIN new THEN new[x][l + 1] ELSE 0
      BY <2>4 DEF SubNorm
    <3>8. SubNorm(r.subs[j], x, l) = IF x \in DOMAIN old THEN old[x][l + 1] ELSE 0
      BY <2>4 DEF SubNorm
    <3> HIDE DEF x, old, new
    <3>9. CASE e = f /\ l = k /\ f \in DOMAIN old
      <4>1. SubNorm(s.subs[j], x, l) = 2
        BY <3>4, <3>6, <3>7, <3>9
      <4>2. <<r.starts[j] + l, e>> \in ms
        BY <3>5, <3>9 DEF old, NowNormed
      <4> QED BY <2>4, <4>1, <4>2 DEF NormOf, x
    <3>10. CASE e = f /\ l = k /\ f \notin DOMAIN old
      <4>1. SubNorm(s.subs[j], x, l) = SubNorm(r.subs[j], x, l)
        BY <3>4, <3>6, <3>7, <3>8, <3>10
      <4>2. ms = ns
        BY <3>10 DEF old, NowNormed
      <4>3. NormOf(s, ds, ms, e, r.starts[j] + l) = NormOf(r, ds, ns, e, r.starts[j] + l)
        BY <1>4, <4>2 DEF NormOf
      <4> QED BY <2>2, <2>4, <4>1, <4>3 DEF x
    <3>11. CASE ~(e = f /\ l = k)
      <4>1. SubNorm(s.subs[j], x, l) = SubNorm(r.subs[j], x, l)
        BY <3>4, <3>6, <3>7, <3>8, <3>11
      <4>2. NormOf(s, ds, ms, e, r.starts[j] + l) = NormOf(r, ds, ns, e, r.starts[j] + l)
        BY <1>13, <3>5, <3>11
      <4> QED BY <2>2, <2>4, <4>1, <4>2 DEF x
    <3> QED BY <3>9, <3>10, <3>11
  <2> QED BY <2>3, <2>4
<1>15. CacheAgrees(s, ds, ms)
  <2>1. DOMAIN r.norms_cache = FieldsOf(r)
    BY <1>1 DEF Shape, CacheShape
  <2>2. ASSUME NEW e \in FieldsOf(r), s.norms_cache[e].cached
        PROVE  s.norms_cache[e].bytes = [x \in 1..MaxDoc(r) |-> NormOf(s, ds, ms, e, x - 1)]
    <3>1. e # f /\ s.norms_cache[e] = r.norms_cache[e]
      BY <1>4, <2>1, <2>2 DEF NoNorms
    <3>2. s.norms_cache[e].bytes = [x \in 1..MaxDoc(r) |-> NormOf(r, ds, ns, e, x - 1)]
      BY <2>2, <3>1 DEF IInv, CacheAgrees
    <3>3. \A x : NormOf(s, ds, ms, e, x) = NormOf(r, ds, ns, e, x)
      BY <1>13, <3>1
    <3> QED BY <3>2, <3>3, Zenon
  <2>3. \A e \in FieldsOf(s) : s.norms_cache[e].cached =>
          s.norms_cache[e].bytes = [x \in 1..MaxDoc(s) |-> NormOf(s, ds, ms, e, x - 1)]
    <3>1. FieldsOf(s) = FieldsOf(r) /\ MaxDoc(s) = MaxDoc(r)
      BY <1>8
    <3> QED BY <2>2, <3>1
  <2> QED BY <2>3, Zenon DEF CacheAgrees
<1> QED BY <1>4, <1>9, <1>10, <1>11, <1>12, <1>14, <1>15 DEF IInv

-----------------------------------------------------------------------------
(* A writer between two readers *)

(* A merge renumbers the documents that are left one after the other. *)
Rank(S, d) == Cardinality({e \in S : e < d})

LEMMA RankLess ==
  ASSUME NEW S \in SUBSET Nat, IsFiniteSet(S), NEW a \in S, NEW b \in Nat, a < b
  PROVE  Rank(S, a) \in Nat /\ Rank(S, b) \in Nat /\ Rank(S, a) < Rank(S, b)
<1> DEFINE A == {e \in S : e < a}
           B == {e \in S : e < b}
           C == A \cup {a}
<1>1. A \in SUBSET S /\ B \in SUBSET S
  OBVIOUS
<1>2. IsFiniteSet(A) /\ IsFiniteSet(B)
  <2> HIDE DEF A, B
  <2> QED BY <1>1, FS_Subset
<1>3. a \notin A
  OBVIOUS
<1>4. C \subseteq B
  <2>1. ASSUME NEW e \in S, e < a PROVE e < b
    BY <2>1
  <2> QED BY <2>1
<1> HIDE DEF A, B
<1>5. IsFiniteSet(C) /\ Cardinality(C) = Cardinality(A) + 1
  BY <1>2, <1>3, FS_AddElement
<1>6. Cardinality(A) \in Nat /\ Cardinality(B) \in Nat
  BY <1>2, FS_CardinalityType
<1>7. Cardinality(C) <= Cardinality(B)
  <2> HIDE DEF C
  <2> QED BY <1>2, <1>4, FS_Subset
<1>8. Cardinality(A) < Cardinality(B)
  BY <1>5, <1>6, <1>7
<1> QED BY <1>6, <1>8 DEF A, B, Rank

LEMMA RankApart ==
  ASSUME NEW S \in SUBSET Nat, IsFiniteSet(S), NEW a \in S, NEW b \in S, Rank(S, a) = Rank(S, b)
  PROVE  a = b
<1>1. a \in Nat /\ b \in Nat
  OBVIOUS
<1>2. ~(a < b)
  <2>1. SUFFICES ASSUME a < b PROVE FALSE
    OBVIOUS
  <2>2. Rank(S, a) \in Nat /\ Rank(S, b) \in Nat /\ Rank(S, a) < Rank(S, b)
    BY <1>1, <2>1, RankLess
  <2> QED BY <2>2
<1>3. ~(b < a)
  <2>1. SUFFICES ASSUME b < a PROVE FALSE
    OBVIOUS
  <2>2. Rank(S, a) \in Nat /\ Rank(S, b) \in Nat /\ Rank(S, b) < Rank(S, a)
    BY <1>1, <2>1, RankLess
  <2> QED BY <2>2
<1> QED BY <1>1, <1>2, <1>3

LEMMA RankBelow ==
  ASSUME NEW S \in SUBSET Nat, IsFiniteSet(S), NEW a \in S
  PROVE  Rank(S, a) \in Nat /\ Cardinality(S) \in Nat /\ Rank(S, a) < Cardinality(S)
<1> DEFINE A == {e \in S : e < a}
<1>1. A \subseteq S /\ a \in S /\ a \notin A
  OBVIOUS
<1> HIDE DEF A
<1>2. IsFiniteSet(A) /\ Cardinality(A) \in Nat /\ Cardinality(S) \in Nat
  BY <1>1, FS_Subset, FS_CardinalityType
<1>3. Cardinality(A) < Cardinality(S)
  <2>1. Cardinality(A) <= Cardinality(S) /\ (Cardinality(A) = Cardinality(S) => A = S)
    BY <1>1, FS_Subset
  <2> QED BY <1>1, <1>2, <2>1
<1> QED BY <1>2, <1>3 DEF A, Rank

LEMMA RankOnto ==
  ASSUME NEW S \in SUBSET Nat, IsFiniteSet(S), NEW k \in 0..Cardinality(S) - 1
  PROVE  \E d \in S : Rank(S, d) = k
<1> DEFINE n == Cardinality(S)
           T == 0..n - 1
           f == [d \in S |-> Rank(S, d)]
<1>1. n \in Nat
  BY FS_CardinalityType
<1>2. IsFiniteSet(T) /\ Cardinality(T) = n
  <2> HIDE DEF n
  <2> QED BY <1>1, FiniteNumbers
<1>3. ASSUME NEW d \in S PROVE Rank(S, d) \in T
  <2>1. Rank(S, d) \in Nat /\ Rank(S, d) < n
    BY RankBelow
  <2> HIDE DEF n
  <2> QED BY <1>1, <2>1
<1> HIDE DEF T
<1>4. f \in [S -> T]
  BY <1>3
<1>5. \A a, b \in S : f[a] = f[b] => a = b
  BY RankApart
<1>6. f \in Injection(S, T)
  <2>1. DOMAIN f = S
    OBVIOUS
  <2> HIDE DEF f
  <2> QED BY <1>4, <1>5, <2>1 DEF Injection, IsInjective
<1>7. f \in Surjection(S, T)
  <2> HIDE DEF f
  <2> QED BY <1>2, <1>6, FS_Injection
<1>8. \E d \in S : f[d] = k
  <2>1. k \in T
    BY DEF T
  <2> HIDE DEF f
  <2> QED BY <1>7, <2>1 DEF Surjection
<1> QED BY <1>8

(* A new reader of the same index. *)
IsReopened(r, s) ==
  /\ s.fis = r.fis /\ s.ext = FALSE /\ s.maps = SameNumbers(s.subs, s.fis)
  /\ IsSubs(s.subs) /\ MapsShape(s) /\ s = Reader(s.subs, s.fis, s.maps, s.ext)
  /\ s.starts = Starts(Sizes(s)) /\ FieldsOf(s) = FieldsOf(r)

LEMMA ReopenedShape ==
  ASSUME NEW r, Len(r.fis) \in Nat, NEW s, IsSubs(s.subs),
         s = Reader(s.subs, r.fis, SameNumbers(s.subs, r.fis), FALSE)
  PROVE  IsReopened(r, s)
<1> DEFINE subs == s.subs
           fis == r.fis
           maps == SameNumbers(s.subs, r.fis)
           multi == FALSE \/ Len(s.subs) # 1
           starts == Starts(Sizes(s))
           dels == \E i \in DOMAIN s.subs : s.subs[i].bv
           cache == [f \in FieldsOf(r) |-> NoNorms]
<1>1. s = [multi |-> multi, ext |-> FALSE, subs |-> subs, starts |-> starts, fis |-> fis,
           maps |-> maps, num_docs_cache |-> -1, has_deletions |-> dels,
           norms_cache |-> cache]
  BY Zenon DEF Reader, Sizes, FieldsOf
<1> HIDE DEF subs, fis, maps, multi, starts, dels, cache
<1>2. s.ext = FALSE /\ s.fis = fis /\ s.maps = maps /\ s.starts = starts
  BY <1>1
<1>3. /\ s.ext = FALSE /\ s.fis = r.fis /\ s.maps = SameNumbers(s.subs, r.fis)
      /\ s.starts = Starts(Sizes(s))
  BY <1>2 DEF fis, maps, starts
<1>4. s.maps = SameNumbers(s.subs, s.fis) /\ FieldsOf(s) = FieldsOf(r)
  BY <1>3, Zenon DEF FieldsOf
<1>5. ASSUME NEW i \in DOMAIN s.subs PROVE IsFieldMap(s.maps[i], s.fis)
  <2>1. s.maps[i] = [f \in 0..Len(s.fis) - 1 |-> f]
    BY <1>4 DEF SameNumbers
  <2>2. Len(s.fis) \in Nat
    BY <1>3
  <2> QED BY <2>1, <2>2 DEF IsFieldMap
<1>6. MapsShape(s)
  BY <1>4, <1>5 DEF MapsShape
<1>7. s = Reader(s.subs, s.fis, s.maps, s.ext)
  BY <1>3
<1> QED BY <1>3, <1>4, <1>6, <1>7 DEF IsReopened

(* Segments that are kept keep their document numbers. *)
KeptSubs(r, s, n) ==
  n <= Len(r.subs) /\ n <= Len(s.subs) /\ \A i \in 1..n : s.subs[i] = r.subs[i]

LEMMA StartsKept ==
  ASSUME NEW r, IsSubs(r.subs), r.starts = Starts(Sizes(r)),
         NEW s, IsSubs(s.subs), s.starts = Starts(Sizes(s)),
         NEW n \in Nat, KeptSubs(r, s, n)
  PROVE  \A i \in 1..n + 1 : s.starts[i] = r.starts[i]
<1>1. Len(r.subs) \in Nat /\ DOMAIN r.subs = 1..Len(r.subs)
      /\ Len(s.subs) \in Nat /\ DOMAIN s.subs = 1..Len(s.subs)
      /\ n <= Len(r.subs) /\ n <= Len(s.subs) /\ \A i \in 1..n : s.subs[i] = r.subs[i]
  BY DEF IsSubs, KeptSubs
<1>2. /\ r.starts[1] = 0 /\ s.starts[1] = 0
      /\ \A i \in DOMAIN r.subs : r.starts[i + 1] = r.starts[i] + r.subs[i].seg.size
      /\ \A i \in DOMAIN s.subs : s.starts[i + 1] = s.starts[i] + s.subs[i].seg.size
  BY ReaderStarts
<1> DEFINE P(i) == s.starts[i + 1] = r.starts[i + 1]
           T == {i \in Nat : i <= n => P(i)}
<1>3. 0 \in T
  <2>1. 0 + 1 = 1
    OBVIOUS
  <2>2. P(0)
    BY <1>2, <2>1
  <2> HIDE DEF P
  <2> QED BY <2>2
<1>4. ASSUME NEW i \in Nat, i \in T PROVE i + 1 \in T
  <2> DEFINE j == i + 1
  <2> HIDE DEF P
  <2>1. SUFFICES ASSUME j <= n PROVE P(j)
    OBVIOUS
  <2>2. j \in 1..n /\ i <= n
    BY <2>1
  <2>3. s.starts[j] = r.starts[j]
    <3>1. P(i)
      BY <1>4, <2>2
    <3> QED BY <3>1 DEF P
  <2> HIDE DEF j, T
  <2>4. j \in DOMAIN r.subs /\ j \in DOMAIN s.subs
    BY <1>1, <2>2
  <2>5. s.starts[j + 1] = r.starts[j + 1]
    BY <1>1, <1>2, <2>2, <2>3, <2>4
  <2> QED BY <2>5 DEF P
<1>5. \A i \in Nat : i \in T
  <2> HIDE DEF T
  <2> QED BY <1>3, <1>4, Induct
<1>6. ASSUME NEW i \in 1..n + 1 PROVE s.starts[i] = r.starts[i]
  <2>1. i - 1 \in Nat /\ i - 1 <= n /\ (i - 1) + 1 = i
    OBVIOUS
  <2>2. P(i - 1)
    <3> HIDE DEF P
    <3> QED BY <1>5, <2>1
  <2> QED BY <2>1, <2>2
<1> QED BY <1>6

\* Facts of a reader in a state of the invariant that the steps below need.
Facts(r, ds, g, ns) ==
  /\ IsSubs(r.subs) /\ r.starts = Starts(Sizes(r)) /\ Len(r.fis) \in Nat
  /\ Len(ds) = MaxDoc(r) /\ MaxDoc(r) \in Nat
  /\ DelsAgree(r, g) /\ NormedType(r, ns) /\ NormsAgree(r, ds, ns)
  /\ ~r.ext => r.maps = SameNumbers(r.subs, r.fis)

LEMMA IInvFacts ==
  ASSUME NEW r, NEW ds, NEW g, NEW ns, IInv(r, ds, g, ns)
  PROVE  Facts(r, ds, g, ns)
<1>1. /\ IsSubs(r.subs) /\ r.starts = Starts(Sizes(r)) /\ Len(r.fis) \in Nat
      /\ ~r.ext => r.maps = SameNumbers(r.subs, r.fis)
  BY DEF IInv, Shape, MapsShape
<1>2. MaxDoc(r) \in Nat
  BY <1>1, ReaderStarts
<1> QED BY <1>1, <1>2 DEF IInv, Facts

LEMMA SameNumbersAt ==
  ASSUME NEW r, r.maps = SameNumbers(r.subs, r.fis), NEW i \in DOMAIN r.subs, NEW f \in FieldsOf(r)
  PROVE  r.maps[i][f] = f
BY DEF SameNumbers, FieldsOf

LEMMA OpenedAgain ==
  ASSUME NEW r, NEW ds, NEW g, NEW ns, IInv(r, ds, g, ns),
         NEW s, NEW es, NEW h, NEW ms, IsReopened(r, s), Len(es) = MaxDoc(s),
         DelsAgree(s, h), NormedType(s, ms), NormsAgree(s, es, ms)
  PROVE  IInv(s, es, h, ms)
<1>1. Len(s.fis) \in Nat /\ s.ext \in BOOLEAN
  BY IInvFacts DEF IsReopened, Facts
<1> QED BY <1>1, Opened DEF IsReopened

(* The deletions of a sub reader from start on that a term adds. *)
Added(sub, start, h, g) == {k \in 0..sub.seg.size - 1 : start + k \in h \ g}

LEMMA TermDeletedInv ==
  ASSUME NEW r, NEW ds, NEW g, NEW ns, IInv(r, ds, g, ns), ~r.ext,
         NEW s, IsReopened(r, s), Len(s.subs) = Len(r.subs),
         NEW h, g \subseteq h, h \subseteq 0..Len(ds) - 1,
         \A i \in DOMAIN r.subs :
           LET D == r.subs[i].del \cup Added(r.subs[i], r.starts[i], h, g) IN
           s.subs[i] = WithDels(r.subs[i], D, D # {})
  PROVE  IInv(s, ds, h, ns)
<1>1. Facts(r, ds, g, ns)
  BY IInvFacts
<1>2. /\ IsSubs(r.subs) /\ r.starts = Starts(Sizes(r)) /\ MaxDoc(r) = Len(ds)
      /\ r.maps = SameNumbers(r.subs, r.fis)
  BY <1>1 DEF Facts
<1>3. DOMAIN r.subs = 1..Len(r.subs) /\ DOMAIN s.subs = 1..Len(r.subs) /\ Len(r.subs) \in Nat
  BY <1>2 DEF IsSubs, IsReopened
<1>4. ASSUME NEW i \in DOMAIN r.subs
      PROVE  DelsOnly(s.subs[i], r.subs[i], r.subs[i].del \cup Added(r.subs[i], r.starts[i], h, g))
  <2> DEFINE D == r.subs[i].del \cup Added(r.subs[i], r.starts[i], h, g)
             b == D # {}
  <2>1. IsSub(r.subs[i])
    BY <1>2 DEF IsSubs
  <2>2. D \subseteq 0..r.subs[i].seg.size - 1
    BY <2>1 DEF IsSub, Added
  <2>3. AreDels(r.subs[i], D, b)
    BY <2>2 DEF AreDels
  <2>4. s.subs[i] = WithDels(r.subs[i], D, b)
    OBVIOUS
  <2> HIDE DEF D, b
  <2>5. DelsOnly(s.subs[i], r.subs[i], D)
    BY <2>1, <2>3, <2>4, SubDeletes
  <2> QED BY <2>5 DEF D
<1>5. SameSegments(r, s)
  <2>1. \A i \in DOMAIN r.subs : s.subs[i].seg = r.subs[i].seg
    BY <1>4 DEF DelsOnly
  <2>2. Sizes(s) = Sizes(r)
    BY <1>3, <2>1 DEF Sizes
  <2> QED BY <1>2, <2>1, <2>2 DEF IsReopened, SameSegments
<1>6. /\ MaxDoc(s) = MaxDoc(r) /\ s.starts = r.starts
      /\ \A i \in DOMAIN r.subs : Locals(s, i) = Locals(r, i)
  BY <1>2, <1>5, SegmentsSame DEF SameSegments
<1>7. DelsAgree(s, h)
  <2>1. ASSUME NEW i \in DOMAIN r.subs, NEW k \in Locals(r, i)
        PROVE  r.starts[i] + k \in h <=> k \in s.subs[i].del
    <3>1. r.starts[i] + k \in g <=> k \in r.subs[i].del
      BY <1>1 DEF Facts, DelsAgree
    <3>2. s.subs[i].del = r.subs[i].del \cup Added(r.subs[i], r.starts[i], h, g)
      BY <1>4 DEF DelsOnly
    <3>3. k \in Added(r.subs[i], r.starts[i], h, g) <=> r.starts[i] + k \in h \ g
      BY DEF Added, Locals
    <3> QED BY <3>1, <3>2, <3>3
  <2> QED BY <1>2, <1>3, <1>6, <2>1 DEF DelsAgree
<1>8. NormsAgree(s, ds, ns)
  <2>1. s.maps = r.maps
    BY <1>2, <1>3 DEF IsReopened, SameNumbers
  <2>2. \A i \in DOMAIN r.subs : s.subs[i].norms = r.subs[i].norms
    BY <1>4 DEF DelsOnly
  <2>3. NormsAgree(r, ds, ns)
    BY <1>1 DEF Facts
  <2> QED BY <1>2, <1>5, <2>1, <2>2, <2>3, NormsKept
<1>9. NormedType(s, ns)
  BY <1>1, <1>6 DEF Facts, NormedType, IsReopened
<1> QED BY <1>2, <1>6, <1>7, <1>8, <1>9, OpenedAgain

(* What the segments that are kept contribute to the next reader. *)
DocAgrees(s, es, h, ms, i, k) ==
  /\ s.starts[i] + k \in h <=> k \in s.subs[i].del
  /\ \A f \in FieldsOf(s) :
       SubNorm(s.subs[i], s.maps[i][f], k) = NormOf(s, es, ms, f, s.starts[i] + k)

SubAgrees(s, es, h, ms, i) == \A k \in Locals(s, i) : DocAgrees(s, es, h, ms, i, k)

LEMMA SubsAgree ==
  ASSUME NEW s, NEW es, NEW h, NEW ms, h \subseteq 0..MaxDoc(s) - 1,
         \A i \in DOMAIN s.subs : SubAgrees(s, es, h, ms, i)
  PROVE  DelsAgree(s, h) /\ NormsAgree(s, es, ms)
BY Zenon DEF SubAgrees, DocAgrees, DelsAgree, NormsAgree

SameBelow(r, m, ds, g, ns, es, h, ms) ==
  \A d \in 0..m - 1 : /\ d \in h <=> d \in g
                      /\ es[d + 1] = ds[d + 1]
                      /\ \A f \in FieldsOf(r) : <<d, f>> \in ms <=> <<d, f>> \in ns

LEMMA KeptSegments ==
  ASSUME NEW r, NEW ds, NEW g, NEW ns, IInv(r, ds, g, ns), ~r.ext,
         NEW s, IsReopened(r, s), NEW n \in Nat, KeptSubs(r, s, n),
         NEW h, NEW es, NEW ms, SameBelow(r, r.starts[n + 1], ds, g, ns, es, h, ms)
  PROVE  \A i \in 1..n : SubAgrees(s, es, h, ms, i)
<1>1. Facts(r, ds, g, ns)
  BY IInvFacts
<1>2. /\ IsSubs(r.subs) /\ r.starts = Starts(Sizes(r)) /\ r.maps = SameNumbers(r.subs, r.fis)
      /\ IsSubs(s.subs) /\ s.starts = Starts(Sizes(s)) /\ s.maps = SameNumbers(s.subs, s.fis)
      /\ s.fis = r.fis /\ FieldsOf(s) = FieldsOf(r)
  BY <1>1 DEF Facts, IsReopened
<1>3. /\ DOMAIN r.subs = 1..Len(r.subs) /\ Len(r.subs) \in Nat
      /\ DOMAIN s.subs = 1..Len(s.subs) /\ Len(s.subs) \in Nat
      /\ n <= Len(r.subs) /\ n <= Len(s.subs) /\ \A i \in 1..n : s.subs[i] = r.subs[i]
  BY <1>2 DEF IsSubs, KeptSubs
<1>4. SUFFICES ASSUME NEW i \in 1..n, NEW k \in Locals(s, i)
               PROVE  DocAgrees(s, es, h, ms, i, k)
  BY DEF SubAgrees
<1> DEFINE d == r.starts[i] + k
<1>5. s.subs[i] = r.subs[i] /\ i \in DOMAIN r.subs /\ i \in DOMAIN s.subs
  BY <1>3
<1>6. k \in Locals(r, i) /\ s.starts[i] = r.starts[i]
  <2>1. i \in 1..n + 1
    OBVIOUS
  <2> QED BY <1>2, <1>5, <2>1, StartsKept DEF Locals
<1>7. d \in 0..r.starts[n + 1] - 1
  <2>1. r.starts[i] \in Nat /\ k \in Nat /\ Has(r.starts, i, d)
    BY <1>2, <1>5, <1>6, LocalHas
  <2>2. i + 1 \in 1..Len(r.subs) + 1 /\ n + 1 \in 1..Len(r.subs) + 1 /\ i + 1 <= n + 1
    BY <1>3
  <2>3. /\ r.starts \in [1..Len(r.subs) + 1 -> Nat]
        /\ \A x, y \in 1..Len(r.subs) + 1 : x <= y => r.starts[x] <= r.starts[y]
    BY <1>2, ReaderStarts
  <2>4. r.starts[i + 1] <= r.starts[n + 1] /\ r.starts[i + 1] \in Nat /\ r.starts[n + 1] \in Nat
    BY <2>2, <2>3
  <2>5. d < r.starts[i + 1] /\ d \in Nat
    BY <2>1 DEF Has
  <2> HIDE DEF d
  <2> QED BY <2>4, <2>5
<1>8. /\ d \in g <=> k \in r.subs[i].del
      /\ \A f \in FieldsOf(r) : SubNorm(r.subs[i], r.maps[i][f], k) = NormOf(r, ds, ns, f, d)
  BY <1>1, <1>5, <1>6 DEF Facts, DelsAgree, NormsAgree
<1> HIDE DEF d
<1>9. s.starts[i] + k = d
  BY <1>6 DEF d
<1>10. ASSUME NEW f \in FieldsOf(r)
       PROVE  SubNorm(s.subs[i], s.maps[i][f], k) = NormOf(s, es, ms, f, d)
  <2>1. r.maps[i][f] = f /\ s.maps[i][f] = f
    BY <1>2, <1>5, SameNumbersAt
  <2>2. es[d + 1] = ds[d + 1] /\ (<<d, f>> \in ms <=> <<d, f>> \in ns)
    BY <1>7 DEF SameBelow
  <2>3. NormOf(s, es, ms, f, d) = NormOf(r, ds, ns, f, d)
    BY <1>2, <2>2 DEF NormOf
  <2> QED BY <1>5, <1>8, <2>1, <2>3
<1>11. d \in h <=> d \in g
  BY <1>7 DEF SameBelow
<1> QED BY <1>2, <1>5, <1>8, <1>9, <1>10, <1>11 DEF DocAgrees

AddedSegment(r, s, ds, es, n) ==
  /\ n = Len(r.subs) + 1 /\ Len(s.subs) = n
  /\ \A i \in 1..n - 1 : s.subs[i] = r.subs[i]
  /\ s.subs[n].del = {}
  /\ Len(es) = Len(ds) + s.subs[n].seg.size
  /\ \A d \in 1..Len(ds) : es[d] = ds[d]
  /\ \A d \in Len(ds) + 1..Len(es), f \in FieldsOf(r) :
       SubNorm(s.subs[n], f, d - Len(ds) - 1) = IF r.fis[f + 1] \in DOMAIN es[d] THEN 1 ELSE 0

LEMMA SegmentAddedInv ==
  ASSUME NEW r, NEW ds, NEW g, NEW ns, IInv(r, ds, g, ns), ~r.ext,
         NEW s, IsReopened(r, s), NEW es, NEW n, AddedSegment(r, s, ds, es, n)
  PROVE  IInv(s, es, g, ns)
<1> DEFINE m == Len(ds)
           l == Len(r.subs)
           z == s.subs[n].seg.size
<1>1. Facts(r, ds, g, ns)
  BY IInvFacts
<1>2. /\ IsSubs(r.subs) /\ r.starts = Starts(Sizes(r)) /\ MaxDoc(r) = m /\ m \in Nat
      /\ IsSubs(s.subs) /\ s.starts = Starts(Sizes(s)) /\ s.fis = r.fis
      /\ FieldsOf(s) = FieldsOf(r) /\ s.maps = SameNumbers(s.subs, s.fis)
      /\ g \subseteq 0..m - 1 /\ ns \subseteq (0..m - 1) \X FieldsOf(r)
  BY <1>1 DEF Facts, IsReopened, DelsAgree, NormedType
<1>3. l \in Nat /\ n = l + 1 /\ DOMAIN s.subs = 1..n /\ s.subs[n].del = {}
  BY <1>2 DEF IsSubs, AddedSegment
<1>4. KeptSubs(r, s, l)
  BY <1>2, <1>3 DEF AddedSegment, KeptSubs
<1>5. Len(es) = m + z
  BY DEF AddedSegment
<1> HIDE DEF l
<1>6. n - 1 = l /\ n \in Nat /\ n \in 1..n /\ n \in 1..l + 1 /\ \A i \in 1..n : i \in 1..l \/ i = n
  BY <1>3
<1>7. s.starts[n] = m /\ r.starts[l + 1] = m
  <2>1. \A i \in 1..l + 1 : s.starts[i] = r.starts[i]
    BY <1>2, <1>3, <1>4, StartsKept
  <2>2. r.starts[l + 1] = m
    BY <1>2 DEF MaxDoc, l
  <2> QED BY <1>3, <1>6, <2>1, <2>2
<1>8. MaxDoc(s) = m + z /\ z \in Nat
  <2>1. s.starts[n + 1] = s.starts[n] + z
    BY <1>2, <1>3, <1>6, ReaderStarts
  <2>2. z \in Nat
    BY <1>2, <1>3, <1>6 DEF IsSubs, IsSub
  <2>3. MaxDoc(s) = s.starts[n + 1]
    BY DEF AddedSegment, MaxDoc
  <2> QED BY <1>7, <2>1, <2>2, <2>3
<1>9. \A i \in 1..l : SubAgrees(s, es, g, ns, i)
  <2>1. ASSUME NEW d \in 0..m - 1 PROVE es[d + 1] = ds[d + 1]
    <3>1. d + 1 \in 1..m
      BY <1>2
    <3> QED BY <3>1 DEF AddedSegment
  <2>2. SameBelow(r, r.starts[l + 1], ds, g, ns, es, g, ns)
    BY <1>7, <2>1 DEF SameBelow
  <2> QED BY <1>3, <1>4, <2>2, KeptSegments
<1>10. ASSUME NEW k \in Locals(s, n) PROVE DocAgrees(s, es, g, ns, n, k)
  <2> DEFINE d == m + k
             e == d + 1
  <2>1. k \in Nat /\ k < z
    BY <1>8 DEF Locals
  <2>2. d \in Nat /\ d >= m /\ e \in m + 1..m + z /\ e - m - 1 = k
    <3> HIDE DEF m, z
    <3> QED BY <1>2, <1>8, <2>1
  <2>3. d \notin 0..m - 1
    <3> HIDE DEF m, d
    <3> QED BY <1>2, <2>2
  <2>4. d \notin g
    BY <1>2, <2>3
  <2>5. ASSUME NEW f \in FieldsOf(r)
        PROVE  SubNorm(s.subs[n], s.maps[n][f], k) = NormOf(s, es, ns, f, d)
    <3>1. <<d, f>> \notin ns
      <4> HIDE DEF d, m
      <4> QED BY <1>2, <2>3
    <3>2. s.maps[n][f] = f
      BY <1>2, <1>3, <1>6, SameNumbersAt
    <3>3. SubNorm(s.subs[n], f, k) = IF r.fis[f + 1] \in DOMAIN es[e] THEN 1 ELSE 0
      <4> HIDE DEF e
      <4>1. e \in Len(ds) + 1..Len(es)
        BY <1>5, <2>2
      <4>2. SubNorm(s.subs[n], f, e - m - 1) = IF r.fis[f + 1] \in DOMAIN es[e] THEN 1 ELSE 0
        BY <4>1 DEF AddedSegment
      <4> QED BY <2>2, <4>2
    <3> HIDE DEF d
    <3> QED BY <1>2, <3>1, <3>2, <3>3 DEF NormOf
  <2> HIDE DEF m, e
  <2>6. s.starts[n] + k = d
    BY <1>7
  <2> HIDE DEF d
  <2> QED BY <1>2, <1>3, <2>4, <2>5, <2>6 DEF DocAgrees
<1>11. \A i \in DOMAIN s.subs : SubAgrees(s, es, g, ns, i)
  <2>1. SubAgrees(s, es, g, ns, n)
    BY <1>10 DEF SubAgrees
  <2> QED BY <1>3, <1>6, <1>9, <2>1
<1>12. 0..m - 1 \subseteq 0..MaxDoc(s) - 1
  <2> HIDE DEF m, z
  <2> QED BY <1>2, <1>8
<1>13. DelsAgree(s, g) /\ NormsAgree(s, es, ns)
  <2>1. g \subseteq 0..MaxDoc(s) - 1
    BY <1>2, <1>12, Zenon
  <2> QED BY <1>11, <2>1, SubsAgree
<1>14. NormedType(s, ns)
  <2>1. (0..m - 1) \X FieldsOf(r) \subseteq (0..MaxDoc(s) - 1) \X FieldsOf(s)
    BY <1>2, <1>12, Zenon
  <2> QED BY <1>2, <2>1, Zenon DEF NormedType
<1> QED BY <1>5, <1>8, <1>13, <1>14, OpenedAgain

NewNumber(m, live, d) == m + Rank(live, d)
NormedIn(ns, n, F) == ns \subseteq (0..n - 1) \X F
NormPairs(ns, F) == ns \subseteq Nat \X F

(* The step of a merge: m is the first document number that changes, live are *)
(* the documents from m on that are not deleted.                              *)
MergedSegment(r, s, ds, es, min, m, live) ==
  /\ Len(s.subs) = min
  /\ \A i \in 1..min - 1 : s.subs[i] = r.subs[i]
  /\ s.subs[min].seg.size = Cardinality(live) /\ s.subs[min].del = {}
  /\ Len(es) = m + Cardinality(live)
  /\ \A d \in 1..m : es[d] = ds[d]
  /\ \A d \in live :
       /\ es[NewNumber(m, live, d) + 1] = ds[d + 1]
       /\ \A f \in FieldsOf(r) :
            SubNorm(s.subs[min], f, NewNumber(m, live, d) - m) = AllNorms(r, f)[d + 1]

MergedNorms(ns, m, live) ==
  {x \in ns : x[1] < m}
    \cup {<<NewNumber(m, live, x[1]), x[2]>> : x \in {y \in ns : y[1] \in live}}

LEMMA MergedNormsBelow ==
  ASSUME NEW m \in Nat, NEW live \in SUBSET Nat, IsFiniteSet(live), NEW ns, NEW F,
         NormPairs(ns, F), NEW d \in Nat, d < m, NEW f
  PROVE  <<d, f>> \in MergedNorms(ns, m, live) <=> <<d, f>> \in ns
<1>1. ASSUME NEW x \in ns, x[1] \in live PROVE <<NewNumber(m, live, x[1]), x[2]>> # <<d, f>>
  <2>1. Rank(live, x[1]) \in Nat
    BY <1>1, RankBelow
  <2>2. NewNumber(m, live, x[1]) # d
    BY <2>1 DEF NewNumber
  <2> QED BY <2>2
<1>2. <<d, f>>[1] < m
  OBVIOUS
<1> QED BY <1>1, <1>2 DEF MergedNorms

LEMMA MergedNormsFrom ==
  ASSUME NEW m \in Nat, NEW live \in SUBSET Nat, IsFiniteSet(live), NEW ns, NEW F,
         NormPairs(ns, F), NEW d \in live, NEW f
  PROVE  <<NewNumber(m, live, d), f>> \in MergedNorms(ns, m, live) <=> <<d, f>> \in ns
<1> DEFINE e == NewNumber(m, live, d)
<1>1. Rank(live, d) \in Nat
  BY RankBelow
<1>2. ~(<<e, f>>[1] < m)
  BY <1>1 DEF NewNumber
<1>3. ASSUME NEW x \in ns, x[1] \in live, <<NewNumber(m, live, x[1]), x[2]>> = <<e, f>>
      PROVE  <<d, f>> \in ns
  <2>1. m + Rank(live, x[1]) = m + Rank(live, d) /\ x[2] = f
    BY <1>3 DEF NewNumber
  <2>2. Rank(live, x[1]) \in Nat
    BY <1>3, RankBelow
  <2>3. Rank(live, x[1]) = Rank(live, d)
    BY <1>1, <2>1, <2>2
  <2>4. x[1] = d
    BY <1>3, <2>3, RankApart
  <2>5. x = <<x[1], x[2]>>
    BY <1>3 DEF NormPairs
  <2> QED BY <1>3, <2>1, <2>4, <2>5
<1>4. ASSUME <<d, f>> \in ns
      PROVE  <<e, f>> \in {<<NewNumber(m, live, x[1]), x[2]>> : x \in {y \in ns : y[1] \in live}}
  <2> DEFINE x == <<d, f>>
  <2>1. x \in ns /\ x[1] = d /\ x[2] = f
    BY <1>4
  <2> HIDE DEF x
  <2> QED BY <2>1
<1> HIDE DEF e
<1> QED BY <1>2, <1>3, <1>4 DEF MergedNorms, e

LEMMA MergedNormsType ==
  ASSUME NEW m \in Nat, NEW live \in SUBSET Nat, IsFiniteSet(live), NEW ns, NEW F,
         NormPairs(ns, F)
  PROVE  NormedIn(MergedNorms(ns, m, live), m + Cardinality(live), F)
<1> DEFINE c == Cardinality(live)
           n == m + c
           U == (0..n - 1) \X F
<1>1. c \in Nat
  BY FS_CardinalityType
<1> HIDE DEF c
<1>2. ASSUME NEW x \in ns, x[1] < m PROVE x \in U
  <2>1. x = <<x[1], x[2]>> /\ x[1] \in Nat /\ x[2] \in F
    BY <1>2 DEF NormPairs
  <2>2. x[1] \in 0..n - 1
    BY <1>1, <1>2, <2>1
  <2> QED BY <2>1, <2>2
<1>3. ASSUME NEW x \in ns, x[1] \in live PROVE <<NewNumber(m, live, x[1]), x[2]>> \in U
  <2>1. x[2] \in F
    BY <1>3 DEF NormPairs
  <2>2. Rank(live, x[1]) \in Nat /\ Rank(live, x[1]) < c
    BY <1>3, RankBelow DEF c
  <2>3. NewNumber(m, live, x[1]) \in 0..n - 1
    BY <1>1, <2>2 DEF NewNumber
  <2> QED BY <2>1, <2>3
<1> HIDE DEF U
<1>4. MergedNorms(ns, m, live) \subseteq U
  BY <1>2, <1>3 DEF MergedNorms
<1> HIDE DEF n
<1>5. NormedIn(MergedNorms(ns, m, live), n, F)
  BY <1>4, Zenon DEF U, NormedIn
<1>6. n = m + Cardinality(live)
  BY DEF n, c
<1> QED BY <1>5, <1>6

LEMMA NormedInType ==
  ASSUME NEW s, NEW ns, NormedIn(ns, MaxDoc(s), FieldsOf(s))
  PROVE  NormedType(s, ns)
BY DEF NormedIn, NormedType

LEMMA SegmentsMergedInv ==
  ASSUME NEW r, NEW ds, NEW g, NEW ns, IInv(r, ds, g, ns), ~r.ext,
         NEW s, IsReopened(r, s), NEW es, NEW min \in DOMAIN r.subs,
         NEW m, m = r.starts[min], NEW live, live = (m..Len(ds) - 1) \ g,
         MergedSegment(r, s, ds, es, min, m, live),
         NEW h, h = {d \in g : d < m}, NEW ms, ms = MergedNorms(ns, m, live)
  PROVE  IInv(s, es, h, ms)
<1> DEFINE l == min - 1
           c == Cardinality(live)
           F == FieldsOf(r)
<1>1. Facts(r, ds, g, ns)
  BY IInvFacts
<1>2. /\ IsSubs(r.subs) /\ r.starts = Starts(Sizes(r)) /\ MaxDoc(r) = Len(ds) /\ MaxDoc(r) \in Nat
      /\ IsSubs(s.subs) /\ s.starts = Starts(Sizes(s)) /\ s.fis = r.fis
      /\ FieldsOf(s) = F /\ s.maps = SameNumbers(s.subs, s.fis)
      /\ g \subseteq 0..MaxDoc(r) - 1 /\ ns \subseteq (0..MaxDoc(r) - 1) \X F
      /\ NormsAgree(r, ds, ns)
  BY <1>1 DEF Facts, IsReopened, DelsAgree, NormedType
<1>3. /\ DOMAIN r.subs = 1..Len(r.subs) /\ Len(r.subs) \in Nat
      /\ DOMAIN s.subs = 1..Len(s.subs) /\ Len(s.subs) = min
  BY <1>2 DEF IsSubs, MergedSegment
<1>4. /\ min \in Nat /\ min >= 1 /\ l \in Nat /\ l + 1 = min /\ min \in DOMAIN s.subs
      /\ l <= Len(r.subs) /\ l <= Len(s.subs) /\ min \in 1..Len(r.subs) + 1
      /\ \A i \in DOMAIN s.subs : i \in 1..l \/ i = min
  BY <1>3
<1>5. KeptSubs(r, s, l)
  BY <1>4 DEF MergedSegment, KeptSubs
<1>6. m \in Nat
  BY <1>2, <1>4, ReaderStarts
<1>7. NormPairs(ns, F) /\ g \subseteq Nat
  <2>1. 0..MaxDoc(r) - 1 \subseteq Nat
    BY <1>2
  <2> QED BY <1>2, <2>1 DEF NormPairs
<1>8. live \in SUBSET Nat /\ IsFiniteSet(live) /\ c \in Nat
  <2>1. live \subseteq 0..MaxDoc(r) - 1 /\ live \in SUBSET Nat
    BY <1>2, <1>6
  <2>2. IsFiniteSet(live)
    BY <1>2, <2>1, FiniteNumbers, FS_Subset
  <2> QED BY <2>1, <2>2, FS_CardinalityType
<1> HIDE DEF l
<1>9. s.starts[min] = m /\ r.starts[l + 1] = m
  <2>1. \A i \in 1..l + 1 : s.starts[i] = r.starts[i]
    BY <1>2, <1>4, <1>5, StartsKept
  <2> QED BY <1>4, <2>1
<1>10. MaxDoc(s) = m + c /\ Len(es) = m + c
  <2>1. s.starts[min + 1] = s.starts[min] + s.subs[min].seg.size
    BY <1>2, <1>4, ReaderStarts
  <2>2. MaxDoc(s) = s.starts[min + 1]
    BY <1>3 DEF MaxDoc
  <2> QED BY <1>9, <2>1, <2>2 DEF MergedSegment
<1>11. \A i \in 1..l : SubAgrees(s, es, h, ms, i)
  <2>1. ASSUME NEW d \in 0..m - 1
        PROVE  /\ d \in h <=> d \in g
               /\ es[d + 1] = ds[d + 1]
               /\ \A f \in FieldsOf(r) : <<d, f>> \in ms <=> <<d, f>> \in ns
    <3>1. d \in Nat /\ d < m /\ d + 1 \in 1..m
      BY <1>6
    <3>2. es[d + 1] = ds[d + 1]
      BY <3>1 DEF MergedSegment
    <3>3. \A f \in FieldsOf(r) : <<d, f>> \in ms <=> <<d, f>> \in ns
      <4> HIDE DEF F
      <4> QED BY <1>6, <1>7, <1>8, <3>1, MergedNormsBelow
    <3> QED BY <3>1, <3>2, <3>3
  <2>2. SameBelow(r, r.starts[l + 1], ds, g, ns, es, h, ms)
    BY <1>9, <2>1 DEF SameBelow
  <2> QED BY <1>4, <1>5, <2>2, KeptSegments
<1>12. ASSUME NEW k \in Locals(s, min) PROVE DocAgrees(s, es, h, ms, min, k)
  <2>1. s.subs[min].seg.size = c /\ s.subs[min].del = {}
    BY DEF MergedSegment
  <2>2. k \in 0..c - 1 /\ k \in Nat
    BY <1>8, <2>1 DEF Locals
  <2>3. PICK d \in live : Rank(live, d) = k
    BY <1>8, <2>2, RankOnto
  <2>4. m + k \notin h /\ NewNumber(m, live, d) = m + k /\ (m + k) - m = k
    <3>1. ~(m + k < m) /\ (m + k) - m = k
      BY <1>6, <2>2
    <3> QED BY <2>3, <3>1 DEF NewNumber
  <2>5. ASSUME NEW f \in F
        PROVE  SubNorm(s.subs[min], s.maps[min][f], k) = NormOf(s, es, ms, f, m + k)
    <3>1. s.maps[min][f] = f
      BY <1>2, <1>4, SameNumbersAt
    <3>2. SubNorm(s.subs[min], f, k) = AllNorms(r, f)[d + 1]
      <4>1. SubNorm(s.subs[min], f, NewNumber(m, live, d) - m) = AllNorms(r, f)[d + 1]
        BY DEF MergedSegment
      <4> QED BY <2>4, <4>1, Zenon
    <3>3. d \in Nat /\ d + 1 \in 1..MaxDoc(r) /\ (d + 1) - 1 = d
      BY <1>2, <1>6
    <3>4. AllNorms(r, f)[d + 1] = NormOf(r, ds, ns, f, d)
      <4>1. AllNorms(r, f) = [x \in 1..MaxDoc(r) |-> NormOf(r, ds, ns, f, x - 1)]
        BY <1>2, NormsTable
      <4> QED BY <3>3, <4>1
    <3>5. <<m + k, f>> \in ms <=> <<d, f>> \in ns
      <4> HIDE DEF F
      <4>1. <<NewNumber(m, live, d), f>> \in MergedNorms(ns, m, live) <=> <<d, f>> \in ns
        BY <1>6, <1>7, <1>8, MergedNormsFrom
      <4> QED BY <2>4, <4>1, Zenon
    <3>6. es[m + k + 1] = ds[d + 1]
      BY <2>4 DEF MergedSegment
    <3>7. NormOf(s, es, ms, f, m + k) = NormOf(r, ds, ns, f, d)
      BY <1>2, <3>5, <3>6 DEF NormOf
    <3> QED BY <3>1, <3>2, <3>4, <3>7
  <2> HIDE DEF F
  <2> QED BY <1>2, <1>9, <2>1, <2>4, <2>5 DEF DocAgrees
<1>13. \A i \in DOMAIN s.subs : SubAgrees(s, es, h, ms, i)
  <2>1. SubAgrees(s, es, h, ms, min)
    BY <1>12 DEF SubAgrees
  <2> QED BY <1>4, <1>11, <2>1
<1>14. DelsAgree(s, h) /\ NormsAgree(s, es, ms)
  <2>1. ASSUME NEW d \in h PROVE d \in 0..MaxDoc(s) - 1
    <3>1. d \in Nat /\ d < m
      BY <1>7
    <3> HIDE DEF c
    <3> QED BY <1>6, <1>8, <1>10, <3>1
  <2> QED BY <1>13, <2>1, SubsAgree
<1>15. NormedType(s, ms)
  <2> HIDE DEF F
  <2>1. NormedIn(ms, m + Cardinality(live), F)
    BY <1>6, <1>7, <1>8, MergedNormsType
  <2>2. F = FieldsOf(s)
    BY <1>2, Zenon
  <2>3. NormedIn(ms, MaxDoc(s), FieldsOf(s))
    BY <1>10, <2>1, <2>2
  <2> QED BY <2>3, NormedInType
<1> QED BY <1>10, <1>14, <1>15, OpenedAgain

-----------------------------------------------------------------------------
(* Every step keeps the invariant *)

LEMMA OtherCallStep ==
  ASSUME Inv, OtherCall
  PROVE  Inv'
<1>1. IInv(ir, docs, gone, normed)
  BY DEF Inv
<1>2. ir' = ir /\ docs' = docs /\ gone' = gone /\ normed' = normed /\ reply'.about # "counts"
  BY DEF OtherCall
<1>3. IInv(ir', docs', gone', normed')
  BY <1>1, <1>2
<1> QED BY <1>2, <1>3 DEF Inv, CachesAreFresh

LEMMA DeleteDocStep ==
  ASSUME Inv, NEW d \in 0..MaxDoc(ir) - 1, DeleteDoc(d)
  PROVE  Inv'
<1>1. /\ ir' = DocDeleted(ir, d) /\ gone' = gone \cup {d}
      /\ docs' = docs /\ normed' = normed /\ reply' = reply
  BY DEF DeleteDoc, DocDeleted
<1>2. IInv(ir', docs', gone', normed')
  BY <1>1, DeleteDocInv DEF Inv
<1> QED BY <1>1, <1>2 DEF Inv, CachesAreFresh

LEMMA UndeleteAllStep ==
  ASSUME Inv, UndeleteAll
  PROVE  Inv'
<1>1. /\ ir' = Undeleted(ir) /\ gone' = {}
      /\ docs' = docs /\ normed' = normed /\ reply' = reply
  BY DEF UndeleteAll, Undeleted
<1>2. IInv(ir', docs', gone', normed')
  BY <1>1, UndeleteAllInv DEF Inv
<1> QED BY <1>1, <1>2 DEF Inv, CachesAreFresh

LEMMA SetNormStep ==
  ASSUME Inv, NEW d \in 0..MaxDoc(ir) - 1, NEW f \in UsedFields,
         ir.maps[ReaderIndex(ir, d)][f] = f, SetNorm(d, f)
  PROVE  Inv'
<1>1. /\ ir' = DocNormed(ir, d, f) /\ normed' = NowNormed(ir, normed, ReaderIndex(ir, d), d, f)
      /\ docs' = docs /\ gone' = gone /\ reply' = reply
  BY DEF SetNorm, DocNormed, NowNormed
<1>2. f \in FieldsOf(ir)
  BY DEF UsedFields, FieldsOf
<1>3. IInv(ir', docs', gone', normed')
  BY <1>1, <1>2, SetNormInv DEF Inv
<1> QED BY <1>1, <1>3 DEF Inv, CachesAreFresh

LEMMA NumDocsStep ==
  ASSUME Inv, NumDocs
  PROVE  Inv'
<1> DEFINE num == IF ir.multi /\ ir.num_docs_cache # -1 THEN ir.num_docs_cache ELSE LiveDocs(ir)
<1>1. /\ ir' = Counted(ir, num)
      /\ reply' = [about |-> "counts", right |-> num = Len(docs) - Cardinality(gone)]
      /\ docs' = docs /\ gone' = gone /\ normed' = normed
  BY DEF NumDocs, Counted, Reply
<1>2. IInv(ir', docs, gone, normed) /\ num = Len(docs) - Cardinality(gone)
  BY <1>1, NumDocsInv DEF Inv
<1> HIDE DEF num
<1>3. IInv(ir', docs', gone', normed')
  BY <1>1, <1>2
<1>4. reply'.right
  BY <1>1, <1>2
<1> QED BY <1>3, <1>4 DEF Inv, CachesAreFresh

LEMMA GetNormsStep ==
  ASSUME Inv, NEW f \in UsedFields, GetNorms(f)
  PROVE  Inv'
<1> DEFINE got == IF ir.norms_cache[f].cached THEN ir.norms_cache[f].bytes ELSE AllNorms(ir, f)
<1>1. /\ ir' = WithNorms(ir, f, got)
      /\ reply' = [about |-> "counts", right |-> got = RightNorms(f)]
      /\ docs' = docs /\ gone' = gone /\ normed' = normed
  BY DEF GetNorms, WithNorms, Reply
<1>2. f \in FieldsOf(ir) /\ IInv(ir, docs, gone, normed)
  BY DEF UsedFields, FieldsOf, Inv
<1>3. IInv(ir', docs, gone, normed) /\ got = NormTable(ir, docs, normed, f)
  BY <1>1, <1>2, GetNormsInv
<1>4. got = RightNorms(f)
  <2>1. Len(docs) = MaxDoc(ir)
    BY <1>2 DEF IInv
  <2> QED BY <1>3, <2>1, RightNormsTable DEF NormTable
<1> HIDE DEF got
<1>5. IInv(ir', docs', gone', normed')
  BY <1>1, <1>3
<1>6. reply'.right
  BY <1>1, <1>4
<1> QED BY <1>5, <1>6 DEF Inv, CachesAreFresh

LEMMA ReopenedStep ==
  ASSUME Inv, Reopened
  PROVE  IsReopened(ir, ir') /\ ~ir.ext /\ reply' = reply
<1>1. Len(ir.fis) \in Nat
  BY DEF Inv, IInv, Shape
<1>2. /\ ~ir.ext /\ IsSubs(ir'.subs) /\ reply' = reply
      /\ ir' = Reader(ir'.subs, ir.fis, SameNumbers(ir'.subs, ir.fis), FALSE)
  BY DEF Reopened
<1> QED BY <1>1, <1>2, ReopenedShape

LEMMA SegmentAddedStep ==
  ASSUME Inv, SegmentAdded
  PROVE  Inv'
<1> DEFINE n == Len(ir.subs) + 1
<1>1. IsReopened(ir, ir') /\ ~ir.ext /\ reply' = reply
  BY ReopenedStep DEF SegmentAdded
<1>2. AddedSegment(ir, ir', docs, docs', n)
  BY DEF SegmentAdded, Kept, AddedSegment, UsedFields, FieldsOf
<1>3. gone' = gone /\ normed' = normed
  BY DEF SegmentAdded
<1>4. IInv(ir, docs, gone, normed)
  BY DEF Inv
<1> HIDE DEF n
<1>5. IInv(ir', docs', gone, normed)
  BY <1>1, <1>2, <1>4, SegmentAddedInv
<1>6. IInv(ir', docs', gone', normed')
  BY <1>3, <1>5
<1> QED BY <1>1, <1>6 DEF Inv, CachesAreFresh

LEMMA TermDeletedStep ==
  ASSUME Inv, TermDeleted
  PROVE  Inv'
<1>1. IsReopened(ir, ir') /\ ~ir.ext /\ reply' = reply
  BY ReopenedStep DEF TermDeleted
<1>2. /\ Len(ir'.subs) = Len(ir.subs) /\ docs' = docs /\ normed' = normed
      /\ gone \subseteq gone' /\ gone' \subseteq 0..Len(docs) - 1
  BY DEF TermDeleted
<1>3. \A i \in DOMAIN ir.subs :
        LET D == ir.subs[i].del \cup Added(ir.subs[i], ir.starts[i], gone', gone) IN
        ir'.subs[i] = WithDels(ir.subs[i], D, D # {})
  BY DEF TermDeleted, Added, WithDels
<1>4. IInv(ir, docs, gone, normed)
  BY DEF Inv
<1>5. IInv(ir', docs, gone', normed)
  BY <1>1, <1>2, <1>3, <1>4, TermDeletedInv
<1>6. IInv(ir', docs', gone', normed')
  BY <1>2, <1>5
<1> QED BY <1>1, <1>6 DEF Inv, CachesAreFresh

LEMMA SegmentsMergedStep ==
  ASSUME Inv, NEW min \in DOMAIN ir.subs, SegmentsMerged(min)
  PROVE  Inv'
<1> DEFINE m == ir.starts[min]
           live == (m..Len(docs) - 1) \ gone
<1>1. IsReopened(ir, ir') /\ ~ir.ext /\ reply' = reply
  BY ReopenedStep DEF SegmentsMerged
<1>2. MergedSegment(ir, ir', docs, docs', min, m, live)
  BY DEF SegmentsMerged, Kept, MergedSegment, NewNumber, Rank, UsedFields, FieldsOf
<1>3. gone' = {d \in gone : d < m} /\ normed' = MergedNorms(normed, m, live)
  BY DEF SegmentsMerged, MergedNorms, NewNumber, Rank
<1>4. IInv(ir, docs, gone, normed)
  BY DEF Inv
<1>5. IInv(ir', docs', gone', normed')
  BY <1>1, <1>2, <1>3, <1>4, SegmentsMergedInv
<1> QED BY <1>1, <1>5 DEF Inv, CachesAreFresh

LEMMA InvStep ==
  ASSUME Inv, [ReaderNext]_readerVars
  PROVE  Inv'
<1>1. CASE UNCHANGED readerVars
  <2>1. ir' = ir /\ docs' = docs /\ gone' = gone /\ normed' = normed /\ reply' = reply
    BY <1>1 DEF readerVars
  <2>2. IInv(ir', docs', gone', normed')
    BY <2>1 DEF Inv
  <2> QED BY <2>1, <2>2 DEF Inv, CachesAreFresh
<1>2. CASE OtherCall
  BY <1>2, OtherCallStep
<1>3. CASE \E d \in 0..MaxDoc(ir) - 1 : DeleteDoc(d)
  BY <1>3, DeleteDocStep
<1>4. CASE UndeleteAll
  BY <1>4, UndeleteAllStep
<1>5. CASE \E d \in 0..MaxDoc(ir) - 1, f \in UsedFields :
             ir.maps[ReaderIndex(ir, d)][f] = f /\ SetNorm(d, f)
  BY <1>5, SetNormStep
<1>6. CASE NumDocs
  BY <1>6, NumDocsStep
<1>7. CASE \E f \in UsedFields : GetNorms(f)
  BY <1>7, GetNormsStep
<1>8. CASE SegmentAdded
  BY <1>8, SegmentAddedStep
<1>9. CASE TermDeleted
  BY <1>9, TermDeletedStep
<1>10. CASE \E min \in DOMAIN ir.subs : SegmentsMerged(min)
  BY <1>10, SegmentsMergedStep
<1> QED
  BY <1>1, <1>2, <1>3, <1>4, <1>5, <1>6, <1>7, <1>8, <1>9, <1>10 DEF ReaderNext

LEMMA InvAlways == ReaderSpec => []Inv
<1>1. ReaderInit => Inv
  BY InitInv
<1>2. Inv /\ [ReaderNext]_readerVars => Inv'
  BY InvStep
<1> QED BY <1>1, <1>2, PTL DEF ReaderSpec

-----------------------------------------------------------------------------
(* What the invariant says *)

LEMMA InvType ==
  ASSUME Inv
  PROVE  TypeOK
<1>1. IInv(ir, docs, gone, normed)
  BY DEF Inv
<1>2. /\ IsSubs(ir.subs) /\ ir.starts = Starts(Sizes(ir))
      /\ Len(docs) = MaxDoc(ir) /\ MaxDoc(ir) \in Nat /\ DelsAgree(ir, gone)
  BY <1>1, IInvFacts DEF Facts
<1>3. gone \subseteq 0..Len(docs) - 1
  BY <1>2 DEF DelsAgree
<1>4. ir.num_docs_cache \in -1..MaxDoc(ir)
  <2>1. Cardinality(gone) \in 0..MaxDoc(ir)
    BY <1>2, LiveCount
  <2>2. ir.num_docs_cache \in {-1, MaxDoc(ir) - Cardinality(gone)}
    BY <1>1 DEF IInv, CountAgrees
  <2> QED BY <1>2, <2>1, <2>2
<1>5. ASSUME NEW f \in UsedFields, ir.norms_cache[f].cached
      PROVE  DOMAIN ir.norms_cache[f].bytes = 1..MaxDoc(ir)
  <2>1. f \in FieldsOf(ir) /\ CacheAgrees(ir, docs, normed)
    BY <1>1 DEF UsedFields, FieldsOf, IInv
  <2>2. ir.norms_cache[f].bytes = [d \in 1..MaxDoc(ir) |-> NormOf(ir, docs, normed, f, d - 1)]
    BY <1>5, <2>1 DEF CacheAgrees
  <2> QED BY <2>2
<1> QED BY <1>2, <1>3, <1>4, <1>5 DEF TypeOK

LEMMA InvDeletions ==
  ASSUME Inv
  PROVE  DeletionsAreExact
<1>1. IInv(ir, docs, gone, normed)
  BY DEF Inv
<1>2. IsSubs(ir.subs) /\ ir.starts = Starts(Sizes(ir)) /\ DelsAgree(ir, gone)
  BY <1>1, IInvFacts DEF Facts
<1>3. gone = Deleted(ir)
  BY <1>2, AgreeDeleted
<1> QED BY <1>1, <1>3 DEF IInv, DeletionsAreExact

-----------------------------------------------------------------------------
(* The theorems *)

\* Whatever segments a reader is opened over, in whatever order documents are
\* deleted and undeleted, norms set, segments added and merged: max_doc stays
\* the number of all documents, num_docs_cache stays -1 or a number up to it,
\* and norms that mr_get_norms cached have a byte for every document.
THEOREM ReaderTypes == ReaderSpec => []TypeOK
<1>1. Inv => TypeOK
  BY InvType
<1> QED BY <1>1, InvAlways, PTL

\* mr_delete_doc_i reaches through mr_reader_index_i the one document that was
\* asked for, undelete_all brings all of them back, and a merge drops exactly
\* the deleted ones: the bit vectors of the sub readers are always the
\* deletions that were asked for, and has_deletions never hides one.
THEOREM DeletionsExact == ReaderSpec => []DeletionsAreExact
<1>1. Inv => DeletionsAreExact
  BY InvDeletions
<1> QED BY <1>1, InvAlways, PTL

\* mr_num_docs and mr_get_norms answer from a cache that every delete,
\* undelete and set_norm drops in time: the answer is the one for the
\* deletions and the norms as they are at the call.
THEOREM CachesFresh == ReaderSpec => []CachesAreFresh
<1>1. Inv => CachesAreFresh
  BY DEF Inv
<1> QED BY <1>1, InvAlways, PTL
=============================================================================
