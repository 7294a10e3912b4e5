--------------------------- MODULE FaultAuditProofs ---------------------------
(***************************************************************************)
(* Proofs about FaultAudit and its path search, for all sets of documents. *)
(***************************************************************************)
EXTENDS FaultAudit, FiniteSetTheorems, TLAPS

LEMMA LeastExists ==
  ASSUME NEW S \in SUBSET Nat, S # {}
  PROVE  /\ (CHOOSE d \in S : \A c \in S : d <= c) \in S
         /\ \A c \in S : (CHOOSE d \in S : \A b \in S : d <= b) <= c
<1>1. PICK d \in S : \A c \in S : <<c, d>> \notin OpToRel(<, Nat)
  BY NatLessThanWellFounded, WFMin
<1>2. ASSUME NEW c \in S PROVE d <= c
  <2>1. c < d => <<c, d>> \in OpToRel(<, Nat)
    BY Zenon DEF OpToRel
  <2>2. ~(c < d)
    BY <1>1, <2>1, Zenon
  <2>3. QED
    BY <2>2
<1>3. QED
  BY <1>2

(* Induction up to n, over a set in the place of a predicate.              *)
LEMMA UpToInduction ==
  ASSUME NEW n \in Nat, NEW S, 0 \in S, \A k \in 0..n : k < n /\ k \in S => k + 1 \in S
  PROVE  0..n \subseteq S
<1> DEFINE bad == (0..n) \ S
<1>1. ASSUME bad # {} PROVE FALSE
  <2>1. bad \in SUBSET Nat
    OBVIOUS
  <2> DEFINE d == CHOOSE d \in bad : \A c \in bad : d <= c
  <2>2. d \in bad /\ \A c \in bad : d <= c
    <3> HIDE DEF bad
    <3>1. QED
      BY <1>1, <2>1, LeastExists
  <2> HIDE DEF d
  <2>3. d \in Nat /\ d # 0 /\ d <= n /\ d \notin S
    BY <2>2
  <2>4. d - 1 \in 0..n /\ d - 1 < n
    BY <2>3
  <2>5. d - 1 \in S
    BY <2>2, <2>3, <2>4
  <2>6. QED
    BY <2>3, <2>4, <2>5
<1>2. QED
  BY <1>1

(* A function defined by recursion up to n exists.                         *)
StepsIn(T) == [Nat -> [T -> T]]
Recursion(g, n, base, step) == g[0] = base /\ \A k \in 1..n : g[k] = step[k][g[k - 1]]

LEMMA RecursionExists ==
  ASSUME NEW n \in Nat, NEW T, NEW base \in T, NEW step \in StepsIn(T)
  PROVE  \E g \in [0..n -> T] : Recursion(g, n, base, step)
<1> USE DEF StepsIn
<1> DEFINE Follows(g, m) == Recursion(g, m, base, step)
           S == {m \in Nat : \E g \in [0..m -> T] : Follows(g, m)}
<1>1. 0 \in S
  <2>1. [k \in 0..0 |-> base] \in [0..0 -> T]
    OBVIOUS
  <2>2. Follows([k \in 0..0 |-> base], 0)
    BY DEF Recursion
  <2> HIDE DEF Follows
  <2>3. QED
    BY <2>1, <2>2
<1>2. ASSUME NEW m \in Nat, m \in S PROVE m + 1 \in S
  <2>1. PICK g \in [0..m -> T] : Follows(g, m)
    BY <1>2
  <2> DEFINE h == [k \in 0..(m + 1) |-> IF k = m + 1 THEN step[k][g[m]] ELSE g[k]]
  <2>2. g[m] \in T
    OBVIOUS
  <2>3. step[m + 1][g[m]] \in T
    BY <2>2
  <2>4. ASSUME NEW k \in 0..(m + 1) PROVE (IF k = m + 1 THEN step[k][g[m]] ELSE g[k]) \in T
    <3>1. CASE k = m + 1
      BY <2>3, <3>1
    <3>2. CASE k # m + 1
      <4>1. k \in 0..m
        BY <3>2
      <4>2. QED
        BY <3>2, <4>1
    <3>3. QED
      BY <3>1, <3>2
  <2>5. h \in [0..(m + 1) -> T]
    BY <2>4
  <2>6. h[0] = base
    BY <2>1 DEF Recursion
  <2>7. ASSUME NEW k \in 1..(m + 1) PROVE h[k] = step[k][h[k - 1]]
    <3>1. k - 1 \in 0..(m + 1) /\ k \in 0..(m + 1) /\ k - 1 # m + 1
      OBVIOUS
    <3>2. h[k - 1] = g[k - 1]
      BY <3>1
    <3>3. CASE k = m + 1
      BY <3>1, <3>2, <3>3
    <3>4. CASE k # m + 1
      <4>1. k \in 1..m
        BY <3>4
      <4>2. QED
        BY <2>1, <3>1, <3>2, <3>4, <4>1 DEF Recursion
    <3>5. QED
      BY <3>3, <3>4
  <2> HIDE DEF h
  <2>8. Follows(h, m + 1)
    BY <2>6, <2>7 DEF Recursion
  <2> HIDE DEF Follows
  <2>9. QED
    BY <2>5, <2>8
<1>3. 0..n \subseteq S
  <2> HIDE DEF S
  <2>1. QED
    BY <1>1, <1>2, UpToInduction
<1>4. QED
  BY <1>3

(* A finite set is listed completely, each member once.                    *)
LEMMA ListedIsAll ==
  ASSUME NEW S, IsFiniteSet(S)
  PROVE  /\ Listed(S) \in Seq(S) /\ Len(Listed(S)) = Cardinality(S)
         /\ \A x \in S : \E i \in 1..Len(Listed(S)) : Listed(S)[i] = x
<1> DEFINE N == Cardinality(S)
           fresh(s, k) == CHOOSE x \in S : x \notin {s[i] : i \in 1..(k - 1)}
           more(s, k) == \E x \in S : x \notin {s[i] : i \in 1..(k - 1)}
           step == [k \in Nat |->
                      [s \in Seq(S) |-> IF more(s, k) THEN Append(s, fresh(s, k)) ELSE s]]
           Is(f) == f = [k \in 0..N |-> IF k = 0 THEN <<>> ELSE Append(f[k - 1], fresh(f[k - 1], k))]
           once(s, k) == /\ s \in Seq(S) /\ Len(s) = k
                         /\ \A i, j \in 1..k : s[i] = s[j] => i = j
<1>1. N \in Nat
  BY FS_CardinalityType
<1>2. step \in StepsIn(Seq(S))
  <2>1. ASSUME NEW k \in Nat, NEW s \in Seq(S)
        PROVE  (IF more(s, k) THEN Append(s, fresh(s, k)) ELSE s) \in Seq(S)
    <3>1. CASE more(s, k)
      <4>1. fresh(s, k) \in S
        BY <3>1
      <4> HIDE DEF fresh, more
      <4>2. QED
        BY <3>1, <4>1
    <3>2. QED
      BY <3>1
  <2> HIDE DEF fresh, more
  <2>2. QED
    BY <2>1 DEF StepsIn
<1> HIDE DEF N
<1>3. PICK g \in [0..N -> Seq(S)] : Recursion(g, N, <<>>, step)
  <2>1. <<>> \in Seq(S)
    OBVIOUS
  <2> HIDE DEF step
  <2>2. QED
    BY <1>1, <1>2, <2>1, RecursionExists
<1>4. ASSUME NEW k \in 0..N, k < N, once(g[k], k)
      PROVE  /\ more(g[k], k + 1) /\ g[k + 1] = Append(g[k], fresh(g[k], k + 1))
             /\ once(g[k + 1], k + 1)
  <2> DEFINE s == g[k]
             x == fresh(s, k + 1)
  <2>1. (k + 1) - 1 = k /\ k + 1 \in 1..N /\ k + 1 \in Nat /\ k \in Nat /\ s \in Seq(S) /\ Len(s) = k
    BY <1>1, <1>4
  <2>2. more(s, k + 1)
    <3>1. ASSUME \A y \in S : y \in {s[i] : i \in 1..k} PROVE FALSE
      <4>1. s \in Surjection(1..k, S)
        BY <2>1, <3>1 DEF Surjection
      <4>2. IsFiniteSet(1..k) /\ Cardinality(1..k) = k
        BY <2>1, FS_Interval
      <4>3. N <= k
        BY <4>1, <4>2, FS_Surjection DEF N
      <4>4. QED
        BY <1>1, <1>4, <2>1, <4>3
    <3>2. QED
      BY <2>1, <3>1
  <2>3. x \in S /\ x \notin {s[i] : i \in 1..k}
    BY <2>1, <2>2
  <2>4. g[k + 1] = Append(s, x)
    <3>1. g[k + 1] = step[k + 1][g[k]]
      <4> HIDE DEF step, more, fresh
      <4>1. QED
        BY <1>3, <2>1 DEF Recursion
    <3> HIDE DEF more, fresh
    <3>2. step[k + 1][s] = IF more(s, k + 1) THEN Append(s, fresh(s, k + 1)) ELSE s
      BY <2>1
    <3>3. QED
      BY <2>2, <3>1, <3>2
  <2> HIDE DEF s, x
  <2>5. /\ Append(s, x) \in Seq(S) /\ Len(Append(s, x)) = k + 1
        /\ \A i \in 1..(k + 1) : Append(s, x)[i] = IF i = k + 1 THEN x ELSE s[i]
    BY <2>1, <2>3
  <2>6. \A i, j \in 1..k : s[i] = s[j] => i = j
    BY <1>4 DEF s
  <2>7. \A i, j \in 1..(k + 1) : Append(s, x)[i] = Append(s, x)[j] => i = j
    <3>1. \A i \in 1..(k + 1) : i = k + 1 \/ i \in 1..k
      BY <2>1
    <3>2. \A i \in 1..k : i # k + 1 /\ i \in 1..(k + 1) /\ s[i] # x
      BY <2>1, <2>3
    <3>3. QED
      BY <2>5, <2>6, <3>1, <3>2
  <2>8. once(Append(s, x), k + 1)
    BY <2>5, <2>7
  <2> HIDE DEF once
  <2>9. QED
    BY <2>2, <2>4, <2>8 DEF s, x
<1> DEFINE ok == {k \in 0..N : once(g[k], k)}
<1>5. 0..N \subseteq ok
  <2>1. 0 \in ok
    BY <1>1, <1>3 DEF Recursion
  <2>2. ASSUME NEW k \in 0..N, k < N, k \in ok PROVE k + 1 \in ok
    <3>1. once(g[k], k) /\ k + 1 \in 0..N
      BY <1>1, <2>2
    <3> HIDE DEF once
    <3>2. QED
      BY <1>4, <2>2, <3>1
  <2> HIDE DEF ok
  <2>3. QED
    BY <1>1, <2>1, <2>2, UpToInduction
<1> HIDE DEF more
<1>6. ASSUME NEW k \in 0..N, k < N
      PROVE  g[k + 1] = Append(g[k], fresh(g[k], k + 1)) /\ once(g[k], k)
  <2>1. once(g[k], k)
    BY <1>5
  <2> HIDE DEF once
  <2>2. QED
    BY <1>4, <1>6, <2>1
<1>7. Is(g)
  <2>1. ASSUME NEW k \in 0..N
        PROVE  g[k] = IF k = 0 THEN <<>> ELSE Append(g[k - 1], fresh(g[k - 1], k))
    <3>1. CASE k # 0
      <4>1. k - 1 \in 0..N /\ k - 1 < N /\ (k - 1) + 1 = k
        BY <1>1, <3>1
      <4> HIDE DEF fresh, once
      <4>2. g[(k - 1) + 1] = Append(g[k - 1], fresh(g[k - 1], (k - 1) + 1))
        BY <1>6, <4>1
      <4>3. QED
        BY <3>1, <4>1, <4>2
    <3>2. QED
      BY <1>3, <3>1 DEF Recursion
  <2>2. g = [k \in 0..N |-> g[k]]
    OBVIOUS
  <2> HIDE DEF fresh
  <2>3. QED
    BY <2>1, <2>2
<1> DEFINE f == CHOOSE h : Is(h)
<1>8. Is(f)
  <2> HIDE DEF Is
  <2>1. QED
    BY <1>7
<1>9. Listed(S) = f[N]
  BY DEF Listed, N
<1> HIDE DEF f
<1> DEFINE same == {k \in 0..N : f[k] = g[k]}
<1>10. 0..N \subseteq same
  <2>1. 0 \in same
    BY <1>1, <1>3, <1>8 DEF Recursion
  <2>2. ASSUME NEW k \in 0..N, k < N, k \in same PROVE k + 1 \in same
    <3>1. k + 1 \in 0..N /\ k + 1 # 0 /\ (k + 1) - 1 = k
      BY <1>1, <2>2
    <3> HIDE DEF fresh, once
    <3>2. f[k + 1] = Append(f[k], fresh(f[k], k + 1))
      BY <1>8, <3>1
    <3>3. QED
      BY <1>6, <2>2, <3>1, <3>2
  <2> HIDE DEF same
  <2>3. QED
    BY <1>1, <2>1, <2>2, UpToInduction
<1> DEFINE s == g[N]
<1>11. once(s, N) /\ Listed(S) = s
  BY <1>1, <1>5, <1>9, <1>10
<1> HIDE DEF s
<1>12. \A x \in S : \E i \in 1..N : s[i] = x
  <2>1. s \in Injection(1..N, S)
    BY SMTT(40), <1>11 DEF Injection
  <2>2. Cardinality(1..N) = N
    BY <1>1, FS_Interval
  <2>3. s \in Surjection(1..N, S)
    BY <2>1, <2>2, FS_Injection DEF N
  <2>4. QED
    BY <2>3 DEF Surjection
<1>13. QED
  BY <1>11, <1>12 DEF N

(* A search in a design that was accepted.                                 *)
ValidQuery(q) ==
  /\ IsFiniteSet(q.nodes) /\ q.source \in q.nodes
  /\ \A l \in q.links : l.cost \in Nat /\ l.a \in q.nodes /\ l.b \in q.nodes /\ l.a # l.b

(* What a walk may be: the end is a node that has not failed.              *)
WalkSet(q) == (q.nodes \ q.cutNodes) \X Nat

(* One link further, as the search goes there.                             *)
LEMMA LongerIsByStep ==
  ASSUME NEW q, ValidQuery(q), NEW ws \in SUBSET WalkSet(q)
  PROVE  /\ ws \subseteq Longer(q, ws) /\ Longer(q, ws) \in SUBSET WalkSet(q)
         /\ \A w \in ws : \A s \in Steps(q, w[1]) : <<s[1], w[2] + s[2]>> \in Longer(q, ws)
         /\ \A v \in Longer(q, ws) \ ws :
              \E w \in ws : \E s \in Steps(q, w[1]) : v = <<s[1], w[2] + s[2]>>
<1> DEFINE pairs == {wl \in ws \X Left(q) : wl[1][1] \in {wl[2].a, wl[2].b}}
           ends(wl) == {<<n, wl[1][2] + wl[2].cost>> : n \in {wl[2].a, wl[2].b} \ {wl[1][1]}}
<1>1. Longer(q, ws) = ws \cup UNION {ends(wl) : wl \in pairs}
  BY DEF Longer
<1>2. ws \subseteq Longer(q, ws)
  BY <1>1
<1>3. ASSUME NEW v \in Longer(q, ws), v \notin ws
      PROVE  \E w \in ws : \E s \in Steps(q, w[1]) : v = <<s[1], w[2] + s[2]>> /\ v \in WalkSet(q)
  <2>1. PICK wl \in pairs : v \in ends(wl)
    BY <1>1, <1>3
  <2>2. PICK n \in {wl[2].a, wl[2].b} \ {wl[1][1]} : v = <<n, wl[1][2] + wl[2].cost>>
    BY <2>1
  <2> DEFINE w == wl[1]
             l == wl[2]
  <2>3. w \in ws /\ l \in Left(q) /\ w[1] \in {l.a, l.b} /\ w[1] \in q.nodes \ q.cutNodes /\ w[2] \in Nat
    BY DEF WalkSet
  <2>4. /\ l \in q.links /\ l \in Surviving(q) /\ l.a \notin q.cutNodes /\ l.b \notin q.cutNodes
        /\ l.cost \in Nat /\ l.a \in q.nodes /\ l.b \in q.nodes
    BY <2>3 DEF Left, Surviving, ValidQuery
  <2>5. n \in {l.a, l.b} /\ n # w[1] /\ v = <<n, w[2] + l.cost>>
    BY <2>2
  <2> HIDE DEF w, l
  <2>6. <<n, l.cost>> \in Steps(q, w[1])
    <3>1. CASE w[1] = l.a
      BY <2>3, <2>4, <2>5, <3>1 DEF Steps
    <3>2. CASE w[1] = l.b
      BY <2>3, <2>4, <2>5, <3>2 DEF Steps
    <3>3. QED
      BY <2>3, <3>1, <3>2
  <2>7. v \in WalkSet(q)
    BY <2>3, <2>4, <2>5 DEF WalkSet
  <2>8. QED
    BY <2>3, <2>5, <2>6, <2>7
<1>4. ASSUME NEW w \in ws, NEW s \in Steps(q, w[1])
      PROVE  <<s[1], w[2] + s[2]>> \in Longer(q, ws)
  <2>1. w[1] \in q.nodes \ q.cutNodes /\ w[2] \in Nat
    BY DEF WalkSet
  <2>2. PICK l \in Surviving(q) : /\ s[1] \notin q.cutNodes
                                  /\ (l.a = w[1] /\ s = <<l.b, l.cost>>) \/ (l.b = w[1] /\ s = <<l.a, l.cost>>)
    BY DEF Steps
  <2>3. l.a # l.b /\ l \in Left(q)
    BY <2>1, <2>2 DEF Left, Surviving, ValidQuery
  <2> DEFINE wl == <<w, l>>
  <2>4. wl \in pairs
    BY <2>2, <2>3
  <2>5. s[1] \in {wl[2].a, wl[2].b} \ {wl[1][1]} /\ s[2] = wl[2].cost
    BY <2>2, <2>3
  <2>6. <<s[1], w[2] + s[2]>> \in ends(wl)
    BY <2>5
  <2>7. QED
    BY <1>1, <2>4, <2>6
<1>5. QED
  BY <1>2, <1>3, <1>4

LEMMA WalksAre ==
  ASSUME NEW q, ValidQuery(q)
  PROVE  /\ Cardinality(q.nodes) \in Nat
         /\ Walks(q) \in [0..Cardinality(q.nodes) -> SUBSET WalkSet(q)]
         /\ Walks(q)[0] = {<<n, 0>> : n \in {q.source} \ q.cutNodes}
         /\ \A k \in 1..Cardinality(q.nodes) : Walks(q)[k] = Longer(q, Walks(q)[k - 1])
<1> DEFINE N == Cardinality(q.nodes)
           T == SUBSET WalkSet(q)
           base == {<<n, 0>> : n \in {q.source} \ q.cutNodes}
           step == [k \in Nat |-> [ws \in T |-> Longer(q, ws)]]
           Is(g) == g = [k \in 0..N |-> IF k = 0 THEN base ELSE Longer(q, g[k - 1])]
<1>1. N \in Nat
  BY FS_CardinalityType DEF ValidQuery
<1>2. base \in T
  BY DEF WalkSet, ValidQuery
<1>3. step \in StepsIn(T)
  BY LongerIsByStep DEF StepsIn
<1> HIDE DEF N, base
<1>4. PICK g \in [0..N -> T] : Recursion(g, N, base, step)
  <2> HIDE DEF step, T
  <2>1. QED
    BY <1>1, <1>2, <1>3, RecursionExists
<1>5. ASSUME NEW k \in 0..N
      PROVE  g[k] = IF k = 0 THEN base ELSE Longer(q, g[k - 1])
  <2>1. CASE k # 0
    <3>1. k \in 1..N /\ k \in Nat /\ k - 1 \in 0..N
      BY <1>1, <2>1
    <3>2. step[k][g[k - 1]] = Longer(q, g[k - 1])
      BY <3>1
    <3>3. QED
      BY <1>4, <2>1, <3>1, <3>2 DEF Recursion
  <2>2. QED
    BY <1>4, <2>1 DEF Recursion
<1>6. Is(g)
  <2>1. g = [k \in 0..N |-> g[k]]
    OBVIOUS
  <2>2. QED
    BY <1>5, <2>1
<1>7. Walks(q) = CHOOSE f : Is(f)
  BY DEF Walks, N, base
<1>8. Is(Walks(q))
  <2> HIDE DEF Is
  <2>1. QED
    BY <1>6, <1>7
<1>9. Walks(q)[0] = base /\ DOMAIN Walks(q) = 0..N
  BY <1>1, <1>8
<1>10. ASSUME NEW k \in 1..N PROVE Walks(q)[k] = Longer(q, Walks(q)[k - 1])
  BY <1>1, <1>8
<1> DEFINE ok == {k \in 0..N : Walks(q)[k] \in T}
<1>11. 0..N \subseteq ok
  <2>1. 0 \in ok
    BY <1>1, <1>2, <1>9
  <2>2. ASSUME NEW k \in 0..N, k < N, k \in ok PROVE k + 1 \in ok
    <3>1. k + 1 \in 1..N /\ (k + 1) - 1 = k
      BY <1>1, <2>2
    <3>2. Walks(q)[k + 1] = Longer(q, Walks(q)[k])
      BY <1>10, <3>1
    <3>3. QED
      BY <2>2, <3>1, <3>2, LongerIsByStep
  <2> HIDE DEF ok
  <2>3. QED
    BY <1>1, <2>1, <2>2, UpToInduction
<1>12. Walks(q) = [k \in 0..N |-> Walks(q)[k]]
  <2> DEFINE W == Walks(q)
  <2>1. W = [k \in 0..N |-> IF k = 0 THEN base ELSE Longer(q, W[k - 1])]
    BY <1>8
  <2> HIDE DEF W
  <2>2. W = [k \in 0..N |-> W[k]]
    BY <2>1
  <2>3. QED
    BY <2>2 DEF W
<1>13. Walks(q) \in [0..N -> T]
  BY <1>11, <1>12
<1>14. QED
  BY <1>1, <1>9, <1>10, <1>13 DEF N, base

(* A walk of at most k links is one of at most as many as there are nodes. *)
LEMMA WalksGrow ==
  ASSUME NEW q, ValidQuery(q), NEW k \in 0..Cardinality(q.nodes)
  PROVE  Walks(q)[k] \subseteq Walks(q)[Cardinality(q.nodes)]
<1> DEFINE N == Cardinality(q.nodes)
           ok == {j \in 0..N : Walks(q)[N - j] \subseteq Walks(q)[N]}
<1>1. N \in Nat
  BY WalksAre
<1> HIDE DEF N
<1>2. 0 \in ok
  BY <1>1
<1>3. ASSUME NEW j \in 0..N, j < N, j \in ok PROVE j + 1 \in ok
  <2>1. N - j \in 1..N /\ (N - j) - 1 = N - (j + 1) /\ N - (j + 1) \in 0..N /\ j + 1 \in 0..N
    BY <1>1, <1>3
  <2>2. Walks(q)[N - j] = Longer(q, Walks(q)[N - (j + 1)])
    BY <2>1, WalksAre DEF N
  <2>3. Walks(q)[N - (j + 1)] \in SUBSET WalkSet(q)
    BY <2>1, WalksAre DEF N
  <2>4. Walks(q)[N - (j + 1)] \subseteq Walks(q)[N - j]
    BY <2>2, <2>3, LongerIsByStep
  <2>5. QED
    BY <1>3, <2>1, <2>4
<1>4. 0..N \subseteq ok
  <2> HIDE DEF ok
  <2>1. QED
    BY <1>1, <1>2, <1>3, UpToInduction
<1>5. k \in 0..N /\ N - k \in 0..N /\ N - (N - k) = k
  BY <1>1 DEF N
<1>6. Walks(q)[N - (N - k)] \subseteq Walks(q)[N]
  BY <1>4, <1>5
<1>7. QED
  BY <1>5, <1>6 DEF N

(* What the search keeps: in particular SettledIsFinal.                    *)
SearchInv ==
  /\ \A l \in query.links : l.cost \in Nat
  /\ \A n \in DOMAIN dist : dist[n] \in Nat
  /\ pending \subseteq Nat \X DOMAIN dist
  /\ SettledIsFinal

LEMMA StepsAreNatural ==
  ASSUME SearchInv
  PROVE  \A n : \A s \in Steps(query, n) : s = <<s[1], s[2]>> /\ s[2] \in Nat
BY DEF SearchInv, Steps, Surviving

LEMMA ImprovementsEffect ==
  ASSUME SearchInv, NEW e \in pending
  PROVE  /\ \A f \in Improvements(e) :
              /\ f = <<f[1], f[2]>> /\ f[1] \in Nat /\ e[1] <= f[1]
              /\ f[2] \in DOMAIN dist => f[1] < dist[f[2]]
         /\ \A s \in Steps(query, e[2]) :
              (s[1] \in DOMAIN dist /\ dist[s[1]] <= e[1] + s[2])
                \/ <<e[1] + s[2], s[1]>> \in Improvements(e)
<1>1. e[1] \in Nat
  BY DEF SearchInv
<1>2. \A s \in Steps(query, e[2]) : s[2] \in Nat
  BY StepsAreNatural
<1>3. \A n \in DOMAIN dist : dist[n] \in Nat
  BY DEF SearchInv
<1>4. QED
  BY <1>1, <1>2, <1>3 DEF Improvements

LEMMA ImprovedEffect ==
  ASSUME SearchInv, NEW e \in pending
  PROVE  LET new == Improvements(e)
             better == Improved(new)
         IN  /\ DOMAIN better = DOMAIN dist \cup {f[2] : f \in new}
             /\ \A n \in DOMAIN better : better[n] \in Nat
             /\ \A n \in DOMAIN dist : better[n] <= dist[n]
             /\ \A f \in new : better[f[2]] <= f[1]
             /\ \A n \in DOMAIN better :
                  (n \in DOMAIN dist /\ better[n] = dist[n]) \/ <<better[n], n>> \in new
<1> DEFINE new == Improvements(e)
           known(n) == {f[1] : f \in {f \in new : f[2] = n}} \cup {dist[m] : m \in DOMAIN dist \cap {n}}
           better == Improved(new)
<1>1. DOMAIN better = DOMAIN dist \cup {f[2] : f \in new}
  BY DEF Improved
<1>2. ASSUME NEW n \in DOMAIN better
      PROVE  better[n] = CHOOSE d \in known(n) : \A c \in known(n) : d <= c
  BY <1>1 DEF Improved
<1>3. \A n : known(n) \subseteq Nat
  BY ImprovementsEffect DEF SearchInv
<1>4. \A n \in DOMAIN better : known(n) # {}
  BY <1>1
<1>5. ASSUME NEW n \in DOMAIN better
      PROVE  better[n] \in known(n) /\ \A c \in known(n) : better[n] <= c
  <2> HIDE DEF known, better
  <2>1. QED
    BY <1>2, <1>3, <1>4, LeastExists
<1>6. \A f \in new : f = <<f[1], f[2]>>
  BY ImprovementsEffect
<1> HIDE DEF better, new
<1>7. \A n \in DOMAIN better : better[n] \in Nat
  BY <1>3, <1>5
<1>8. \A n \in DOMAIN dist : better[n] <= dist[n]
  BY <1>1, <1>5
<1>9. \A f \in new : better[f[2]] <= f[1]
  BY <1>1, <1>5
<1>10. ASSUME NEW n \in DOMAIN better
       PROVE  (n \in DOMAIN dist /\ better[n] = dist[n]) \/ <<better[n], n>> \in new
  BY <1>5, <1>6
<1>11. QED
  BY <1>1, <1>7, <1>8, <1>9, <1>10 DEF better, new

(* A step of the search.                                                   *)
LEMMA SearchingKeeps ==
  ASSUME SearchInv, SearchStep
  PROVE  SearchInv'
<1>1. CASE Exhausted
  BY <1>1 DEF Exhausted, SearchInv, SettledIsFinal, Settled
<1>2. ASSUME NEW e \in pending, Skip(e) PROVE SearchInv'
  <2>1. /\ query' = query /\ dist' = dist /\ pending' = pending \ {e} /\ e[1] # dist[e[2]]
    BY <1>2 DEF Skip
  <2>2. Settled' = Settled
    BY <2>1 DEF Settled
  <2>3. SettledIsFinal'
    BY <2>1, <2>2 DEF SearchInv, SettledIsFinal
  <2>4. QED
    BY <2>1, <2>3 DEF SearchInv
<1>3. ASSUME NEW e \in pending, Found(e) PROVE SearchInv'
  <2>1. /\ query' = query /\ dist' = dist /\ pending' = pending \ {e} /\ e[1] = dist[e[2]]
        /\ e[2] \in KnownTargets(query) /\ \A f \in pending : e[1] <= f[1]
    BY <1>3 DEF Found, IsLeast
  <2>2. e = <<e[1], e[2]>> /\ e[2] \in DOMAIN dist
    BY DEF SearchInv
  <2>3. Settled' = Settled \cup {e[2]}
    BY <2>1, <2>2 DEF Settled
  <2>4. SettledIsFinal'
    BY <2>1, <2>3 DEF SearchInv, SettledIsFinal
  <2>5. QED
    BY <2>1, <2>4 DEF SearchInv
<1>4. ASSUME NEW e \in pending, Expand(e) PROVE SearchInv'
  <2> DEFINE new == Improvements(e)
  <2>1. /\ query' = query /\ dist' = Improved(new) /\ pending' = (pending \ {e}) \cup new
        /\ e[1] = dist[e[2]] /\ \A f \in pending : e[1] <= f[1]
    BY <1>4 DEF Expand, IsLeast
  <2>2. e = <<e[1], e[2]>> /\ e[1] \in Nat /\ e[2] \in DOMAIN dist
    BY DEF SearchInv
  <2>3. /\ DOMAIN dist' = DOMAIN dist \cup {f[2] : f \in new}
        /\ \A n \in DOMAIN dist' : dist'[n] \in Nat
        /\ \A n \in DOMAIN dist : dist'[n] <= dist[n]
        /\ \A f \in new : dist'[f[2]] <= f[1]
        /\ \A n \in DOMAIN dist' : (n \in DOMAIN dist /\ dist'[n] = dist[n]) \/ <<dist'[n], n>> \in new
    BY <2>1, ImprovedEffect
  <2>4. /\ \A f \in new : f = <<f[1], f[2]>> /\ f[1] \in Nat /\ e[1] <= f[1]
                          /\ (f[2] \in DOMAIN dist => f[1] < dist[f[2]])
        /\ \A s \in Steps(query, e[2]) :
             (s[1] \in DOMAIN dist /\ dist[s[1]] <= e[1] + s[2]) \/ <<e[1] + s[2], s[1]>> \in new
    BY ImprovementsEffect
  <2> HIDE DEF new
  <2>5. pending' \subseteq Nat \X DOMAIN dist'
    BY <2>1, <2>3, <2>4 DEF SearchInv
  <2>6. ASSUME NEW n \in Settled'
        PROVE  n \in DOMAIN dist /\ dist'[n] = dist[n] /\ (n \in Settled \/ n = e[2])
    <3>1. n \in DOMAIN dist' /\ <<dist'[n], n>> \notin pending'
      BY DEF Settled
    <3>2. n \in DOMAIN dist /\ dist'[n] = dist[n]
      BY <2>1, <2>3, <3>1
    <3>3. QED
      BY <2>1, <2>2, <3>1, <3>2 DEF Settled
  <2>7. ASSUME NEW n \in Settled', NEW f \in pending' PROVE dist'[n] <= f[1]
    <3>1. dist[n] <= e[1]
      BY <2>1, <2>2, <2>6 DEF SearchInv, SettledIsFinal
    <3>2. e[1] <= f[1] /\ f[1] \in Nat
      BY <2>1, <2>4, <2>5
    <3>3. QED
      BY <2>2, <2>6, <3>1, <3>2 DEF SearchInv
  <2>8. ASSUME NEW n \in Settled', n \notin KnownTargets(query), NEW s \in Steps(query, n)
        PROVE  s[1] \in DOMAIN dist' /\ dist'[s[1]] <= dist'[n] + s[2]
    <3>1. s[2] \in Nat /\ dist[n] \in Nat
      BY <2>6, StepsAreNatural DEF SearchInv
    <3>2. CASE s[1] \in DOMAIN dist /\ dist[s[1]] <= dist[n] + s[2]
      <4>1. dist'[s[1]] <= dist[s[1]] /\ dist[s[1]] \in Nat /\ dist'[s[1]] \in Nat
        BY <2>3, <3>2 DEF SearchInv
      <4>2. QED
        BY <2>3, <2>6, <3>1, <3>2, <4>1
    <3>3. CASE n = e[2] /\ <<e[1] + s[2], s[1]>> \in new
      <4>1. s[1] \in {f[2] : f \in new} /\ dist'[s[1]] <= e[1] + s[2]
        BY <2>3, <3>3
      <4>2. QED
        BY <2>1, <2>3, <2>6, <3>3, <4>1
    <3>4. QED
      BY <2>1, <2>4, <2>6, <2>8, <3>2, <3>3 DEF SearchInv, SettledIsFinal
  <2>9. SettledIsFinal'
    BY <2>1, <2>7, <2>8 DEF SettledIsFinal
  <2>10. QED
    BY <2>1, <2>3, <2>5, <2>9 DEF SearchInv
<1>5. QED
  BY <1>1, <1>2, <1>3, <1>4 DEF SearchStep

(* What a call knows while it runs: the distances are those of walks with  *)
(* as many links as nodes are settled, and no target is settled.           *)
ShortestInv ==
  /\ query.source \in DOMAIN dist /\ dist[query.source] = 0
  /\ DOMAIN dist \subseteq query.nodes \ query.cutNodes
  /\ Settled \cap KnownTargets(query) = {}
  /\ \A n \in DOMAIN dist : <<n, dist[n]>> \in Walks(query)[Cardinality(Settled)]

LEMMA SettledIsFinite ==
  ASSUME ValidQuery(query), ShortestInv
  PROVE  /\ IsFiniteSet(Settled) /\ Cardinality(Settled) \in 0..Cardinality(query.nodes)
         /\ \A n \in query.nodes \ Settled :
              /\ Cardinality(Settled \cup {n}) = Cardinality(Settled) + 1
              /\ Cardinality(Settled) + 1 \in 1..Cardinality(query.nodes)
<1>1. Settled \in SUBSET query.nodes
  BY DEF ShortestInv, Settled
<1>2. /\ IsFiniteSet(Settled) /\ Cardinality(Settled) \in Nat
      /\ Cardinality(query.nodes) \in Nat /\ Cardinality(Settled) <= Cardinality(query.nodes)
  BY <1>1, FS_Subset, FS_CardinalityType DEF ValidQuery
<1>3. ASSUME NEW n \in query.nodes \ Settled
      PROVE  /\ Cardinality(Settled \cup {n}) = Cardinality(Settled) + 1
             /\ Cardinality(Settled \cup {n}) <= Cardinality(query.nodes)
  <2>1. (Settled \cup {n}) \in SUBSET query.nodes
    BY <1>1
  <2>2. QED
    BY <1>2, <2>1, FS_AddElement, FS_Subset DEF ValidQuery
<1> DEFINE c == Cardinality(Settled)
           N == Cardinality(query.nodes)
<1>4. c \in 0..N
  BY <1>2
<1>5. ASSUME NEW n \in query.nodes \ Settled
      PROVE  Cardinality(Settled \cup {n}) = c + 1 /\ c + 1 \in 1..N
  <2>1. Cardinality(Settled \cup {n}) = c + 1 /\ c + 1 <= N /\ c \in Nat /\ N \in Nat
    BY <1>2, <1>3
  <2> HIDE DEF c, N
  <2>2. QED
    BY <2>1
<1>6. QED
  BY <1>2, <1>4, <1>5

(* A walk that is shorter than everything pending leads to a node that is  *)
(* known to be no farther.                                                 *)
LEMMA ShortWalksAreKnown ==
  ASSUME ValidQuery(query), SearchInv, ShortestInv, NEW m \in Nat,
         \A f \in pending : m <= f[1],
         NEW w \in Walks(query)[Cardinality(query.nodes)]
  PROVE  m <= w[2] \/ (w[1] \in DOMAIN dist /\ dist[w[1]] <= w[2])
<1> DEFINE N == Cardinality(query.nodes)
           Known(v) == m <= v[2] \/ (v[1] \in DOMAIN dist /\ dist[v[1]] <= v[2])
           ok == {k \in 0..N : \A v \in Walks(query)[k] : Known(v)}
<1>1. N \in Nat
  BY WalksAre
<1>2. 0 \in ok
  <2>1. \A v \in Walks(query)[0] : v[1] = query.source /\ v[2] = 0
    BY WalksAre
  <2>2. QED
    BY <1>1, <2>1 DEF ShortestInv
<1>3. ASSUME NEW k \in 0..N, k < N, k \in ok PROVE k + 1 \in ok
  <2>1. k + 1 \in 1..N /\ (k + 1) - 1 = k
    BY <1>1, <1>3
  <2>2. /\ Walks(query)[k + 1] = Longer(query, Walks(query)[k])
        /\ Walks(query)[k] \in SUBSET WalkSet(query)
    BY <2>1, WalksAre
  <2>3. ASSUME NEW v \in Walks(query)[k + 1] PROVE Known(v)
    <3>1. CASE v \in Walks(query)[k]
      BY <1>3, <3>1
    <3>2. CASE v \notin Walks(query)[k]
      <4>1. PICK u \in Walks(query)[k] :
              \E s \in Steps(query, u[1]) : v = <<s[1], u[2] + s[2]>>
        BY <2>2, <2>3, <3>2, LongerIsByStep
      <4> PICK s \in Steps(query, u[1]) : v = <<s[1], u[2] + s[2]>>
        BY <4>1
      <4>2. u[2] \in Nat /\ s[2] \in Nat /\ Known(u)
        BY <1>3, <2>2, StepsAreNatural DEF WalkSet
      <4>3. CASE m <= u[2]
        BY <4>2, <4>3
      <4>4. CASE u[2] < m /\ u[1] \in DOMAIN dist /\ dist[u[1]] <= u[2]
        <5>1. dist[u[1]] \in Nat /\ dist[u[1]] < m
          BY <4>2, <4>4 DEF SearchInv
        <5>2. u[1] \in Settled
          BY <4>4, <5>1 DEF Settled
        <5>3. s[1] \in DOMAIN dist /\ dist[s[1]] <= dist[u[1]] + s[2] /\ dist[s[1]] \in Nat
          BY <5>2 DEF SearchInv, SettledIsFinal, ShortestInv
        <5>4. QED
          BY <4>2, <4>4, <5>1, <5>3
      <4>5. QED
        BY <4>2, <4>3, <4>4
    <3>3. QED
      BY <3>1, <3>2
  <2> HIDE DEF Known
  <2>4. QED
    BY <2>1, <2>3
<1>4. 0..N \subseteq ok
  <2> HIDE DEF ok
  <2>1. QED
    BY <1>1, <1>2, <1>3, UpToInduction
<1>5. N \in ok
  BY <1>1, <1>4
<1>6. QED
  BY <1>5

(* The targets' walks, and the least of their costs.                       *)
LEMMA LeastCostIs ==
  ASSUME NEW q, ValidQuery(q)
  PROVE  LET found == {w \in Walks(q)[Cardinality(q.nodes)] : w[1] \in KnownTargets(q)}
         IN  /\ found = {} => LeastCost(q) = NoPath
             /\ \A v \in found : (\A w \in found : v[2] <= w[2]) => LeastCost(q) = v[2]
             /\ LeastCost(q) = NoPath => found = {}
<1> DEFINE found == {w \in Walks(q)[Cardinality(q.nodes)] : w[1] \in KnownTargets(q)}
           costs == {w[2] : w \in found}
<1>1. Walks(q)[Cardinality(q.nodes)] \in SUBSET WalkSet(q)
  BY WalksAre
<1>2. found = {w \in Walks(q)[Cardinality(q.nodes)] : w[1] \in q.targets \cap q.nodes}
  BY <1>1 DEF KnownTargets, WalkSet
<1>3. LeastCost(q) = IF costs = {} THEN NoPath ELSE Min(costs)
  BY <1>2 DEF LeastCost
<1>4. costs \in SUBSET Nat
  BY <1>1 DEF WalkSet
<1>5. costs # {} => Min(costs) \in costs /\ \A c \in costs : Min(costs) <= c
  <2> HIDE DEF costs
  <2>1. QED
    BY <1>4, LeastExists DEF Min
<1>6. found = {} <=> costs = {}
  OBVIOUS
<1> HIDE DEF found
<1>7. ASSUME NEW v \in found, \A w \in found : v[2] <= w[2] PROVE LeastCost(q) = v[2]
  <2>1. v[2] \in costs /\ \A c \in costs : v[2] <= c
    BY <1>7
  <2> HIDE DEF costs
  <2>2. costs # {} /\ v[2] \in Nat
    BY <1>4, <2>1
  <2>3. Min(costs) \in Nat /\ Min(costs) <= v[2] /\ v[2] <= Min(costs)
    BY <1>4, <1>5, <2>1, <2>2
  <2>4. Min(costs) = v[2]
    BY <2>2, <2>3
  <2>5. QED
    BY <1>3, <2>2, <2>4
<1>8. LeastCost(q) = NoPath => found = {}
  <2> HIDE DEF costs
  <2>1. NoPath \notin Nat
    BY DEF NoPath
  <2>2. QED
    BY <1>3, <1>4, <1>5, <1>6, <2>1
<1>9. QED
  BY <1>3, <1>6, <1>7, <1>8 DEF found

(* A step of a running call: it goes on as it should, or returns the least *)
(* cost.                                                                   *)
LEMMA SearchingFindsLeast ==
  ASSUME ValidQuery(query), SearchInv, ShortestInv, answer = Open, SearchStep
  PROVE  /\ query' = query
         /\ answer' = Open => ShortestInv'
         /\ answer' # Open => answer' = LeastCost(query)
<1> DEFINE N == Cardinality(query.nodes)
           W == Walks(query)
           found == {w \in W[N] : w[1] \in KnownTargets(query)}
<1>1. W[N] \in SUBSET WalkSet(query)
  BY WalksAre
<1>2. CASE Exhausted
  <2>1. query' = query /\ pending = {} /\ answer' = NoPath
    BY <1>2 DEF Exhausted
  <2>2. ASSUME NEW w \in W[N] PROVE w[1] \notin KnownTargets(query)
    <3>1. w[2] + 1 \in Nat /\ ~(w[2] + 1 <= w[2])
      BY <1>1 DEF WalkSet
    <3>2. w[1] \in DOMAIN dist
      <4> DEFINE m == w[2] + 1
      <4> HIDE DEF m
      <4>1. m \in Nat /\ ~(m <= w[2])
        BY <3>1 DEF m
      <4>2. m <= w[2] \/ (w[1] \in DOMAIN dist /\ dist[w[1]] <= w[2])
        BY <2>1, <4>1, ShortWalksAreKnown
      <4>3. QED
        BY <4>1, <4>2
    <3>3. QED
      BY <2>1, <3>2 DEF Settled, ShortestInv
  <2>3. found = {}
    BY <2>2
  <2>4. LeastCost(query) = NoPath
    BY <2>3, LeastCostIs
  <2>5. QED
    BY <2>1, <2>4 DEF Open, NoPath
<1>3. ASSUME NEW e \in pending, Skip(e)
      PROVE  query' = query /\ answer' = Open /\ ShortestInv'
  <2>1. /\ query' = query /\ dist' = dist /\ pending' = pending \ {e} /\ e[1] # dist[e[2]]
        /\ answer' = answer
    BY <1>3 DEF Skip
  <2>2. Settled' = Settled
    BY <2>1 DEF Settled
  <2>3. QED
    BY <2>1, <2>2 DEF ShortestInv
<1>4. ASSUME NEW e \in pending, Found(e)
      PROVE  query' = query /\ answer' # Open /\ answer' = LeastCost(query)
  <2>1. /\ query' = query /\ answer' = e[1] /\ e[1] = dist[e[2]]
        /\ e[2] \in KnownTargets(query) /\ \A f \in pending : e[1] <= f[1]
    BY <1>4 DEF Found, IsLeast
  <2>2. e[1] \in Nat /\ e[2] \in DOMAIN dist
    BY DEF SearchInv
  <2> DEFINE v == <<e[2], e[1]>>
  <2>3. v \in found
    <3>1. v \in W[Cardinality(Settled)] /\ Cardinality(Settled) \in 0..N
      BY <2>1, <2>2, SettledIsFinite DEF ShortestInv
    <3>2. QED
      BY <2>1, <3>1, WalksGrow
  <2>4. ASSUME NEW w \in found PROVE e[1] <= w[2]
    <3>1. e[1] <= w[2] \/ (w[1] \in DOMAIN dist /\ dist[w[1]] <= w[2])
      BY <2>1, <2>2, ShortWalksAreKnown
    <3>2. CASE w[1] \in DOMAIN dist /\ dist[w[1]] <= w[2]
      <4>1. <<dist[w[1]], w[1]>> \in pending
        BY <3>2 DEF Settled, ShortestInv
      <4>2. e[1] <= dist[w[1]] /\ dist[w[1]] \in Nat /\ w[2] \in Nat
        BY <1>1, <2>1, <3>2, <4>1 DEF SearchInv, WalkSet
      <4>3. QED
        BY <2>2, <3>2, <4>2
    <3>3. QED
      BY <3>1, <3>2
  <2>5. v[2] = e[1]
    OBVIOUS
  <2> HIDE DEF v
  <2>6. LeastCost(query) = v[2]
    BY <2>3, <2>4, <2>5, LeastCostIs
  <2>7. e[1] # Open
    BY <2>2 DEF Open
  <2>8. QED
    BY <2>1, <2>5, <2>6, <2>7
<1>5. ASSUME NEW e \in pending, Expand(e)
      PROVE  query' = query /\ answer' = Open /\ ShortestInv'
  <2> DEFINE new == Improvements(e)
             c == Cardinality(Settled)
  <2>1. /\ query' = query /\ dist' = Improved(new) /\ pending' = (pending \ {e}) \cup new
        /\ e[1] = dist[e[2]] /\ \A f \in pending : e[1] <= f[1]
        /\ e[2] \notin KnownTargets(query) /\ answer' = answer
    BY <1>5 DEF Expand, IsLeast
  <2>2. /\ e = <<e[1], e[2]>> /\ e[1] \in Nat /\ e[2] \in DOMAIN dist
        /\ \A n \in DOMAIN dist : dist[n] \in Nat
    BY DEF SearchInv
  <2>3. /\ DOMAIN dist' = DOMAIN dist \cup {f[2] : f \in new}
        /\ \A n \in DOMAIN dist' : dist'[n] \in Nat
        /\ \A n \in DOMAIN dist : dist'[n] <= dist[n]
        /\ \A n \in DOMAIN dist' : (n \in DOMAIN dist /\ dist'[n] = dist[n]) \/ <<dist'[n], n>> \in new
    BY <2>1, ImprovedEffect
  <2>4. /\ \A f \in new : f = <<f[1], f[2]>> /\ f[1] \in Nat /\ e[1] <= f[1]
                          /\ (f[2] \in DOMAIN dist => f[1] < dist[f[2]])
    BY ImprovementsEffect
  <2>5. ASSUME NEW f \in new
        PROVE  /\ f[2] \in query.nodes \ query.cutNodes /\ f[2] \notin Settled
               /\ <<f[2], f[1]>> \in Longer(query, W[c])
    <3>1. PICK s \in Steps(query, e[2]) : f = <<e[1] + s[2], s[1]>>
      BY DEF Improvements
    <3>2. <<e[2], e[1]>> \in W[c] /\ c \in 0..N /\ e[2] \notin Settled
      BY <2>1, <2>2, SettledIsFinite DEF ShortestInv, Settled
    <3>3. W[c] \in SUBSET WalkSet(query)
      BY <3>2, WalksAre
    <3>4. <<f[2], f[1]>> \in Longer(query, W[c]) /\ Longer(query, W[c]) \in SUBSET WalkSet(query)
      <4> DEFINE w == <<e[2], e[1]>>
      <4>1. w[1] = e[2] /\ w[2] = e[1]
        OBVIOUS
      <4> HIDE DEF w
      <4>2. <<s[1], w[2] + s[2]>> \in Longer(query, W[c])
        BY <3>1, <3>2, <3>3, <4>1, LongerIsByStep DEF w
      <4>3. QED
        BY <3>1, <3>3, <4>1, <4>2, LongerIsByStep
    <3>5. f[2] \notin Settled
      <4>1. ASSUME f[2] \in Settled PROVE FALSE
        <5>1. dist[f[2]] <= e[1] /\ f[2] \in DOMAIN dist
          BY <4>1 DEF SearchInv, SettledIsFinal, Settled
        <5>2. QED
          BY <2>2, <2>4, <5>1
      <4>2. QED
        BY <4>1
    <3>6. QED
      BY <3>4, <3>5 DEF WalkSet
  <2> HIDE DEF new
  <2>6. e[2] \notin Settled /\ e[2] \in query.nodes
    BY <2>1, <2>2 DEF Settled, ShortestInv
  <2>7. Settled' = Settled \cup {e[2]}
    <3>1. ASSUME NEW n \in Settled' PROVE n \in Settled \/ n = e[2]
      <4>1. n \in DOMAIN dist' /\ <<dist'[n], n>> \notin pending'
        BY DEF Settled
      <4>2. n \in DOMAIN dist /\ dist'[n] = dist[n]
        BY <2>1, <2>3, <4>1
      <4>3. QED
        BY <2>1, <2>2, <4>1, <4>2 DEF Settled
    <3>2. ASSUME NEW n \in Settled PROVE n \in Settled'
      <4>1. n \in DOMAIN dist' /\ \A f \in new : f[2] # n
        BY <2>3, <2>5 DEF Settled
      <4>2. dist'[n] = dist[n] /\ <<dist'[n], n>> \notin new
        BY <2>3, <4>1
      <4>3. QED
        BY <2>1, <4>1, <4>2 DEF Settled
    <3>3. e[2] \in Settled'
      <4>1. \A f \in new : f[2] # e[2]
        BY <2>1, <2>2, <2>4
      <4>2. dist'[e[2]] = dist[e[2]] /\ <<dist'[e[2]], e[2]>> \notin new /\ e[2] \in DOMAIN dist'
        BY <2>2, <2>3, <4>1
      <4>3. QED
        BY <2>1, <2>2, <4>2 DEF Settled
    <3>4. QED
      BY <3>1, <3>2, <3>3
  <2>8. Cardinality(Settled') = c + 1 /\ c + 1 \in 1..N /\ c \in 0..N /\ (c + 1) - 1 = c
    BY <2>6, <2>7, SettledIsFinite
  <2>9. W[c + 1] = Longer(query, W[c]) /\ W[c] \subseteq W[c + 1]
    <3>1. W[c + 1] = Longer(query, W[c]) /\ W[c] \in SUBSET WalkSet(query)
      BY <2>8, WalksAre
    <3>2. QED
      BY <3>1, LongerIsByStep
  <2>10. ASSUME NEW n \in DOMAIN dist' PROVE <<n, dist'[n]>> \in W[c + 1]
    <3>1. CASE n \in DOMAIN dist /\ dist'[n] = dist[n]
      BY <2>9, <3>1 DEF ShortestInv
    <3>2. CASE <<dist'[n], n>> \in new
      BY <2>5, <2>9, <3>2
    <3>3. QED
      BY <2>3, <3>1, <3>2
  <2>11. DOMAIN dist' \subseteq query.nodes \ query.cutNodes
    BY <2>3, <2>5 DEF ShortestInv
  <2>12. query.source \in DOMAIN dist' /\ dist'[query.source] = 0
    <3>1. /\ query.source \in DOMAIN dist' /\ dist'[query.source] \in Nat
          /\ dist'[query.source] <= 0
      BY <2>3 DEF ShortestInv
    <3>2. QED
      BY <3>1
  <2>13. Settled' \cap KnownTargets(query) = {}
    BY <2>1, <2>7 DEF ShortestInv
  <2> HIDE DEF c
  <2>14. QED
    BY <2>1, <2>8, <2>10, <2>11, <2>12, <2>13 DEF ShortestInv
<1>6. QED
  BY <1>2, <1>3, <1>4, <1>5 DEF SearchStep

(* A call that starts.                                                     *)
LEMMA BeginsShortest ==
  ASSUME NEW q, ValidQuery(q), Begin(q)
  PROVE  /\ query' = q
         /\ answer' = Open => ShortestInv'
         /\ answer' # Open => answer' = LeastCost(q)
<1>1. /\ query' = q /\ dist' = [n \in {q.source} |-> 0] /\ pending' = {<<0, q.source>>}
      /\ answer' = IF q.source \in q.cutNodes \/ KnownTargets(q) = {} THEN NoPath ELSE Open
  BY DEF Begin
<1>2. CASE q.source \notin q.cutNodes /\ KnownTargets(q) # {}
  <2>1. Settled' = {} /\ Cardinality(Settled') = 0
    BY <1>1, FS_EmptySet DEF Settled
  <2>2. <<q.source, 0>> \in Walks(q)[0]
    BY <1>2, WalksAre
  <2>3. q.source \in q.nodes \ q.cutNodes
    BY <1>2 DEF ValidQuery
  <2>4. ShortestInv'
    BY <1>1, <2>1, <2>2, <2>3 DEF ShortestInv
  <2>5. QED
    BY <1>1, <1>2, <2>4
<1>3. CASE q.source \in q.cutNodes
  <2> DEFINE N == Cardinality(q.nodes)
             ok == {k \in 0..N : Walks(q)[k] = {}}
  <2>1. N \in Nat
    BY WalksAre
  <2>2. 0 \in ok
    <3>1. Walks(q)[0] = {}
      BY <1>3, WalksAre
    <3>2. QED
      BY <2>1, <3>1
  <2>3. ASSUME NEW k \in 0..N, k < N, k \in ok PROVE k + 1 \in ok
    <3>1. k + 1 \in 1..N /\ (k + 1) - 1 = k
      BY <2>1, <2>3
    <3>2. Walks(q)[k + 1] = Longer(q, {})
      BY <2>3, <3>1, WalksAre
    <3>3. \A v \in Longer(q, {}) : FALSE
      BY LongerIsByStep
    <3>4. QED
      BY <3>1, <3>2, <3>3
  <2>4. 0..N \subseteq ok
    <3> HIDE DEF ok
    <3>1. QED
      BY <2>1, <2>2, <2>3, UpToInduction
  <2>5. Walks(q)[N] = {}
    BY <2>1, <2>4
  <2>6. LeastCost(q) = NoPath
    BY <2>5, LeastCostIs
  <2>7. QED
    BY <1>1, <1>3, <2>6 DEF Open, NoPath
<1>4. CASE KnownTargets(q) = {}
  <2>1. LeastCost(q) = NoPath
    BY <1>4, LeastCostIs
  <2>2. QED
    BY <1>1, <1>4, <2>1 DEF Open, NoPath
<1>5. QED
  BY <1>2, <1>3, <1>4

(* The search is only started on a design that was accepted.               *)
DesignInv == phase # "refused" => \A l \in topo.links : l.cost \in Nat

LEMMA SearchInvariance == Spec => [](SearchInv /\ DesignInv)
<1>1. Init => SearchInv /\ DesignInv
  <2> SUFFICES ASSUME Init PROVE SearchInv /\ DesignInv
    OBVIOUS
  <2>1. DesignInv
    BY CostsAssumption DEF Init, DesignInv, Accepted, AcceptsIntent, AcceptsLink
  <2>2. query.links = {} /\ DOMAIN dist = {} /\ pending = {}
    BY DEF Init, NoQuery
  <2>3. QED
    BY <2>1, <2>2 DEF SearchInv, SettledIsFinal, Settled
<1>2. ASSUME SearchInv, DesignInv, [Next]_vars PROVE SearchInv' /\ DesignInv'
  <2>1. ASSUME NEW a \in todo, Ask(a) PROVE SearchInv' /\ DesignInv'
    <3>1. /\ phase = "ask" /\ topo' = topo /\ query' = Query(round, a)
          /\ dist' = [n \in {query'.source} |-> 0] /\ pending' = {<<0, query'.source>>}
      BY <2>1 DEF Ask, Begin
    <3>2. query'.links = topo.links
      BY <3>1 DEF Query
    <3>3. Settled' = {}
      BY <3>1 DEF Settled
    <3>4. QED
      BY <1>2, <3>1, <3>2, <3>3 DEF SearchInv, DesignInv, SettledIsFinal
  <2>2. CASE Search
    <3>1. SearchInv'
      BY <1>2, <2>2, SearchingKeeps DEF Search
    <3>2. QED
      BY <1>2, <2>2, <3>1 DEF Search, auditVars, DesignInv
  <2>3. CASE Record
    <3>1. /\ phase = "search" /\ topo' = topo /\ UNCHANGED searchVars
      BY <2>3 DEF Record
    <3>2. QED
      BY <1>2, <3>1 DEF searchVars, SearchInv, DesignInv, SettledIsFinal, Settled
  <2>4. CASE UNCHANGED vars
    BY <1>2, <2>4 DEF vars, auditVars, searchVars, SearchInv, DesignInv, SettledIsFinal, Settled
  <2>5. QED
    BY <1>2, <2>1, <2>2, <2>3, <2>4 DEF Next
<1>3. QED
  BY <1>1, <1>2, PTL DEF Spec

(* The scenarios are listed completely.                                    *)
LEMMA ScenariosAreAll ==
  ASSUME NEW doc \in Documents
  PROVE  /\ Len(SingleFailures(doc)) \in Nat /\ Len(Scenarios(doc)) \in Nat
         /\ Len(SingleFailures(doc)) <= Len(Scenarios(doc))
         /\ \A f \in LinkFailures(doc) \cup NodeFailures(doc) :
              \E i \in 1..Len(SingleFailures(doc)) : Scenarios(doc)[i] = f
<1> DEFINE A == LinkFailures(doc)
           B == NodeFailures(doc)
           C == doc.domains
<1>1. IsFiniteSet(A)
  <2> DEFINE f == [l \in doc.links |-> [links |-> {l.id}, nodes |-> {}]]
  <2>1. f \in Surjection(doc.links, A)
    BY DEF Surjection, LinkFailures
  <2> HIDE DEF f, A
  <2>2. QED
    BY <2>1, FS_Surjection, DocumentsAssumption
<1>2. IsFiniteSet(B)
  <2> DEFINE D == WithRole(doc, {"aggregation", "core"})
             f == [n \in D |-> [links |-> {}, nodes |-> {n}]]
  <2>1. f \in Surjection(D, B)
    BY DEF Surjection, NodeFailures
  <2>2. D \in SUBSET Nodes(doc)
    BY DEF WithRole
  <2> HIDE DEF f, B, D
  <2>3. IsFiniteSet(D)
    BY <2>2, FS_Subset, DocumentsAssumption
  <2>4. QED
    BY <2>1, <2>3, FS_Surjection
<1>3. IsFiniteSet(C)
  BY DocumentsAssumption
<1> HIDE DEF A, B, C
<1> DEFINE a == Listed(A)
           b == Listed(B)
           c == Listed(C)
<1>4. /\ a \in Seq(A) /\ \A x \in A : \E i \in 1..Len(a) : a[i] = x
      /\ b \in Seq(B) /\ \A x \in B : \E i \in 1..Len(b) : b[i] = x
      /\ c \in Seq(C)
  BY <1>1, <1>2, <1>3, ListedIsAll
<1>5. SingleFailures(doc) = a \o b /\ Scenarios(doc) = (a \o b) \o c
  BY DEF SingleFailures, Scenarios, A, B, C
<1> HIDE DEF a, b, c
<1> DEFINE U == A \cup B \cup C
<1>6. a \in Seq(U) /\ b \in Seq(U) /\ c \in Seq(U)
  BY <1>4
<1> HIDE DEF U
<1>7. /\ a \o b \in Seq(U) /\ Len(a \o b) = Len(a) + Len(b)
      /\ \A i \in 1..Len(a) : (a \o b)[i] = a[i]
      /\ \A i \in 1..Len(b) : (a \o b)[Len(a) + i] = b[i]
      /\ Len(a) \in Nat /\ Len(b) \in Nat /\ Len(c) \in Nat
  BY <1>6
<1> DEFINE ab == a \o b
<1> HIDE DEF ab
<1>8. /\ Len(ab) \in Nat /\ Len(ab \o c) = Len(ab) + Len(c)
      /\ \A i \in 1..Len(ab) : (ab \o c)[i] = ab[i]
  BY <1>6, <1>7 DEF ab
<1>9. ASSUME NEW f \in A \cup B PROVE \E i \in 1..Len(ab) : (ab \o c)[i] = f
  <2>1. CASE f \in A
    <3>1. PICK i \in 1..Len(a) : a[i] = f
      BY <1>4, <2>1
    <3>2. i \in 1..Len(ab) /\ ab[i] = f
      BY <1>7, <3>1 DEF ab
    <3>3. QED
      BY <1>8, <3>2
  <2>2. CASE f \in B
    <3>1. PICK i \in 1..Len(b) : b[i] = f
      BY <1>4, <2>2
    <3>2. Len(a) + i \in 1..Len(ab) /\ ab[Len(a) + i] = f
      BY <1>7, <3>1 DEF ab
    <3>3. QED
      BY <1>8, <3>2
  <2>3. QED
    BY <2>1, <2>2
<1>10. QED
  BY <1>5, <1>7, <1>8, <1>9 DEF ab, A, B

(* What the audits have found so far.                                      *)
AuditInv ==
  /\ Accepted(topo) /\ faults = Scenarios(topo)
  /\ round \in 0..Len(faults) /\ todo \subseteq Accesses(topo)
  /\ DOMAIN cost = 0..round
  /\ \A i \in 0..round : \A a \in DOMAIN cost[i] : cost[i][a] = LeastCost(Query(i, a))
  /\ \A i \in 0..round : i < round => DOMAIN cost[i] = Accesses(topo)
  /\ phase = "search" => DOMAIN cost[round] = Accesses(topo) \ (todo \cup {query.source})
  /\ phase \in {"ask", "done"} => DOMAIN cost[round] = Accesses(topo) \ todo
  /\ phase = "done" => todo = {} /\ round = Len(faults)
  /\ impacts \in Seq(Impacts)
  /\ Len(impacts) = IF phase = "done" \/ round = 0 THEN round ELSE round - 1
  /\ \A i \in 1..Len(impacts) : impacts[i] = Impact(cost[0], cost[i])

(* What a call knows and returns.                                          *)
CallInv ==
  /\ query.source \in Accesses(topo) \ todo /\ query = Query(round, query.source)
  /\ answer = Open => ShortestInv
  /\ answer # Open => answer = LeastCost(query)

AnswersInv ==
  /\ topo \in Documents
  /\ phase # "refused" => AuditInv
  /\ phase = "search" => CallInv

LEMMA QueriesAreValid ==
  ASSUME topo \in Documents, Accepted(topo), NEW i, NEW a \in Accesses(topo)
  PROVE  ValidQuery(Query(i, a))
<1>1. \A l \in topo.links : l.cost \in Nat /\ l.a \in Nodes(topo) /\ l.b \in Nodes(topo) /\ l.a # l.b
  BY CostsAssumption DEF Accepted, AcceptsIntent, AcceptsLink
<1>2. a \in Nodes(topo) /\ IsFiniteSet(Nodes(topo))
  BY DocumentsAssumption DEF Accesses, WithRole
<1>3. QED
  BY <1>1, <1>2 DEF Query, ValidQuery

LEMMA AskKeeps ==
  ASSUME AnswersInv, NEW a \in todo, Ask(a)
  PROVE  AnswersInv'
<1>1. /\ phase = "ask" /\ phase' = "search" /\ Begin(Query(round, a)) /\ todo' = todo \ {a}
      /\ UNCHANGED <<topo, faults, round, cost, impacts>>
  BY DEF Ask
<1>2. /\ topo \in Documents /\ Accepted(topo) /\ a \in Accesses(topo) /\ AuditInv
  BY <1>1 DEF AnswersInv, AuditInv
<1>3. /\ query' = Query(round, a)
      /\ answer' = Open => ShortestInv'
      /\ answer' # Open => answer' = LeastCost(query')
  BY <1>1, <1>2, QueriesAreValid, BeginsShortest
<1>4. query'.source = a /\ query' = Query(round, a)'
  BY <1>1, <1>3 DEF Query, Fault
<1>5. CallInv'
  BY <1>1, <1>2, <1>3, <1>4 DEF CallInv
<1>6. \A i, b : Query(i, b)' = Query(i, b)
  BY <1>1 DEF Query, Fault
<1>7. Accesses(topo) \ (todo' \cup {a}) = Accesses(topo) \ todo
  BY <1>1, <1>2
<1>8. AuditInv'
  BY <1>1, <1>2, <1>4, <1>6, <1>7 DEF AuditInv
<1>9. QED
  BY <1>1, <1>2, <1>5, <1>8 DEF AnswersInv

LEMMA SearchKeeps ==
  ASSUME AnswersInv, SearchInv, Search
  PROVE  AnswersInv'
<1>1. phase = "search" /\ SearchStep /\ UNCHANGED auditVars
  BY DEF Search
<1>2. /\ topo \in Documents /\ AuditInv /\ CallInv /\ answer = Open
  BY <1>1 DEF AnswersInv, SearchStep, Exhausted, Skip, Found, Expand
<1>3. ValidQuery(query)
  BY <1>2, QueriesAreValid DEF CallInv, AuditInv
<1>4. /\ query' = query
      /\ answer' = Open => ShortestInv'
      /\ answer' # Open => answer' = LeastCost(query)
  BY <1>1, <1>2, <1>3, SearchingFindsLeast DEF CallInv
<1>5. \A i, b : Query(i, b)' = Query(i, b)
  BY <1>1 DEF auditVars, Query, Fault
<1>6. CallInv'
  BY <1>1, <1>2, <1>4, <1>5 DEF CallInv, auditVars
<1>7. AuditInv'
  BY <1>1, <1>2, <1>4, <1>5 DEF AuditInv, auditVars
<1>8. QED
  BY <1>1, <1>2, <1>6, <1>7 DEF AnswersInv, auditVars

LEMMA RecordKeeps ==
  ASSUME AnswersInv, Record
  PROVE  AnswersInv'
<1> DEFINE costs == [a \in DOMAIN cost[round] \cup {query.source} |->
                       IF a = query.source THEN answer ELSE cost[round][a]]
           over == todo = {}
           next == over /\ round < Len(faults)
<1>1. /\ phase = "search" /\ answer # Open
      /\ impacts' = IF over /\ round > 0 THEN Append(impacts, Impact(cost[0], costs)) ELSE impacts
      /\ round' = IF next THEN round + 1 ELSE round
      /\ todo' = IF next THEN Accesses(topo) ELSE todo
      /\ cost' = [i \in 0..round' |->
                    CASE i = round -> costs [] i > round -> <<>> [] OTHER -> cost[i]]
      /\ phase' = CASE round = 0 /\ answer = NoPath -> "refused"
                    [] (round > 0 \/ answer # NoPath) /\ over /\ ~next -> "done"
                    [] OTHER -> "ask"
      /\ UNCHANGED <<topo, faults, searchVars>>
  BY DEF Record
<1>2. topo \in Documents /\ AuditInv /\ CallInv
  BY <1>1 DEF AnswersInv
<1>3. Len(faults) \in Nat
  BY <1>2, ScenariosAreAll DEF AuditInv
<1>4. \A i, b : Query(i, b)' = Query(i, b)
  BY <1>1 DEF Query, Fault
<1>5. round \in Nat /\ round <= Len(faults)
  BY <1>2, <1>3 DEF AuditInv
<1>6. /\ DOMAIN costs = Accesses(topo) \ todo
      /\ \A a \in DOMAIN costs : costs[a] = LeastCost(Query(round, a))
  BY <1>1, <1>2, <1>5 DEF AuditInv, CallInv
<1> HIDE DEF costs
<1>7. ASSUME phase' # "refused" PROVE AuditInv'
  <2>1. phase' = IF over /\ ~next THEN "done" ELSE "ask"
    BY <1>1, <1>5, <1>7
  <2>2. /\ round' \in 0..Len(faults) /\ round' \in Nat
        /\ next => round' = round + 1 /\ todo' = Accesses(topo)
        /\ ~next => round' = round /\ todo' = todo
        /\ over /\ ~next => round = Len(faults)
    BY <1>1, <1>3, <1>5
  <2>3. /\ DOMAIN cost' = 0..round'
        /\ cost'[round] = costs
        /\ \A i \in 0..round' : i < round => cost'[i] = cost[i]
        /\ next => cost'[round + 1] = <<>>
    <3>1. round \in 0..round' /\ (next => round + 1 \in 0..round' /\ round + 1 > round /\ round + 1 # round)
      BY <1>5, <2>2
    <3>2. DOMAIN cost' = 0..round' /\ cost'[round] = costs
      BY <1>1, <3>1
    <3>3. next => cost'[round + 1] = <<>>
      BY <1>1, <3>1
    <3>4. ASSUME NEW i \in 0..round', i < round PROVE cost'[i] = cost[i]
      <4>1. i # round /\ ~(i > round)
        BY <1>5, <3>4
      <4>2. QED
        BY <1>1, <4>1
    <3> HIDE DEF next
    <3>5. QED
      BY <3>2, <3>3, <3>4
  <2> HIDE DEF next, over
  <2>4. ASSUME NEW i \in 0..round', NEW a \in DOMAIN cost'[i]
        PROVE  cost'[i][a] = LeastCost(Query(i, a))
    <3>1. CASE i = round
      BY <1>6, <2>3, <3>1
    <3>2. CASE i < round
      <4>1. cost'[i] = cost[i] /\ i \in 0..round
        BY <1>5, <2>2, <2>3, <3>2
      <4>2. QED
        BY <1>2, <4>1 DEF AuditInv
    <3>3. CASE next /\ i = round + 1
      BY <2>3, <3>3
    <3>4. QED
      BY <1>5, <2>2, <3>1, <3>2, <3>3
  <2>5. ASSUME NEW i \in 0..round', i < round' PROVE DOMAIN cost'[i] = Accesses(topo)
    <3>1. CASE i = round
      <4>1. next
        BY <1>5, <2>2, <2>5, <3>1
      <4>2. todo = {}
        BY <4>1 DEF next, over
      <4>3. QED
        BY <1>6, <2>3, <3>1, <4>2
    <3>2. CASE i < round
      <4>1. cost'[i] = cost[i] /\ i \in 0..round
        BY <1>5, <2>2, <2>3, <3>2
      <4>2. QED
        BY <1>2, <3>2, <4>1 DEF AuditInv
    <3>3. QED
      BY <1>5, <2>2, <2>5, <3>1, <3>2
  <2>6. DOMAIN cost'[round'] = Accesses(topo) \ todo'
    BY <1>6, <2>2, <2>3
  <2>7. /\ impacts' \in Seq(Impacts)
        /\ Len(impacts') = IF phase' = "done" \/ round' = 0 THEN round' ELSE round' - 1
        /\ \A i \in 1..Len(impacts') : impacts'[i] = Impact(cost'[0], cost'[i])
    <3>1. /\ impacts \in Seq(Impacts)
          /\ Len(impacts) = IF round = 0 THEN 0 ELSE round - 1
          /\ \A i \in 1..Len(impacts) : impacts[i] = Impact(cost[0], cost[i])
      BY <1>1, <1>2 DEF AuditInv
    <3>2. ASSUME NEW i \in 1..Len(impacts) PROVE impacts[i] = Impact(cost'[0], cost'[i])
      <4>1. i \in 0..round' /\ 0 \in 0..round' /\ i < round /\ 0 < round
        BY <1>5, <2>2, <3>1
      <4>2. cost'[0] = cost[0] /\ cost'[i] = cost[i]
        BY <2>3, <4>1
      <4>3. QED
        BY <3>1, <4>2
    <3>3. CASE over /\ round > 0
      <4> DEFINE x == Impact(cost[0], costs)
      <4>1. impacts' = Append(impacts, x) /\ x \in Impacts
        BY <1>1, <3>3 DEF Impact, Impacts
      <4>2. 0 \in 0..round' /\ cost'[0] = cost[0]
        BY <1>5, <2>2, <2>3, <3>3
      <4>3. x = Impact(cost'[0], cost'[round])
        BY <2>3, <4>2
      <4> HIDE DEF x
      <4>4. /\ impacts' \in Seq(Impacts) /\ Len(impacts') = Len(impacts) + 1
            /\ impacts'[Len(impacts) + 1] = x
            /\ \A i \in 1..Len(impacts) : impacts'[i] = impacts[i]
        BY <3>1, <4>1
      <4>5. Len(impacts) + 1 = round
        BY <1>5, <3>1, <3>3
      <4>6. round = IF phase' = "done" \/ round' = 0 THEN round' ELSE round' - 1
        <5>1. CASE next
          <6>1. phase' # "done" /\ round' = round + 1 /\ round' # 0
            BY <1>5, <2>1, <2>2, <5>1
          <6>2. QED
            BY <1>5, <6>1
        <5>2. CASE ~next
          BY <2>1, <2>2, <3>3, <5>2
        <5>3. QED
          BY <5>1, <5>2
      <4>7. ASSUME NEW i \in 1..round PROVE impacts'[i] = Impact(cost'[0], cost'[i])
        <5>1. CASE i = round
          BY <4>3, <4>4, <4>5, <5>1
        <5>2. CASE i # round
          <6>1. i \in 1..Len(impacts)
            BY <1>5, <4>5, <5>2
          <6>2. QED
            BY <3>2, <4>4, <6>1
        <5>3. QED
          BY <5>1, <5>2
      <4>8. QED
        BY <4>4, <4>5, <4>6, <4>7
    <3>4. CASE ~over \/ round = 0
      <4>1. impacts' = impacts
        BY <1>1, <1>5, <3>4
      <4>2. Len(impacts) = IF phase' = "done" \/ round' = 0 THEN round' ELSE round' - 1
        <5>1. CASE ~over
          BY <1>5, <2>1, <2>2, <3>1, <5>1 DEF next
        <5>2. CASE round = 0
          BY <1>5, <2>1, <2>2, <3>1, <5>2
        <5>3. QED
          BY <3>4, <5>1, <5>2
      <4>3. QED
        BY <3>1, <3>2, <4>1, <4>2
    <3>5. QED
      BY <1>5, <3>3, <3>4
  <2>8. phase' \in {"ask", "done"} /\ (phase' = "done" => todo' = {} /\ round' = Len(faults))
    BY <2>1, <2>2 DEF over
  <2>9. todo' \subseteq Accesses(topo)
    BY <1>2, <2>2 DEF AuditInv
  <2>10. Accepted(topo) /\ faults = Scenarios(topo)
    BY <1>2 DEF AuditInv
  <2>11. topo' = topo /\ faults' = faults
    BY <1>1
  <2>12. QED
    BY <1>4, <2>2, <2>3, <2>4, <2>5, <2>6, <2>7, <2>8, <2>9, <2>10, <2>11 DEF AuditInv
<1>8. phase' # "search"
  BY <1>1
<1>9. QED
  BY <1>1, <1>2, <1>7, <1>8 DEF AnswersInv

LEMMA AnswersInvariance == Spec => []AnswersInv
<1>1. Init => AnswersInv
  <2> SUFFICES ASSUME Init PROVE AnswersInv
    OBVIOUS
  <2>1. /\ topo \in Documents /\ phase \in {"ask", "refused"}
        /\ phase = "ask" => Accepted(topo) /\ faults = Scenarios(topo)
        /\ round = 0 /\ todo = Accesses(topo) /\ cost = [i \in {0} |-> <<>>] /\ impacts = <<>>
    BY DEF Init
  <2>2. ASSUME phase = "ask" PROVE AuditInv
    <3>1. 0 \in 0..Len(faults)
      BY <2>1, <2>2, ScenariosAreAll
    <3>2. /\ DOMAIN cost = 0..0 /\ DOMAIN cost[0] = {} /\ impacts \in Seq(Impacts) /\ Len(impacts) = 0
      BY <2>1
    <3>3. QED
      BY <2>1, <2>2, <3>1, <3>2 DEF AuditInv
  <2>3. QED
    BY <2>1, <2>2 DEF AnswersInv
<1>2. ASSUME AnswersInv, SearchInv, [Next]_vars PROVE AnswersInv'
  <2>1. ASSUME NEW a \in todo, Ask(a) PROVE AnswersInv'
    BY <1>2, <2>1, AskKeeps
  <2>2. CASE Search
    BY <1>2, <2>2, SearchKeeps
  <2>3. CASE Record
    BY <1>2, <2>3, RecordKeeps
  <2>4. CASE UNCHANGED vars
    <3>1. \A i, b : Query(i, b)' = Query(i, b)
      BY <2>4 DEF vars, auditVars, Query, Fault
    <3>2. /\ AuditInv => AuditInv'
          /\ CallInv => CallInv'
      BY <2>4, <3>1 DEF vars, auditVars, searchVars, AuditInv, CallInv, ShortestInv, Settled
    <3>3. QED
      BY <1>2, <2>4, <3>2 DEF vars, auditVars, AnswersInv
  <2>5. QED
    BY <1>2, <2>1, <2>2, <2>3, <2>4 DEF Next
<1>3. QED
  BY <1>1, <1>2, SearchInvariance, PTL DEF Spec

(* The heap with lazy deletion of shortest_distance_excluding, on every    *)
(* design that start-up accepts: a node whose entry was taken is never     *)
(* improved again, and its links are relaxed.                              *)
THEOREM SearchIsSettled == Spec => []SettledIsFinal
BY SearchInvariance, PTL DEF SearchInv

(* shortest_distance_excluding returns the cost of a shortest surviving    *)
(* path, or None if there is none, for every query of the audits of every  *)
(* design that start-up accepts.                                           *)
THEOREM AnswersAreLeastCosts == Spec => []AnswersAreShortest
<1>1. AnswersInv => AnswersAreShortest
  BY DEF AnswersInv, CallInv, AnswersAreShortest
<1>2. QED
  BY <1>1, AnswersInvariance, PTL

(* passes_n_minus_one of the two single-failure audits means that every    *)
(* access node reaches the service whatever single link or transport node  *)
(* is taken out, for every design that start-up accepts.                   *)
THEOREM PassingMeansReachable == Spec => []PassMeansReachable
<1>1. AnswersInv => PassMeansReachable
  <2> SUFFICES ASSUME AnswersInv, phase = "done", PassesNMinusOne PROVE PassMeansReachable
    BY DEF PassMeansReachable
  <2> DEFINE n == Len(SingleFailures(topo))
             without(a, links, nodes) ==
               LeastCost([Query(0, a) EXCEPT !.cutLinks = links, !.cutNodes = nodes])
  <2>1. topo \in Documents /\ AuditInv
    BY DEF AnswersInv
  <2>2. /\ n \in Nat /\ n <= Len(faults) /\ Len(faults) \in Nat /\ faults = Scenarios(topo)
        /\ Len(impacts) = Len(faults) /\ round = Len(faults) /\ impacts \in Seq(Impacts)
    BY <2>1, ScenariosAreAll DEF AuditInv
  <2>3. ASSUME NEW f \in LinkFailures(topo) \cup NodeFailures(topo), NEW a \in Accesses(topo)
        PROVE  without(a, f.links, f.nodes) # NoPath
    <3>1. PICK i \in 1..n : faults[i] = f
      BY <2>1, <2>2, <2>3, ScenariosAreAll
    <3>2. i \in 1..Len(impacts) /\ i \in 0..round /\ i # 0
      BY <2>2
    <3>3. impacts[i] # "outage"
      <4> DEFINE s == SubSeq(impacts, 1, n)
      <4>1. s[i] = impacts[i] /\ i \in DOMAIN s
        BY <2>2, <3>2
      <4>2. "outage" \notin Range(s)
        BY DEF PassesNMinusOne
      <4> HIDE DEF s
      <4>3. QED
        BY <4>1, <4>2 DEF Range
    <3>4. impacts[i] = Impact(cost[0], cost[i]) /\ DOMAIN cost[i] = Accesses(topo)
      <4>1. impacts[i] = Impact(cost[0], cost[i])
        BY <2>1, <3>2 DEF AuditInv
      <4>2. CASE i < round
        BY <2>1, <3>2, <4>2 DEF AuditInv
      <4>3. DOMAIN cost[round] = Accesses(topo) \ todo /\ todo = {}
        BY <2>1 DEF AuditInv
      <4>4. QED
        BY <2>2, <3>2, <4>1, <4>2, <4>3
    <3>5. cost[i][a] # NoPath
      BY <3>3, <3>4 DEF Impact
    <3>6. cost[i][a] = LeastCost(Query(i, a))
      BY <2>1, <3>2, <3>4 DEF AuditInv
    <3>7. Query(i, a) = [Query(0, a) EXCEPT !.cutLinks = f.links, !.cutNodes = f.nodes]
      <4>1. Fault(i) = f
        BY <3>1, <3>2 DEF Fault
      <4>2. [Query(0, a) EXCEPT !.cutLinks = f.links] =
              [nodes |-> Nodes(topo), links |-> topo.links, source |-> a,
               targets |-> Services(topo), cutLinks |-> f.links, cutNodes |-> Fault(0).nodes]
        BY DEF Query
      <4>3. [[nodes |-> Nodes(topo), links |-> topo.links, source |-> a,
              targets |-> Services(topo), cutLinks |-> f.links, cutNodes |-> Fault(0).nodes]
               EXCEPT !.cutNodes = f.nodes] =
              [nodes |-> Nodes(topo), links |-> topo.links, source |-> a,
               targets |-> Services(topo), cutLinks |-> f.links, cutNodes |-> f.nodes]
        OBVIOUS
      <4>4. QED
        BY <4>1, <4>2, <4>3 DEF Query
    <3>8. QED
      BY <3>5, <3>6, <3>7
  <2>4. ASSUME NEW l \in topo.links, NEW a \in Accesses(topo)
        PROVE  without(a, {l.id}, {}) # NoPath
    <3> DEFINE f == [links |-> {l.id}, nodes |-> {}]
    <3>1. f \in LinkFailures(topo) /\ f.links = {l.id} /\ f.nodes = {}
      BY DEF LinkFailures
    <3> HIDE DEF f
    <3>2. QED
      BY <2>3, <3>1
  <2>5. ASSUME NEW m \in Nodes(topo) \ (Accesses(topo) \cup Services(topo)), NEW a \in Accesses(topo)
        PROVE  without(a, {}, {m}) # NoPath
    <3> DEFINE f == [links |-> {}, nodes |-> {m}]
    <3>1. topo.role[m] \in {"aggregation", "core"}
      BY <2>1, DocumentsAssumption DEF Accesses, Services, WithRole
    <3>2. f \in NodeFailures(topo) /\ f.links = {} /\ f.nodes = {m}
      BY <3>1 DEF NodeFailures, WithRole
    <3> HIDE DEF f
    <3>3. QED
      BY <2>3, <3>2
  <2>6. QED
    BY <2>4, <2>5 DEF PassMeansReachable
<1>2. QED
  BY <1>1, AnswersInvariance, PTL
===============================================================================
