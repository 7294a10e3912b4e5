---------------------------- MODULE RuntimeN1Proofs ----------------------------
(***************************************************************************)
(* Proofs about RuntimeN1, for every design whose links have two ends and  *)
(* names of their own, and that has an access node.                        *)
(***************************************************************************)
EXTENDS RuntimeN1, FiniteSetTheorems, TLAPS

LEMMA LeastExists ==
  ASSUME NEW S \in SUBSET Nat, S # {}
  PROVE  /\ (CHOOSE d \in S : \A c \in S : d <= c) \in S
         /\ \A c \in S : (CHOOSE d \in S : \A b \in S : d <= b) <= c
<1>1. PICK d \in S : \A c \in S : <<c, d>> \notin OpToRel(<, Nat)
  BY NatLessThanWellFounded, WFMin
<1>2. ASSUME NEW c \in S PROVE d <= c
  <2>1. c < d => <<c, d>> \in OpToRel(<, Nat)
    BY Zenon DEF OpToRel
  <2>2. ~(c < d)
    BY <1>1, <2>1, Zenon
  <2>3. QED
    BY <2>2
<1>3. QED
  BY <1>2

(* Induction up to n, over a set in the place of a predicate.              *)
LEMMA UpToInduction ==
  ASSUME NEW n \in Nat, NEW S, 0 \in S, \A k \in 0..n : k < n /\ k \in S => k + 1 \in S
  PROVE  0..n \subseteq S
<1> DEFINE bad == (0..n) \ S
<1>1. ASSUME bad # {} PROVE FALSE
  <2>1. bad \in SUBSET Nat
    OBVIOUS
  <2> DEFINE d == CHOOSE d \in bad : \A c \in bad : d <= c
  <2>2. d \in bad /\ \A c \in bad : d <= c
    <3> HIDE DEF bad
    <3>1. QED
      BY <1>1, <2>1, LeastExists
  <2> HIDE DEF d
  <2>3. d \in Nat /\ d # 0 /\ d <= n /\ d \notin S
    BY <2>2
  <2>4. d - 1 \in 0..n /\ d - 1 < n
    BY <2>3
  <2>5. d - 1 \in S
    BY <2>2, <2>3, <2>4
  <2>6. QED
    BY <2>3, <2>4, <2>5
<1>2. QED
  BY <1>1

(* A function defined by recursion up to n exists.                         *)
StepsIn(T) == [Nat -> [T -> T]]
Recursion(g, n, base, step) == g[0] = base /\ \A k \in 1..n : g[k] = step[k][g[k - 1]]

LEMMA RecursionExists ==
  ASSUME NEW n \in Nat, NEW T, NEW base \in T, NEW step \in StepsIn(T)
  PROVE  \E g \in [0..n -> T] : Recursion(g, n, base, step)
<1> USE DEF StepsIn
<1> DEFINE Follows(g, m) == Recursion(g, m, base, step)
           S == {m \in Nat : \E g \in [0..m -> T] : Follows(g, m)}
<1>1. 0 \in S
  <2>1. [k \in 0..0 |-> base] \in [0..0 -> T]
    OBVIOUS
  <2>2. Follows([k \in 0..0 |-> base], 0)
    BY DEF Recursion
  <2> HIDE DEF Follows
  <2>3. QED
    BY <2>1, <2>2
<1>2. ASSUME NEW m \in Nat, m \in S PROVE m + 1 \in S
  <2>1. PICK g \in [0..m -> T] : Follows(g, m)
    BY <1>2
  <2> DEFINE h == [k \in 0..(m + 1) |-> IF k = m + 1 THEN step[k][g[m]] ELSE g[k]]
  <2>2. g[m] \in T
    OBVIOUS
  <2>3. step[m + 1][g[m]] \in T
    BY <2>2
  <2>4. ASSUME NEW k \in 0..(m + 1) PROVE (IF k = m + 1 THEN step[k][g[m]] ELSE g[k]) \in T
    <3>1. CASE k = m + 1
      BY <2>3, <3>1
    <3>2. CASE k # m + 1
      <4>1. k \in 0..m
        BY <3>2
      <4>2. QED
        BY <3>2, <4>1
    <3>3. QED
      BY <3>1, <3>2
  <2>5. h \in [0..(m + 1) -> T]
    BY <2>4
  <2>6. h[0] = base
    BY <2>1 DEF Recursion
  <2>7. ASSUME NEW k \in 1..(m + 1) PROVE h[k] = step[k][h[k - 1]]
    <3>1. k - 1 \in 0..(m + 1) /\ k \in 0..(m + 1) /\ k - 1 # m + 1
      OBVIOUS
    <3>2. h[k - 1] = g[k - 1]
      BY <3>1
    <3>3. CASE k = m + 1
      BY <3>1, <3>2, <3>3
    <3>4. CASE k # m + 1
      <4>1. k \in 1..m
        BY <3>4
      <4>2. QED
        BY <2>1, <3>1, <3>2, <3>4, <4>1 DEF Recursion
    <3>5. QED
      BY <3>3, <3>4
  <2> HIDE DEF h
  <2>8. Follows(h, m + 1)
    BY <2>6, <2>7 DEF Recursion
  <2> HIDE DEF Follows
  <2>9. QED
    BY <2>5, <2>8
<1>3. 0..n \subseteq S
  <2> HIDE DEF S
  <2>1. QED
    BY <1>1, <1>2, UpToInduction
<1>4. QED
  BY <1>3

(* A finite set is listed completely, each member once.                    *)
LEMMA ListedIsAll ==
  ASSUME NEW S, IsFiniteSet(S)
  PROVE  /\ Listed(S) \in Seq(S) /\ Len(Listed(S)) = Cardinality(S)
         /\ \A x \in S : \E i \in 1..Len(Listed(S)) : Listed(S)[i] = x
<1> DEFINE N == Cardinality(S)
           fresh(s, k) == CHOOSE x \in S : x \notin {s[i] : i \in 1..(k - 1)}
           more(s, k) == \E x \in S : x \notin {s[i] : i \in 1..(k - 1)}
           step == [k \in Nat |->
                      [s \in Seq(S) |-> IF more(s, k) THEN Append(s, fresh(s, k)) ELSE s]]
           Is(f) == f = [k \in 0..N |-> IF k = 0 THEN <<>> ELSE Append(f[k - 1], fresh(f[k - 1], k))]
           once(s, k) == /\ s \in Seq(S) /\ Len(s) = k
                         /\ \A i, j \in 1..k : s[i] = s[j] => i = j
<1>1. N \in Nat
  BY FS_CardinalityType
<1>2. step \in StepsIn(Seq(S))
  <2>1. ASSUME NEW k \in Nat, NEW s \in Seq(S)
        PROVE  (IF more(s, k) THEN Append(s, fresh(s, k)) ELSE s) \in Seq(S)
    <3>1. CASE more(s, k)
      <4>1. fresh(s, k) \in S
        BY <3>1
      <4> HIDE DEF fresh, more
      <4>2. QED
        BY <3>1, <4>1
    <3>2. QED
      BY <3>1
  <2> HIDE DEF fresh, more
  <2>2. QED
    BY <2>1 DEF StepsIn
<1> HIDE DEF N
<1>3. PICK g \in [0..N -> Seq(S)] : Recursion(g, N, <<>>, step)
  <2>1. <<>> \in Seq(S)
    OBVIOUS
  <2> HIDE DEF step
  <2>2. QED
    BY <1>1, <1>2, <2>1, RecursionExists
<1>4. ASSUME NEW k \in 0..N, k < N, once(g[k], k)
      PROVE  /\ more(g[k], k + 1) /\ g[k + 1] = Append(g[k], fresh(g[k], k + 1))
             /\ once(g[k + 1], k + 1)
  <2> DEFINE s == g[k]
             x == fresh(s, k + 1)
  <2>1. (k + 1) - 1 = k /\ k + 1 \in 1..N /\ k + 1 \in Nat /\ k \in Nat /\ s \in Seq(S) /\ Len(s) = k
    BY <1>1, <1>4
  <2>2. more(s, k + 1)
    <3>1. ASSUME \A y \in S : y \in {s[i] : i \in 1..k} PROVE FALSE
      <4>1. s \in Surjection(1..k, S)
        BY <2>1, <3>1 DEF Surjection
      <4>2. IsFiniteSet(1..k) /\ Cardinality(1..k) = k
        BY <2>1, FS_Interval
      <4>3. N <= k
        BY <4>1, <4>2, FS_Surjection DEF N
      <4>4. QED
        BY <1>1, <1>4, <2>1, <4>3
    <3>2. QED
      BY <2>1, <3>1
  <2>3. x \in S /\ x \notin {s[i] : i \in 1..k}
    BY <2>1, <2>2
  <2>4. g[k + 1] = Append(s, x)
    <3>1. g[k + 1] = step[k + 1][g[k]]
      <4> HIDE DEF step, more, fresh
      <4>1. QED
        BY <1>3, <2>1 DEF Recursion
    <3> HIDE DEF more, fresh
    <3>2. step[k + 1][s] = IF more(s, k + 1) THEN Append(s, fresh(s, k + 1)) ELSE s
      BY <2>1
    <3>3. QED
      BY <2>2, <3>1, <3>2
  <2> HIDE DEF s, x
  <2>5. /\ Append(s, x) \in Seq(S) /\ Len(Append(s, x)) = k + 1
        /\ \A i \in 1..(k + 1) : Append(s, x)[i] = IF i = k + 1 THEN x ELSE s[i]
    BY <2>1, <2>3
  <2>6. \A i, j \in 1..k : s[i] = s[j] => i = j
    BY <1>4 DEF s
  <2>7. \A i, j \in 1..(k + 1) : Append(s, x)[i] = Append(s, x)[j] => i = j
    <3>1. \A i \in 1..(k + 1) : i = k + 1 \/ i \in 1..k
      BY <2>1
    <3>2. \A i \in 1..k : i # k + 1 /\ i \in 1..(k + 1) /\ s[i] # x
      BY <2>1, <2>3
    <3>3. QED
      BY <2>5, <2>6, <3>1, <3>2
  <2>8. once(Append(s, x), k + 1)
    BY <2>5, <2>7
  <2> HIDE DEF once
  <2>9. QED
    BY <2>2, <2>4, <2>8 DEF s, x
<1> DEFINE ok == {k \in 0..N : once(g[k], k)}
<1>5. 0..N \subseteq ok
  <2>1. 0 \in ok
    BY <1>1, <1>3 DEF Recursion
  <2>2. ASSUME NEW k \in 0..N, k < N, k \in ok PROVE k + 1 \in ok
    <3>1. once(g[k], k) /\ k + 1 \in 0..N
      BY <1>1, <2>2
    <3> HIDE DEF once
    <3>2. QED
      BY <1>4, <2>2, <3>1
  <2> HIDE DEF ok
  <2>3. QED
    BY <1>1, <2>1, <2>2, UpToInduction
<1> HIDE DEF more
<1>6. ASSUME NEW k \in 0..N, k < N
      PROVE  g[k + 1] = Append(g[k], fresh(g[k], k + 1)) /\ once(g[k], k)
  <2>1. once(g[k], k)
    BY <1>5
  <2> HIDE DEF once
  <2>2. QED
    BY <1>4, <1>6, <2>1
<1>7. Is(g)
  <2>1. ASSUME NEW k \in 0..N
        PROVE  g[k] = IF k = 0 THEN <<>> ELSE Append(g[k - 1], fresh(g[k - 1], k))
    <3>1. CASE k # 0
      <4>1. k - 1 \in 0..N /\ k - 1 < N /\ (k - 1) + 1 = k
        BY <1>1, <3>1
      <4> HIDE DEF fresh, once
      <4>2. g[(k - 1) + 1] = Append(g[k - 1], fresh(g[k - 1], (k - 1) + 1))
        BY <1>6, <4>1
      <4>3. QED
        BY <3>1, <4>1, <4>2
    <3>2. QED
      BY <1>3, <3>1 DEF Recursion
  <2>2. g = [k \in 0..N |-> g[k]]
    OBVIOUS
  <2> HIDE DEF fresh
  <2>3. QED
    BY <2>1, <2>2
<1> DEFINE f == CHOOSE h : Is(h)
<1>8. Is(f)
  <2> HIDE DEF Is
  <2>1. QED
    BY <1>7
<1>9. Listed(S) = f[N]
  BY DEF Listed, N
<1> HIDE DEF f
<1> DEFINE same == {k \in 0..N : f[k] = g[k]}
<1>10. 0..N \subseteq same
  <2>1. 0 \in same
    BY <1>1, <1>3, <1>8 DEF Recursion
  <2>2. ASSUME NEW k \in 0..N, k < N, k \in same PROVE k + 1 \in same
    <3>1. k + 1 \in 0..N /\ k + 1 # 0 /\ (k + 1) - 1 = k
      BY <1>1, <2>2
    <3> HIDE DEF fresh, once
    <3>2. f[k + 1] = Append(f[k], fresh(f[k], k + 1))
      BY <1>8, <3>1
    <3>3. QED
      BY <1>6, <2>2, <3>1, <3>2
  <2> HIDE DEF same
  <2>3. QED
    BY <1>1, <2>1, <2>2, UpToInduction
<1> DEFINE s == g[N]
<1>11. once(s, N) /\ Listed(S) = s
  BY <1>1, <1>5, <1>9, <1>10
<1> HIDE DEF s
<1>12. \A x \in S : \E i \in 1..N : s[i] = x
  <2>1. s \in Injection(1..N, S)
    BY SMTT(40), <1>11 DEF Injection
  <2>2. Cardinality(1..N) = N
    BY <1>1, FS_Interval
  <2>3. s \in Surjection(1..N, S)
    BY <2>1, <2>2, FS_Injection DEF N
  <2>4. QED
    BY <2>3 DEF Surjection
<1>13. QED
  BY <1>11, <1>12 DEF N

(* The ends of the design.                                                 *)
LEMMA LinksHaveEnds ==
  /\ \A l \in Design.links :
       /\ EndsOf(l.id) = {<<l.a, l.id>>, <<l.b, l.id>>} /\ EndsOf(l.id) \subseteq Ends
       /\ <<l.a, l.id>> # <<l.b, l.id>>
  /\ \A e \in Ends : e[1] \in Nodes(Design)
                     /\ \E l \in Design.links : e \in EndsOf(l.id) /\ e[2] = l.id
<1>1. ASSUME NEW l \in Design.links
      PROVE  /\ <<l.a, l.id>> \in Ends /\ <<l.b, l.id>> \in Ends
             /\ l.a # l.b
  BY <1>1, DesignAssumption DEF Ends
<1>2. ASSUME NEW e \in Ends
      PROVE  /\ e[1] \in Nodes(Design)
             /\ \E l \in Design.links : e \in {<<l.a, l.id>>, <<l.b, l.id>>} /\ e[2] = l.id
  BY <1>2 DEF Ends
<1>3. ASSUME NEW l \in Design.links
      PROVE  EndsOf(l.id) = {<<l.a, l.id>>, <<l.b, l.id>>}
  <2>1. \A e \in EndsOf(l.id) : e \in {<<l.a, l.id>>, <<l.b, l.id>>}
    BY <1>2, DesignAssumption DEF EndsOf
  <2>2. <<l.a, l.id>> \in EndsOf(l.id) /\ <<l.b, l.id>> \in EndsOf(l.id)
    BY <1>1 DEF EndsOf
  <2>3. QED
    BY <2>1, <2>2
<1>4. ASSUME NEW e \in Ends
      PROVE  \E l \in Design.links : e \in EndsOf(l.id) /\ e[2] = l.id
  BY <1>2, <1>3
<1>5. QED
  BY <1>1, <1>2, <1>3, <1>4 DEF EndsOf

(* A router has finitely many neighbours to count.                         *)
LEMMA EndsAreFinite == \A n : IsFiniteSet(EndsAt(n))
<1> DEFINE ids == {l.id : l \in Design.links}
<1>1. IsFiniteSet(ids)
  <2> DEFINE name == [l \in Design.links |-> l.id]
  <2>1. name \in Surjection(Design.links, ids)
    BY DEF Surjection
  <2>2. QED
    BY <2>1, DesignAssumption, FS_Surjection
<1>2. ASSUME NEW n PROVE IsFiniteSet(EndsAt(n))
  <2>1. EndsAt(n) \subseteq {n} \X ids
    BY DEF EndsAt, Ends
  <2>2. IsFiniteSet({n} \X ids)
    BY <1>1, FS_Singleton, FS_Product
  <2>3. QED
    BY <2>1, <2>2, FS_Subset
<1>3. QED
  BY <1>2

(* A count of Full neighbours that is right means that all are.            *)
LEMMA CountingSees ==
  ASSUME NEW n, Cardinality(seen \cap EndsAt(n)) = FullNeighbors(n)
  PROVE  EndsAt(n) \subseteq seen
<1>1. seen \cap EndsAt(n) = EndsAt(n)
  BY EndsAreFinite, FS_Subset DEF FullNeighbors
<1>2. QED
  BY <1>1

(* With all adjacencies up, the routes that are computed are the baseline. *)
LEMMA AllSeenIsBaseline ==
  ASSUME seen = Ends, NEW a \in Accesses(Design)
  PROVE  Cost[a][{id \in {e[2] : e \in seen} : EndsOf(id) \subseteq seen}] = Baseline[a]
<1> DEFINE ids == {l.id : l \in Design.links}
<1>1. {id \in {e[2] : e \in seen} : EndsOf(id) \subseteq seen} = ids
  <2>1. ASSUME NEW e \in Ends PROVE e[2] \in ids
    BY LinksHaveEnds
  <2>2. ASSUME NEW l \in Design.links
        PROVE  EndsOf(l.id) \subseteq Ends /\ \E e \in Ends : e[2] = l.id
    <3>1. <<l.a, l.id>> \in Ends
      BY LinksHaveEnds
    <3>2. QED
      BY <3>1, LinksHaveEnds
  <2>3. QED
    BY <2>1, <2>2
<1>2. Cost[a][ids] = CostWithout(a, ids \ ids, {})
  BY DEF Cost
<1>3. ids \ ids = {}
  OBVIOUS
<1>4. QED
  BY <1>1, <1>2, <1>3 DEF Baseline
-----------------------------------------------------------------------------
(* What is down in each phase of a scenario.                               *)
DownInv ==
  /\ pc \in {"list", "mesh", "settle", "rows"} => down = {}
  /\ pc = "inject" => down \cup ends = Plan[at].injections /\ down \cap ends = {}
  /\ pc = "fault" => down = Plan[at].injections
  /\ pc = "restore" => down \subseteq ends

(* A router that was counted lists a neighbour that lists it, or both have *)
(* lost each other; if both were counted, both list each other for good.   *)
MeshInv ==
  pc = "mesh" /\ ~unlisted =>
    /\ \A e \in Ends : e[1] \notin todo /\ e \notin seen => EndsOf(e[2]) \cap seen = {}
    /\ \A e, f \in Ends :
         e[2] = f[2] /\ e # f /\ e[1] \notin todo /\ f[1] \notin todo => e \in seen

(* From then on nothing moves but the routes, towards the baseline.        *)
SettledInv ==
  /\ ~unlisted /\ (pc \in {"settle", "rows"} \/ (pc = "inject" /\ down = {})) => seen = Ends
  /\ ~unlisted /\ pc = "settle" => \A a \in Accesses(Design) \ todo : rib[a] = Baseline[a]
  /\ ~unlisted /\ (pc = "rows" \/ (pc = "inject" /\ down = {})) => rib = Baseline

ShapeInv ==
  /\ seen \subseteq Ends /\ DOMAIN rib = Accesses(Design) /\ rib = [a \in DOMAIN rib |-> rib[a]]
  /\ unlisted \in BOOLEAN

NetInv == ShapeInv /\ DownInv /\ MeshInv /\ SettledInv

LEMMA NetInit == Init => NetInv
BY DEF Init, NetInv, ShapeInv, DownInv, MeshInv, SettledInv, NoRoutes

(* The lab's steps.                                                        *)
LEMMA LabKeeps ==
  ASSUME NetInv, Lab
  PROVE  NetInv'
<1> USE DEF NetInv
<1>1. UNCHANGED <<scriptVars, fileVars, owner, down>>
  BY DEF Lab, Notice, Form, ComputeRoutes
<1>2. DownInv'
  BY <1>1 DEF DownInv, scriptVars
<1>3. ASSUME NEW e0 \in Ends, Notice(e0) PROVE NetInv'
  <2>1. PICK l \in Design.links : EndsOf(e0[2]) = {<<l.a, l.id>>, <<l.b, l.id>>} /\ e0 \in EndsOf(e0[2])
    BY LinksHaveEnds
  <2>2. PICK g \in EndsOf(e0[2]) : g \notin seen /\ g # e0 /\ g \in Ends /\ g[2] = e0[2]
    BY <1>3 DEF Notice, EndsOf
  <2>3. EndsOf(e0[2]) = {e0, g}
    BY <2>1, <2>2
  <2>4. seen' = seen \ {e0} /\ rib' = rib /\ pc' = pc /\ todo' = todo /\ unlisted' = unlisted
    BY <1>3 DEF Notice, scriptVars
  <2>5. MeshInv'
    <3>1. ASSUME pc = "mesh", ~unlisted, NEW e \in Ends, e[1] \notin todo, e \notin seen'
          PROVE  EndsOf(e[2]) \cap seen' = {}
      BY <2>2, <2>3, <2>4, <3>1 DEF MeshInv
    <3>2. ASSUME pc = "mesh", ~unlisted, NEW e \in Ends, NEW f \in Ends,
                 e[2] = f[2], e # f, e[1] \notin todo, f[1] \notin todo
          PROVE  e \in seen'
      <4>1. e \in seen /\ f \in seen
        BY <3>2 DEF MeshInv
      <4>2. e = e0 => f = g
        BY <2>3, <3>2 DEF EndsOf
      <4>3. QED
        BY <2>2, <2>4, <4>1, <4>2
    <3>3. QED
      BY <2>4, <3>1, <3>2 DEF MeshInv
  <2>6. SettledInv'
    BY <1>1, <2>2, <2>4 DEF SettledInv
  <2>7. QED
    BY <1>2, <2>4, <2>5, <2>6 DEF ShapeInv
<1>4. ASSUME NEW l \in Design.links, Form(l) PROVE NetInv'
  <2>1. /\ seen' = seen \cup EndsOf(l.id) /\ rib' = rib /\ pc' = pc /\ todo' = todo
        /\ unlisted' = unlisted /\ EndsOf(l.id) \subseteq Ends
    BY <1>4, LinksHaveEnds DEF Form, scriptVars
  <2>2. MeshInv'
    <3>1. ASSUME NEW e \in Ends, e \notin EndsOf(l.id)
          PROVE  EndsOf(e[2]) \cap EndsOf(l.id) = {}
      BY <3>1 DEF EndsOf
    <3>2. QED
      BY <2>1, <3>1 DEF MeshInv
  <2>3. SettledInv'
    BY <1>1, <2>1 DEF SettledInv, ShapeInv
  <2>4. QED
    BY <1>2, <2>1, <2>2, <2>3 DEF ShapeInv
<1>5. ASSUME NEW a \in Accesses(Design), ComputeRoutes(a) PROVE NetInv'
  <2>1. /\ rib' = [rib EXCEPT ![a] = Cost[a][{id \in {e[2] : e \in seen} : EndsOf(id) \subseteq seen}]]
        /\ seen' = seen /\ pc' = pc /\ todo' = todo /\ unlisted' = unlisted
    BY <1>5 DEF ComputeRoutes, scriptVars
  <2>2. seen = Ends => rib' = [rib EXCEPT ![a] = Baseline[a]]
    BY <2>1, AllSeenIsBaseline
  <2>3. SettledInv'
    <3>1. seen = Ends /\ rib = Baseline => rib' = Baseline
      BY <2>2 DEF Baseline
    <3>2. seen = Ends => \A b \in Accesses(Design) : rib[b] = Baseline[b] => rib'[b] = Baseline[b]
      BY <2>2 DEF ShapeInv
    <3>3. QED
      BY <1>1, <2>1, <3>1, <3>2 DEF SettledInv
  <2>4. QED
    BY <1>2, <2>1, <2>3 DEF ShapeInv, MeshInv
<1>6. QED
  BY <1>3, <1>4, <1>5 DEF Lab

(* The script's steps up to the first fault, and between two of them.      *)
LEMMA WaitingKeeps ==
  ASSUME NetInv,
         \/ Deploy \/ ListAdjacencies \/ MeshIsFull \/ Settled
         \/ \E n \in todo : WaitNeighborCount(n) \/ WaitBaseline(n)
  PROVE  NetInv'
<1> USE DEF NetInv
<1>1. CASE Deploy
  BY <1>1 DEF Deploy, ShapeInv, DownInv, MeshInv, SettledInv, NoRoutes
<1>2. CASE ListAdjacencies
  <2>1. ~unlisted' => todo' = Nodes(Design)
    BY <1>2 DEF ListAdjacencies
  <2>2. MeshInv'
    BY <2>1, LinksHaveEnds DEF MeshInv
  <2>3. QED
    BY <1>2, <2>2 DEF ListAdjacencies, netVars, ShapeInv, DownInv, SettledInv
<1>3. CASE MeshIsFull
  <2>1. /\ pc = "mesh" /\ todo = {} /\ pc' = "settle" /\ todo' = Accesses(Design)
        /\ unlisted' = unlisted /\ down' = down /\ seen' = seen /\ rib' = rib
    BY <1>3 DEF MeshIsFull, netVars
  <2>2. ASSUME ~unlisted PROVE seen = Ends
    <3>1. ASSUME NEW e \in Ends PROVE e \in seen
      <4>1. PICK l \in Design.links : e \in EndsOf(l.id)
        BY LinksHaveEnds
      <4>2. PICK f \in EndsOf(l.id) : f # e /\ f \in Ends /\ f[2] = e[2]
        BY <4>1, LinksHaveEnds DEF EndsOf
      <4>3. QED
        BY <2>1, <2>2, <4>2 DEF MeshInv
    <3>2. QED
      BY <3>1 DEF ShapeInv
  <2>3. QED
    BY <2>1, <2>2 DEF ShapeInv, DownInv, MeshInv, SettledInv
<1>4. CASE Settled
  <2>1. /\ pc = "settle" /\ todo = {} /\ pc' = "rows"
        /\ unlisted' = unlisted /\ down' = down /\ seen' = seen /\ rib' = rib
    BY <1>4 DEF Settled, netVars
  <2>2. ~unlisted => rib = Baseline
    BY <2>1 DEF ShapeInv, SettledInv, Baseline
  <2>3. QED
    BY <2>1, <2>2 DEF ShapeInv, DownInv, MeshInv, SettledInv
<1>5. ASSUME NEW n \in todo, WaitNeighborCount(n) PROVE NetInv'
  <2>1. /\ pc = "mesh" /\ pc' = pc /\ todo' = todo \ {n}
        /\ unlisted' = unlisted /\ down' = down /\ seen' = seen /\ rib' = rib
    BY <1>5 DEF WaitNeighborCount, netVars
  <2>2. EndsAt(n) \subseteq seen
    BY <1>5, CountingSees DEF WaitNeighborCount
  <2>3. ASSUME ~unlisted, NEW e \in Ends, e[1] \notin todo', e \notin seen
        PROVE  EndsOf(e[2]) \cap seen = {}
    BY <2>1, <2>2, <2>3 DEF MeshInv, EndsAt
  <2>4. ASSUME ~unlisted, NEW e \in Ends, NEW f \in Ends, e[2] = f[2], e # f,
               e[1] \notin todo', f[1] \notin todo'
        PROVE  e \in seen
    <3>1. CASE e[1] = n
      BY <2>2, <3>1 DEF EndsAt
    <3>2. CASE e[1] # n /\ f[1] = n
      <4>1. f \in seen /\ f \in EndsOf(e[2]) /\ e[1] \notin todo
        BY <2>1, <2>2, <2>4, <3>2 DEF EndsAt, EndsOf
      <4>2. QED
        BY <2>1, <2>4, <4>1 DEF MeshInv
    <3>3. CASE e[1] # n /\ f[1] # n
      BY <2>1, <2>4, <3>3 DEF MeshInv
    <3>4. QED
      BY <3>1, <3>2, <3>3
  <2>5. MeshInv'
    BY <2>1, <2>3, <2>4 DEF MeshInv
  <2>6. QED
    BY <2>1, <2>5 DEF ShapeInv, DownInv, SettledInv
<1>6. ASSUME NEW a \in todo, WaitBaseline(a) PROVE NetInv'
  BY <1>6 DEF WaitBaseline, netVars, ShapeInv, DownInv, MeshInv, SettledInv
<1>7. QED
  BY <1>1, <1>2, <1>3, <1>4, <1>5, <1>6

(* The steps of a scenario.                                                *)
LEMMA ScenarioKeeps ==
  ASSUME NetInv,
         \/ NextRow \/ ReachedUnderFault
         \/ \E a \in todo : WaitFaultMetric(a)
         \/ \E e \in ends : Inject(e) \/ RestoreEnd(e)
  PROVE  NetInv'
<1> USE DEF NetInv
<1>1. CASE NextRow
  BY <1>1 DEF NextRow, netVars, ShapeInv, DownInv, MeshInv, SettledInv
<1>2. CASE ReachedUnderFault
  BY <1>2 DEF ReachedUnderFault, netVars, ShapeInv, DownInv, MeshInv, SettledInv
<1>3. ASSUME NEW a \in todo, WaitFaultMetric(a) PROVE NetInv'
  BY <1>3 DEF WaitFaultMetric, netVars, ShapeInv, DownInv, MeshInv, SettledInv
<1>4. ASSUME NEW e \in ends, Inject(e) PROVE NetInv'
  <2>1. /\ pc = "inject" /\ down' = down \cup {e} /\ seen' \subseteq seen /\ rib' = rib
        /\ ends' = ends \ {e} /\ at' = at /\ unlisted' = unlisted
        /\ \/ ends = {e} /\ pc' = "fault"
           \/ ends # {e} /\ pc' = pc
    BY <1>4 DEF Inject
  <2>2. QED
    BY <2>1 DEF ShapeInv, DownInv, MeshInv, SettledInv
<1>5. ASSUME NEW e \in ends, RestoreEnd(e) PROVE NetInv'
  BY <1>5 DEF RestoreEnd, ShapeInv, DownInv, MeshInv, SettledInv
<1>6. QED
  BY <1>1, <1>2, <1>3, <1>4, <1>5

(* Every other step leaves the phases in which a scenario can start, or    *)
(* was in none of them.                                                    *)
LEMMA OthersKeep ==
  ASSUME NetInv,
         \/ Start \/ CheckLab \/ RowsEnd \/ CountScenarios \/ Verify \/ Sync \/ Rename \/ Fails
         \/ Trap \/ Destroy \/ Kill \/ PowerLoss \/ Operator
  PROVE  NetInv'
<1>1. /\ seen' = seen /\ rib' = rib /\ unlisted' \in {FALSE, unlisted}
      /\ pc' \in {"idle", "check", "deploy", "trap", "count", "verify", "sync", "rename", "destroy"}
  BY DEF Start, CheckLab, RowsEnd, CountScenarios, Verify, Sync, Rename, Fails, Trap, Destroy, Kill,
         PowerLoss, Operator, netVars
<1>2. QED
  BY <1>1 DEF NetInv, ShapeInv, DownInv, MeshInv, SettledInv

LEMMA NetInvariance == Spec => []NetInv
<1>1. ASSUME NetInv, [Next]_vars PROVE NetInv'
  <2>1. CASE Script
    BY <1>1, <2>1, WaitingKeeps, ScenarioKeeps, OthersKeep DEF Script
  <2>2. CASE Kill \/ PowerLoss \/ Operator
    BY <1>1, <2>2, OthersKeep
  <2>3. CASE Lab
    BY <1>1, <2>3, LabKeeps
  <2>4. CASE UNCHANGED vars
    BY <1>1, <2>4 DEF vars, scriptVars, netVars, NetInv, ShapeInv, DownInv, MeshInv, SettledInv
  <2>5. QED
    BY <1>1, <2>1, <2>2, <2>3, <2>4 DEF Next
<1>2. QED
  BY <1>1, NetInit, PTL DEF Spec

(* A scenario begins with everything up, seen and routed as in the         *)
(* baseline, unless a list of adjacencies failed to be produced:           *)
(* wait_full_mesh counts the routers one after the other and wait_metric   *)
(* asks for the baseline, and that is enough, in every design, although    *)
(* both may be overtaken.                                                  *)
THEOREM FaultsAreSingle == Spec => []ListedFaultIsSingle
<1>1. NetInv => ListedFaultIsSingle
  <2> SUFFICES ASSUME NetInv, ScenarioBegins, ~unlisted PROVE EverythingIsUp
    BY DEF ListedFaultIsSingle
  <2>1. pc = "inject" /\ ends = Plan[at].injections
    BY DEF ScenarioBegins
  <2>2. down = {}
    BY <2>1 DEF NetInv, DownInv
  <2>3. QED
    BY <2>1, <2>2 DEF NetInv, SettledInv, EverythingIsUp
<1>2. QED
  BY <1>1, NetInvariance, PTL
-----------------------------------------------------------------------------
(* Whose lab there is in each phase.                                       *)
OwnerInv ==
  /\ pc = "check" => ~deployed
  /\ pc = "deploy" => owner = "none" \/ overlooked
  /\ pc \notin {"idle", "check", "deploy", "trap", "destroy"} => owner = "run"
  /\ pc \in {"trap", "destroy"} /\ deployed => owner # "other" \/ overlooked
  /\ pc = "destroy" => deployed
  /\ pc \notin {"idle", "check", "trap"} => deployed

LEMMA OwnerInvariance == Spec => []OwnerInv
<1>1. Init => OwnerInv
  BY DEF Init, OwnerInv
<1>2. ASSUME OwnerInv, [Next]_vars PROVE OwnerInv'
  <2>1. CASE Start \/ CheckLab \/ Deploy
    BY <1>2, <2>1 DEF Start, CheckLab, Deploy, OwnerInv
  <2>2. CASE \/ ListAdjacencies \/ MeshIsFull \/ Settled \/ NextRow \/ RowsEnd
             \/ ReachedUnderFault \/ CountScenarios \/ Verify \/ Sync \/ Rename
             \/ (\E n \in todo : WaitNeighborCount(n) \/ WaitBaseline(n) \/ WaitFaultMetric(n))
             \/ (\E e \in ends : Inject(e) \/ RestoreEnd(e))
    <3>1. /\ owner' = owner /\ deployed' = deployed /\ overlooked' = overlooked
          /\ {pc, pc'} \cap {"idle", "check", "deploy", "destroy"} = {} /\ pc # "trap"
      BY <2>2 DEF ListAdjacencies, MeshIsFull, Settled, NextRow, RowsEnd, ReachedUnderFault,
                  CountScenarios, Verify, Sync, Rename, WaitNeighborCount, WaitBaseline,
                  WaitFaultMetric, Inject, RestoreEnd
    <3>2. QED
      BY <1>2, <3>1 DEF OwnerInv
  <2>3. CASE Fails \/ Trap \/ Destroy \/ Kill \/ PowerLoss \/ Operator
    BY <1>2, <2>3 DEF Fails, Trap, Destroy, Kill, PowerLoss, Operator, OwnerInv
  <2>4. CASE Lab \/ UNCHANGED vars
    <3>1. UNCHANGED <<pc, owner, deployed, overlooked>>
      BY <2>4 DEF Lab, Notice, Form, ComputeRoutes, vars, scriptVars
    <3>2. QED
      BY <1>2, <3>1 DEF OwnerInv
  <2>5. QED
    BY <1>2, <2>1, <2>2, <2>3, <2>4 DEF Next, Script
<1>3. QED
  BY <1>1, <1>2, PTL DEF Spec

(* The test for an existing lab, if it sees the lab, and the flag that the *)
(* EXIT trap looks at keep the script's hands off a lab that it has not    *)
(* deployed.                                                               *)
THEOREM OtherLabsAreSafe == Spec => OnlyOwnLabIsTouched
<1> DEFINE Hands == pc # "idle" /\ owner = "other" /\ ~overlooked =>
                      owner' = "other" /\ UNCHANGED netVars
<1>1. ASSUME OwnerInv, [Next]_vars PROVE [Hands]_vars
  <2>1. CASE Script
    <3>1. ASSUME owner = "other", ~overlooked PROVE Start \/ CheckLab \/ Fails \/ Trap
      BY <1>1, <2>1, <3>1
         DEF OwnerInv, Script, Deploy, ListAdjacencies, MeshIsFull, Settled, NextRow, RowsEnd,
             ReachedUnderFault, CountScenarios, Verify, Sync, Rename, Destroy, WaitNeighborCount,
             WaitBaseline, WaitFaultMetric, Inject, RestoreEnd
    <3>2. owner = "other" /\ ~overlooked /\ Trap => ~deployed
      BY <1>1 DEF OwnerInv, Trap
    <3>3. QED
      BY <3>1, <3>2 DEF Start, CheckLab, Fails, Trap, netVars
  <2>2. CASE Kill \/ PowerLoss \/ Operator
    BY <2>2 DEF Kill, PowerLoss, Operator, netVars
  <2>3. CASE Lab
    BY <2>3 DEF Lab, Notice, Form, ComputeRoutes
  <2>4. QED
    BY <1>1, <2>1, <2>2, <2>3 DEF Next
<1>2. QED
  BY <1>1, OwnerInvariance, PTL DEF Spec, OnlyOwnLabIsTouched
-----------------------------------------------------------------------------
(* A record of what was measured of scenario j of the plan.                *)
Good(r, j) ==
  /\ r.id = Plan[j].id /\ r.fault = Plan[j].metric /\ r.cut = Plan[j].injections
  /\ r.restored = Baseline

ObservationInv ==
  \E S : observation \in Seq(S) /\ \A r \in S : \E j \in DOMAIN Plan : Good(r, j)

(* The files of the scenario the script works on.                          *)
MeasuredInv ==
  /\ at \in Nat
  /\ at \notin DOMAIN Plan => at = 0 /\ pc \notin {"inject", "fault", "restore"}
  /\ pc \in {"check", "deploy"} => at = 0
  /\ DOMAIN measured = {"fault", "cut", "restored"}
  /\ pc \in {"check", "deploy", "list", "mesh", "inject", "fault", "restore"} =>
       measured.restored = <<>>
  /\ pc = "inject" => measured.fault = <<>>
  /\ pc = "fault" =>
       /\ todo \subseteq Accesses(Design)
       /\ measured.fault = [a \in Accesses(Design) \ todo |-> Plan[at].metric[a]]
       /\ todo # Accesses(Design) => measured.cut = Plan[at].injections
  /\ pc \in {"restore", "list", "mesh", "settle"} /\ at # 0 =>
       measured.fault = Plan[at].metric /\ measured.cut = Plan[at].injections
  /\ pc = "settle" =>
       /\ todo \subseteq Accesses(Design)
       /\ measured.restored = [a \in Accesses(Design) \ todo |-> Baseline[a]]

(* The evidence file: only what was synced is renamed into place.          *)
FilesInv ==
  /\ evidence \in {"absent", "passed"}
  /\ pc \notin {"idle", "trap", "destroy"} => evidence = "absent"
  /\ pc \in {"sync", "rename"} => draft.says = "passed" /\ Covers(observation)
  /\ pc = "rename" => draft.synced = TRUE
  /\ DOMAIN draft = {"says", "synced"}
  /\ evidence = "passed" => draft.synced = TRUE /\ Covers(observation)

EarnedInv == ObservationInv /\ MeasuredInv /\ FilesInv

(* The plan is a list of all failures.                                     *)
LEMMA PlanListsFailures ==
  /\ Len(Plan) \in Nat /\ DOMAIN Plan = 1..Len(Plan)
  /\ LinkFailures(Design) \cup NodeFailures(Design) = {Plan[i].id : i \in DOMAIN Plan}
<1> DEFINE A == LinkFailures(Design)
           B == NodeFailures(Design)
<1>1. IsFiniteSet(A)
  <2> DEFINE f == [l \in Design.links |-> [links |-> {l.id}, nodes |-> {}]]
  <2>1. f \in Surjection(Design.links, A)
    BY DEF Surjection, LinkFailures
  <2> HIDE DEF f, A
  <2>2. QED
    BY <2>1, FS_Surjection, DesignAssumption
<1>2. IsFiniteSet(B)
  <2> DEFINE D == WithRole(Design, {"aggregation", "core"})
             f == [n \in D |-> [links |-> {}, nodes |-> {n}]]
  <2>1. f \in Surjection(D, B)
    BY DEF Surjection, NodeFailures
  <2>2. D \in SUBSET Nodes(Design)
    BY DEF WithRole
  <2> HIDE DEF f, B, D
  <2>3. IsFiniteSet(D)
    BY <2>2, FS_Subset, DesignAssumption
  <2>4. QED
    BY <2>1, <2>3, FS_Surjection
<1> HIDE DEF A, B
<1> DEFINE a == Listed(A)
           b == Listed(B)
<1>3. /\ a \in Seq(A) /\ \A x \in A : \E i \in 1..Len(a) : a[i] = x
      /\ b \in Seq(B) /\ \A x \in B : \E i \in 1..Len(b) : b[i] = x
  BY <1>1, <1>2, ListedIsAll
<1> DEFINE ab == a \o b
<1>4. Plan = [i \in DOMAIN ab |->
                [id |-> ab[i], injections |-> Injections(ab[i]),
                 metric |-> [c \in Accesses(Design) |-> CostWithout(c, ab[i].links, ab[i].nodes)]]]
  BY DEF Plan, A, B
<1> HIDE DEF a, b
<1>5. a \in Seq(A \cup B) /\ b \in Seq(A \cup B)
  BY <1>3
<1>6. /\ ab \in Seq(A \cup B) /\ Len(ab) = Len(a) + Len(b)
      /\ \A i \in 1..Len(a) : ab[i] = a[i]
      /\ \A i \in 1..Len(b) : ab[Len(a) + i] = b[i]
      /\ Len(a) \in Nat /\ Len(b) \in Nat
  BY <1>5
<1> HIDE DEF ab
<1>7. DOMAIN ab = 1..Len(ab) /\ Len(ab) \in Nat /\ \A i \in 1..Len(ab) : ab[i] \in A \cup B
  BY <1>6
<1>8. DOMAIN Plan = 1..Len(ab) /\ \A i \in DOMAIN Plan : Plan[i].id = ab[i]
  BY <1>4, <1>7
<1>9. Len(Plan) = Len(ab)
  BY <1>4, <1>7
<1>10. ASSUME NEW x \in A \cup B PROVE \E i \in 1..Len(ab) : ab[i] = x
  <2>1. CASE x \in A
    <3>1. PICK i \in 1..Len(a) : a[i] = x
      BY <1>3, <2>1
    <3>2. QED
      BY <1>6, <3>1
  <2>2. CASE x \in B
    <3>1. PICK i \in 1..Len(b) : b[i] = x
      BY <1>3, <2>2
    <3>2. Len(a) + i \in 1..Len(ab)
      BY <1>6, <3>1
    <3>3. QED
      BY <1>6, <3>1, <3>2
  <2>3. QED
    BY <2>1, <2>2
<1>11. QED
  BY <1>7, <1>8, <1>9, <1>10 DEF A, B

LEMMA PlanIsOfFailures ==
  \A j \in DOMAIN Plan :
    /\ Plan[j].injections = Injections(Plan[j].id)
    /\ Plan[j].metric = [a \in Accesses(Design) |->
                           CostWithout(a, Plan[j].id.links, Plan[j].id.nodes)]
<1> DEFINE faults == Listed(LinkFailures(Design)) \o Listed(NodeFailures(Design))
<1>1. Plan = [i \in DOMAIN faults |->
                [id |-> faults[i], injections |-> Injections(faults[i]),
                 metric |-> [a \in Accesses(Design) |->
                               CostWithout(a, faults[i].links, faults[i].nodes)]]]
  BY DEF Plan
<1> HIDE DEF faults
<1>2. QED
  BY <1>1

(* Good records conform to the plan.                                       *)
LEMMA GoodConforms == ObservationInv => Conforms(observation)
<1> SUFFICES ASSUME ObservationInv PROVE Conforms(observation)
  OBVIOUS
<1>1. PICK S : observation \in Seq(S) /\ \A r \in S : \E j \in DOMAIN Plan : Good(r, j)
  BY DEF ObservationInv
<1>2. \A r \in ToSet(observation) : \E j \in DOMAIN Plan : Good(r, j)
  BY <1>1 DEF ToSet
<1>3. ASSUME NEW k \in DOMAIN Plan, NEW j \in DOMAIN Plan, Plan[k].id = Plan[j].id
      PROVE  Plan[k].metric = Plan[j].metric
  BY <1>3, PlanIsOfFailures
<1>4. \A s \in ToSet(Plan) : \E k \in DOMAIN Plan : s = Plan[k]
  BY DEF ToSet
<1>5. QED
  BY <1>2, <1>3, <1>4 DEF Conforms, Good

LEMMA EarnedInit == Init => EarnedInv
<1> SUFFICES ASSUME Init PROVE EarnedInv
  OBVIOUS
<1>1. ObservationInv
  <2>1. observation \in Seq({})
    BY DEF Init
  <2>2. QED
    BY <2>1 DEF ObservationInv
<1>2. MeasuredInv
  BY DEF Init, MeasuredInv, Unmeasured
<1>3. FilesInv
  BY DEF Init, FilesInv, NoDraft
<1>4. QED
  BY <1>1, <1>2, <1>3 DEF EarnedInv

(* The waits measure what they wait for.                                   *)
LEMMA MeasuringKeeps ==
  ASSUME MeasuredInv, DownInv, NEW a \in todo, WaitBaseline(a) \/ WaitFaultMetric(a)
  PROVE  MeasuredInv'
<1>1. CASE WaitBaseline(a)
  <2>1. /\ pc = "settle" /\ pc' = pc /\ at' = at /\ todo' = todo \ {a} /\ rib[a] = Baseline[a]
        /\ measured' = [measured EXCEPT !.restored = Put(measured.restored, a, rib[a])]
    BY <1>1 DEF WaitBaseline
  <2>2. /\ DOMAIN measured' = DOMAIN measured
        /\ measured'.restored = Put(measured.restored, a, Baseline[a])
        /\ measured'.fault = measured.fault /\ measured'.cut = measured.cut
    BY <2>1 DEF MeasuredInv
  <2>3. measured'.restored = [b \in Accesses(Design) \ todo' |-> Baseline[b]]
    BY <2>1, <2>2 DEF MeasuredInv, Put
  <2>4. QED
    BY <2>1, <2>2, <2>3 DEF MeasuredInv
<1>2. CASE WaitFaultMetric(a)
  <2>1. /\ pc = "fault" /\ pc' = pc /\ at' = at /\ todo' = todo \ {a}
        /\ rib[a] = Plan[at].metric[a] /\ down = Plan[at].injections
        /\ measured' = [measured EXCEPT !.fault = Put(measured.fault, a, rib[a]), !.cut = down]
    BY <1>2 DEF WaitFaultMetric, DownInv
  <2>2. /\ DOMAIN measured' = DOMAIN measured
        /\ measured'.fault = Put(measured.fault, a, Plan[at].metric[a])
        /\ measured'.restored = measured.restored /\ measured'.cut = Plan[at].injections
    BY <2>1 DEF MeasuredInv
  <2>3. measured'.fault = [b \in Accesses(Design) \ todo' |-> Plan[at].metric[b]]
    BY <2>1, <2>2 DEF MeasuredInv, Put
  <2>4. QED
    BY <2>1, <2>2, <2>3 DEF MeasuredInv
<1>3. QED
  BY <1>1, <1>2

(* From one scenario to the next.                                          *)
LEMMA MovingKeeps ==
  ASSUME MeasuredInv, DownInv,
         \/ Start \/ CheckLab \/ Deploy \/ ListAdjacencies \/ MeshIsFull \/ NextRow
         \/ ReachedUnderFault
         \/ \E n \in todo : WaitNeighborCount(n)
         \/ \E e \in ends : Inject(e) \/ RestoreEnd(e)
  PROVE  MeasuredInv'
<1>1. CASE Start
  BY <1>1, PlanListsFailures DEF Start, MeasuredInv, Unmeasured
<1>2. CASE CheckLab \/ Deploy \/ ListAdjacencies
  BY <1>2 DEF CheckLab, Deploy, ListAdjacencies, MeasuredInv
<1>3. CASE MeshIsFull
  <2>1. /\ pc = "mesh" /\ pc' = "settle" /\ at' = at /\ measured' = measured
        /\ todo' = Accesses(Design)
    BY <1>3 DEF MeshIsFull
  <2>2. <<>> = [a \in Accesses(Design) \ todo' |-> Baseline[a]]
    BY <2>1
  <2>3. measured'.restored = [a \in Accesses(Design) \ todo' |-> Baseline[a]]
    BY <2>1, <2>2 DEF MeasuredInv
  <2>4. QED
    BY <2>1, <2>3 DEF MeasuredInv
<1>4. CASE NextRow
  <2>1. /\ pc = "rows" /\ pc' = "inject" /\ at' = at + 1 /\ at < Len(Plan)
        /\ measured' = [fault |-> <<>>, cut |-> {}, restored |-> <<>>]
    BY <1>4 DEF NextRow, Unmeasured
  <2>2. at' \in DOMAIN Plan
    BY <2>1, PlanListsFailures DEF MeasuredInv
  <2>3. DOMAIN measured' = {"fault", "cut", "restored"} /\ measured'.fault = <<>>
        /\ measured'.restored = <<>>
    BY <2>1
  <2>4. QED
    BY <2>1, <2>2, <2>3, PlanListsFailures DEF MeasuredInv
<1>5. CASE ReachedUnderFault
  <2>1. /\ pc = "fault" /\ todo = {} /\ pc' = "restore" /\ at' = at /\ measured' = measured
    BY <1>5 DEF ReachedUnderFault
  <2>2. /\ at \in DOMAIN Plan
        /\ measured.fault = [a \in Accesses(Design) |-> Plan[at].metric[a]]
        /\ measured.cut = Plan[at].injections
    BY <2>1, DesignAssumption DEF MeasuredInv
  <2>3. Plan[at].metric = [a \in Accesses(Design) |-> Plan[at].metric[a]]
    BY <2>2, PlanIsOfFailures
  <2>4. QED
    BY <2>1, <2>2, <2>3 DEF MeasuredInv
<1>6. ASSUME NEW n \in todo, WaitNeighborCount(n) PROVE MeasuredInv'
  BY <1>6 DEF WaitNeighborCount, MeasuredInv
<1>7. ASSUME NEW e \in ends, Inject(e) PROVE MeasuredInv'
  <2>1. /\ pc = "inject" /\ at' = at /\ measured' = measured
        /\ (pc' = "fault" /\ todo' = Accesses(Design)) \/ pc' = "inject"
    BY <1>7 DEF Inject
  <2>2. CASE pc' = "inject"
    BY <2>1, <2>2 DEF MeasuredInv
  <2>3. CASE pc' = "fault" /\ todo' = Accesses(Design)
    <3>1. <<>> = [a \in Accesses(Design) \ todo' |-> Plan[at].metric[a]]
      BY <2>3
    <3>2. measured'.fault = [a \in Accesses(Design) \ todo' |-> Plan[at'].metric[a]]
      BY <2>1, <3>1 DEF MeasuredInv
    <3>3. QED
      BY <2>1, <2>3, <3>2 DEF MeasuredInv
  <2>4. QED
    BY <2>1, <2>2, <2>3
<1>8. ASSUME NEW e \in ends, RestoreEnd(e) PROVE MeasuredInv'
  BY <1>8 DEF RestoreEnd, MeasuredInv
<1>9. QED
  BY <1>1, <1>2, <1>3, <1>4, <1>5, <1>6, <1>7, <1>8

(* The record of a scenario is complete.                                   *)
LEMMA SettlingKeeps ==
  ASSUME EarnedInv, Settled
  PROVE  EarnedInv'
<1>1. /\ pc = "settle" /\ todo = {} /\ pc' = "rows" /\ at' = at /\ measured' = measured
      /\ draft' = draft /\ evidence' = evidence
      /\ observation' = IF at = 0 THEN observation
                        ELSE Append(observation, Put(measured, "id", Plan[at].id))
  BY DEF Settled
<1>2. MeasuredInv'
  BY <1>1 DEF EarnedInv, MeasuredInv
<1>3. FilesInv'
  BY <1>1 DEF EarnedInv, FilesInv
<1>4. CASE at = 0
  BY <1>1, <1>2, <1>3, <1>4 DEF EarnedInv, ObservationInv
<1>5. CASE at # 0
  <2> DEFINE r == Put(measured, "id", Plan[at].id)
  <2>1. r.id = Plan[at].id /\ r.fault = measured.fault /\ r.cut = measured.cut
        /\ r.restored = measured.restored
    BY DEF Put, EarnedInv, MeasuredInv
  <2>2. measured.restored = Baseline
    BY <1>1 DEF EarnedInv, MeasuredInv, Baseline
  <2>3. Good(r, at) /\ at \in DOMAIN Plan
    BY <1>1, <1>5, <2>1, <2>2 DEF EarnedInv, MeasuredInv, Good
  <2> HIDE DEF r
  <2>4. PICK S : observation \in Seq(S) /\ \A x \in S : \E j \in DOMAIN Plan : Good(x, j)
    BY DEF EarnedInv, ObservationInv
  <2>5. observation' \in Seq(S \cup {r})
    <3>1. observation \in Seq(S \cup {r})
      BY <2>4
    <3>2. QED
      BY <1>1, <1>5, <3>1 DEF r
  <2>6. \A x \in S \cup {r} : \E j \in DOMAIN Plan : Good(x, j)
    BY <2>3, <2>4
  <2>7. ObservationInv'
    <3> DEFINE T == S \cup {r}
    <3>1. observation' \in Seq(T) /\ \A x \in T : \E j \in DOMAIN Plan : Good(x, j)
      BY <2>5, <2>6
    <3> HIDE DEF T
    <3>2. QED
      BY <3>1 DEF ObservationInv, Good
  <2>8. QED
    BY <1>2, <1>3, <2>7 DEF EarnedInv
<1>6. QED
  BY <1>4, <1>5

(* The steps that measure nothing.                                         *)
LEMMA RestKeepsMeasured ==
  ASSUME MeasuredInv,
         \/ RowsEnd \/ CountScenarios \/ Verify \/ Sync \/ Rename \/ Fails \/ Trap \/ Destroy
         \/ Kill \/ PowerLoss \/ Operator \/ Lab \/ UNCHANGED vars
  PROVE  MeasuredInv'
<1>1. /\ at' = at /\ measured' = measured
      /\ \/ pc' = pc /\ todo' = todo
         \/ pc' \in {"idle", "count", "verify", "trap", "sync", "rename", "destroy"}
  BY DEF RowsEnd, CountScenarios, Verify, Sync, Rename, Fails, Trap, Destroy, Kill, PowerLoss,
         Operator, Lab, Notice, Form, ComputeRoutes, vars, scriptVars
<1>2. CASE pc' = pc /\ todo' = todo
  BY <1>1, <1>2 DEF MeasuredInv
<1>3. CASE pc' \in {"idle", "count", "verify", "trap", "sync", "rename", "destroy"}
  BY <1>1, <1>3 DEF MeasuredInv
<1>4. QED
  BY <1>1, <1>2, <1>3

(* The steps that write no record keep the files.                          *)
LEMMA FilesKeep ==
  ASSUME EarnedInv, [Next]_vars, ~Settled
  PROVE  ObservationInv' /\ FilesInv'
<1> USE DEF EarnedInv
<1>1. CASE Start
  <2>1. observation' \in Seq({})
    BY <1>1 DEF Start
  <2>2. ObservationInv'
    BY <2>1 DEF ObservationInv
  <2>3. FilesInv'
    BY <1>1 DEF Start, FilesInv, NoDraft
  <2>4. QED
    BY <2>2, <2>3
<1>2. CASE Verify
  <2>1. /\ pc = "verify" /\ pc' = "sync" /\ observation' = observation /\ evidence' = evidence
        /\ draft' = [says |-> "passed", synced |-> FALSE] /\ Covers(observation)
    BY <1>2, GoodConforms DEF Verify
  <2>2. DOMAIN draft' = {"says", "synced"} /\ draft'.says = "passed"
    BY <2>1
  <2>3. QED
    BY <2>1, <2>2 DEF ObservationInv, FilesInv
<1>3. CASE Sync
  BY <1>3 DEF Sync, ObservationInv, FilesInv
<1>4. CASE Rename
  BY <1>4 DEF Rename, ObservationInv, FilesInv
<1>5. CASE PowerLoss
  BY <1>5 DEF PowerLoss, ObservationInv, FilesInv
<1>6. CASE Operator
  BY <1>6 DEF Operator, ObservationInv, FilesInv
<1>7. CASE ~(Start \/ Verify \/ Sync \/ Rename \/ PowerLoss \/ Operator)
  <2>1. /\ UNCHANGED fileVars
        /\ pc' \notin {"sync", "rename"} \/ pc' = pc
        /\ pc \in {"idle", "trap", "destroy"} => pc' \in {"idle", "trap", "destroy"}
    <3>1. CASE \/ CheckLab \/ Deploy \/ ListAdjacencies \/ MeshIsFull \/ NextRow \/ RowsEnd
               \/ ReachedUnderFault \/ CountScenarios \/ Fails \/ Trap \/ Destroy \/ Kill
      BY <3>1 DEF CheckLab, Deploy, ListAdjacencies, MeshIsFull, NextRow, RowsEnd,
                  ReachedUnderFault, CountScenarios, Fails, Trap, Destroy, Kill
    <3>2. CASE \/ \E n \in todo : WaitNeighborCount(n) \/ WaitBaseline(n) \/ WaitFaultMetric(n)
               \/ \E e \in ends : Inject(e) \/ RestoreEnd(e)
      BY <3>2 DEF WaitNeighborCount, WaitBaseline, WaitFaultMetric, Inject, RestoreEnd
    <3>3. CASE Lab \/ UNCHANGED vars
      BY <3>3 DEF Lab, Notice, Form, ComputeRoutes, vars, scriptVars
    <3>4. QED
      BY <1>7, <3>1, <3>2, <3>3 DEF Next, Script
  <2>2. QED
    BY <2>1 DEF fileVars, ObservationInv, FilesInv
<1>8. QED
  BY <1>1, <1>2, <1>3, <1>4, <1>5, <1>6, <1>7

LEMMA EarnedInvariance == Spec => []EarnedInv
<1>1. ASSUME EarnedInv, NetInv, [Next]_vars PROVE EarnedInv'
  <2>1. CASE Settled
    BY <1>1, <2>1, SettlingKeeps
  <2>2. CASE ~Settled
    <3>1. MeasuredInv'
      BY <1>1, <2>2, MeasuringKeeps, MovingKeeps, RestKeepsMeasured
         DEF EarnedInv, NetInv, Next, Script
    <3>2. QED
      BY <1>1, <2>2, <3>1, FilesKeep DEF EarnedInv
  <2>3. QED
    BY <2>1, <2>2
<1>2. QED
  BY <1>1, EarnedInit, NetInvariance, PTL DEF Spec

(* The evidence of the matrix, for every design: it says "passed" because  *)
(* each failure's metric was read from the routes with exactly that        *)
(* failure injected, and the file is renamed only after it was synced.     *)
THEOREM EvidenceWasEarned == Spec => []EvidenceIsEarned
<1>1. EarnedInv => EvidenceIsEarned
  <2> SUFFICES ASSUME EarnedInv, evidence # "absent" PROVE EvidenceIsEarned
    BY DEF EvidenceIsEarned
  <2>1. evidence = "passed" /\ Covers(observation)
    BY DEF EarnedInv, FilesInv
  <2>2. PICK S : observation \in Seq(S) /\ \A r \in S : \E j \in DOMAIN Plan : Good(r, j)
    BY DEF EarnedInv, ObservationInv
  <2>3. ASSUME NEW fault \in LinkFailures(Design) \cup NodeFailures(Design)
        PROVE  \E i \in DOMAIN observation :
                 /\ observation[i].id = fault /\ observation[i].cut = Injections(fault)
                 /\ \A a \in Accesses(Design) :
                      observation[i].fault[a] = CostWithout(a, fault.links, fault.nodes)
    <3>1. PICK k \in DOMAIN Plan : Plan[k].id = fault
      BY <2>3, PlanListsFailures
    <3>2. PICK i \in DOMAIN observation : observation[i].id = fault
      <4>1. Plan[k] \in ToSet(Plan)
        BY DEF ToSet
      <4>2. fault \in {r.id : r \in ToSet(observation)}
        BY <2>1, <3>1, <4>1 DEF Covers
      <4>3. QED
        BY <4>2 DEF ToSet
    <3>3. PICK j \in DOMAIN Plan : Good(observation[i], j)
      BY <2>2, <3>2
    <3>4. /\ Plan[j].id = fault /\ observation[i].cut = Plan[j].injections
          /\ observation[i].fault = Plan[j].metric
      BY <3>2, <3>3 DEF Good
    <3>5. /\ observation[i].cut = Injections(fault)
          /\ observation[i].fault = [a \in Accesses(Design) |->
                                     CostWithout(a, fault.links, fault.nodes)]
      BY <3>4, PlanIsOfFailures
    <3>6. \A a \in Accesses(Design) :
            observation[i].fault[a] = CostWithout(a, fault.links, fault.nodes)
      BY <3>5
    <3>7. QED
      BY <3>2, <3>5, <3>6
  <2>4. QED
    BY <2>1, <2>3 DEF EvidenceIsEarned
<1>2. QED
  BY <1>1, EarnedInvariance, PTL
-----------------------------------------------------------------------------
(* A set of walks that end at nodes and cost natural numbers.              *)
WalksOver(q) == SUBSET (q.nodes \X Nat)

ProperQuery(q) ==
  /\ IsFiniteSet(q.nodes) /\ q.source \in q.nodes
  /\ \A l \in q.links : {l.a, l.b} \subseteq q.nodes /\ l.cost \in Nat

LEMMA LongerStays ==
  ASSUME NEW q, ProperQuery(q), NEW ws \in WalksOver(q)
  PROVE  Longer(q, ws) \in WalksOver(q)
<1> DEFINE pairs == {wl \in ws \X Left(q) : wl[1][1] \in {wl[2].a, wl[2].b}}
           farther(wl) == {<<n, wl[1][2] + wl[2].cost>> : n \in {wl[2].a, wl[2].b} \ {wl[1][1]}}
<1>1. ASSUME NEW wl \in pairs PROVE farther(wl) \subseteq q.nodes \X Nat
  <2>1. wl[1] \in q.nodes \X Nat /\ wl[2] \in q.links
    BY DEF WalksOver, Left
  <2>2. wl[1][2] \in Nat /\ wl[2].cost \in Nat /\ {wl[2].a, wl[2].b} \subseteq q.nodes
    BY <2>1 DEF ProperQuery
  <2>3. wl[1][2] + wl[2].cost \in Nat
    BY <2>2
  <2>4. QED
    BY <2>2, <2>3
<1> HIDE DEF farther
<1>2. UNION {farther(wl) : wl \in pairs} \subseteq q.nodes \X Nat
  BY <1>1
<1>3. Longer(q, ws) = ws \cup UNION {farther(wl) : wl \in pairs}
  BY Zenon DEF Longer, farther
<1>4. QED
  BY <1>2, <1>3 DEF WalksOver

(* All walks of a query.                                                   *)
LEMMA WalksAreProper ==
  ASSUME NEW q, ProperQuery(q)
  PROVE  Walks(q)[Cardinality(q.nodes)] \in WalksOver(q)
<1> DEFINE N == Cardinality(q.nodes)
           T == WalksOver(q)
           base == {<<n, 0>> : n \in {q.source} \ q.cutNodes}
           step == [k \in Nat |-> [ws \in T |-> Longer(q, ws)]]
           Is(g) == g = [k \in 0..N |-> IF k = 0 THEN base ELSE Longer(q, g[k - 1])]
<1>1. N \in Nat
  BY FS_CardinalityType DEF ProperQuery
<1>2. base \in T
  BY DEF WalksOver, ProperQuery
<1>3. step \in StepsIn(T)
  BY LongerStays DEF StepsIn
<1> HIDE DEF N, base
<1>4. PICK g \in [0..N -> T] : Recursion(g, N, base, step)
  <2> HIDE DEF step, T
  <2>1. QED
    BY <1>1, <1>2, <1>3, RecursionExists
<1>5. ASSUME NEW k \in 0..N
      PROVE  g[k] = IF k = 0 THEN base ELSE Longer(q, g[k - 1])
  <2>1. CASE k # 0
    <3>1. k \in 1..N /\ k \in Nat /\ k - 1 \in 0..N
      BY <1>1, <2>1
    <3>2. step[k][g[k - 1]] = Longer(q, g[k - 1])
      BY <3>1
    <3>3. QED
      BY <1>4, <2>1, <3>1, <3>2 DEF Recursion
  <2>2. QED
    BY <1>4, <2>1 DEF Recursion
<1>6. Is(g)
  <2>1. g = [k \in 0..N |-> g[k]]
    OBVIOUS
  <2>2. QED
    BY <1>5, <2>1
<1> DEFINE W == Walks(q)
<1>7. W = CHOOSE f : Is(f)
  BY DEF Walks, N, base
<1> HIDE DEF W
<1>8. Is(W)
  <2> HIDE DEF Is
  <2>1. QED
    BY <1>6, <1>7
<1> DEFINE ok == {k \in 0..N : W[k] \in T}
<1>9. 0..N \subseteq ok
  <2>1. 0 \in ok
    BY <1>1, <1>2, <1>8
  <2>2. ASSUME NEW k \in 0..N, k < N, k \in ok PROVE k + 1 \in ok
    <3>1. k + 1 \in 0..N /\ k + 1 # 0 /\ (k + 1) - 1 = k
      BY <1>1, <2>2
    <3>2. W[k + 1] = Longer(q, W[k])
      BY <1>8, <3>1
    <3>3. QED
      BY <2>2, <3>1, <3>2, LongerStays
  <2> HIDE DEF ok
  <2>3. QED
    BY <1>1, <2>1, <2>2, UpToInduction
<1>10. QED
  BY <1>1, <1>9 DEF N, W

(* What the plan expects of an access node is a metric, or no path.        *)
LEMMA CostsAreNatural ==
  ASSUME NEW a \in Accesses(Design), NEW links, NEW nodes
  PROVE  CostWithout(a, links, nodes) \in Nat \cup {NoPath}
<1> DEFINE q == [nodes |-> Nodes(Design), links |-> Design.links, source |-> a,
                 targets |-> Services(Design), cutLinks |-> links, cutNodes |-> nodes]
<1>1. ProperQuery(q)
  BY DesignAssumption DEF ProperQuery, Accesses, WithRole
<1>2. CostWithout(a, links, nodes) = LeastCost(q)
  BY DEF CostWithout
<1> HIDE DEF q
<1>3. Walks(q)[Cardinality(q.nodes)] \in WalksOver(q)
  BY <1>1, WalksAreProper
<1> DEFINE costs == {w[2] : w \in {w \in Walks(q)[Cardinality(q.nodes)] :
                                     w[1] \in q.targets \cap q.nodes}}
<1>4. LeastCost(q) = IF costs = {} THEN NoPath ELSE Min(costs)
  BY DEF LeastCost
<1>5. costs \in SUBSET Nat
  BY <1>3 DEF WalksOver
<1> HIDE DEF costs
<1>6. costs # {} => Min(costs) \in Nat
  BY <1>5, LeastExists DEF Min
<1>7. QED
  BY <1>2, <1>4, <1>6

LEMMA InjectionsAreEnds == \A fault : Injections(fault) \subseteq Ends
BY DEF Injections, EndsOf, EndsAt

LEMMA RoutesAreTyped ==
  /\ Baseline \in [Accesses(Design) -> Nat \cup {NoPath}]
  /\ \A a \in Accesses(Design), left \in SUBSET {l.id : l \in Design.links} :
       Cost[a][left] \in Nat \cup {NoPath}
  /\ \A j \in DOMAIN Plan : /\ Plan[j].metric \in [Accesses(Design) -> Nat \cup {NoPath}]
                            /\ Plan[j].injections \subseteq Ends
<1>1. Baseline \in [Accesses(Design) -> Nat \cup {NoPath}]
  BY CostsAreNatural DEF Baseline
<1>2. ASSUME NEW a \in Accesses(Design), NEW left \in SUBSET {l.id : l \in Design.links}
      PROVE  Cost[a][left] \in Nat \cup {NoPath}
  BY CostsAreNatural DEF Cost
<1>3. ASSUME NEW j \in DOMAIN Plan
      PROVE  /\ Plan[j].metric \in [Accesses(Design) -> Nat \cup {NoPath}]
             /\ Plan[j].injections \subseteq Ends
  <2>1. /\ Plan[j].injections = Injections(Plan[j].id)
        /\ Plan[j].metric = [a \in Accesses(Design) |->
                               CostWithout(a, Plan[j].id.links, Plan[j].id.nodes)]
    BY PlanIsOfFailures
  <2>2. ASSUME NEW a \in Accesses(Design)
        PROVE  CostWithout(a, Plan[j].id.links, Plan[j].id.nodes) \in Nat \cup {NoPath}
    BY CostsAreNatural
  <2>3. Plan[j].metric \in [Accesses(Design) -> Nat \cup {NoPath}]
    BY <2>1, <2>2
  <2>4. QED
    BY <2>1, <2>3, InjectionsAreEnds
<1>4. QED
  BY <1>1, <1>2, <1>3
(* The types of all but the records.                                       *)
ScriptTypes ==
  /\ pc \in {"idle", "check", "deploy", "list", "mesh", "settle", "rows", "inject",
             "fault", "restore", "count", "verify", "sync", "rename", "trap", "destroy"}
  /\ todo \subseteq Nodes(Design) /\ ends \subseteq Ends
  /\ at \in 0..Len(Plan)
  /\ at # 0 => Runnable(at)
  /\ {deployed, unlisted, overlooked, artifacts} \subseteq BOOLEAN
FileTypes ==
  /\ evidence \in {"absent", "torn", "passed", "failed"}
  /\ draft \in [says : {"nothing", "passed", "failed"}, synced : BOOLEAN]
LabTypes ==
  /\ owner \in {"none", "run", "other"}
  /\ down \subseteq Ends /\ seen \subseteq Ends \ down
  /\ rib \in [Accesses(Design) -> Nat \cup {NoPath}]

RecordOK(r) ==
  /\ r.id \in {s.id : s \in ToSet(Plan)}
  /\ r.fault \in [Accesses(Design) -> Nat] /\ r.restored \in [Accesses(Design) -> Nat]
  /\ r.cut \subseteq Ends
RecordTypes == \E S : observation \in Seq(S) /\ \A r \in S : RecordOK(r)

TypesInv == ScriptTypes /\ FileTypes /\ LabTypes /\ RecordTypes

LEMMA TypesInit == Init => TypesInv
<1> SUFFICES ASSUME Init PROVE TypesInv
  OBVIOUS
<1>1. ScriptTypes
  <2>1. 0 \in 0..Len(Plan)
    BY PlanListsFailures
  <2>2. QED
    BY <2>1 DEF Init, ScriptTypes
<1>2. FileTypes
  BY DEF Init, FileTypes, NoDraft
<1>3. LabTypes
  BY DEF Init, LabTypes, NoRoutes
<1>4. RecordTypes
  <2>1. observation \in Seq({})
    BY DEF Init
  <2>2. QED
    BY <2>1 DEF RecordTypes
<1>5. QED
  BY <1>1, <1>2, <1>3, <1>4 DEF TypesInv

LEMMA ScriptTypesKeep ==
  ASSUME ScriptTypes, MeasuredInv, [Next]_vars
  PROVE  ScriptTypes'
<1> USE DEF ScriptTypes, Runnable
<1>1. CASE Start
  <2>1. 0 \in 0..Len(Plan)
    BY PlanListsFailures
  <2>2. QED
    BY <1>1, <2>1 DEF Start
<1>2. CASE NextRow
  <2>1. /\ at < Len(Plan) /\ Runnable(at + 1) /\ at' = at + 1 /\ pc' = "inject"
        /\ ends' = Plan[at + 1].injections
        /\ UNCHANGED <<todo, deployed, unlisted, overlooked, artifacts>>
    BY <1>2 DEF NextRow
  <2>2. at + 1 \in DOMAIN Plan /\ at + 1 \in 0..Len(Plan)
    BY <2>1, PlanListsFailures
  <2>3. QED
    BY <2>1, <2>2, RoutesAreTyped
<1>3. CASE ReachedUnderFault
  <2>1. pc = "fault" /\ pc' = "restore" /\ ends' = Plan[at].injections
        /\ UNCHANGED <<todo, at, deployed, unlisted, overlooked, artifacts>>
    BY <1>3 DEF ReachedUnderFault
  <2>2. at \in DOMAIN Plan
    BY <2>1 DEF MeasuredInv
  <2>3. QED
    BY <2>1, <2>2, RoutesAreTyped
<1>4. CASE MeshIsFull
  BY <1>4 DEF MeshIsFull, Accesses, WithRole
<1>5. CASE CheckLab \/ Deploy \/ ListAdjacencies \/ Settled \/ RowsEnd \/ CountScenarios \/ Verify
  BY <1>5 DEF CheckLab, Deploy, ListAdjacencies, Settled, RowsEnd, CountScenarios, Verify
<1>6. CASE Sync \/ Rename \/ Fails \/ Trap \/ Destroy \/ Kill \/ PowerLoss \/ Operator
  BY <1>6 DEF Sync, Rename, Fails, Trap, Destroy, Kill, PowerLoss, Operator
<1>7. ASSUME NEW n \in todo, WaitNeighborCount(n) \/ WaitBaseline(n) \/ WaitFaultMetric(n)
      PROVE  ScriptTypes'
  BY <1>7 DEF WaitNeighborCount, WaitBaseline, WaitFaultMetric
<1>8. ASSUME NEW e \in ends, Inject(e) \/ RestoreEnd(e) PROVE ScriptTypes'
  <2>1. Accesses(Design) \subseteq Nodes(Design)
    BY DEF Accesses, WithRole
  <2>2. CASE Inject(e)
    BY <1>8, <2>1, <2>2 DEF Inject
  <2>3. CASE RestoreEnd(e)
    BY <1>8, <2>3 DEF RestoreEnd
  <2>4. QED
    BY <1>8, <2>2, <2>3
<1>9. CASE Lab \/ UNCHANGED vars
  <2>1. UNCHANGED scriptVars
    BY <1>9 DEF Lab, Notice, Form, ComputeRoutes, vars
  <2>2. QED
    BY <2>1 DEF scriptVars
<1>10. QED
  BY <1>1, <1>2, <1>3, <1>4, <1>5, <1>6, <1>7, <1>8, <1>9 DEF Next, Script

LEMMA FileTypesKeep ==
  ASSUME FileTypes, FilesInv, [Next]_vars
  PROVE  FileTypes'
<1> USE DEF FileTypes
<1>1. CASE Start
  BY <1>1 DEF Start, NoDraft
<1>2. CASE Verify
  BY <1>2 DEF Verify
<1>3. CASE Sync
  BY <1>3 DEF Sync
<1>4. CASE Rename
  BY <1>4 DEF Rename, FilesInv
<1>5. CASE PowerLoss
  BY <1>5 DEF PowerLoss
<1>6. CASE Operator
  BY <1>6 DEF Operator
<1>7. CASE ~(Start \/ Verify \/ Sync \/ Rename \/ PowerLoss \/ Operator)
  <2>1. evidence' = evidence /\ draft' = draft
    BY <1>7 DEF Next, Script, CheckLab, Deploy, ListAdjacencies, MeshIsFull, Settled, NextRow,
                RowsEnd, ReachedUnderFault, CountScenarios, Fails, Trap, Destroy, Kill,
                WaitNeighborCount, WaitBaseline, WaitFaultMetric, Inject, RestoreEnd, Lab, Notice,
                Form, ComputeRoutes, vars, fileVars
  <2>2. QED
    BY <2>1
<1>8. QED
  BY <1>1, <1>2, <1>3, <1>4, <1>5, <1>6, <1>7

LEMMA LabTypesKeep ==
  ASSUME LabTypes, ScriptTypes, [Next]_vars
  PROVE  LabTypes'
<1>1. CASE Deploy
  BY <1>1 DEF Deploy, LabTypes, NoRoutes
<1>2. ASSUME NEW e \in ends, Inject(e) \/ RestoreEnd(e) PROVE LabTypes'
  <2>1. /\ owner' = owner /\ rib' = rib /\ e \in Ends
        /\ \/ down' = down \cup {e} /\ seen' = seen \ {e}
           \/ down' = down \ {e} /\ seen' = seen
    BY <1>2 DEF Inject, RestoreEnd, ScriptTypes
  <2>2. QED
    BY <2>1 DEF LabTypes
<1>3. ASSUME NEW l \in Design.links, Form(l) PROVE LabTypes'
  <2>1. EndsOf(l.id) \subseteq Ends \ down
    BY <1>3, LinksHaveEnds DEF Form
  <2>2. QED
    BY <1>3, <2>1 DEF Form, LabTypes
<1>4. ASSUME NEW a \in Accesses(Design), ComputeRoutes(a) PROVE LabTypes'
  <2> DEFINE left == {id \in {e[2] : e \in seen} : EndsOf(id) \subseteq seen}
  <2>1. left \in SUBSET {l.id : l \in Design.links}
    <3>1. ASSUME NEW e \in seen PROVE e[2] \in {l.id : l \in Design.links}
      BY LinksHaveEnds DEF LabTypes
    <3>2. QED
      BY <3>1
  <2>2. rib' = [rib EXCEPT ![a] = Cost[a][left]] /\ UNCHANGED <<owner, down, seen>>
    BY <1>4 DEF ComputeRoutes
  <2> HIDE DEF left
  <2>3. Cost[a][left] \in Nat \cup {NoPath}
    BY <2>1, RoutesAreTyped
  <2>4. QED
    BY <2>2, <2>3 DEF LabTypes
<1>5. CASE \/ Start \/ CheckLab \/ ListAdjacencies \/ MeshIsFull \/ Settled \/ NextRow \/ RowsEnd
           \/ ReachedUnderFault \/ CountScenarios \/ Verify \/ Sync \/ Rename \/ Fails
           \/ (\E n \in todo : WaitNeighborCount(n) \/ WaitBaseline(n) \/ WaitFaultMetric(n))
  <2>1. UNCHANGED <<owner, down, seen, rib>>
    BY <1>5 DEF Start, CheckLab, ListAdjacencies, MeshIsFull, Settled, NextRow, RowsEnd,
                ReachedUnderFault, CountScenarios, Verify, Sync, Rename, Fails, WaitNeighborCount,
                WaitBaseline, WaitFaultMetric, netVars
  <2>2. QED
    BY <2>1 DEF LabTypes
<1>6. CASE Trap \/ Destroy \/ Kill \/ PowerLoss \/ Operator
  <2>1. UNCHANGED <<seen, rib>> /\ down' \in {{}, down} /\ owner' \in {"none", "run", "other"}
    BY <1>6 DEF Trap, Destroy, Kill, PowerLoss, Operator, netVars, LabTypes
  <2>2. QED
    BY <2>1 DEF LabTypes
<1>7. ASSUME NEW e, Notice(e) PROVE LabTypes'
  BY <1>7 DEF Notice, LabTypes
<1>8. CASE UNCHANGED vars
  BY <1>8 DEF vars, netVars, LabTypes
<1>9. QED
  BY <1>1, <1>2, <1>3, <1>4, <1>5, <1>6, <1>7, <1>8 DEF Next, Script, Lab

(* A record is made of metrics that were read: the plan's, which are no    *)
(* paths for none of the rows that are run, and the baseline's, because    *)
(* both clients are answered with everything up.                           *)
LEMMA RecordTypesKeep ==
  ASSUME RecordTypes, ScriptTypes, EarnedInv, NetInv, [Next]_vars
  PROVE  RecordTypes'
<1>1. CASE Settled
  <2>1. /\ pc = "settle" /\ todo = {} /\ \A a \in Accesses(Design) : Reachable(a)
        /\ observation' = IF at = 0 THEN observation
                          ELSE Append(observation, Put(measured, "id", Plan[at].id))
    BY <1>1 DEF Settled
  <2>2. CASE at = 0
    BY <2>1, <2>2 DEF RecordTypes
  <2>3. CASE at # 0
    <3> DEFINE r == Put(measured, "id", Plan[at].id)
    <3>1. r.id = Plan[at].id /\ r.fault = measured.fault /\ r.cut = measured.cut
          /\ r.restored = measured.restored
      BY DEF Put, EarnedInv, MeasuredInv
    <3>2. /\ at \in DOMAIN Plan /\ measured.restored = Baseline
          /\ measured.fault = Plan[at].metric /\ measured.cut = Plan[at].injections
      BY <2>1, <2>3 DEF EarnedInv, MeasuredInv, Baseline
    <3> HIDE DEF r
    <3>3. Plan[at].metric \in [Accesses(Design) -> Nat] /\ Plan[at].injections \subseteq Ends
      BY <2>3, <3>2, RoutesAreTyped DEF ScriptTypes, Runnable
    <3>4. Baseline \in [Accesses(Design) -> Nat]
      <4>1. down = {}
        BY <2>1 DEF NetInv, DownInv
      <4>2. ASSUME NEW a \in Accesses(Design) PROVE Baseline[a] # NoPath
        <5> DEFINE ids == {l.id : l \in Design.links}
        <5>1. ids \ {e[2] : e \in down} = ids /\ ids \ ids = {}
          BY <4>1
        <5>2. Cost[a][ids] # NoPath
          BY <2>1, <5>1 DEF Reachable
        <5>3. Cost[a][ids] = CostWithout(a, ids \ ids, {})
          BY DEF Cost
        <5>4. QED
          BY <5>1, <5>2, <5>3 DEF Baseline
      <4>3. QED
        BY <4>2, RoutesAreTyped
    <3>5. Plan[at].id \in {s.id : s \in ToSet(Plan)}
      BY <3>2 DEF ToSet
    <3>6. RecordOK(r)
      BY <3>1, <3>2, <3>3, <3>4, <3>5 DEF RecordOK
    <3>7. PICK S : observation \in Seq(S) /\ \A x \in S : RecordOK(x)
      BY DEF RecordTypes
    <3> DEFINE T == S \cup {r}
    <3>8. observation' \in Seq(T) /\ \A x \in T : RecordOK(x)
      <4>1. observation \in Seq(T)
        BY <3>7
      <4>2. \A x \in T : RecordOK(x)
        BY <3>6, <3>7
      <4>3. QED
        BY <2>1, <2>3, <4>1, <4>2 DEF r
    <3> HIDE DEF T
    <3>9. QED
      BY <3>8 DEF RecordTypes, RecordOK
  <2>4. QED
    BY <2>2, <2>3
<1>2. CASE Start
  <2>1. observation' \in Seq({})
    BY <1>2 DEF Start
  <2>2. QED
    BY <2>1 DEF RecordTypes
<1>3. CASE ~(Settled \/ Start)
  <2>1. observation' = observation
    BY <1>3 DEF Next, Script, CheckLab, Deploy, ListAdjacencies, MeshIsFull, NextRow, RowsEnd,
                ReachedUnderFault, CountScenarios, Verify, Sync, Rename, Fails, Trap, Destroy, Kill,
                PowerLoss, Operator, WaitNeighborCount, WaitBaseline, WaitFaultMetric, Inject,
                RestoreEnd, Lab, Notice, Form, ComputeRoutes, vars, fileVars
  <2>2. QED
    BY <2>1 DEF RecordTypes
<1>4. QED
  BY <1>1, <1>2, <1>3

(* Whatever the design, the lab and the operator do, observation.json has  *)
(* numbers for metrics, of failures of the plan, and an end that is set    *)
(* down sees no neighbour.                                                 *)
THEOREM RuntimeN1Types == Spec => []TypeOK
<1>1. ASSUME TypesInv, EarnedInv, NetInv, [Next]_vars PROVE TypesInv'
  BY <1>1, ScriptTypesKeep, FileTypesKeep, LabTypesKeep, RecordTypesKeep DEF TypesInv, EarnedInv
<1>2. TypesInv => TypeOK
  <2> SUFFICES ASSUME TypesInv PROVE TypeOK
    OBVIOUS
  <2>1. \A r \in ToSet(observation) : RecordOK(r)
    <3>1. PICK S : observation \in Seq(S) /\ \A r \in S : RecordOK(r)
      BY DEF TypesInv, RecordTypes
    <3>2. QED
      BY <3>1 DEF ToSet
  <2>2. QED
    BY <2>1 DEF TypesInv, ScriptTypes, FileTypes, LabTypes, RecordOK, TypeOK
<1>3. QED
  BY <1>1, <1>2, TypesInit, EarnedInvariance, NetInvariance, PTL DEF Spec
===============================================================================
