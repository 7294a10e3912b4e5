------------------------ MODULE TelemetryIngestProofs ------------------------
(***************************************************************************)
(* Proofs about TelemetryIngest, for every set of snapshots, requests and  *)
(* fingerprints, every capacity and every skew.                            *)
(***************************************************************************)
EXTENDS TelemetryIngest, FiniteSetTheorems, TLAPS

(* An id names one snapshot of S.                                          *)
UniqueIds(S) == \A s, t \in S : s.id = t.id => s = t

(* The sort key orders snapshots with different ids strictly and totally.  *)
LEMMA KeyOrder ==
  ASSUME NEW s \in Snapshots, NEW t \in Snapshots, NEW u \in Snapshots
  PROVE  /\ ~KeyLess(s, s)
         /\ KeyLess(s, t) => ~KeyLess(t, s)
         /\ KeyLess(s, t) /\ KeyLess(t, u) => KeyLess(s, u)
         /\ s.id # t.id => KeyLess(s, t) \/ KeyLess(t, s)
         /\ KeyLess(s, t) /\ ~KeyLess(u, t) => KeyLess(s, u)
<1>1. /\ s.id \in Nat /\ s.at \in Nat
      /\ t.id \in Nat /\ t.at \in Nat
      /\ u.id \in Nat /\ u.at \in Nat
  BY SnapshotsAssumption
<1>2. QED
  BY <1>1 DEF KeyLess

(* Every nonempty finite set of snapshots has a newest and an oldest one:  *)
(* the snapshot whose set of newer (older) snapshots is minimal.           *)
LEMMA NewestExists ==
  ASSUME NEW S \in SUBSET Snapshots, IsFiniteSet(S), S # {}
  PROVE  \E s \in S : \A t \in S : ~KeyLess(s, t)
<1> DEFINE Above(s) == {t \in S : KeyLess(s, t)}
           T == {Above(s) : s \in S}
           R == StrictSubsetOrdering(S)
<1>1. T \subseteq FiniteSubsetsOf(S)
  BY FS_Subset DEF FiniteSubsetsOf
<1>2. IsWellFoundedOn(R, FiniteSubsetsOf(S))
  BY FS_StrictSubsetOrderingWellFounded
<1>3. PICK A \in T : \A B \in T : <<B, A>> \notin R
  <2> HIDE DEF T, R
  <2>1. T # {}
    BY DEF T
  <2>2. QED
    BY <1>1, <1>2, <2>1, WFMin
<1>4. PICK s \in S : A = Above(s)
  BY <1>3
<1>5. ASSUME NEW t \in S, KeyLess(s, t) PROVE FALSE
  <2>1. Above(t) \subseteq Above(s)
    BY <1>5, KeyOrder
  <2>2. t \in Above(s) /\ t \notin Above(t)
    BY <1>5, KeyOrder
  <2>3. <<Above(t), Above(s)>> \in R
    BY <2>1, <2>2 DEF StrictSubsetOrdering
  <2>4. QED
    BY <1>3, <1>4, <2>3
<1>6. QED
  BY <1>5

(* The mirror image of NewestExists, for the snapshot a full store drops.  *)
LEMMA OldestExists ==
  ASSUME NEW S \in SUBSET Snapshots, IsFiniteSet(S), S # {}
  PROVE  \E s \in S : \A t \in S : ~KeyLess(t, s)
<1> DEFINE Below(s) == {t \in S : KeyLess(t, s)}
           T == {Below(s) : s \in S}
           R == StrictSubsetOrdering(S)
<1>1. T \subseteq FiniteSubsetsOf(S)
  BY FS_Subset DEF FiniteSubsetsOf
<1>2. IsWellFoundedOn(R, FiniteSubsetsOf(S))
  BY FS_StrictSubsetOrderingWellFounded
<1>3. PICK A \in T : \A B \in T : <<B, A>> \notin R
  <2> HIDE DEF T, R
  <2>1. T # {}
    BY DEF T
  <2>2. QED
    BY <1>1, <1>2, <2>1, WFMin
<1>4. PICK s \in S : A = Below(s)
  BY <1>3
<1>5. ASSUME NEW t \in S, KeyLess(t, s) PROVE FALSE
  <2>1. Below(t) \subseteq Below(s)
    BY <1>5, KeyOrder
  <2>2. t \in Below(s) /\ t \notin Below(t)
    BY <1>5, KeyOrder
  <2>3. <<Below(t), Below(s)>> \in R
    BY <2>1, <2>2 DEF StrictSubsetOrdering
  <2>4. QED
    BY <1>3, <1>4, <2>3
<1>6. QED
  BY <1>5

(* The cut leaves a store that fits its capacity as it is.                 *)
LEMMA NewestOfSmall ==
  ASSUME NEW S \in SUBSET Snapshots, IsFiniteSet(S), Cardinality(S) <= Capacity
  PROVE  Newest(S) = S
<1> SUFFICES ASSUME NEW s \in S
             PROVE  Cardinality({t \in S : KeyLess(s, t)}) < Capacity
  BY DEF Newest
<1>1. {t \in S : KeyLess(s, t)} \subseteq S \ {s}
  BY KeyOrder
<1>2. IsFiniteSet(S \ {s}) /\ Cardinality(S \ {s}) = Cardinality(S) - 1
  BY FS_RemoveElement
<1>3. Cardinality({t \in S : KeyLess(s, t)}) <= Cardinality(S) - 1
  BY <1>1, <1>2, FS_Subset
<1>4. Cardinality(S) \in Nat /\ Cardinality({t \in S : KeyLess(s, t)}) \in Nat
  BY <1>1, <1>2, FS_CardinalityType, FS_Subset
<1>5. QED
  BY <1>3, <1>4, CapacityAssumption

(* What save does to a repository: with room left it adds the snapshot,    *)
(* and a full one swaps exactly its oldest snapshot for it.                *)
Swaps(S, s, m) ==
  /\ Newest(S \cup {s}) = (S \cup {s}) \ {m}
  /\ \A t \in (S \cup {s}) \ {m} : KeyLess(m, t)

(* The effect of a creating save on the set of stored snapshots.           *)
LEMMA SaveEffect ==
  ASSUME NEW S \in SUBSET Snapshots, IsFiniteSet(S), Cardinality(S) <= Capacity,
         UniqueIds(S), NEW s \in Snapshots, Creates(S, s)
  PROVE  \/ Cardinality(S) < Capacity /\ Newest(S \cup {s}) = S \cup {s}
         \/ Cardinality(S) = Capacity /\ \E m \in S : Swaps(S, s, m)
<1> DEFINE U == S \cup {s}
<1>1. s \notin S /\ UniqueIds(U) /\ U \in SUBSET Snapshots
  BY DEF Creates, HasId, UniqueIds
<1>2. /\ Cardinality(S) \in Nat
      /\ IsFiniteSet(U)
      /\ Cardinality(U) = Cardinality(S) + 1
  BY <1>1, FS_CardinalityType, FS_AddElement
<1>3. CASE Cardinality(S) < Capacity
  <2>1. Cardinality(U) <= Capacity
    BY <1>2, <1>3, CapacityAssumption
  <2>2. QED
    BY <1>1, <1>2, <1>3, <2>1, NewestOfSmall
<1>4. CASE Cardinality(S) = Capacity
  <2>1. PICK o \in S : KeyLess(o, s)
    BY <1>4, CapacityAssumption DEF Creates, TooOld
  <2>2. PICK m \in U : \A t \in U : ~KeyLess(t, m)
    BY <1>1, <1>2, OldestExists
  <2>3. m \in S
    BY <2>1, <2>2
  <2>4. \A t \in U \ {m} : KeyLess(m, t)
    BY <1>1, <2>2, KeyOrder DEF UniqueIds
  <2>5. m \notin Newest(U)
    <3>1. {t \in U : KeyLess(m, t)} = U \ {m}
      BY <1>1, <2>2, <2>4, KeyOrder
    <3>2. Cardinality(U \ {m}) = Capacity
      <4> HIDE DEF U
      <4>1. Cardinality(U \ {m}) = Cardinality(U) - 1
        BY <1>2, <2>2, FS_RemoveElement
      <4>2. QED
        BY <4>1, <1>2, <1>4, CapacityAssumption
    <3>3. QED
      BY <3>1, <3>2, CapacityAssumption DEF Newest
  <2>6. ASSUME NEW x \in U \ {m} PROVE x \in Newest(U)
    <3> DEFINE A == {t \in U : KeyLess(x, t)}
    <3>1. A \subseteq (U \ {m}) \ {x}
      BY <1>1, <2>2, <2>4, <2>6, KeyOrder
    <3>2. /\ IsFiniteSet((U \ {m}) \ {x})
          /\ Cardinality((U \ {m}) \ {x}) = Capacity - 1
      <4> HIDE DEF U
      <4>1. IsFiniteSet(U \ {m}) /\ Cardinality(U \ {m}) = Cardinality(U) - 1
        BY <1>2, <2>2, FS_RemoveElement
      <4>2. /\ IsFiniteSet((U \ {m}) \ {x})
            /\ Cardinality((U \ {m}) \ {x}) = Cardinality(U \ {m}) - 1
        BY <4>1, <2>6, FS_RemoveElement
      <4>3. QED
        BY <4>1, <4>2, <1>2, <1>4, CapacityAssumption
    <3>3. Cardinality(A) \in Nat /\ Cardinality(A) <= Capacity - 1
      BY <3>1, <3>2, FS_Subset, FS_CardinalityType
    <3>4. QED
      BY <3>3, CapacityAssumption DEF Newest
  <2>7. Newest(U) = U \ {m}
    BY <2>5, <2>6 DEF Newest
  <2>8. QED
    BY <1>4, <2>3, <2>4, <2>7 DEF Swaps
<1>5. Cardinality(S) < Capacity \/ Cardinality(S) = Capacity
  BY <1>2, CapacityAssumption
<1>6. QED
  BY <1>3, <1>4, <1>5
-----------------------------------------------------------------------------
(* The inductive invariant.  Beyond the properties themselves it says that *)
(* the store is finite and was filled by save alone, and that a handler    *)
(* past validation carries what validation let through.                    *)
PastValidation(r) == pc[r] \in {"validated", "checked", "notCreated"}

Validated ==
  \A r \in Requests :
    PastValidation(r) => snap[r].fp = binding /\ snap[r].at <= now + MaxSkew

(* What save has just refused is stored, or older than all of a full store.*)
Outrun(s) == Cardinality(store) = Capacity /\ \A t \in store : KeyLess(s, t)

RefusalStands ==
  \A r \in Requests : pc[r] = "notCreated" => snap[r] \in accepted \/ Outrun(snap[r])

StoreInv == IsFiniteSet(store) /\ store \subseteq accepted /\ StoreWellFormed

IndInv ==
  /\ TypeOK
  /\ StoreInv
  /\ NewestRetained
  /\ Validated
  /\ AcknowledgedIsCovered
  /\ RefusalStands
  /\ RetryIsCovered
  /\ NoFuturePoison

(* The empty repository of a first start satisfies the invariant.          *)
LEMMA InitIndInv == Init => IndInv
<1> SUFFICES ASSUME Init PROVE IndInv
  OBVIOUS
<1>1. TypeOK
  BY ClockAssumption DEF Init, TypeOK
<1>2. IsFiniteSet(store) /\ Cardinality(store) = 0
  BY FS_EmptySet DEF Init
<1>3. QED
  BY <1>1, <1>2, CapacityAssumption
     DEF Init, IndInv, StoreInv, StoreWellFormed, NewestRetained, Validated,
         PastValidation, AcknowledgedIsCovered, RefusalStands, RetryIsCovered,
         NoFuturePoison

(* Every handler step keeps the variables in their types.                  *)
LEMMA TypeStep ==
  ASSUME TypeOK, [Next]_vars
  PROVE  TypeOK'
<1> USE DEF TypeOK
<1>1. ASSUME NEW r \in Requests, NEW s \in Snapshots, Receive(r, s) PROVE TypeOK'
  BY <1>1 DEF Receive, Answer, Statuses
<1>2. ASSUME NEW r \in Requests, CheckLatest(r) PROVE TypeOK'
  BY <1>2 DEF CheckLatest, Answer, GoTo, Statuses
<1>3. ASSUME NEW r \in Requests, Save(r) PROVE TypeOK'
  <2>1. store' \subseteq Snapshots /\ accepted' \subseteq Snapshots
    BY <1>3 DEF Save, AfterSave, Newest
  <2>2. \/ Answer(r, 409) \/ Answer(r, 201) \/ GoTo(r, "notCreated")
    BY <1>3 DEF Save
  <2>3. QED
    BY <1>3, <2>1, <2>2 DEF Save, Answer, GoTo, Statuses
<1>4. ASSUME NEW r \in Requests, Locked(r) PROVE TypeOK'
  BY <1>4 DEF Locked, Answer, Statuses
<1>5. ASSUME NEW r \in Requests, Classify(r) PROVE TypeOK'
  BY <1>5 DEF Classify, Answer, Statuses
<1>6. ASSUME NEW fp \in Fingerprints, Restart(fp) PROVE TypeOK'
  BY <1>6 DEF Restart, Newest
<1>7. CASE Tick
  BY <1>7, ClockAssumption DEF Tick
<1>8. CASE UNCHANGED vars
  BY <1>8 DEF vars
<1>9. QED
  BY <1>1, <1>2, <1>3, <1>4, <1>5, <1>6, <1>7, <1>8 DEF Next

(* The steps that leave the repository as it is: all but a creating save   *)
(* and a restart without durable storage.                                  *)
LEMMA StoreSteps ==
  ASSUME IndInv, [Next]_vars
  PROVE  \/ UNCHANGED <<store, accepted>>
         \/ \E r \in Requests : Save(r) /\ Creates(store, snap[r])
         \/ store' = {} /\ accepted' = {} /\ backend # "sqlite" /\ \E fp \in Fingerprints : Restart(fp)
<1>1. ASSUME NEW r \in Requests, Save(r), ~Creates(store, snap[r])
      PROVE  UNCHANGED <<store, accepted>>
  BY <1>1 DEF Save, AfterSave
<1>2. ASSUME NEW fp \in Fingerprints, Restart(fp), backend = "sqlite"
      PROVE  UNCHANGED <<store, accepted>>
  BY <1>2, NewestOfSmall DEF Restart, IndInv, StoreInv, StoreWellFormed, TypeOK
<1>3. QED
  BY <1>1, <1>2
     DEF Next, vars, Receive, CheckLatest, Locked, Classify, Restart, Tick

(* A creating save: with room left it adds, otherwise it swaps out the     *)
(* oldest snapshot.                                                        *)
LEMMA CreatingSave ==
  ASSUME IndInv, NEW r \in Requests, Save(r), Creates(store, snap[r])
  PROVE  /\ snap[r] \in Snapshots /\ snap[r] \notin store
         /\ accepted' = accepted \cup {snap[r]}
         /\ pc'[r] = "done" /\ status'[r] = 201
         /\ \A q \in Requests \ {r} : pc'[q] = pc[q] /\ status'[q] = status[q]
         /\ \/ Cardinality(store) < Capacity /\ store' = store \cup {snap[r]}
            \/ /\ Cardinality(store) = Capacity
               /\ \E m \in store :
                    /\ store' = (store \cup {snap[r]}) \ {m}
                    /\ \A t \in store' : KeyLess(m, t)
<1>1. snap[r] \in Snapshots
  BY DEF IndInv, TypeOK, Save
<1>2. snap[r] \notin store /\ ~Conflicts(store, snap[r])
  BY DEF Creates, HasId, Conflicts
<1>3. Answer(r, 201)
  BY <1>2 DEF Save
<1>4. store' = Newest(store \cup {snap[r]}) /\ accepted' = accepted \cup {snap[r]}
  BY DEF Save, AfterSave
<1>5. \/ Cardinality(store) < Capacity /\ Newest(store \cup {snap[r]}) = store \cup {snap[r]}
      \/ Cardinality(store) = Capacity /\ \E m \in store : Swaps(store, snap[r], m)
  BY <1>1, SaveEffect
     DEF IndInv, TypeOK, StoreInv, StoreWellFormed, UniqueIds
<1>6. QED
  BY <1>1, <1>2, <1>3, <1>4, <1>5 DEF Swaps, Answer, IndInv, TypeOK

(* save and the prune on restart keep the repository well formed.          *)
LEMMA StoreInvStep ==
  ASSUME IndInv, [Next]_vars
  PROVE  StoreInv'
<1>1. CASE UNCHANGED <<store, accepted>>
  BY <1>1 DEF IndInv, StoreInv, StoreWellFormed
<1>2. CASE store' = {} /\ accepted' = {}
  BY <1>2, FS_EmptySet, CapacityAssumption DEF StoreInv, StoreWellFormed
<1>3. ASSUME NEW r \in Requests, Save(r), Creates(store, snap[r])
      PROVE  StoreInv'
  <2> DEFINE U == store \cup {snap[r]}
  <2>1. IsFiniteSet(store) /\ Cardinality(store) \in Nat
    BY FS_CardinalityType DEF IndInv, StoreInv
  <2>2. snap[r] \notin store
    BY <1>3, CreatingSave
  <2>3. IsFiniteSet(U) /\ Cardinality(U) = Cardinality(store) + 1
    BY <2>1, <2>2, FS_AddElement
  <2>4. \A s, t \in U : s.id = t.id => s = t
    BY <1>3 DEF IndInv, StoreInv, StoreWellFormed, Creates, HasId
  <2>5. CASE Cardinality(store) < Capacity /\ store' = U
    BY <1>3, <2>1, <2>3, <2>4, <2>5, CreatingSave, CapacityAssumption
       DEF IndInv, StoreInv, StoreWellFormed
  <2>6. ASSUME Cardinality(store) = Capacity, NEW m \in store, store' = U \ {m}
        PROVE  StoreInv'
    <3> HIDE DEF U
    <3>1. IsFiniteSet(U \ {m}) /\ Cardinality(U \ {m}) <= Capacity
      <4>1. m \in U
        BY DEF U
      <4>2. IsFiniteSet(U \ {m}) /\ Cardinality(U \ {m}) = Cardinality(U) - 1
        BY <4>1, <2>3, FS_RemoveElement
      <4>3. QED
        BY <4>2, <2>3, <2>6, CapacityAssumption
    <3>2. accepted' = accepted \cup {snap[r]} /\ store \subseteq accepted
      BY <1>3, CreatingSave DEF IndInv, StoreInv
    <3>3. store' \subseteq accepted'
      BY <2>6, <3>2 DEF U
    <3>4. QED
      BY <2>4, <2>6, <3>1, <3>3 DEF StoreInv, StoreWellFormed
  <2>7. QED
    BY <1>3, <2>5, <2>6, CreatingSave
<1>4. QED
  BY <1>1, <1>2, <1>3, StoreSteps

(* What save cuts off, and what it refuses to create, stays older than all *)
(* that is kept.                                                           *)
LEMMA NewestRetainedStep ==
  ASSUME IndInv, [Next]_vars
  PROVE  NewestRetained'
<1>1. CASE UNCHANGED <<store, accepted>>
  BY <1>1 DEF IndInv, NewestRetained
<1>2. CASE store' = {} /\ accepted' = {}
  BY <1>2 DEF NewestRetained
<1>3. ASSUME NEW r \in Requests, Save(r), Creates(store, snap[r])
      PROVE  NewestRetained'
  <2> DEFINE s == snap[r]
  <2>1. /\ s \in Snapshots
        /\ store \subseteq Snapshots /\ accepted \subseteq Snapshots
        /\ store \subseteq accepted /\ accepted' = accepted \cup {s}
    BY <1>3, CreatingSave DEF IndInv, TypeOK, StoreInv
  <2>2. CASE Cardinality(store) < Capacity /\ store' = store \cup {s}
    <3>1. accepted \ store = {}
      BY <2>2, CapacityAssumption DEF IndInv, NewestRetained
    <3>2. QED
      BY <2>1, <2>2, <3>1 DEF NewestRetained
  <2>3. ASSUME Cardinality(store) = Capacity,
               NEW m \in store, store' = (store \cup {s}) \ {m},
               \A t \in store' : KeyLess(m, t)
        PROVE  NewestRetained'
    <3>1. Cardinality(store') = Capacity
      <4>1. s \notin store
        BY <1>3, CreatingSave
      <4>2. IsFiniteSet(store \ {m}) /\ Cardinality(store \ {m}) = Capacity - 1
        BY <2>3, FS_RemoveElement DEF IndInv, StoreInv
      <4>3. store' = (store \ {m}) \cup {s} /\ s \notin store \ {m}
        BY <2>3, <4>1
      <4>4. Cardinality((store \ {m}) \cup {s}) = (Capacity - 1) + 1
        BY <4>2, <4>3, FS_AddElement
      <4>5. QED
        BY <4>3, <4>4, CapacityAssumption
    <3>2. ASSUME NEW x \in accepted' \ store', NEW t \in store'
          PROVE  KeyLess(x, t)
      <4>1. CASE x = m
        BY <2>3, <4>1
      <4>2. CASE x # m
        <5>1. x \in accepted \ store
          BY <2>1, <2>3, <3>2, <4>2
        <5>2. KeyLess(x, m)
          BY <5>1 DEF IndInv, NewestRetained
        <5>3. KeyLess(m, t)
          BY <2>3
        <5>4. x \in Snapshots /\ m \in Snapshots /\ t \in Snapshots
          BY <2>1, <2>3, <5>1
        <5>5. QED
          BY <5>2, <5>3, <5>4, KeyOrder
      <4>3. QED
        BY <4>1, <4>2
    <3>3. QED
      BY <3>1, <3>2 DEF NewestRetained
  <2>4. QED
    BY <1>3, <2>2, <2>3, CreatingSave
<1>4. QED
  BY <1>1, <1>2, <1>3, StoreSteps

(* A request past validation keeps the snapshot that was validated.        *)
LEMMA ValidatedStep ==
  ASSUME IndInv, [Next]_vars
  PROVE  Validated'
<1> USE DEF IndInv, TypeOK, Validated, PastValidation
<1>1. ASSUME NEW r \in Requests, NEW s \in Snapshots, Receive(r, s) PROVE Validated'
  BY <1>1 DEF Receive, Answer, ValidateTelemetryIngest
<1>2. ASSUME NEW r \in Requests, CheckLatest(r) PROVE Validated'
  BY <1>2 DEF CheckLatest, Answer, GoTo
<1>3. ASSUME NEW r \in Requests, Save(r) PROVE Validated'
  <2>1. Answer(r, 409) \/ Answer(r, 201) \/ GoTo(r, "notCreated")
    BY <1>3 DEF Save
  <2>2. QED
    BY <1>3, <2>1 DEF Save, Answer, GoTo
<1>4. ASSUME NEW r \in Requests, Locked(r) PROVE Validated'
  BY <1>4 DEF Locked, Answer
<1>5. ASSUME NEW r \in Requests, Classify(r) PROVE Validated'
  BY <1>5 DEF Classify, Answer
<1>6. ASSUME NEW fp \in Fingerprints, Restart(fp) PROVE Validated'
  BY <1>6 DEF Restart
<1>7. CASE Tick
  <2>1. ASSUME NEW r \in Requests, PastValidation(r)
        PROVE  snap[r].fp = binding /\ snap[r].at <= now' + MaxSkew
    <3>1. snap[r] \in Snapshots /\ snap[r].at <= now + MaxSkew /\ snap[r].fp = binding
      BY <2>1
    <3>2. snap[r].at \in Nat /\ now \in Nat /\ now' = now + 1
      BY <1>7, <3>1, SnapshotsAssumption, ClockAssumption DEF Tick
    <3>3. QED
      BY <3>1, <3>2, ClockAssumption
  <2>2. QED
    BY <1>7, <2>1 DEF Tick
<1>8. CASE UNCHANGED vars
  BY <1>8 DEF vars
<1>9. QED
  BY <1>1, <1>2, <1>3, <1>4, <1>5, <1>6, <1>7, <1>8 DEF Next

(* A 201 answered before the step is one answered before it, or the one    *)
(* this creating save answers.                                             *)
LEMMA AcknowledgedStep ==
  ASSUME IndInv, [Next]_vars
  PROVE  AcknowledgedIsCovered'
<1> SUFFICES ASSUME NEW q \in Requests, pc'[q] = "done", status'[q] = 201
             PROVE  \E t \in OfTopology(store', binding') : ~KeyLess(t, snap'[q])
  BY DEF AcknowledgedIsCovered
<1> USE DEF IndInv, TypeOK, OfTopology
<1>1. ASSUME NEW r \in Requests, Save(r), Creates(store, snap[r])
      PROVE  \E t \in OfTopology(store', binding') : ~KeyLess(t, snap'[q])
  <2>1. /\ snap' = snap /\ binding' = binding
        /\ snap[r] \in Snapshots /\ snap[r].fp = binding
    BY <1>1, CreatingSave DEF Save, Validated, PastValidation
  <2>2. snap[r] \in store'
    BY <1>1, CreatingSave
  <2>3. CASE q = r
    BY <2>1, <2>2, <2>3, KeyOrder
  <2>4. CASE q # r
    <3>1. PICK t \in OfTopology(store, binding) : ~KeyLess(t, snap[q])
      BY <1>1, <2>4, CreatingSave DEF AcknowledgedIsCovered
    <3>2. CASE t \in store'
      BY <2>1, <3>1, <3>2
    <3>3. CASE t \notin store'
      <4>1. KeyLess(t, snap[r])
        BY <1>1, <2>2, <3>1, <3>3, CreatingSave
      <4>2. snap[q] \in Snapshots
        BY <1>1, <2>4, CreatingSave
      <4>3. ~KeyLess(snap[r], snap[q])
        BY <2>1, <3>1, <4>1, <4>2, KeyOrder
      <4>4. QED
        BY <2>1, <2>2, <4>3
    <3>4. QED
      BY <3>2, <3>3
  <2>5. QED
    BY <2>3, <2>4
<1>2. ASSUME NEW fp \in Fingerprints, Restart(fp) PROVE FALSE
  BY <1>2 DEF Restart
<1>3. CASE UNCHANGED <<store, accepted>> /\ ~\E fp \in Fingerprints : Restart(fp)
  <2> DEFINE Unmoved == /\ binding' = binding /\ snap'[q] = snap[q]
                        /\ pc[q] = "done" /\ status[q] = 201
  <2>1. Unmoved
    <3>1. ASSUME NEW r \in Requests, NEW s \in Snapshots, Receive(r, s) PROVE Unmoved
      BY <3>1 DEF Receive, Answer
    <3>2. ASSUME NEW r \in Requests, CheckLatest(r) PROVE Unmoved
      BY <3>2 DEF CheckLatest, Answer, GoTo
    <3>3. ASSUME NEW r \in Requests, Save(r), ~Creates(store, snap[r]) PROVE Unmoved
      <4>1. Answer(r, 409) \/ GoTo(r, "notCreated")
        BY <3>3 DEF Save
      <4>2. QED
        BY <3>3, <4>1 DEF Save, Answer, GoTo
    <3>4. ASSUME NEW r \in Requests, Save(r), Creates(store, snap[r]) PROVE Unmoved
      BY <1>3, <3>4, CreatingSave DEF StoreInv
    <3>5. ASSUME NEW r \in Requests, Locked(r) PROVE Unmoved
      BY <3>5 DEF Locked, Answer
    <3>6. ASSUME NEW r \in Requests, Classify(r) PROVE Unmoved
      BY <3>6 DEF Classify, Answer
    <3>7. CASE Tick
      BY <3>7 DEF Tick
    <3>8. CASE UNCHANGED vars
      BY <3>8 DEF vars
    <3>9. QED
      BY <1>3, <3>1, <3>2, <3>3, <3>4, <3>5, <3>6, <3>7, <3>8 DEF Next
  <2>2. QED
    BY <1>3, <2>1 DEF AcknowledgedIsCovered
<1>4. QED
  BY <1>1, <1>2, <1>3, StoreSteps

(* A creating save that swaps leaves the store full, and no older than it  *)
(* was: what it refused before, it would refuse still.                     *)
LEMMA OutrunStays ==
  ASSUME IndInv, NEW r \in Requests, Save(r), Creates(store, snap[r]),
         NEW s \in Snapshots, Outrun(s)
  PROVE  Outrun(s)'
<1> DEFINE new == snap[r]
<1>1. PICK m \in store : store' = (store \cup {new}) \ {m} /\ \A t \in store' : KeyLess(m, t)
  BY CreatingSave, CapacityAssumption DEF Outrun
<1>2. /\ new \in Snapshots /\ new \notin store /\ store \subseteq Snapshots
      /\ IsFiniteSet(store) /\ Cardinality(store) = Capacity
  BY CreatingSave DEF IndInv, TypeOK, StoreInv, Outrun
<1>3. Cardinality(store') = Capacity
  <2>1. IsFiniteSet(store \ {m}) /\ Cardinality(store \ {m}) = Capacity - 1
    BY <1>2, FS_RemoveElement
  <2>2. store' = (store \ {m}) \cup {new} /\ new \notin store \ {m}
    BY <1>1, <1>2
  <2>3. Cardinality((store \ {m}) \cup {new}) = (Capacity - 1) + 1
    BY <2>1, <2>2, FS_AddElement
  <2>4. QED
    BY <2>2, <2>3, CapacityAssumption
<1>4. ASSUME NEW t \in store' PROVE KeyLess(s, t)
  <2>1. CASE t \in store
    BY <2>1 DEF Outrun
  <2>2. CASE t = new
    <3>1. KeyLess(m, new) /\ KeyLess(s, m) /\ m \in Snapshots
      BY <1>1, <1>2, <2>2, <1>4 DEF Outrun
    <3>2. QED
      BY <1>2, <2>2, <3>1, KeyOrder
  <2>3. QED
    BY <1>1, <2>1, <2>2
<1>5. QED
  BY <1>3, <1>4 DEF Outrun

(* save's refusal keeps its reason until the handler looks for it.         *)
LEMMA RefusalStep ==
  ASSUME IndInv, [Next]_vars
  PROVE  RefusalStands'
<1> SUFFICES ASSUME NEW q \in Requests, pc'[q] = "notCreated"
             PROVE  (snap[q] \in accepted)' \/ Outrun(snap[q])'
  BY DEF RefusalStands
<1> USE DEF IndInv, TypeOK
<1>1. ASSUME NEW r \in Requests, Save(r), Creates(store, snap[r])
      PROVE  (snap[q] \in accepted)' \/ Outrun(snap[q])'
  <2>1. q # r /\ pc[q] = "notCreated" /\ snap' = snap /\ snap[q] \in Snapshots
    BY <1>1, CreatingSave DEF Save
  <2>2. CASE snap[q] \in accepted
    BY <1>1, <2>1, <2>2, CreatingSave
  <2>3. CASE Outrun(snap[q])
    <3>1. Outrun(snap[q])' <=> (Cardinality(store') = Capacity /\
                                \A t \in store' : KeyLess(snap[q], t))
      BY <2>1 DEF Outrun
    <3>2. QED
      BY <1>1, <2>1, <2>3, <3>1, OutrunStays DEF Outrun
  <2>4. QED
    BY <2>1, <2>2, <2>3 DEF RefusalStands
<1>2. ASSUME NEW r \in Requests, Save(r), ~Creates(store, snap[r])
      PROVE  (snap[q] \in accepted)' \/ Outrun(snap[q])'
  <2>1. UNCHANGED <<store, accepted, snap>>
    BY <1>2 DEF Save, AfterSave
  <2>2. CASE q # r
    <3>1. pc[q] = "notCreated"
      BY <1>2, <2>2 DEF Save, Answer, GoTo
    <3>2. QED
      BY <2>1, <3>1 DEF RefusalStands, Outrun
  <2>3. CASE q = r
    <3>1. ~Conflicts(store, snap[r])
      BY <1>2, <2>3 DEF Save, Answer
    <3>2. CASE HasId(store, snap[r].id)
      BY <2>1, <2>3, <3>1, <3>2 DEF HasId, Conflicts, StoreInv
    <3>3. CASE ~HasId(store, snap[r].id) /\ TooOld(store, snap[r])
      <4>1. Cardinality(store) = Capacity
        BY <3>3, FS_CardinalityType, CapacityAssumption DEF StoreInv, StoreWellFormed, TooOld
      <4>2. \A t \in store : KeyLess(snap[r], t)
        BY <1>2, <3>3, KeyOrder DEF TooOld, HasId, Save
      <4>3. QED
        BY <2>1, <2>3, <4>1, <4>2 DEF Outrun
    <3>4. QED
      BY <1>2, <3>2, <3>3 DEF Creates
  <2>4. QED
    BY <2>2, <2>3
<1>3. ASSUME NEW fp \in Fingerprints, Restart(fp) PROVE FALSE
  BY <1>3 DEF Restart
<1>4. CASE /\ ~\E r \in Requests : Save(r)
           /\ ~\E fp \in Fingerprints : Restart(fp)
  <2>1. UNCHANGED <<store, accepted>> /\ pc[q] = "notCreated" /\ snap'[q] = snap[q]
    BY <1>4 DEF Next, vars, Receive, CheckLatest, Locked, Classify, Tick, Answer, GoTo
  <2>2. QED
    BY <2>1 DEF RefusalStands, Outrun
<1>5. QED
  BY <1>1, <1>2, <1>3, <1>4

(* A 200 is given when save has refused and the id is stored: either what  *)
(* is stored is the snapshot itself, or it came to a full store after it,  *)
(* and is newer.                                                           *)
LEMMA RetryStep ==
  ASSUME IndInv, [Next]_vars
  PROVE  RetryIsCovered'
<1> USE DEF IndInv, TypeOK, RetryIsCovered
<1>1. ASSUME NEW r \in Requests, NEW s \in Snapshots, Receive(r, s)
      PROVE  RetryIsCovered'
  BY <1>1 DEF Receive, Answer
<1>2. ASSUME NEW r \in Requests, CheckLatest(r) PROVE RetryIsCovered'
  BY <1>2 DEF CheckLatest, Answer, GoTo
<1>3. ASSUME NEW r \in Requests, Save(r) PROVE RetryIsCovered'
  <2>1. Answer(r, 409) \/ Answer(r, 201) \/ GoTo(r, "notCreated")
    BY <1>3 DEF Save
  <2>2. accepted \subseteq accepted' /\ snap' = snap
    BY <1>3 DEF Save
  <2>3. QED
    BY <2>1, <2>2 DEF Answer, GoTo
<1>4. ASSUME NEW r \in Requests, Locked(r) PROVE RetryIsCovered'
  BY <1>4 DEF Locked, Answer
<1>5. ASSUME NEW r \in Requests, Classify(r) PROVE RetryIsCovered'
  <2>1. ASSUME HasId(OfTopology(store, binding), snap[r].id)
        PROVE  \E t \in accepted :
                 t.id = snap[r].id /\ (t = snap[r] \/ snap[r].at < t.at)
    <3>1. PICK t \in store : t.id = snap[r].id
      BY <2>1 DEF HasId, OfTopology
    <3>2. t \in accepted /\ t \in Snapshots /\ snap[r] \in Snapshots
      BY <1>5, <3>1 DEF StoreInv, Classify
    <3>3. CASE snap[r] \in accepted
      BY <3>3
    <3>4. CASE Outrun(snap[r])
      <4>1. KeyLess(snap[r], t)
        BY <3>1, <3>4 DEF Outrun
      <4>2. t.at \in Nat /\ t.id \in Nat /\ snap[r].at \in Nat
        BY <3>2, SnapshotsAssumption
      <4>3. snap[r].at < t.at
        BY <3>1, <4>1, <4>2 DEF KeyLess
      <4>4. QED
        BY <3>1, <3>2, <4>3
    <3>5. QED
      BY <1>5, <3>3, <3>4 DEF Classify, RefusalStands
  <2>2. QED
    BY <1>5, <2>1 DEF Classify, Answer
<1>6. ASSUME NEW fp \in Fingerprints, Restart(fp) PROVE RetryIsCovered'
  BY <1>6 DEF Restart
<1>7. CASE Tick
  BY <1>7 DEF Tick
<1>8. CASE UNCHANGED vars
  BY <1>8 DEF vars
<1>9. QED
  BY <1>1, <1>2, <1>3, <1>4, <1>5, <1>6, <1>7, <1>8 DEF Next

(* Only validated snapshots are stored and the clock only moves forward.   *)
LEMMA NoFuturePoisonStep ==
  ASSUME IndInv, [Next]_vars
  PROVE  NoFuturePoison'
<1> USE DEF IndInv, TypeOK, NoFuturePoison
<1>1. now' = now \/ now' = now + 1
  BY DEF Next, vars, Receive, CheckLatest, Save, Locked, Classify, Restart, Tick
<1>2. \A s \in store : s.at <= now' + MaxSkew
  <2>1. \A s \in store : s.at \in Nat
    BY SnapshotsAssumption
  <2>2. QED
    BY <1>1, <2>1, ClockAssumption
<1>3. ASSUME NEW r \in Requests, Save(r), Creates(store, snap[r])
      PROVE  NoFuturePoison'
  <2>1. snap[r].at <= now + MaxSkew /\ now' = now
    BY <1>3 DEF Validated, PastValidation, Save
  <2>2. store' \subseteq store \cup {snap[r]}
    BY <1>3, CreatingSave
  <2>3. QED
    BY <1>2, <2>1, <2>2
<1>4. QED
  BY <1>2, <1>3, StoreSteps

(* The invariant is inductive: the preceding steps together.               *)
LEMMA IndInvStep == IndInv /\ [Next]_vars => IndInv'
BY TypeStep, StoreInvStep, NewestRetainedStep, ValidatedStep, AcknowledgedStep,
   RefusalStep, RetryStep, NoFuturePoisonStep DEF IndInv

(* The ingest handlers never leave the inductive invariant, in whatever    *)
(* interleaving of requests, restarts and clock ticks.                     *)
THEOREM Invariance == Spec => []IndInv
<1>1. Init => IndInv
  BY InitIndInv
<1>2. IndInv /\ [Next]_vars => IndInv'
  BY IndInvStep
<1>3. QED
  BY <1>1, <1>2, PTL DEF Spec

(* Type correctness of the ingest handlers' state.                         *)
THEOREM TypeCorrect == Spec => []TypeOK
<1>1. IndInv => TypeOK
  BY DEF IndInv
<1>2. QED
  BY <1>1, Invariance, PTL

(* The bound on the repository and the uniqueness of its ids.              *)
THEOREM StoreStaysWellFormed == Spec => []StoreWellFormed
<1>1. IndInv => StoreWellFormed
  BY DEF IndInv, StoreInv
<1>2. QED
  BY <1>1, Invariance, PTL

(* Retention is by age alone, for every capacity and arrival order.        *)
THEOREM RetentionKeepsNewest == Spec => []NewestRetained
<1>1. IndInv => NewestRetained
  BY DEF IndInv
<1>2. QED
  BY <1>1, Invariance, PTL

(* A 201 stays covered by the latest snapshot while the server runs.       *)
THEOREM AnswersAreTruthful == Spec => []AcknowledgedIsCovered
<1>1. IndInv => AcknowledgedIsCovered
  BY DEF IndInv
<1>2. QED
  BY <1>1, Invariance, PTL

(* A 200 is given to a snapshot that is stored, or whose id is by then     *)
(* stored with a newer one, although the handler looks for the reason of   *)
(* save's refusal in a store that others have gone on filling.             *)
THEOREM RetriesAreCovered == Spec => []RetryIsCovered
<1>1. IndInv => RetryIsCovered
  BY DEF IndInv
<1>2. QED
  BY <1>1, Invariance, PTL

(* The skew bound holds for everything stored, at all times.               *)
THEOREM ClockIsNotPoisoned == Spec => []NoFuturePoison
<1>1. IndInv => NoFuturePoison
  BY DEF IndInv
<1>2. QED
  BY <1>1, Invariance, PTL

(* No save, restart or prune ever gives a stored id another payload.       *)
THEOREM PayloadsAreImmutable == Spec => PayloadsNeverRewritten
<1>1. IndInv /\ [Next]_vars =>
        [\A s \in store, t \in store' : s.id = t.id => s = t]_vars
  <2> SUFFICES ASSUME IndInv, [Next]_vars, NEW s \in store, NEW t \in store',
                      s.id = t.id
               PROVE  s = t
    OBVIOUS
  <2>1. CASE t \in store
    BY <2>1 DEF IndInv, StoreInv, StoreWellFormed
  <2>2. CASE t \notin store
    <3>1. PICK r \in Requests : Save(r) /\ Creates(store, snap[r])
      BY <2>2, StoreSteps
    <3>2. t = snap[r]
      BY <2>2, <3>1, CreatingSave
    <3>3. QED
      BY <3>1, <3>2 DEF Creates, HasId
  <2>3. QED
    BY <2>1, <2>2
<1>2. QED
  BY <1>1, Invariance, PTL DEF Spec, PayloadsNeverRewritten
-----------------------------------------------------------------------------
(* What Latest returns: None exactly when the topology has no snapshot,    *)
(* otherwise the one snapshot of it that no other one is newer than.       *)
LEMMA LatestOf ==
  ASSUME NEW S \in SUBSET Snapshots, IsFiniteSet(S), UniqueIds(S), NEW fp
  PROVE  /\ OfTopology(S, fp) = {} => Latest(S, fp) = NoSnapshot
         /\ OfTopology(S, fp) # {} => Latest(S, fp) \in OfTopology(S, fp)
         /\ \A t \in OfTopology(S, fp) : ~KeyLess(Latest(S, fp), t)
         /\ \A x \in OfTopology(S, fp) :
              (\A t \in OfTopology(S, fp) : ~KeyLess(x, t)) => x = Latest(S, fp)
<1> DEFINE C == OfTopology(S, fp)
           L == Latest(S, fp)
<1>1. C \in SUBSET Snapshots /\ IsFiniteSet(C) /\ UniqueIds(C)
  BY FS_Subset DEF OfTopology, UniqueIds
<1>2. C = {} => L = NoSnapshot
  BY DEF Latest
<1>3. C # {} => L \in C /\ \A t \in C : ~KeyLess(L, t)
  <2>1. C # {} => \E s \in C : \A t \in C : ~KeyLess(s, t)
    BY <1>1, NewestExists
  <2>2. C # {} => L = CHOOSE s \in C : \A t \in C : ~KeyLess(s, t)
    BY DEF Latest
  <2>3. QED
    BY <2>1, <2>2
<1>4. ASSUME NEW x \in C, \A t \in C : ~KeyLess(x, t) PROVE x = L
  <2>1. L \in C /\ ~KeyLess(L, x) /\ ~KeyLess(x, L)
    BY <1>3, <1>4
  <2>2. x \in Snapshots /\ L \in Snapshots
    BY <1>1, <2>1
  <2>3. x.id = L.id
    BY <2>1, <2>2, KeyOrder
  <2>4. QED
    BY <1>1, <2>1, <2>3 DEF UniqueIds
<1>5. QED
  BY <1>2, <1>3, <1>4

(* The feed of the bound topology after a creating save.                   *)
LEMMA BoundFeedAdvances ==
  ASSUME IndInv, StoreInv', TypeOK',
         NEW r \in Requests, Save(r), Creates(store, snap[r])
  PROVE  /\ Latest(store', binding) \in OfTopology(Snapshots, binding)
         /\ Latest(store, binding) # NoSnapshot =>
              \/ Latest(store', binding) = Latest(store, binding)
              \/ KeyLess(Latest(store, binding), Latest(store', binding))
<1> DEFINE L == Latest(store, binding)
           M == Latest(store', binding)
<1>1. /\ snap[r].fp = binding /\ snap[r] \in store'
      /\ store' \subseteq Snapshots /\ store \subseteq Snapshots
  BY CreatingSave DEF IndInv, Validated, PastValidation, Save, TypeOK
<1>2. /\ M \in OfTopology(store', binding)
      /\ \A t \in OfTopology(store', binding) : ~KeyLess(M, t)
  <2>1. IsFiniteSet(store') /\ UniqueIds(store')
    BY DEF StoreInv, StoreWellFormed, UniqueIds
  <2>2. OfTopology(store', binding) # {}
    BY <1>1 DEF OfTopology
  <2>3. QED
    BY <1>1, <2>1, <2>2, LatestOf
<1>3. ASSUME L # NoSnapshot PROVE M = L \/ KeyLess(L, M)
  <2>1. L \in OfTopology(store, binding)
    <3>1. IsFiniteSet(store) /\ UniqueIds(store)
      BY DEF IndInv, StoreInv, StoreWellFormed, UniqueIds
    <3>2. QED
      BY <1>1, <1>3, <3>1, LatestOf
  <2>2. CASE L \in store'
    <3>1. L \in OfTopology(store', binding) /\ M \in store'
      BY <2>1, <2>2, <1>2 DEF OfTopology
    <3>2. L.id = M.id => L = M
      BY <3>1, <2>2 DEF StoreInv, StoreWellFormed
    <3>3. ~KeyLess(M, L) /\ L \in Snapshots /\ M \in Snapshots
      BY <1>1, <1>2, <3>1, <2>2
    <3>4. QED
      BY <3>2, <3>3, KeyOrder
  <2>3. CASE L \notin store'
    BY <1>2, <2>1, <2>3, CreatingSave DEF OfTopology
  <2>4. QED
    BY <2>2, <2>3
<1>4. QED
  BY <1>1, <1>2, <1>3 DEF OfTopology

(* The feeds of other topologies: unchanged or retired.                    *)
LEMMA OtherFeedsRetire ==
  ASSUME IndInv, StoreInv', TypeOK',
         NEW r \in Requests, Save(r), Creates(store, snap[r]),
         NEW fp \in Fingerprints \ {binding}
  PROVE  Latest(store', fp) \in {Latest(store, fp), NoSnapshot}
<1> DEFINE L == Latest(store, fp)
<1>1. /\ snap[r].fp = binding
      /\ store' \subseteq Snapshots /\ store \subseteq Snapshots
  BY CreatingSave DEF IndInv, Validated, PastValidation, Save, TypeOK
<1>2. OfTopology(store', fp) \subseteq OfTopology(store, fp)
  BY <1>1, CreatingSave DEF OfTopology
<1>3. IsFiniteSet(store) /\ UniqueIds(store) /\ IsFiniteSet(store') /\ UniqueIds(store')
  BY DEF IndInv, StoreInv, StoreWellFormed, UniqueIds
<1>4. CASE OfTopology(store', fp) = {}
  BY <1>1, <1>3, <1>4, LatestOf
<1>5. CASE OfTopology(store', fp) # {}
  <2>1. /\ L \in OfTopology(store, fp)
        /\ \A t \in OfTopology(store, fp) : ~KeyLess(L, t)
    BY <1>1, <1>2, <1>3, <1>5, LatestOf
  <2>2. L \in store'
    BY <1>2, <1>5, <2>1, CreatingSave DEF OfTopology
  <2>3. /\ L \in OfTopology(store', fp)
        /\ \A t \in OfTopology(store', fp) : ~KeyLess(L, t)
    BY <1>2, <2>1, <2>2 DEF OfTopology
  <2>4. L = Latest(store', fp)
    BY <1>1, <1>3, <2>3, LatestOf
  <2>5. QED
    BY <2>4
<1>6. QED
  BY <1>4, <1>5

(* A first start is a start of the feed: no topology has a snapshot.       *)
LEMMA FeedInit == Init => Feed!Init
<1> SUFFICES ASSUME Init PROVE Feed!Init
  OBVIOUS
<1>1. \A fp \in Fingerprints : Latest(store, fp) = NoSnapshot
  BY DEF Init, Latest, OfTopology
<1>2. QED
  BY <1>1 DEF Init, Feed!Init

(* Every step of the handlers is a step of the feed or leaves it alone.    *)
LEMMA FeedStep ==
  ASSUME IndInv, IndInv', [Next]_vars
  PROVE  [Feed!Next]_(Feed!feedVars)
<1>1. ASSUME NEW r \in Requests, Save(r), Creates(store, snap[r])
      PROVE  Feed!Publish
  <2>1. binding' = binding /\ backend' = backend
    BY <1>1 DEF Save
  <2>2. binding \in Fingerprints /\ StoreInv' /\ TypeOK'
    BY DEF IndInv, TypeOK
  <2>3. /\ Latest(store', binding) \in OfTopology(Snapshots, binding)
        /\ Latest(store, binding) # NoSnapshot =>
             \/ Latest(store', binding) = Latest(store, binding)
             \/ KeyLess(Latest(store, binding), Latest(store', binding))
    BY <1>1, <2>2, BoundFeedAdvances
  <2>4. \A fp \in Fingerprints \ {binding} :
          Latest(store', fp) \in {Latest(store, fp), NoSnapshot}
    BY <1>1, <2>2, OtherFeedsRetire
  <2>5. QED
    BY <2>1, <2>2, <2>3, <2>4
       DEF Feed!Publish, Feed!Retired, Feed!KeyLess, Feed!OfTopology, KeyLess, OfTopology
<1>2. ASSUME NEW fp \in Fingerprints, Restart(fp) PROVE Feed!Restart
  <2>1. binding' = fp /\ backend' = backend
    BY <1>2 DEF Restart
  <2>2. CASE backend = "sqlite"
    <3>1. store' = store
      BY <1>2, <2>2, NewestOfSmall DEF Restart, IndInv, StoreInv, StoreWellFormed, TypeOK
    <3>2. QED
      BY <2>1, <2>2, <3>1 DEF Feed!Restart
  <2>3. CASE backend # "sqlite"
    <3>1. store' = {}
      BY <1>2, <2>3 DEF Restart
    <3>2. \A f \in Fingerprints : Latest(store', f) = NoSnapshot
      BY <3>1 DEF Latest, OfTopology
    <3>3. QED
      BY <2>1, <2>3, <3>2 DEF Feed!Restart
  <2>4. QED
    BY <2>2, <2>3
<1>3. CASE UNCHANGED <<store, accepted>> /\ ~\E fp \in Fingerprints : Restart(fp)
  <2>1. binding' = binding /\ backend' = backend /\ store' = store
    BY <1>3 DEF Next, vars, Receive, CheckLatest, Save, Locked, Classify, Tick
  <2>2. QED
    BY <2>1 DEF Feed!feedVars
<1>4. QED
  BY <1>1, <1>2, <1>3, StoreSteps DEF Feed!Next

(* The ingest handlers, with all their interleavings, restarts and         *)
(* retention, implement the feed that readers are promised.                *)
THEOREM Refinement == Spec => ImplementsFeed
<1>1. Init => Feed!Init
  BY FeedInit
<1>2. IndInv /\ IndInv' /\ [Next]_vars => [Feed!Next]_(Feed!feedVars)
  BY FeedStep
<1>3. QED
  BY <1>1, <1>2, Invariance, PTL DEF Spec, ImplementsFeed, Feed!Spec
=============================================================================
