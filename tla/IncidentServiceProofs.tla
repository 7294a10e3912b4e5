------------------------ MODULE IncidentServiceProofs ------------------------
(***************************************************************************)
(* Proofs about IncidentService, for every set of fingerprints and request *)
(* slots, every capacity and every window.                                 *)
(***************************************************************************)
EXTENDS IncidentService, FiniteSetTheorems, TLAPS

(* A nonempty set of ids has an oldest one: the id whose set of older ids  *)
(* is minimal.                                                             *)
LEMMA OldestExists ==
  ASSUME NEW S \in SUBSET Nat, IsFiniteSet(S), S # {}
  PROVE  \E i \in S : \A j \in S : i <= j
<1> DEFINE Below(i) == {j \in S : j < i}
           T == {Below(i) : i \in S}
           R == StrictSubsetOrdering(S)
<1>1. T \subseteq FiniteSubsetsOf(S)
  BY FS_Subset DEF FiniteSubsetsOf
<1>2. IsWellFoundedOn(R, FiniteSubsetsOf(S))
  BY FS_StrictSubsetOrderingWellFounded
<1>3. PICK A \in T : \A B \in T : <<B, A>> \notin R
  <2> HIDE DEF T, R
  <2>1. T # {}
    BY DEF T
  <2>2. QED
    BY <1>1, <1>2, <2>1, WFMin
<1>4. PICK i \in S : A = Below(i)
  BY <1>3
<1>5. ASSUME NEW j \in S, j < i PROVE FALSE
  <2>1. \A k \in Below(j) : k \in S /\ k < i
    BY <1>5
  <2>2. j \in Below(i) /\ j \notin Below(j)
    BY <1>5
  <2>3. <<Below(j), Below(i)>> \in R
    BY <2>1, <2>2, <1>1 DEF StrictSubsetOrdering
  <2>4. QED
    BY <1>3, <1>4, <2>3
<1>6. QED
  BY <1>5

(* What the eviction loop leaves: at most MaxIncidents ids, the last one   *)
(* among them, and with an id every later one.                             *)
LEMMA EvictionEffect ==
  ASSUME NEW S \in SUBSET Nat, IsFiniteSet(S), NEW n \in S, \A i \in S : i <= n
  PROVE  /\ Newest(S) \subseteq S
         /\ n \in Newest(S)
         /\ \A i \in Newest(S), j \in S : i <= j => j \in Newest(S)
         /\ Cardinality(Newest(S)) <= MaxIncidents
<1> DEFINE Above(i) == {j \in S : j > i}
<1>1. /\ Newest(S) \subseteq S
      /\ \A i \in S : i \in Nat
      /\ \A i \in Newest(S) : i \in S /\ i \in Nat
  BY DEF Newest
<1>2. \A i \in S : IsFiniteSet(Above(i)) /\ Cardinality(Above(i)) \in Nat
  BY FS_Subset, FS_CardinalityType
<1>3. n \in Newest(S)
  <2>1. \A j \in S : ~(j > n)
    BY <1>1
  <2>2. Above(n) = {}
    BY <2>1
  <2>3. QED
    BY <2>2, FS_EmptySet, IncidentAssumption DEF Newest
<1>4. ASSUME NEW i \in Newest(S), NEW j \in S, i <= j PROVE j \in Newest(S)
  <2>1. i \in S /\ \A k \in S : k > j => k > i
    <3>1. i \in S /\ i \in Nat /\ j \in Nat /\ \A k \in S : k \in Nat
      BY <1>1
    <3>2. QED
      BY <3>1, <1>4
  <2>2. Cardinality(Above(j)) <= Cardinality(Above(i))
    <3>1. Above(j) \subseteq Above(i)
      BY <2>1
    <3>2. QED
      BY <1>2, <2>1, <3>1, FS_Subset
  <2>3. Cardinality(Above(i)) < MaxIncidents
    BY DEF Newest
  <2>4. QED
    BY <1>2, <2>1, <2>2, <2>3, IncidentAssumption DEF Newest
<1>5. Cardinality(Newest(S)) <= MaxIncidents
  <2>1. IsFiniteSet(Newest(S)) /\ Newest(S) \in SUBSET Nat /\ Newest(S) # {}
    <3>1. IsFiniteSet(Newest(S))
      BY <1>1, FS_Subset
    <3>2. QED
      BY <1>1, <1>3, <3>1
  <2>2. PICK m \in Newest(S) : \A j \in Newest(S) : m <= j
    BY <2>1, OldestExists
  <2>3. Newest(S) \subseteq Above(m) \cup {m} /\ m \notin Above(m)
    <3>1. m \in Nat /\ \A j \in Newest(S) : j \in Nat
      BY <1>1
    <3>2. ~(m > m) /\ \A j \in Newest(S) : j > m \/ j = m
      <4> HIDE DEF Above
      <4>1. QED
        BY <3>1, <2>2
    <3>3. QED
      BY <1>1, <3>2
  <2>4. /\ IsFiniteSet(Above(m) \cup {m})
        /\ Cardinality(Above(m) \cup {m}) = Cardinality(Above(m)) + 1
    BY <1>1, <1>2, <2>3, FS_AddElement
  <2>5. Cardinality(Newest(S)) <= Cardinality(Above(m)) + 1
    BY <2>3, <2>4, FS_Subset
  <2>6. Cardinality(Above(m)) < MaxIncidents /\ Cardinality(Above(m)) \in Nat
    BY <1>1, <1>2, <2>2 DEF Newest
  <2>7. Cardinality(Newest(S)) \in Nat
    BY <2>1, FS_CardinalityType
  <2>8. QED
    BY <2>5, <2>6, <2>7, IncidentAssumption
<1>6. QED
  BY <1>1, <1>3, <1>4, <1>5
-----------------------------------------------------------------------------
(* What the window relies on: no incident was opened in the future, and a  *)
(* fingerprint was last seen when its incident was opened or later.        *)
ClockInv ==
  /\ \A i \in 1..Len(heap) : heap[i].opened <= now
  /\ \A f \in DOMAIN index : heap[index[f]].opened <= lastSeen[f]

IndInv ==
  /\ TypeOK
  /\ IsFiniteSet(retained)
  /\ IndexIsExact
  /\ ClockInv
  /\ BurstsCollapse
  /\ ApprovalsStand

(* The empty service satisfies the invariant.                              *)
LEMMA InitIndInv == Init => IndInv
<1> SUFFICES ASSUME Init PROVE IndInv
  OBVIOUS
<1>1. /\ heap \in Seq(Incidents) /\ Len(heap) = 0
      /\ DOMAIN index = {} /\ DOMAIN lastSeen = {}
      /\ index \in [{} -> retained] /\ lastSeen \in [{} -> 0..now]
  BY DEF Init
<1>2. IsFiniteSet(retained) /\ Cardinality(retained) = 0 /\ retained = {}
  BY FS_EmptySet DEF Init
<1>3. TypeOK
  BY <1>1, <1>2, IncidentAssumption DEF Init, TypeOK
<1>4. QED
  BY <1>1, <1>2, <1>3
     DEF Init, IndInv, IndexIsExact, ClockInv, BurstsCollapse, ApprovalsStand, Idle

NewId == Len(heap) + 1

(* What opening an incident for f does: it becomes the newest object, takes *)
(* over its fingerprint, and the entries of the others stay exactly as     *)
(* long as their incidents are retained.                                   *)
Opens(f) ==
  /\ heap' \in Seq(Incidents) /\ Len(heap') = NewId /\ NewId <= MaxIds
  /\ \A i \in 1..Len(heap) : heap'[i] = heap[i]
  /\ heap'[NewId] = [fp |-> f, opened |-> now, status |-> "awaiting"]
  /\ retained' \subseteq retained \cup {NewId} /\ NewId \in retained'
  /\ IsFiniteSet(retained') /\ Cardinality(retained') <= MaxIncidents
  /\ DOMAIN index' = {heap'[i].fp : i \in retained'}
  /\ DOMAIN lastSeen' = DOMAIN index'
  /\ index' = [g \in DOMAIN index' |-> IF g = f THEN NewId ELSE index[g]]
  /\ lastSeen' = [g \in DOMAIN index' |-> IF g = f THEN now ELSE lastSeen[g]]
  /\ \A g \in DOMAIN index' \ {f} : g \in DOMAIN index /\ index[g] \in retained'

(* IngestNew opens an incident in that sense, evicting what exceeds the    *)
(* capacity.                                                               *)
LEMMA OpeningEffect ==
  ASSUME IndInv, NEW q \in Slots, NEW f \in Fingerprints, IngestNew(q, f)
  PROVE  Opens(f)
<1> DEFINE id   == Len(heap) + 1
           all  == [g \in DOMAIN index \cup {f} |-> IF g = f THEN id ELSE index[g]]
           keep == {g \in DOMAIN all : Survives(g, all[g], retained')}
<1>1. /\ heap \in Seq(Incidents) /\ Len(heap) \in Nat /\ id \in Nat
      /\ retained \subseteq 1..Len(heap) /\ IsFiniteSet(retained)
      /\ id \notin retained
  BY DEF IndInv, TypeOK
<1>2. /\ id <= MaxIds
      /\ f \in Known /\ now \in 0..MaxNow
      /\ retained' = Newest(retained \cup {id})
      /\ heap' = Append(heap, [fp |-> f, opened |-> now, status |-> "awaiting"])
      /\ index' = [g \in keep |-> all[g]]
      /\ lastSeen' = [g \in keep |-> IF g = f THEN now ELSE lastSeen[g]]
  BY DEF IngestNew, IndInv, TypeOK, Restrict
<1>3. [fp |-> f, opened |-> now, status |-> "awaiting"] \in Incidents
  BY <1>2 DEF Incidents
<1>4. /\ heap' \in Seq(Incidents) /\ Len(heap') = id
      /\ \A i \in 1..Len(heap) : heap'[i] = heap[i]
      /\ heap'[id] = [fp |-> f, opened |-> now, status |-> "awaiting"]
  BY <1>1, <1>2, <1>3
<1>5. /\ retained' \subseteq retained \cup {id} /\ id \in retained'
      /\ IsFiniteSet(retained') /\ Cardinality(retained') <= MaxIncidents
      /\ \A i \in retained', j \in retained : i <= j => j \in retained'
  <2> DEFINE S == retained \cup {id}
  <2>1. S \in SUBSET Nat /\ IsFiniteSet(S) /\ id \in S /\ \A i \in S : i <= id
    <3>1. IsFiniteSet(S)
      BY <1>1, FS_AddElement
    <3>2. \A i \in retained : i \in Nat /\ i <= Len(heap)
      BY <1>1
    <3>3. \A i \in S : i \in Nat /\ i <= id
      BY <1>1, <3>2
    <3>4. QED
      BY <3>1, <3>3
  <2>2. /\ Newest(S) \subseteq S /\ id \in Newest(S)
        /\ \A i \in Newest(S), j \in S : i <= j => j \in Newest(S)
        /\ Cardinality(Newest(S)) <= MaxIncidents
    <3> HIDE DEF S, id
    <3>1. QED
      BY <2>1, EvictionEffect
  <2>3. IsFiniteSet(Newest(S))
    BY <2>1, <2>2, FS_Subset
  <2>4. QED
    BY <1>2, <2>2, <2>3
<1>6. /\ \A g \in DOMAIN index : index[g] \in retained /\ heap[index[g]].fp = g
      /\ \A i \in retained : heap[i].fp \in DOMAIN index /\ i <= index[heap[i].fp]
  BY DEF IndInv, IndexIsExact
<1> HIDE DEF id
<1>7. f \in keep
  BY <1>1 DEF Survives
<1>8. \A g \in keep \ {f} : g \in DOMAIN index /\ index[g] \in retained'
  BY <1>6 DEF Survives
<1>9. \A i \in retained' : heap'[i].fp \in keep
  <2> SUFFICES ASSUME NEW i \in retained' \ {id} PROVE heap'[i].fp \in keep
    <3>1. heap'[id].fp = f
      BY <1>4 DEF id
    <3>2. QED
      BY <1>7, <3>1
  <2>1. i \in retained /\ heap'[i].fp = heap[i].fp
    BY <1>1, <1>4, <1>5
  <2>2. CASE heap[i].fp = f
    BY <1>7, <2>1, <2>2
  <2>3. CASE heap[i].fp # f
    <3>1. heap[i].fp \in DOMAIN index /\ index[heap[i].fp] \in retained'
      BY <1>5, <1>6, <2>1
    <3>2. QED
      BY <2>1, <2>3, <3>1 DEF Survives
  <2>4. QED
    BY <2>2, <2>3
<1>10. keep = {heap'[i].fp : i \in retained'}
  <2>1. \A g \in keep : \E i \in retained' : heap'[i].fp = g
    <3> SUFFICES ASSUME NEW g \in keep PROVE \E i \in retained' : heap'[i].fp = g
      OBVIOUS
    <3>1. CASE g = f
      BY <1>4, <1>5, <3>1
    <3>2. CASE g # f
      <4>1. index[g] \in retained' /\ index[g] \in retained /\ heap[index[g]].fp = g
        BY <1>6, <1>8, <3>2
      <4>2. heap'[index[g]].fp = g
        BY <1>1, <1>4, <4>1
      <4>3. QED
        BY <4>1, <4>2
    <3>3. QED
      BY <3>1, <3>2
  <2>2. QED
    BY <1>9, <2>1
<1>11. DOMAIN index' = keep /\ DOMAIN lastSeen' = keep
  BY <1>2
<1>12. index' = [g \in keep |-> IF g = f THEN id ELSE index[g]]
  BY <1>2
<1>13. QED
  BY <1>2, <1>4, <1>5, <1>8, <1>10, <1>11, <1>12 DEF id, Opens, NewId
-----------------------------------------------------------------------------
(* The steps other than opening an incident, by what they change.          *)
LEMMA OtherSteps ==
  ASSUME TypeOK, [Next]_vars, ~\E q \in Slots, f \in Fingerprints : IngestNew(q, f)
  PROVE  \/ /\ \E q \in Slots, f \in Fingerprints :
                  /\ f \in DOMAIN index
                  /\ Hold(q, "ingest", index[f])
                  /\ lastSeen' = [lastSeen EXCEPT ![f] = now]
            /\ UNCHANGED <<now, heap, retained, index>>
         \/ /\ \E q \in Slots, id \in 1..Len(heap) :
                  /\ heap' = [heap EXCEPT ![id].status = "approved"]
                  /\ Hold(q, "approve", id)
            /\ UNCHANGED <<now, retained, index, lastSeen>>
         \/ /\ \/ \E q \in Slots, id \in 1..Len(heap) : Hold(q, "get", id)
               \/ \E q \in Slots : slot' = [slot EXCEPT ![q] = Idle]
               \/ UNCHANGED slot
            /\ UNCHANGED <<now, heap, retained, index, lastSeen>>
         \/ Restart
         \/ Tick
BY DEF Next, vars, IngestDuplicate, Absorbs, IngestRejected, Get, Approve, Refused, Answer

(* Every operation keeps the variables in their types.                     *)
LEMMA TypeStep ==
  ASSUME IndInv, [Next]_vars
  PROVE  TypeOK' /\ IsFiniteSet(retained')
<1>0. TypeOK /\ IsFiniteSet(retained)
  BY DEF IndInv
<1>1. ASSUME NEW q \in Slots, NEW f \in Fingerprints, IngestNew(q, f)
      PROVE  TypeOK' /\ IsFiniteSet(retained')
  <2>1. Opens(f)
    BY <1>1, OpeningEffect
  <2>2. /\ f \in Known /\ now' = now
        /\ slot' = [slot EXCEPT ![q] = [op |-> "ingest", id |-> NewId]]
    BY <1>1 DEF IngestNew, Hold, NewId
  <2>3. retained' \subseteq 1..Len(heap') /\ NewId \in 1..Len(heap')
    BY <1>0, <2>1 DEF TypeOK, Opens, NewId
  <2>4. index' \in [DOMAIN index' -> retained'] /\ DOMAIN index' \subseteq Known
    BY <1>0, <2>1, <2>2 DEF TypeOK, Opens
  <2>5. lastSeen' \in [DOMAIN index' -> 0..now']
    BY <1>0, <2>1, <2>2 DEF TypeOK, Opens
  <2>6. slot' \in [Slots -> {Idle} \cup
                            [op : {"ingest", "get", "approve"}, id : 1..Len(heap')]]
    BY <1>0, <2>1, <2>2, <2>3 DEF TypeOK, Opens, NewId
  <2>7. QED
    BY <1>0, <2>1, <2>2, <2>3, <2>4, <2>5, <2>6 DEF TypeOK, Opens
<1>2. ASSUME NEW q \in Slots, NEW f \in Fingerprints,
             f \in DOMAIN index, Hold(q, "ingest", index[f]),
             lastSeen' = [lastSeen EXCEPT ![f] = now],
             UNCHANGED <<now, heap, retained, index>>
      PROVE  TypeOK' /\ IsFiniteSet(retained')
  <2>1. index[f] \in 1..Len(heap) /\ now \in 0..now
    BY <1>0, <1>2 DEF TypeOK
  <2>2. lastSeen' \in [DOMAIN index' -> 0..now']
    BY <1>0, <1>2, <2>1 DEF TypeOK
  <2>3. QED
    BY <1>0, <1>2, <2>1, <2>2 DEF Hold, TypeOK
<1>3. ASSUME NEW q \in Slots, NEW id \in 1..Len(heap),
             heap' = [heap EXCEPT ![id].status = "approved"],
             Hold(q, "approve", id),
             UNCHANGED <<now, retained, index, lastSeen>>
      PROVE  TypeOK' /\ IsFiniteSet(retained')
  <2>1. heap[id] \in Incidents
    BY <1>0 DEF TypeOK
  <2>2. [heap[id] EXCEPT !.status = "approved"] \in Incidents
    BY <2>1 DEF Incidents
  <2>3. heap' \in Seq(Incidents) /\ Len(heap') = Len(heap)
    BY <1>0, <1>3, <2>2 DEF TypeOK
  <2>4. slot' \in [Slots -> {Idle} \cup
                            [op : {"ingest", "get", "approve"}, id : 1..Len(heap')]]
    BY <1>0, <1>3, <2>3 DEF Hold, TypeOK
  <2>5. QED
    BY <1>0, <1>3, <2>3, <2>4 DEF TypeOK
<1>4. CASE /\ \/ \E q \in Slots, id \in 1..Len(heap) : Hold(q, "get", id)
              \/ \E q \in Slots : slot' = [slot EXCEPT ![q] = Idle]
              \/ UNCHANGED slot
           /\ UNCHANGED <<now, heap, retained, index, lastSeen>>
  <2>1. slot' \in [Slots -> {Idle} \cup
                            [op : {"ingest", "get", "approve"}, id : 1..Len(heap)]]
    <3>1. CASE \E q \in Slots, id \in 1..Len(heap) : Hold(q, "get", id)
      BY <1>0, <3>1 DEF Hold, TypeOK
    <3>2. CASE \E q \in Slots : slot' = [slot EXCEPT ![q] = Idle]
      BY <1>0, <3>2 DEF TypeOK
    <3>3. CASE UNCHANGED slot
      BY <1>0, <3>3 DEF TypeOK
    <3>4. QED
      BY <1>4, <3>1, <3>2, <3>3
  <2>2. QED
    BY <1>0, <1>4, <2>1 DEF TypeOK
<1>5. CASE Restart
  <2>1. /\ DOMAIN index' = {} /\ DOMAIN lastSeen' = {}
        /\ index' \in [{} -> retained'] /\ lastSeen' \in [{} -> 0..now']
    BY <1>5 DEF Restart
  <2>2. IsFiniteSet(retained') /\ Cardinality(retained') = 0 /\ retained' = {}
    BY <1>5, FS_EmptySet DEF Restart
  <2>3. QED
    BY <1>0, <1>5, <2>1, <2>2, IncidentAssumption DEF Restart, TypeOK
<1>6. CASE Tick
  <2>1. now' \in 0..MaxNow /\ 0..now \subseteq 0..now'
    BY <1>0, <1>6, IncidentAssumption DEF Tick, TypeOK
  <2>2. lastSeen' \in [DOMAIN index' -> 0..now']
    BY <1>0, <1>6, <2>1 DEF Tick, TypeOK
  <2>3. QED
    BY <1>0, <1>6, <2>1, <2>2 DEF Tick, TypeOK
<1>7. QED
  BY <1>0, <1>1, <1>2, <1>3, <1>4, <1>5, <1>6, OtherSteps

(* No step but an opening or a restart moves the index, and the incident   *)
(* objects only ever change from awaiting to approved.                     *)
LEMMA HeapSteps ==
  ASSUME IndInv, [Next]_vars, ~\E q \in Slots, f \in Fingerprints : IngestNew(q, f)
  PROVE  /\ Len(heap') = Len(heap)
         /\ \A i \in 1..Len(heap) :
              /\ heap'[i].fp = heap[i].fp
              /\ heap'[i].opened = heap[i].opened
              /\ heap[i].status = "approved" => heap'[i].status = "approved"
         /\ Restart \/ UNCHANGED <<retained, index>>
<1>0. TypeOK
  BY DEF IndInv
<1>1. ASSUME NEW id \in 1..Len(heap), heap' = [heap EXCEPT ![id].status = "approved"]
      PROVE  /\ Len(heap') = Len(heap)
             /\ \A i \in 1..Len(heap) :
                  /\ heap'[i].fp = heap[i].fp
                  /\ heap'[i].opened = heap[i].opened
                  /\ heap[i].status = "approved" => heap'[i].status = "approved"
  BY <1>0, <1>1 DEF TypeOK, Incidents
<1>2. QED
  BY <1>0, <1>1, OtherSteps DEF Restart, Tick

(* Opening an incident, from the clock's and the objects' point of view.   *)
LEMMA OpeningTimes ==
  ASSUME IndInv, NEW q \in Slots, NEW f \in Fingerprints, IngestNew(q, f)
  PROVE  /\ \A i \in retained' : i \in Nat /\ (i = NewId \/ (i \in retained /\ i < NewId))
         /\ \A i \in 1..Len(heap') : i = NewId \/ i \in 1..Len(heap)
         /\ \A i \in retained : i \in 1..Len(heap)
<1>1. Opens(f) /\ TypeOK
  BY OpeningEffect DEF IndInv
<1>2. QED
  BY <1>1 DEF Opens, NewId, TypeOK

(* The index stays exact: eviction is from the oldest end, so an incident  *)
(* an entry names goes no earlier than the others of its fingerprint.      *)
LEMMA IndexStep ==
  ASSUME IndInv, [Next]_vars
  PROVE  IndexIsExact'
<1>0. TypeOK /\ IndexIsExact
  BY DEF IndInv
<1>1. ASSUME NEW q \in Slots, NEW f \in Fingerprints, IngestNew(q, f)
      PROVE  IndexIsExact'
  <2>1. Opens(f)
    BY <1>1, OpeningEffect
  <2>2. /\ \A i \in retained' : i \in Nat /\ (i = NewId \/ (i \in retained /\ i < NewId))
        /\ \A i \in retained : i \in 1..Len(heap)
    BY <1>1, OpeningTimes
  <2>3. \A g \in DOMAIN index' :
          /\ g = f => index'[g] = NewId
          /\ g # f => index'[g] = index[g] /\ g \in DOMAIN index /\ index[g] \in retained'
    BY <2>1 DEF Opens
  <2>4. \A i \in retained' :
          /\ i = NewId => heap'[i].fp = f
          /\ i # NewId => i \in retained /\ heap'[i].fp = heap[i].fp
    BY <2>1, <2>2 DEF Opens
  <2>5. ASSUME NEW g \in DOMAIN index'
        PROVE  /\ index'[g] \in retained' /\ heap'[index'[g]].fp = g
               /\ \A i \in retained' : heap'[i].fp = g => i <= index'[g]
    <3>1. CASE g = f
      <4>1. index'[g] = NewId /\ NewId \in retained' /\ NewId \in Nat
        BY <2>1, <2>2, <2>3, <3>1 DEF Opens
      <4>2. QED
        BY <2>2, <2>4, <3>1, <4>1
    <3>2. CASE g # f
      <4>1. /\ index'[g] = index[g] /\ g \in DOMAIN index /\ index[g] \in retained'
            /\ index[g] \in retained /\ index[g] # NewId
        BY <1>0, <2>2, <2>3, <3>2 DEF IndexIsExact, NewId, TypeOK
      <4>2. heap[index[g]].fp = g /\ \A i \in retained : heap[i].fp = g => i <= index[g]
        BY <1>0, <4>1 DEF IndexIsExact
      <4>3. QED
        BY <2>4, <3>2, <4>1, <4>2
    <3>3. QED
      BY <3>1, <3>2
  <2>6. QED
    BY <2>1, <2>5 DEF IndexIsExact, Opens
<1>2. CASE Restart
  BY <1>2 DEF Restart, IndexIsExact
<1>3. CASE UNCHANGED <<retained, index>> /\ ~\E q \in Slots, f \in Fingerprints : IngestNew(q, f)
  <2>1. \A i \in retained : heap'[i].fp = heap[i].fp
    BY <1>0, <1>3, HeapSteps DEF TypeOK
  <2>2. QED
    BY <1>0, <1>3, <2>1 DEF IndexIsExact
<1>4. QED
  BY <1>1, <1>2, <1>3, HeapSteps

(* The types of the incident objects' fields.                              *)
LEMMA HeapTypes ==
  ASSUME TypeOK
  PROVE  /\ now \in Nat
         /\ \A i \in 1..Len(heap) : /\ heap[i].opened \in Nat
                                    /\ heap[i].status \in {"awaiting", "approved"}
<1>1. \A i \in 1..Len(heap) : heap[i] \in Incidents
  BY DEF TypeOK
<1>2. now \in Nat /\ \A t \in 0..MaxNow : t \in Nat
  BY IncidentAssumption DEF TypeOK
<1>3. QED
  BY <1>1, <1>2 DEF Incidents

(* Opening stamps and sightings never run ahead of the clock.              *)
LEMMA ClockStep ==
  ASSUME IndInv, [Next]_vars
  PROVE  ClockInv'
<1>0. TypeOK /\ IndexIsExact /\ ClockInv
  BY DEF IndInv
<1>1. ASSUME NEW q \in Slots, NEW f \in Fingerprints, IngestNew(q, f)
      PROVE  ClockInv'
  <2>1. Opens(f) /\ now' = now /\ now \in Nat
    <3>1. Opens(f)
      BY <1>1, OpeningEffect
    <3>2. now' = now
      BY <1>1 DEF IngestNew
    <3>3. QED
      BY <1>0, <3>1, <3>2, HeapTypes
  <2>2. \A i \in 1..Len(heap') : heap'[i].opened <= now'
    BY <1>0, <1>1, <2>1, OpeningTimes DEF Opens, ClockInv
  <2>3. ASSUME NEW g \in DOMAIN index' PROVE heap'[index'[g]].opened <= lastSeen'[g]
    <3>1. CASE g = f
      BY <2>1, <3>1 DEF Opens
    <3>2. CASE g # f
      <4>1. /\ index'[g] = index[g] /\ lastSeen'[g] = lastSeen[g]
            /\ g \in DOMAIN index /\ index[g] \in 1..Len(heap)
        BY <1>0, <2>1, <3>2 DEF Opens, TypeOK
      <4>2. heap'[index'[g]] = heap[index[g]]
        BY <2>1, <4>1 DEF Opens
      <4>3. QED
        BY <1>0, <4>1, <4>2 DEF ClockInv
    <3>3. QED
      BY <3>1, <3>2
  <2>4. QED
    BY <2>2, <2>3 DEF ClockInv
<1>2. CASE ~\E q \in Slots, f \in Fingerprints : IngestNew(q, f)
  <2>1. /\ \A i \in 1..Len(heap) : heap'[i].opened = heap[i].opened
        /\ Len(heap') = Len(heap)
        /\ \A i \in 1..Len(heap) : heap[i].opened \in Nat
        /\ now \in Nat
    BY <1>0, <1>2, HeapSteps, HeapTypes
  <2>2. CASE Restart
    BY <1>0, <2>1, <2>2 DEF Restart, ClockInv
  <2>3. CASE Tick
    <3>1. now' = now + 1 /\ heap' = heap /\ index' = index /\ lastSeen' = lastSeen
      BY <2>3 DEF Tick
    <3>2. QED
      BY <1>0, <2>1, <3>1 DEF ClockInv
  <2>4. CASE UNCHANGED <<now, index>> /\ \A f \in DOMAIN index : lastSeen'[f] \in {lastSeen[f], now}
    <3>1. \A f \in DOMAIN index : heap'[index[f]].opened = heap[index[f]].opened
                                /\ heap[index[f]].opened <= now
      BY <1>0, <2>1 DEF TypeOK, ClockInv
    <3>2. QED
      BY <1>0, <2>1, <2>4, <3>1 DEF ClockInv
  <2>5. QED
    BY <1>0, <1>2, <2>2, <2>3, <2>4, OtherSteps DEF TypeOK
<1>3. QED
  BY <1>1, <1>2

(* Absorbing is the only way to avoid opening an incident, so one opened   *)
(* while another awaits approval is more than the window younger.          *)
LEMMA BurstsStep ==
  ASSUME IndInv, [Next]_vars
  PROVE  BurstsCollapse'
<1>0. TypeOK /\ IndexIsExact /\ ClockInv /\ BurstsCollapse
  BY DEF IndInv
<1>1. ASSUME NEW q \in Slots, NEW f \in Fingerprints, IngestNew(q, f)
      PROVE  BurstsCollapse'
  <2>1. Opens(f) /\ ~Absorbs(f) /\ now \in Nat
    <3>1. Opens(f)
      BY <1>1, OpeningEffect
    <3>2. ~Absorbs(f)
      BY <1>1 DEF IngestNew
    <3>3. QED
      BY <1>0, <3>1, <3>2, HeapTypes
  <2>2. /\ \A i \in retained' : i \in Nat /\ (i = NewId \/ (i \in retained /\ i < NewId))
        /\ \A i \in retained : i \in 1..Len(heap)
    BY <1>1, OpeningTimes
  <2>3. \A i \in 1..Len(heap) : heap'[i] = heap[i] /\ heap[i].opened \in Nat
    BY <1>0, <2>1, HeapTypes DEF Opens
  <2>4. ASSUME NEW i \in retained, heap[i].fp = f, heap[i].status = "awaiting"
        PROVE  now - heap[i].opened > Window
    <3> DEFINE k == index[f]
    <3>1. /\ f \in DOMAIN index /\ k \in retained /\ heap[k].fp = f /\ i <= k
          /\ i \in 1..Len(heap) /\ k \in 1..Len(heap)
      BY <1>0, <2>2, <2>4 DEF IndexIsExact
    <3>2. CASE i = k
      <4>1. lastSeen[f] \in Nat /\ lastSeen[f] <= now /\ heap[i].opened <= lastSeen[f]
        BY <1>0, <3>1, <3>2 DEF TypeOK, ClockInv
      <4>2. now - lastSeen[f] \notin 0..Window
        BY <2>1, <2>4, <3>1, <3>2 DEF Absorbs
      <4>3. QED
        BY <2>1, <2>3, <3>1, <4>1, <4>2, IncidentAssumption
    <3>3. CASE i < k
      <4>1. heap[k].opened - heap[i].opened > Window /\ heap[k].opened <= now
        BY <1>0, <2>4, <3>1, <3>3 DEF BurstsCollapse, ClockInv
      <4>2. QED
        BY <2>1, <2>3, <3>1, <4>1, IncidentAssumption
    <3>4. QED
      BY <3>1, <3>2, <3>3
  <2>5. SUFFICES ASSUME NEW i \in retained', NEW j \in retained', i < j,
                        heap'[i].fp = heap'[j].fp, heap'[i].status = "awaiting"
                 PROVE  heap'[j].opened - heap'[i].opened > Window
    BY DEF BurstsCollapse
  <2>6. i \in retained /\ heap'[i] = heap[i]
    BY <2>2, <2>3, <2>5 DEF NewId
  <2>7. CASE j = NewId
    <3>1. heap'[j].fp = f /\ heap'[j].opened = now
      BY <2>1, <2>7 DEF Opens
    <3>2. QED
      BY <2>4, <2>5, <2>6, <3>1
  <2>8. CASE j # NewId
    <3>1. j \in retained /\ heap'[j] = heap[j]
      BY <2>2, <2>3, <2>8
    <3>2. QED
      BY <1>0, <2>5, <2>6, <3>1 DEF BurstsCollapse
  <2>9. QED
    BY <2>7, <2>8
<1>2. CASE Restart
  BY <1>2 DEF Restart, BurstsCollapse
<1>3. CASE UNCHANGED <<retained, index>> /\ ~\E q \in Slots, f \in Fingerprints : IngestNew(q, f)
  <2>1. \A i \in retained :
          /\ heap'[i].fp = heap[i].fp /\ heap'[i].opened = heap[i].opened
          /\ heap'[i].status = "awaiting" => heap[i].status = "awaiting"
    <3>1. \A i \in 1..Len(heap) : heap[i].status \in {"awaiting", "approved"}
      BY <1>0, HeapTypes
    <3>2. QED
      BY <1>0, <1>3, <3>1, HeapSteps DEF TypeOK
  <2>2. QED
    BY <1>0, <1>3, <2>1 DEF BurstsCollapse
<1>4. QED
  BY <1>1, <1>2, <1>3, HeapSteps

(* An incident object is never taken back from approved.                   *)
LEMMA ApprovalsStep ==
  ASSUME IndInv, [Next]_vars
  PROVE  ApprovalsStand'
<1>0. TypeOK /\ ApprovalsStand
  BY DEF IndInv
<1>1. ASSUME NEW q \in Slots, NEW f \in Fingerprints, IngestNew(q, f)
      PROVE  ApprovalsStand'
  <2>1. Opens(f) /\ slot' = [slot EXCEPT ![q] = [op |-> "ingest", id |-> NewId]]
    BY <1>1, OpeningEffect DEF IngestNew, Hold, NewId
  <2>2. QED
    BY <1>0, <2>1 DEF Opens, TypeOK, ApprovalsStand, Idle
<1>2. ASSUME NEW q \in Slots, NEW id \in 1..Len(heap),
             heap' = [heap EXCEPT ![id].status = "approved"], Hold(q, "approve", id)
      PROVE  ApprovalsStand'
  <2>1. /\ heap'[id].status = "approved"
        /\ \A i \in 1..Len(heap) : heap[i].status = "approved" => heap'[i].status = "approved"
    BY <1>0, <1>2 DEF TypeOK, Incidents
  <2>2. QED
    BY <1>0, <1>2, <2>1 DEF TypeOK, ApprovalsStand, Hold, Idle
<1>3. CASE Restart
  BY <1>3 DEF Restart, ApprovalsStand, Idle
<1>4. CASE UNCHANGED <<heap, slot>>
  BY <1>0, <1>4 DEF ApprovalsStand
<1>5. CASE UNCHANGED heap /\ \E q \in Slots, op \in {"ingest", "get"}, id \in Nat : Hold(q, op, id)
  BY <1>0, <1>5 DEF ApprovalsStand, Hold, TypeOK, Idle
<1>6. CASE UNCHANGED heap /\ \E q \in Slots : slot' = [slot EXCEPT ![q] = Idle]
  BY <1>0, <1>6 DEF ApprovalsStand, TypeOK, Idle
<1>7. QED
  <2>1. CASE \E q \in Slots, f \in Fingerprints : IngestNew(q, f)
    BY <1>1, <2>1
  <2>2. CASE ~\E q \in Slots, f \in Fingerprints : IngestNew(q, f)
    <3>1. \A f \in DOMAIN index : index[f] \in Nat
      BY <1>0 DEF TypeOK
    <3>2. \A id \in 1..Len(heap) : id \in Nat
      BY <1>0 DEF TypeOK
    <3>3. QED
      BY <1>0, <1>2, <1>3, <1>4, <1>5, <1>6, <2>2, <3>1, <3>2, OtherSteps DEF Tick
  <2>3. QED
    BY <2>1, <2>2
-----------------------------------------------------------------------------
(* The service never leaves the inductive invariant, in whatever           *)
(* interleaving of reports, approvals, evictions and restarts.             *)
THEOREM Invariance == Spec => []IndInv
<1>1. Init => IndInv
  BY InitIndInv
<1>2. IndInv /\ [Next]_vars => IndInv'
  BY TypeStep, IndexStep, ClockStep, BurstsStep, ApprovalsStep DEF IndInv
<1>3. QED
  BY <1>1, <1>2, PTL DEF Spec

(* Type correctness, the bound on the retained incidents included.         *)
THEOREM TypeCorrect == Spec => []TypeOK
<1>1. IndInv => TypeOK
  BY DEF IndInv
<1>2. QED
  BY <1>1, Invariance, PTL

(* The unguarded lookup of an index entry in _incidents never fails, for   *)
(* every capacity and number of links.                                     *)
THEOREM IndexNeverDangles == Spec => []IndexIsExact
<1>1. IndInv => IndexIsExact
  BY DEF IndInv
<1>2. QED
  BY <1>1, Invariance, PTL

(* Deduplication collapses bursts, for every window and capacity.          *)
THEOREM Deduplication == Spec => []BurstsCollapse
<1>1. IndInv => BurstsCollapse
  BY DEF IndInv
<1>2. QED
  BY <1>1, Invariance, PTL

(* What an approval's answer says is true, though it is read late.         *)
THEOREM ApprovalsAreFinal == Spec => []ApprovalsStand
<1>1. IndInv => ApprovalsStand
  BY DEF IndInv
<1>2. QED
  BY <1>1, Invariance, PTL

(* No report is attributed to an incident that is approved or evicted.     *)
THEOREM RecurrencesAreVisible == Spec => ReportsReachOpenIncidents
<1>1. ASSUME IndInv, IndInv', [Next]_vars, NEW q \in Slots,
             slot[q] = Idle, slot'[q].op = "ingest"
      PROVE  StandsOpen(slot[q].id)'
  <2>0. TypeOK /\ IndexIsExact
    BY <1>1 DEF IndInv
  <2>1. ASSUME NEW p \in Slots, NEW f \in Fingerprints, IngestNew(p, f) PROVE StandsOpen(slot[q].id)'
    <3>1. Opens(f)
      BY <1>1, <2>1, OpeningEffect
    <3>2. slot'[q].id = NewId
      BY <1>1, <2>0, <2>1 DEF IngestNew, Hold, TypeOK, NewId, Idle
    <3>3. heap'[NewId].fp = f /\ heap'[NewId].status = "awaiting" /\ NewId \in retained'
      BY <3>1 DEF Opens
    <3>4. f \in DOMAIN index' /\ index'[f] = NewId
      BY <3>1, <3>3 DEF Opens
    <3>5. QED
      BY <3>2, <3>3, <3>4 DEF StandsOpen
  <2>2. ASSUME NEW p \in Slots, NEW f \in Fingerprints, IngestDuplicate(p, f)
        PROVE  StandsOpen(slot[q].id)'
    <3>1. /\ f \in DOMAIN index /\ heap[index[f]].status = "awaiting"
          /\ UNCHANGED <<heap, retained, index>>
      BY <2>2 DEF IngestDuplicate, Absorbs
    <3>2. slot'[q].id = index[f]
      BY <1>1, <2>0, <2>2 DEF IngestDuplicate, Hold, TypeOK, Idle
    <3>3. index[f] \in retained /\ heap[index[f]].fp = f
      BY <2>0, <3>1 DEF IndexIsExact
    <3>4. QED
      BY <3>1, <3>2, <3>3 DEF StandsOpen
  <2>3. ~(\E p \in Slots, f \in Fingerprints : IngestNew(p, f) \/ IngestDuplicate(p, f))
        => slot'[q].op # "ingest"
    <3>1. slot[q].op # "ingest" /\ Idle.op # "ingest"
      BY <1>1 DEF Idle
    <3>2. SUFFICES ASSUME ~\E p \in Slots, f \in Fingerprints :
                             IngestNew(p, f) \/ IngestDuplicate(p, f)
                   PROVE  slot'[q].op # "ingest"
      OBVIOUS
    <3>3. \/ \E p \in Slots, id \in 1..Len(heap) : Hold(p, "get", id) \/ Hold(p, "approve", id)
          \/ \E p \in Slots : slot' = [slot EXCEPT ![p] = Idle]
          \/ slot' = [p \in Slots |-> Idle]
          \/ slot' = slot
      BY <1>1, <3>2
         DEF Next, vars, IngestRejected, Get, Approve, Refused, Answer, Restart, Tick
    <3>4. QED
      BY <2>0, <3>1, <3>3 DEF Hold, TypeOK
  <2>4. QED
    BY <1>1, <2>1, <2>2, <2>3
<1>2. IndInv /\ IndInv' /\ [Next]_vars =>
        [\A q \in Slots : slot[q] = Idle /\ slot'[q].op = "ingest"
                            => StandsOpen(slot[q].id)']_vars
  BY <1>1
<1>3. QED
  BY <1>2, Invariance, PTL DEF Spec, ReportsReachOpenIncidents
=============================================================================
