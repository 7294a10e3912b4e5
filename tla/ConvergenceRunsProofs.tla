------------------------ MODULE ConvergenceRunsProofs ------------------------
(***************************************************************************)
(* Proofs about ConvergenceRuns, for every set of writers, readers and     *)
(* offsets, every capacity and every number of runs, on both backends.     *)
(***************************************************************************)
EXTENDS ConvergenceRuns, TLAPS

(* What a restart keeps, or a full store does, is a suffix of the runs.    *)
LEMMA NewestRunsAreSuffix ==
  ASSUME NEW S, NEW seq \in Seq(S)
  PROVE  /\ NewestRuns(seq) \in Seq(S)
         /\ Len(NewestRuns(seq)) = IF Len(seq) <= Capacity THEN Len(seq) ELSE Capacity
         /\ \A i \in 1..Len(NewestRuns(seq)) :
              NewestRuns(seq)[i] = seq[Len(seq) - Len(NewestRuns(seq)) + i]
<1> DEFINE x == Len(seq) - Capacity + 1
           m == IF x >= 1 THEN x ELSE 1
<1>1. x \in Int /\ m \in Int /\ Len(seq) \in Nat /\ Capacity \in Nat \ {0}
  BY RunsAssumption
<1>2. Max({1, x}) = m
  <2> HIDE DEF x
  <2>1. m \in {1, x} /\ \A y \in {1, x} : m >= y
    BY <1>1
  <2>2. \A z \in {1, x} : (\A y \in {1, x} : z >= y) => z = m
    BY <1>1
  <2>3. QED
    BY <2>1, <2>2 DEF Max
<1>3. NewestRuns(seq) = SubSeq(seq, m, Len(seq))
  BY <1>2 DEF NewestRuns
<1>4. /\ m \in 1..(Len(seq) + 1)
      /\ Len(seq) - m + 1 = IF Len(seq) <= Capacity THEN Len(seq) ELSE Capacity
  <2>1. CASE Len(seq) <= Capacity
    <3>1. m = 1
      BY <1>1, <2>1
    <3>2. QED
      BY <1>1, <2>1, <3>1
  <2>2. CASE ~(Len(seq) <= Capacity)
    <3>1. m = Len(seq) - Capacity + 1
      BY <1>1, <2>2
    <3>2. QED
      BY <1>1, <2>2, <3>1
  <2>3. QED
    BY <2>1, <2>2
<1>5. \A n \in 1..(Len(seq) + 1) :
        /\ SubSeq(seq, n, Len(seq)) \in Seq(S)
        /\ Len(SubSeq(seq, n, Len(seq))) = Len(seq) - n + 1
        /\ \A i \in 1..(Len(seq) - n + 1) : SubSeq(seq, n, Len(seq))[i] = seq[n + i - 1]
  BY <1>1
<1> HIDE DEF m, x
<1>6. /\ SubSeq(seq, m, Len(seq)) \in Seq(S)
      /\ Len(SubSeq(seq, m, Len(seq))) = Len(seq) - m + 1
      /\ \A i \in 1..(Len(seq) - m + 1) :
           SubSeq(seq, m, Len(seq))[i] = seq[Len(seq) - (Len(seq) - m + 1) + i]
  <2>1. \A i \in Int : Len(seq) - (Len(seq) - m + 1) + i = m + i - 1
    BY <1>1
  <2>2. QED
    BY <1>4, <1>5, <2>1
<1>7. QED
  BY <1>3, <1>4, <1>6

(* No run holds events before it is created, and a busy handler holds a    *)
(* run that was created.                                                   *)
FutureRunsAreEmpty == \A run \in RunIds : run > created => events[run] = <<>>
HandlersHoldRuns == \A q \in Requests : req[q].pc # "idle" => req[q].run \in 1..created

(* What an exposition from SQLite has read so far agrees with its copy.    *)
IndexIsOfCopy ==
  \A q \in Requests :
    backend = "sqlite" /\ req[q].op = "metrics" =>
      /\ req[q].pc \in {"status", "list"} => req[q].byKind = KindsOf(req[q].copy)
      /\ req[q].pc = "list" =>
           (req[q].complete <=> IsComplete(profile[req[q].run], req[q].copy))

IndInv ==
  /\ TypeOK /\ FutureRunsAreEmpty /\ HandlersHoldRuns
  /\ TimelinesWellFormed /\ RetainedAreNewest
  /\ StatusNeverAheadOfEvents /\ IndexIsOfCopy

LEMMA IdleIsHandler ==
  ASSUME created \in Nat
  PROVE  Idle \in Handlers
BY DEF Idle, NoRun, Handlers

(* What a request holds once it has looked up a run.                       *)
LEMMA TakenIsHandler ==
  ASSUME created \in Nat, NEW op \in {"create", "append", "get", "metrics"},
         NEW run \in 1..created, NEW pc \in {"row", "load", "index", "status"}
  PROVE  /\ Taken(op, run, pc) \in Handlers
         /\ Taken(op, run, pc).op = op
         /\ Taken(op, run, pc).run = run
         /\ Taken(op, run, pc).pc = pc
<1>1. Idle \in Handlers /\ run \in 0..created
  BY IdleIsHandler
<1>2. QED
  BY <1>1 DEF Handlers, Taken

LEMMA InitHolds == Init => IndInv
<1> SUFFICES ASSUME Init PROVE IndInv
  OBVIOUS
<1> USE DEF Init
<1>1. TypeOK
  BY RunsAssumption, IdleIsHandler DEF TypeOK, NoProfile
<1>2. FutureRunsAreEmpty /\ TimelinesWellFormed
  BY DEF FutureRunsAreEmpty, TimelinesWellFormed
<1>3. HandlersHoldRuns /\ StatusNeverAheadOfEvents /\ IndexIsOfCopy
  BY DEF HandlersHoldRuns, StatusNeverAheadOfEvents, IndexIsOfCopy, Idle, Listing
<1>4. QED
  BY <1>1, <1>2, <1>3 DEF IndInv, RetainedAreNewest

(* A handler's step, or an answer that starts none, touches nothing else.  *)
Handling(q, handler) ==
  /\ req' = [req EXCEPT ![q] = handler]
  /\ UNCHANGED <<backend, created, profile, order, events>>

(* The last two reads: of the index, and of the status.                    *)
Indexing(q, handler) ==
  /\ req[q].pc = "index"
  /\ handler = [req[q] EXCEPT !.pc = "status", !.byKind = KindsOf(View(q))]

Judging(q, handler) ==
  /\ req[q].pc = "status"
  /\ handler = [req[q] EXCEPT !.pc = "list",
                              !.complete = IsComplete(profile[req[q].run], View(q))]

(* The handler that a request may hold next, without writing to the store. *)
Reading(q, handler) ==
  \/ \E run \in 1..created :
       handler = Taken("get", run, IF backend = "sqlite" THEN "load" ELSE "status")
  \/ \E op \in {"get", "metrics"}, run \in 1..created :
       handler = Taken(op, run, IF backend = "sqlite" THEN "row" ELSE After(op))
  \/ handler = Idle
  \/ req[q].pc = "row" /\ handler = [req[q] EXCEPT !.pc = "load"]
  \/ /\ req[q].pc = "load"
     /\ handler = [req[q] EXCEPT !.pc = After(req[q].op), !.copy = events[req[q].run]]
  \/ Indexing(q, handler)
  \/ Judging(q, handler)

(* Every step creates, appends, reads or restarts.                         *)
LEMMA StepKinds ==
  ASSUME TypeOK, [Next]_vars
  PROVE  \/ \E q \in Writers, p \in Profiles : CreateRun(q, p)
         \/ \E q \in Writers, run \in 1..created, e \in Events :
              AppendEvent(q, run, e) /\ ~UNCHANGED vars
         \/ \E q \in Requests : \E handler : Reading(q, handler) /\ Handling(q, handler)
         \/ Restart
         \/ UNCHANGED vars
<1> DEFINE Reads == \E q \in Requests : \E handler : Reading(q, handler) /\ Handling(q, handler)
<1>1. ASSUME NEW q \in Requests, NEW handler, Reading(q, handler), Handling(q, handler)
      PROVE  Reads
  BY <1>1
<1> HIDE DEF Reads
<1>3. ASSUME NEW q \in Readers, NEW run \in 1..created, GetRun(q, run)
      PROVE  Reads \/ UNCHANGED vars
  <2>1. CASE Start(q, Taken("get", run, IF backend = "sqlite" THEN "load" ELSE "status"))
    BY <1>1, <1>3, <2>1 DEF GetRun, Start, Reading, Handling, Requests
  <2>2. CASE Refuse(q)
    BY <1>3, <2>2 DEF GetRun, Refuse, vars
  <2>3. QED
    BY <1>3, <2>1, <2>2 DEF GetRun
<1>4. ASSUME NEW q \in Readers, NEW op \in {"get", "metrics"}, LatestRun(q, op)
      PROVE  Reads \/ UNCHANGED vars
  <2>1. CASE order # <<>> /\ Start(q, Taken(op, Last(order), IF backend = "sqlite" THEN "row" ELSE After(op)))
    <3>1. Last(order) \in 1..created
      BY <2>1 DEF TypeOK, Last
    <3>2. QED
      BY <1>1, <1>4, <2>1, <3>1 DEF LatestRun, Start, Reading, Handling, Requests
  <2>2. CASE Refuse(q)
    BY <1>4, <2>2 DEF LatestRun, Refuse, vars
  <2>3. QED
    BY <1>4, <2>1, <2>2 DEF LatestRun
<1>5. ASSUME NEW q \in Requests,
             LoadRow(q) \/ LoadEvents(q) \/ Locked(q) \/ ReadIndex(q) \/ ReadStatus(q) \/ ReadList(q)
      PROVE  Reads
  <2>1. CASE LoadRow(q)
    BY <1>1, <2>1 DEF LoadRow, Local, Reading, Handling
  <2>2. CASE LoadEvents(q)
    BY <1>1, <2>2 DEF LoadEvents, Local, Reading, Handling
  <2>3. CASE Locked(q) \/ ReadList(q)
    BY <1>1, <2>3 DEF Locked, ReadList, Local, Reading, Handling
  <2>4. CASE ReadIndex(q)
    BY <1>1, <2>4 DEF ReadIndex, Local, Reading, Indexing, Handling
  <2>5. CASE ReadStatus(q)
    BY <1>1, <2>5 DEF ReadStatus, Local, Reading, Judging, Handling
  <2>6. QED
    BY <1>5, <2>1, <2>2, <2>3, <2>4, <2>5
<1>6. QED
  BY <1>3, <1>4, <1>5 DEF Next, Requests, Reads

(* Reading changes what handlers hold, and keeps it consistent.            *)
LEMMA ReadingKeeps ==
  ASSUME IndInv, NEW q \in Requests, NEW handler, Reading(q, handler), Handling(q, handler)
  PROVE  IndInv'
<1> USE DEF IndInv
<1> DEFINE Seen(h) == IF backend = "sqlite" THEN h.copy ELSE events[h.run]
<1>1. /\ req[q].pc # "idle" => req[q].run \in 1..created /\ req[q].run \in RunIds
      /\ req[q] \in Handlers
  BY RunsAssumption DEF TypeOK, HandlersHoldRuns, RunIds, Handlers
<1>0. created \in Nat /\ Idle \in Handlers
  BY RunsAssumption, IdleIsHandler DEF TypeOK
<1>2. req[q].pc # "idle" => View(q) = Seen(req[q]) /\ View(q) \in Seq(Events)
  BY <1>1 DEF TypeOK, View, Handlers
<1>3. \A list \in Seq(Events) : KindsOf(list) \subseteq Kinds
  BY DEF KindsOf, Events
<1>4. /\ handler \in Handlers
      /\ handler.pc # "idle" => handler.run \in 1..created
  <2>1. CASE \E run \in 1..created :
               handler = Taken("get", run, IF backend = "sqlite" THEN "load" ELSE "status")
    <3>1. PICK run \in 1..created :
                 handler = Taken("get", run, IF backend = "sqlite" THEN "load" ELSE "status")
      BY <2>1
    <3>2. handler \in Handlers /\ handler.run = run
      BY <1>0, <3>1, TakenIsHandler
    <3>3. QED
      BY <3>2
  <2>2. CASE \E op \in {"get", "metrics"}, run \in 1..created :
               handler = Taken(op, run, IF backend = "sqlite" THEN "row" ELSE After(op))
    <3>1. PICK op \in {"get", "metrics"}, run \in 1..created :
                 handler = Taken(op, run, IF backend = "sqlite" THEN "row" ELSE After(op))
      BY <2>2
    <3>2. handler \in Handlers /\ handler.run = run
      BY <1>0, <3>1, TakenIsHandler DEF After
    <3>3. QED
      BY <3>2
  <2>3. CASE handler = Idle
    BY <1>0, <2>3 DEF Idle
  <2>4. CASE req[q].pc = "row" /\ handler = [req[q] EXCEPT !.pc = "load"]
    BY <1>1, <2>4 DEF Handlers
  <2>5. CASE /\ req[q].pc = "load"
             /\ handler = [req[q] EXCEPT !.pc = After(req[q].op), !.copy = events[req[q].run]]
    BY <1>1, <2>5 DEF After, TypeOK, Handlers
  <2>6. CASE Indexing(q, handler)
    BY <1>1, <1>2, <1>3, <2>6 DEF Handlers, Indexing
  <2>7. CASE Judging(q, handler)
    BY <1>1, <2>7 DEF IsComplete, Handlers, Judging
  <2>8. QED
    BY <2>1, <2>2, <2>3, <2>4, <2>5, <2>6, <2>7 DEF Reading
<1>12. /\ handler.pc = "status" /\ backend = "sqlite" /\ handler.op = "metrics"
           => Indexing(q, handler)
       /\ handler.pc = "list" => Judging(q, handler)
  <2>1. CASE \E run \in 1..created :
               handler = Taken("get", run, IF backend = "sqlite" THEN "load" ELSE "status")
    BY <1>0, <2>1, TakenIsHandler
  <2>2. CASE \E op \in {"get", "metrics"}, run \in 1..created :
               handler = Taken(op, run, IF backend = "sqlite" THEN "row" ELSE After(op))
    BY <1>0, <2>2, TakenIsHandler DEF After
  <2>3. CASE handler = Idle
    BY <2>3 DEF Idle
  <2>4. CASE req[q].pc = "row" /\ handler = [req[q] EXCEPT !.pc = "load"]
    BY <1>1, <2>4 DEF Handlers
  <2>5. CASE /\ req[q].pc = "load"
             /\ handler = [req[q] EXCEPT !.pc = After(req[q].op), !.copy = events[req[q].run]]
    BY <1>1, <2>5 DEF After, Handlers
  <2>6. CASE Indexing(q, handler)
    BY <1>1, <2>6 DEF Handlers, Indexing
  <2>7. CASE Judging(q, handler)
    BY <1>1, <2>7 DEF Handlers, Judging
  <2>8. QED
    BY <2>1, <2>2, <2>3, <2>4, <2>5, <2>6, <2>7 DEF Reading
<1>5. /\ handler.pc = "list" /\ handler.complete =>
           IsComplete(profile[handler.run], Seen(handler))
      /\ backend = "sqlite" /\ handler.op = "metrics" =>
           /\ handler.pc \in {"status", "list"} => handler.byKind = KindsOf(handler.copy)
           /\ handler.pc = "list" =>
                (handler.complete <=> IsComplete(profile[handler.run], handler.copy))
  <2>1. CASE handler.pc \notin {"status", "list"}
    BY <2>1
  <2>2. CASE handler.pc = "status"
    <3>1. CASE backend = "sqlite" /\ handler.op = "metrics"
      <4>1. Indexing(q, handler)
        BY <1>12, <2>2, <3>1
      <4>2. handler.byKind = KindsOf(View(q)) /\ handler.copy = req[q].copy
        BY <1>1, <4>1 DEF Handlers, Indexing
      <4>3. QED
        BY <1>1, <1>2, <2>2, <3>1, <4>1, <4>2 DEF Indexing
    <3>2. QED
      BY <2>2, <3>1
  <2>3. CASE handler.pc = "list"
    <3>1. Judging(q, handler)
      BY <1>12, <2>3
    <3>2. /\ handler.run = req[q].run /\ handler.copy = req[q].copy
          /\ handler.op = req[q].op /\ handler.byKind = req[q].byKind
          /\ handler.complete = IsComplete(profile[req[q].run], View(q))
      BY <1>1, <3>1 DEF Handlers, Judging
    <3>3. QED
      BY <1>1, <1>2, <2>3, <3>1, <3>2 DEF IndexIsOfCopy, Judging
  <2>4. QED
    BY <2>1, <2>2, <2>3
<1>6. TypeOK' /\ HandlersHoldRuns'
  BY <1>4 DEF TypeOK, Handlers, HandlersHoldRuns, Handling
<1>7. FutureRunsAreEmpty' /\ TimelinesWellFormed' /\ RetainedAreNewest'
  BY DEF Handling, FutureRunsAreEmpty, TimelinesWellFormed, RetainedAreNewest
<1>8. /\ req'[q] = handler /\ \A p \in Requests : p # q => req'[p] = req[p]
      /\ UNCHANGED <<backend, created, profile, order, events>>
  BY DEF Handling, TypeOK
<1>9. StatusNeverAheadOfEvents'
  BY <1>5, <1>8 DEF StatusNeverAheadOfEvents, Listing, View, IsComplete
<1>10. IndexIsOfCopy'
  BY <1>5, <1>8 DEF IndexIsOfCopy
<1>11. QED
  BY <1>6, <1>7, <1>9, <1>10
(* The list of retained runs, entry by entry.                              *)
LEMMA RetainedPointwise ==
  ASSUME TypeOK
  PROVE  RetainedAreNewest <=> \A i \in 1..Len(order) : order[i] = created - Len(order) + i
BY DEF RetainedAreNewest, TypeOK

(* A new run is the newest, and takes nothing from the runs handlers hold. *)
LEMMA CreatingKeeps ==
  ASSUME IndInv, NEW q \in Requests, NEW p \in Profiles, CreateRun(q, p)
  PROVE  IndInv'
<1> USE DEF IndInv
<1> DEFINE run == created + 1
<1>1. /\ created \in Nat /\ MaxRuns \in Nat /\ run \in RunIds /\ created' = run
      /\ run \in 1..created' /\ created' \in 0..MaxRuns
  BY RunsAssumption DEF CreateRun, TypeOK, RunIds
<1>2. /\ order \in Seq(1..run) /\ Append(order, run) \in Seq(1..run)
      /\ Len(Append(order, run)) = Len(order) + 1
      /\ Append(order, run)[Len(order) + 1] = run
      /\ \A i \in 1..Len(order) : Append(order, run)[i] = order[i]
  BY <1>1 DEF TypeOK
<1> DEFINE n == Len(order')
<1>3. /\ order' \in Seq(1..created') /\ n <= Capacity /\ n <= Len(order) + 1 /\ n \in Nat
      /\ \A i \in 1..n : order'[i] = Append(order, run)[Len(order) + 1 - n + i]
  <2> DEFINE seq == Append(order, run)
  <2>1. /\ seq \in Seq(1..run) /\ Len(seq) = Len(order) + 1 /\ Len(order) \in Nat
        /\ order' = NewestRuns(seq) /\ Capacity \in Nat
    BY <1>2, RunsAssumption DEF CreateRun
  <2> HIDE DEF seq
  <2>2. /\ order' \in Seq(1..run) /\ n = IF Len(seq) <= Capacity THEN Len(seq) ELSE Capacity
        /\ \A i \in 1..n : order'[i] = seq[Len(seq) - n + i]
    BY <2>1, NewestRunsAreSuffix
  <2>3. n <= Capacity /\ n <= Len(order) + 1 /\ n \in Nat
    BY <2>1, <2>2
  <2>4. QED
    <3> HIDE DEF n, run
    <3>1. order' \in Seq(1..created') /\ Len(order) + 1 = Len(seq)
      BY <1>1, <2>1, <2>2
    <3>2. \A i \in 1..n : order'[i] = seq[Len(order) + 1 - n + i]
      BY <2>2, <3>1 DEF n
    <3>3. QED
      BY <2>3, <3>1, <3>2 DEF seq
<1>4. \A i \in 1..n : order'[i] = created' - n + i
  <2> SUFFICES ASSUME NEW i \in 1..n
               PROVE  order'[i] = created' - n + i
    OBVIOUS
  <2> HIDE DEF n
  <2> DEFINE j == Len(order) + 1 - n + i
  <2>1. j \in 1..(Len(order) + 1) /\ Len(order) \in Nat
    BY <1>2, <1>3
  <2>2. order'[i] = Append(order, run)[j]
    BY <1>3
  <2>3. CASE j = Len(order) + 1
    BY <1>1, <1>2, <1>3, <2>2, <2>3
  <2>4. CASE j # Len(order) + 1
    <3>1. j \in 1..Len(order)
      BY <2>1, <2>4
    <3>2. order[j] = created - Len(order) + j
      BY <3>1, RetainedPointwise
    <3>3. QED
      BY <1>1, <1>2, <1>3, <2>1, <2>2, <3>1, <3>2
  <2>5. QED
    BY <2>3, <2>4
<1>5. /\ \A r \in RunIds : events'[r] \in {events[r], <<>>}
      /\ \A r \in Held \cap RunIds : backend # "sqlite" => events'[r] = events[r]
      /\ events' \in [RunIds -> Seq(Events)]
  BY DEF CreateRun, TypeOK
<1>6. /\ profile' \in [RunIds -> Profiles \cup {NoProfile}]
      /\ \A r \in 1..created : profile'[r] = profile[r]
  BY <1>1 DEF CreateRun, TypeOK, RunIds
<1>7. /\ Taken("create", run, "status") \in Handlers'
      /\ Taken("create", run, "status").op = "create"
      /\ Taken("create", run, "status").run = run
      /\ Taken("create", run, "status").pc = "status"
  <2>1. Idle \in Handlers'
    BY <1>1 DEF Idle, NoRun, Handlers
  <2> HIDE DEF run
  <2>2. run \in 0..created'
    BY <1>1
  <2>3. QED
    BY <2>1, <2>2 DEF Handlers, Taken
<1>8. /\ req'[q] = Taken("create", run, "status")
      /\ \A r \in Requests : r # q => req'[r] = req[r]
      /\ req' \in [Requests -> Handlers'] /\ backend' = backend
  <2>1. Handlers \subseteq Handlers'
    BY <1>1 DEF Handlers
  <2>2. QED
    BY <1>7, <2>1 DEF CreateRun, Start, TypeOK
<1>9. TypeOK'
  BY <1>1, <1>3, <1>5, <1>6, <1>8 DEF TypeOK
<1>10. FutureRunsAreEmpty' /\ TimelinesWellFormed'
  <2>1. FutureRunsAreEmpty'
    BY SMTT(40), <1>1, <1>5 DEF FutureRunsAreEmpty, RunIds
  <2>2. TimelinesWellFormed'
    BY <1>5 DEF TimelinesWellFormed
  <2>3. QED
    BY <2>1, <2>2
<1>11. RetainedAreNewest'
  BY <1>3, <1>4 DEF RetainedAreNewest
<1>12. HandlersHoldRuns'
  BY <1>1, <1>7, <1>8 DEF HandlersHoldRuns
<1>13. \A r \in Requests : r # q /\ req[r].pc # "idle" =>
         req'[r] = req[r] /\ View(r)' = View(r) /\ profile'[req[r].run] = profile[req[r].run]
  BY SMTT(40), <1>1, <1>5, <1>6, <1>8 DEF HandlersHoldRuns, View, Held, RunIds
<1>14. StatusNeverAheadOfEvents'
  BY <1>7, <1>8, <1>13 DEF StatusNeverAheadOfEvents, Listing
<1>15. IndexIsOfCopy'
  BY <1>7, <1>8, <1>13 DEF IndexIsOfCopy
<1>16. QED
  BY <1>9, <1>10, <1>11, <1>12, <1>14, <1>15
(* An accepted event goes forward in the timeline of an incomplete run.    *)
LEMMA AppendingKeeps ==
  ASSUME IndInv, NEW q \in Requests, NEW run \in 1..created, NEW e \in Events,
         AppendEvent(q, run, e), ~UNCHANGED vars
  PROVE  IndInv' /\ ~IsComplete(profile[run], events[run])
<1> USE DEF IndInv
<1> DEFINE list == Append(events[run], e)
           handler == [Taken("append", run, "status")
                           EXCEPT !.copy = IF backend = "sqlite" THEN list ELSE <<>>]
<1>1. /\ ValidEvent(profile[run], events[run], e)
      /\ events' = [events EXCEPT ![run] = list]
      /\ req' = [req EXCEPT ![q] = handler]
      /\ UNCHANGED <<backend, created, profile, order>>
  BY DEF AppendEvent, Refuse, vars, Start
<1>2. /\ created \in Nat /\ run \in RunIds /\ events[run] \in Seq(Events)
      /\ list \in Seq(Events) /\ Len(list) = Len(events[run]) + 1
      /\ list[Len(list)] = e /\ \A i \in 1..Len(events[run]) : list[i] = events[run][i]
  BY RunsAssumption DEF TypeOK, RunIds
<1>3. /\ handler \in Handlers /\ handler.pc = "status" /\ handler.op = "append"
      /\ handler.run = run
  <2>1. /\ Taken("append", run, "status") \in Handlers
        /\ Taken("append", run, "status").op = "append"
        /\ Taken("append", run, "status").run = run
        /\ Taken("append", run, "status").pc = "status"
    BY <1>2, TakenIsHandler
  <2> HIDE DEF list
  <2>2. (IF backend = "sqlite" THEN list ELSE <<>>) \in Seq(Events)
    BY <1>2
  <2>3. QED
    BY <2>1, <2>2 DEF Handlers
<1>4. /\ events' \in [RunIds -> Seq(Events)] /\ events'[run] = list
      /\ \A r \in RunIds : r # run => events'[r] = events[r]
  BY <1>1, <1>2 DEF TypeOK
<1>5. /\ req' \in [Requests -> Handlers] /\ req'[q] = handler
      /\ \A r \in Requests : r # q => req'[r] = req[r]
  BY <1>1, <1>3 DEF TypeOK
<1> HIDE DEF list, handler
<1>6. ~IsComplete(profile[run], events[run])
  BY <1>1 DEF ValidEvent, IsComplete
<1>7. TypeOK' /\ HandlersHoldRuns'
  BY <1>1, <1>2, <1>3, <1>4, <1>5 DEF TypeOK, Handlers, HandlersHoldRuns
<1>8. FutureRunsAreEmpty' /\ RetainedAreNewest'
  BY <1>1, <1>2, <1>4 DEF FutureRunsAreEmpty, RetainedAreNewest
<1>9. TimelinesWellFormed'
  <2> DEFINE m == Len(events[run])
  <2>1. Head(list).kind = "blackhole_injected"
    <3>1. CASE events[run] = <<>>
      BY <1>1, <1>2, <3>1 DEF ValidEvent
    <3>2. CASE events[run] # <<>>
      <4>1. Head(list) = Head(events[run])
        BY <1>2, <3>2
      <4>2. QED
        BY <1>2, <3>2, <4>1 DEF TimelinesWellFormed
    <3>3. QED
      BY <3>1, <3>2
  <2>2. ASSUME NEW i \in DOMAIN list, NEW j \in DOMAIN list, i < j
        PROVE  list[i].kind # list[j].kind /\ list[i].offset <= list[j].offset
    <3>1. /\ m \in Nat /\ i \in 1..m /\ j \in 1..(m + 1) /\ events[run] # <<>>
          /\ list[i] = events[run][i]
      BY <1>2, <2>2
    <3>2. CASE j \in 1..m
      <4>1. list[j] = events[run][j]
        BY <1>2, <3>2
      <4>2. i \in DOMAIN events[run] /\ j \in DOMAIN events[run]
        BY <1>2, <3>1, <3>2
      <4>3. QED
        BY <1>2, <2>2, <3>1, <4>1, <4>2 DEF TimelinesWellFormed
    <3>3. CASE j = m + 1
      <4>1. list[j] = e
        BY <1>2, <3>3
      <4>2. events[run][i].kind # e.kind
        BY <1>1, <1>2, <3>1 DEF ValidEvent, KindsOf
      <4>3. /\ Last(events[run]) = events[run][m] /\ e.offset \in Nat
            /\ events[run][m].offset \in Nat /\ events[run][i].offset \in Nat
        <5>1. m \in 1..m /\ Last(events[run]) = events[run][m]
          BY <3>1 DEF Last
        <5>2. events[run][m] \in Events /\ events[run][i] \in Events
          BY <1>2, <3>1, <5>1
        <5>3. QED
          BY <5>1, <5>2, OffsetsAssumption DEF Events
      <4>4. events[run][i].offset <= events[run][m].offset
        <5>1. CASE i = m
          BY <4>3, <5>1
        <5>2. CASE i < m
          BY <1>2, <3>1, <5>2 DEF TimelinesWellFormed
        <5>3. QED
          BY <3>1, <5>1, <5>2
      <4>5. events[run][m].offset <= e.offset
        BY <1>1, <3>1, <4>3 DEF ValidEvent
      <4>6. QED
        BY <3>1, <4>1, <4>2, <4>3, <4>4, <4>5
    <3>4. QED
      BY <3>1, <3>2, <3>3
  <2>3. QED
    BY <1>4, <2>1, <2>2 DEF TimelinesWellFormed
<1>10. StatusNeverAheadOfEvents'
  BY <1>1, <1>2, <1>3, <1>4, <1>5, <1>6
     DEF StatusNeverAheadOfEvents, HandlersHoldRuns, Listing, View, IsComplete, RunIds
<1>11. IndexIsOfCopy'
  BY <1>1, <1>3, <1>5 DEF IndexIsOfCopy
<1>12. QED
  BY <1>6, <1>7, <1>8, <1>9, <1>10, <1>11
(* A restart keeps SQLite's runs, up to the capacity, and no others.       *)
LEMMA RestartingKeeps ==
  ASSUME IndInv, Restart
  PROVE  IndInv'
<1> USE DEF IndInv
<1>1. /\ created \in Nat /\ created' = created /\ backend' = backend /\ profile' = profile
      /\ req' = [q \in Requests |-> Idle] /\ order \in Seq(1..created)
  BY RunsAssumption DEF Restart, TypeOK
<1>2. /\ events' \in [RunIds -> Seq(Events)]
      /\ \A run \in RunIds : events'[run] \in {events[run], <<>>}
  BY DEF Restart, TypeOK
<1>3. /\ order' \in Seq(1..created') /\ Len(order') <= Capacity
      /\ \A i \in 1..Len(order') : order'[i] = created' - Len(order') + i
  <2>1. CASE backend # "sqlite"
    BY <2>1, RunsAssumption DEF Restart
  <2>2. CASE backend = "sqlite"
    <3>1. order' = order
      <4>1. /\ NewestRuns(order) \in Seq(1..created)
            /\ Len(NewestRuns(order)) = Len(order)
            /\ \A i \in 1..Len(order) : NewestRuns(order)[i] = order[i]
        <5>1. Len(order) <= Capacity /\ Len(order) \in Nat
          BY <1>1 DEF TypeOK
        <5>2. QED
          BY <1>1, <5>1, NewestRunsAreSuffix
      <4>2. QED
        BY SMTT(40), <1>1, <2>2, <4>1 DEF Restart
    <3>2. QED
      BY <1>1, <3>1, RetainedPointwise DEF TypeOK
  <2>3. QED
    BY <2>1, <2>2
<1>4. TypeOK'
  BY <1>1, <1>2, <1>3, IdleIsHandler DEF TypeOK, Handlers
<1>5. FutureRunsAreEmpty' /\ TimelinesWellFormed'
  <2>1. FutureRunsAreEmpty'
    BY <1>1, <1>2 DEF FutureRunsAreEmpty
  <2>2. TimelinesWellFormed'
    BY <1>2 DEF TimelinesWellFormed
  <2>3. QED
    BY <2>1, <2>2
<1>6. RetainedAreNewest'
  BY <1>3 DEF RetainedAreNewest
<1>7. HandlersHoldRuns' /\ StatusNeverAheadOfEvents' /\ IndexIsOfCopy'
  BY <1>1 DEF HandlersHoldRuns, StatusNeverAheadOfEvents, IndexIsOfCopy, Idle, Listing
<1>8. QED
  BY <1>4, <1>5, <1>6, <1>7

LEMMA StutteringKeeps ==
  ASSUME IndInv, UNCHANGED vars
  PROVE  IndInv'
BY DEF IndInv, vars, TypeOK, Handlers, FutureRunsAreEmpty, HandlersHoldRuns, TimelinesWellFormed,
       RetainedAreNewest, StatusNeverAheadOfEvents, IndexIsOfCopy, Listing, View

LEMMA Invariance == Spec => []IndInv
<1>1. ASSUME IndInv, [Next]_vars PROVE IndInv'
  <2>1. TypeOK
    BY <1>1 DEF IndInv
  <2>2. QED
    BY <1>1, <2>1, StepKinds, CreatingKeeps, AppendingKeeps, ReadingKeeps, RestartingKeeps,
       StutteringKeeps DEF Requests
<1>2. QED
  BY <1>1, InitHolds, PTL DEF Spec

(* The requests hold what their handlers can hold, and the store fits its  *)
(* capacity.                                                               *)
THEOREM TypeCorrect == Spec => []TypeOK
<1>1. IndInv => TypeOK
  BY DEF IndInv
<1>2. QED
  BY <1>1, Invariance, PTL

(* Every timeline starts with the injection, names each stage once and     *)
(* goes forward in time, whoever records.                                  *)
THEOREM TimelinesStayWellFormed == Spec => []TimelinesWellFormed
<1>1. IndInv => TimelinesWellFormed
  BY DEF IndInv
<1>2. QED
  BY <1>1, Invariance, PTL

(* "latest" is the last run created, through evictions and restarts.       *)
THEOREM NewestRunsAreRetained == Spec => []RetainedAreNewest
<1>1. IndInv => RetainedAreNewest
  BY DEF IndInv
<1>2. QED
  BY <1>1, Invariance, PTL

(* A run that an answer calls complete has every required stage in the     *)
(* events that are listed next to it.                                      *)
THEOREM StatusIsBackedByEvents == Spec => []StatusNeverAheadOfEvents
<1>1. IndInv => StatusNeverAheadOfEvents
  BY DEF IndInv
<1>2. QED
  BY <1>1, Invariance, PTL

(* An exposition from SQLite speaks of one state of its run.               *)
THEOREM SqliteExpositionIsSnapshot == Spec => []ExpositionIsSnapshot
<1>1. IndInv => ExpositionIsSnapshot
  BY DEF IndInv, IndexIsOfCopy, ExpositionIsSnapshot, Listing, View, IsComplete
<1>2. QED
  BY <1>1, Invariance, PTL

(* A complete run is never added to, as long as it is retained.            *)
THEOREM CompletionIsFinal == Spec => CompleteIsFinal
<1> DEFINE Final == \A run \in Retained :
                      /\ IsComplete(profile[run], events[run])
                      /\ run \in Range(order')
                      => events'[run] = events[run]
<1>1. ASSUME IndInv, [Next]_vars PROVE Final
  <2> SUFFICES ASSUME NEW run \in Retained, IsComplete(profile[run], events[run]),
                      run \in Range(order')
               PROVE  events'[run] = events[run]
    OBVIOUS
  <2>1. TypeOK /\ run \in RunIds /\ run \in 1..created
    BY <1>1, RunsAssumption DEF IndInv, TypeOK, Retained, Range, RunIds
  <2>2. ASSUME NEW q \in Writers, NEW p \in Profiles, CreateRun(q, p)
        PROVE  events'[run] = events[run]
    BY <2>1, <2>2 DEF CreateRun
  <2>3. ASSUME NEW q \in Writers, NEW r \in 1..created, NEW e \in Events,
               AppendEvent(q, r, e), ~UNCHANGED vars
        PROVE  events'[run] = events[run]
    <3>1. r # run
      BY <1>1, <2>3, AppendingKeeps DEF Requests
    <3>2. QED
      BY <2>1, <2>3, <3>1 DEF AppendEvent, TypeOK
  <2>4. ASSUME NEW q \in Requests, NEW handler, Handling(q, handler)
        PROVE  events'[run] = events[run]
    BY <2>4 DEF Handling
  <2>5. CASE Restart
    BY <2>5 DEF Restart, Range
  <2>6. CASE UNCHANGED vars
    BY <2>6 DEF vars
  <2>7. QED
    BY <1>1, <2>1, <2>2, <2>3, <2>4, <2>5, <2>6, StepKinds
<1>2. QED
  BY <1>1, Invariance, PTL DEF Spec, CompleteIsFinal
=============================================================================
