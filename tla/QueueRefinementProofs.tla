------------------------ MODULE QueueRefinementProofs ------------------------
(***************************************************************************)
(* QueueManager implements DurableQueue, for every number of pull          *)
(* requests, workers and handlers: with its pointers, goroutines, wake-ups,*)
(* snapshots and state file it does what one list, changed atomically,     *)
(* does.  With it, what a user decided stays decided.                      *)
(***************************************************************************)
EXTENDS QueueManagerProofs

-----------------------------------------------------------------------------
(* The list by value *)

\* What users see at each place is the item the pointer there leads to.
LEMMA ViewOf ==
  ASSUME MemoryOK
  PROVE  /\ DOMAIN View(items, heap) = DOMAIN items
         /\ \A k \in DOMAIN items :
              /\ items[k] \in Listed /\ items[k] \in Ptr
              /\ View(items, heap)[k] = heap[items[k]]
              /\ View(items, heap)[k] \in Item
         /\ View(items, heap) \in Seq(Item)
<1>1. \A k \in DOMAIN items : items[k] \in Listed /\ items[k] \in Ptr
  BY DEF MemoryOK, Listed
<1>2. DOMAIN items = 1..Len(items) /\ Len(items) \in Nat
  BY DEF MemoryOK
<1>3. \A k \in DOMAIN items : heap[items[k]] \in Item
  BY <1>1 DEF MemoryOK
<1>4. View(items, heap) = [k \in 1..Len(items) |-> heap[items[k]]]
  BY <1>2 DEF View
<1> QED BY <1>1, <1>2, <1>3, <1>4

\* Two places of the list never hold the same pointer.
LEMMA PlacesDiffer ==
  ASSUME MemoryOK, NEW j \in DOMAIN items, NEW k \in DOMAIN items, items[j] = items[k]
  PROVE  j = k
BY DEF MemoryOK, NumbersUnique

\* Another item at the address of place k is another item at place k.
LEMMA ViewChange ==
  ASSUME MemoryOK, NEW k \in DOMAIN items, NEW item, UNCHANGED items,
         heap'[items[k]] = item,
         \A q \in Listed : q # items[k] => heap'[q] = heap[q]
  PROVE  View(items', heap') = [View(items, heap) EXCEPT ![k] = item]
<1>1. \A j \in DOMAIN items : heap'[items[j]] = IF j = k THEN item ELSE heap[items[j]]
  BY ViewOf, PlacesDiffer
<1> QED BY <1>1, ViewOf DEF View

LEMMA NestedChange ==
  ASSUME NEW f, NEW k, NEW r, NEW ph, f[k] = r
  PROVE  [f EXCEPT ![k].phase = ph] = [f EXCEPT ![k] = [r EXCEPT !.phase = ph]]
OBVIOUS

\* ... and so is another phase.
LEMMA ViewPhase ==
  ASSUME MemoryOK, NEW p \in Listed, NEW ph \in Phases, UNCHANGED items,
         heap' = [heap EXCEPT ![p].phase = ph]
  PROVE  \E k \in DOMAIN items :
           /\ items[k] = p
           /\ View(items, heap)[k] = heap[p]
           /\ View(items', heap') = [View(items, heap) EXCEPT ![k].phase = ph]
<1>1. PICK k \in DOMAIN items : items[k] = p
  BY DEF Listed
<1>2. heap[p] \in Item /\ heap'[p] = [heap[p] EXCEPT !.phase = ph]
  BY DEF MemoryOK, Listed
<1>3. \A q \in Listed : q # items[k] => heap'[q] = heap[q]
  BY <1>1 DEF MemoryOK, Listed
<1>4. View(items, heap)[k] = heap[p] /\ k \in DOMAIN View(items, heap)
  BY <1>1, ViewOf
<1> DEFINE item == [heap[p] EXCEPT !.phase = ph]
<1>5. heap'[items[k]] = item
  BY <1>1, <1>2
<1> HIDE DEF item
<1>6. View(items', heap') = [View(items, heap) EXCEPT ![k] = item]
  BY <1>3, <1>5, ViewChange, Zenon
<1>7. [View(items, heap) EXCEPT ![k].phase = ph] = [View(items, heap) EXCEPT ![k] = item]
  <2> DEFINE V == View(items, heap)
  <2>1. V[k] = heap[p]
    BY <1>4
  <2> HIDE DEF V
  <2>2. [V EXCEPT ![k].phase = ph] = [V EXCEPT ![k] = [heap[p] EXCEPT !.phase = ph]]
    BY <2>1, NestedChange
  <2> QED BY <2>2 DEF V, item
<1> QED BY <1>1, <1>4, <1>6, <1>7

\* A new item at a fresh address goes to the end of the list.
LEMMA ViewAppend ==
  ASSUME MemoryOK, NEW c \in Client, NEW n \in PRs, AddNew(c, n)
  PROVE  View(items', heap') = Append(View(items, heap), [num |-> n, phase |-> "queued"])
<1>1. PICK p \in Ptr \ Reachable :
        /\ heap' = [heap EXCEPT ![p] = [num |-> n, phase |-> "queued"]]
        /\ items' = Append(items, p)
  BY DEF AddNew
<1>2. items \in Seq(Ptr) /\ Len(items) \in Nat /\ DOMAIN items = 1..Len(items)
  BY DEF MemoryOK
<1>3. /\ DOMAIN items' = 1..(Len(items) + 1)
      /\ items'[Len(items) + 1] = p
      /\ \A k \in DOMAIN items : items'[k] = items[k]
  BY <1>1, <1>2
<1>4. \A k \in DOMAIN items : heap'[items'[k]] = heap[items[k]]
  BY <1>1, <1>3, ViewOf DEF Reachable, MemoryOK
<1>5. heap'[p] = [num |-> n, phase |-> "queued"]
  BY <1>1 DEF MemoryOK
<1>6. View(items, heap) \in Seq(Item) /\ DOMAIN View(items, heap) = 1..Len(items)
  BY <1>2, ViewOf
<1>7. Len(View(items, heap)) = Len(items)
  BY <1>2, <1>6
<1>8. /\ DOMAIN Append(View(items, heap), [num |-> n, phase |-> "queued"])
           = 1..(Len(items) + 1)
      /\ \A k \in 1..(Len(items) + 1) :
           Append(View(items, heap), [num |-> n, phase |-> "queued"])[k]
             = IF k = Len(items) + 1 THEN [num |-> n, phase |-> "queued"]
                                     ELSE View(items, heap)[k]
  BY <1>2, <1>6, <1>7
<1>9. \A k \in 1..(Len(items) + 1) :
        heap'[items'[k]] = IF k = Len(items) + 1 THEN [num |-> n, phase |-> "queued"]
                                                 ELSE View(items, heap)[k]
  BY <1>2, <1>3, <1>4, <1>5, ViewOf
<1>10. Append(View(items, heap), [num |-> n, phase |-> "queued"]) \in Seq(Item)
  BY <1>6 DEF Item, Phases
<1>11. View(items', heap') = [k \in 1..(Len(items) + 1) |-> heap'[items'[k]]]
  BY <1>3 DEF View
<1> QED BY <1>8, <1>9, <1>10, <1>11

\* The end of a drive of an item that is listed changes that item only; of one
\* that was cleared meanwhile, nothing that users see.
LEMMA ViewProcess ==
  ASSUME MemoryOK, NEW w \in Worker, NEW err \in Outcome, Process(w, err)
  PROVE  /\ it[w] \notin Listed => View(items', heap') = View(items, heap)
         /\ it[w] \in Listed =>
              \E k \in DOMAIN items :
                /\ items[k] = it[w]
                /\ View(items', heap')
                     = [View(items, heap) EXCEPT ![k] = Routed(heap[it[w]], err)]
<1> DEFINE p == it[w]
           h == [heap EXCEPT ![p] = Routed(heap[p], err)]
           live == Listed \cup {it[v] : v \in Worker \ {w}}
<1>1. /\ heap' = [q \in Ptr |-> IF q \in live THEN h[q] ELSE None]
      /\ UNCHANGED items
      /\ p \in Ptr
  BY DEF Process, Collect, MemoryOK, Driving
<1>2. \A q \in Listed : q \in Ptr /\ q \in live
  BY DEF MemoryOK, Listed
<1>3. /\ h[p] = Routed(heap[p], err)
      /\ \A q \in Listed : q # p => h[q] = heap[q]
  BY <1>1, <1>2 DEF MemoryOK
<1> HIDE DEF h, live
<1>4. /\ \A q \in Listed : heap'[q] = h[q]
      /\ \A q \in Listed : q # p => heap'[q] = heap[q]
  BY <1>1, <1>2, <1>3
<1>5. ASSUME p \notin Listed PROVE View(items', heap') = View(items, heap)
  BY <1>1, <1>4, <1>5, ViewOf DEF View
<1>6. ASSUME p \in Listed
      PROVE  \E k \in DOMAIN items :
                /\ items[k] = p
                /\ View(items', heap') = [View(items, heap) EXCEPT ![k] = Routed(heap[p], err)]
  <2>1. PICK k \in DOMAIN items : items[k] = p
    BY <1>6 DEF Listed
  <2>2. heap'[items[k]] = Routed(heap[p], err)
    BY <1>3, <1>4, <1>6, <2>1
  <2> QED BY <1>1, <1>4, <2>1, <2>2, ViewChange
<1> QED BY <1>5, <1>6

\* Clear leaves the items at the places it keeps, in their order.
LEMMA ViewFilter ==
  ASSUME MemoryOK, NEW K \in SUBSET DOMAIN items, items' = Filter(items, K),
         \A k \in K : heap'[items[k]] = heap[items[k]]
  PROVE  \E at \in [1..Cardinality(K) -> K] :
           /\ \A i, j \in 1..Cardinality(K) : i < j => at[i] < at[j]
           /\ View(items', heap')
                = [j \in 1..Cardinality(K) |-> View(items, heap)[at[j]]]
<1>1. items \in Seq(Ptr)
  BY DEF MemoryOK
<1>2. PICK at \in [1..Cardinality(K) -> K] :
        /\ \A k \in K : \E j \in 1..Cardinality(K) : at[j] = k
        /\ \A i, j \in 1..Cardinality(K) : i < j => at[i] < at[j]
        /\ Filter(items, K) = [j \in 1..Cardinality(K) |-> items[at[j]]]
  BY <1>1, FilterSelects
<1>3. \A j \in 1..Cardinality(K) :
        at[j] \in K /\ at[j] \in DOMAIN items /\ items'[j] = items[at[j]]
  BY <1>2
<1>4. \A j \in 1..Cardinality(K) : heap'[items'[j]] = View(items, heap)[at[j]]
  BY <1>3, ViewOf
<1>5. DOMAIN items' = 1..Cardinality(K)
  BY <1>2
<1>6. View(items', heap') = [j \in 1..Cardinality(K) |-> View(items, heap)[at[j]]]
  BY <1>4, <1>5 DEF View
<1> QED BY <1>2, <1>6

-----------------------------------------------------------------------------
(* Every step of the manager is a step of the list *)

USE DEF Queue!Phases, Queue!InQueue, Phases, InQueue

\* The list counts as the manager does.
LEMMA SameCardinality == \A S : Queue!Cardinality(S) = Cardinality(S)
BY DEF Queue!Cardinality, Cardinality

\* The manager gives one listed item another phase: the list moves its number.
LEMMA ItemMoves ==
  ASSUME MemoryOK, NEW p \in Listed, NEW ph \in Phases, UNCHANGED items,
         heap' = [heap EXCEPT ![p].phase = ph], NEW from, heap[p].phase \in from
  PROVE  Queue!Moves(heap[p].num, from, ph)
<1>1. PICK k \in DOMAIN items :
        /\ items[k] = p
        /\ View(items, heap)[k] = heap[p]
        /\ View(items', heap') = [View(items, heap) EXCEPT ![k].phase = ph]
  BY ViewPhase
<1>2. k \in Queue!At(heap[p].num)
  BY <1>1, ViewOf DEF Queue!At
<1> QED BY <1>1, <1>2 DEF Queue!Moves

\* A handler that queues an item: Add of an unknown number appends it, and every
\* other way back into the queue is one that Submit has.
LEMMA MapsToSubmit ==
  ASSUME MemoryOK,
         \/ \E c \in Client, n \in PRs : AddNew(c, n)
         \/ \E p \in Listed : Requeued(p)
  PROVE  \E n \in PRs : Queue!Submit(n)
<1>1. ASSUME NEW c \in Client, NEW n \in PRs, AddNew(c, n) PROVE Queue!Submit(n)
  <2>1. View(items', heap') = Append(View(items, heap), [num |-> n, phase |-> "queued"])
    BY <1>1, ViewAppend
  <2>2. \A p \in Listed : heap[p].num # n
    BY <1>1 DEF AddNew, Tracked
  <2>3. Queue!At(n) = {}
    BY <2>2, ViewOf DEF Queue!At
  <2> QED BY <2>1, <2>3 DEF Queue!Submit
<1>2. ASSUME NEW p \in Listed, Requeued(p)
      PROVE  heap[p].num \in PRs /\ Queue!Submit(heap[p].num)
  <2>1. heap[p] \in Item /\ heap[p].phase \in Phases \ InQueue
    BY <1>2 DEF MemoryOK, Requeued, Item
  <2>2. Queue!Moves(heap[p].num, Phases \ InQueue, "queued")
    BY <1>2, <2>1, ItemMoves DEF Requeued
  <2> QED BY <2>1, <2>2 DEF Queue!Submit, Item
<1> QED BY <1>1, <1>2

LEMMA MapsToStop ==
  ASSUME MemoryOK, NEW c \in Client, NEW n \in PRs, Remove(c, n)
  PROVE  Queue!Stop(n)
<1>1. PICK p \in Listed :
        /\ heap[p].num = n /\ heap[p].phase \in InQueue
        /\ heap' = [heap EXCEPT ![p].phase = "stopped"]
  BY DEF Remove
<1>2. UNCHANGED items
  BY DEF Remove
<1>3. Queue!Moves(heap[p].num, InQueue, "stopped")
  BY <1>1, <1>2, ItemMoves
<1> QED BY <1>1, <1>3 DEF Queue!Stop

\* Clear drops finished items only, and keeps the order of the others.
LEMMA MapsToClear ==
  ASSUME MemoryOK, NEW c \in Client, NEW phases \in ClearSets, Clear(c, phases)
  PROVE  \E want \in SUBSET (Phases \ InQueue) : Queue!Clear(want)
<1> DEFINE want == phases \ InQueue
           K == {k \in DOMAIN items : heap[items[k]].phase \notin want}
           c0 == Cardinality(K)
           live == {items[k] : k \in K} \cup Held
<1>1. /\ items' = Filter(items, K)
      /\ heap' = [p \in Ptr |-> IF p \in live THEN heap[p] ELSE None]
  BY DEF Clear, Collect
<1>2. K \in SUBSET DOMAIN items /\ \A k \in K : heap'[items[k]] = heap[items[k]]
  BY <1>1, ViewOf
<1>3. K = {k \in DOMAIN View(items, heap) : View(items, heap)[k].phase \notin want}
  BY ViewOf
<1>4. c0 \in Nat
  <2>1. DOMAIN items = 1..Len(items) /\ Len(items) \in Nat
    BY DEF MemoryOK
  <2>2. IsFiniteSet(1..Len(items))
    BY <2>1, FS_Interval
  <2> HIDE DEF K
  <2> QED BY <1>2, <2>1, <2>2, FS_Subset, FS_CardinalityType
<1> HIDE DEF K
<1>5. PICK at \in [1..c0 -> K] :
        /\ \A i, j \in 1..c0 : i < j => at[i] < at[j]
        /\ View(items', heap') = [j \in 1..c0 |-> View(items, heap)[at[j]]]
  BY <1>1, <1>2, ViewFilter
<1> HIDE DEF c0
<1>6. /\ DOMAIN View(items', heap') = 1..c0
      /\ Len(View(items', heap')) = c0
      /\ \A j \in 1..c0 : View(items', heap')[j] = View(items, heap)[at[j]]
  BY <1>4, <1>5
<1>7. Queue!Keeps(K)
  BY <1>5, <1>6, SameCardinality DEF Queue!Keeps, c0
<1>8. Queue!Clear(want)
  BY <1>3, <1>7 DEF Queue!Clear
<1>9. want \in SUBSET (Phases \ InQueue)
  BY ConfigAssumption
<1> QED BY <1>8, <1>9

\* A claim starts the first queued item, and finds less than Limit active: each
\* of those has a worker of its own, and a slot beyond them was free.
LEMMA MapsToBegin ==
  ASSUME BaseInv, DriveInv, NEW w \in Worker, Claim(w)
  PROVE  Queue!Begin
<1>1. PICK k \in DOMAIN items :
        /\ heap[items[k]].phase = "queued"
        /\ \A j \in 1..(k - 1) : heap[items[j]].phase # "queued"
        /\ heap' = [heap EXCEPT ![items[k]].phase = "active"]
  BY DEF Claim, FirstQueued
<1>2. /\ UNCHANGED items /\ items[k] \in Listed
      /\ DOMAIN items = 1..Len(items) /\ Len(items) \in Nat
  BY DEF Claim, Listed, BaseInv, MemoryOK
<1>3. View(items', heap') = [View(items, heap) EXCEPT ![k].phase = "active"]
  <2>1. PICK j \in DOMAIN items :
          /\ items[j] = items[k]
          /\ View(items', heap') = [View(items, heap) EXCEPT ![j].phase = "active"]
    BY <1>1, <1>2, ViewPhase DEF BaseInv
  <2> QED BY <2>1, PlacesDiffer DEF BaseInv
<1>4. \A j \in 1..(k - 1) : j \in DOMAIN items
  BY <1>2
<1>5. /\ View(items, heap)[k].phase = "queued"
      /\ \A j \in 1..(k - 1) : View(items, heap)[j].phase # "queued"
  BY <1>1, <1>4, ViewOf DEF BaseInv
<1>6. Cardinality(Queue!Active) < Concurrency
  <2> DEFINE A == {j \in DOMAIN items : heap[items[j]].phase = "active"}
             f == [j \in A |-> CHOOSE v \in Driving : it[v] = items[j]]
  <2>1. \A j \in A : \E v \in Driving : it[v] = items[j]
    BY ViewOf DEF DriveInv, ActiveIsDriven, BaseInv
  <2>2. \A j \in A : f[j] \in Busy /\ it[f[j]] = items[j]
    BY <2>1 DEF Busy, Driving
  <2>3. f \in Injection(A, Busy)
    <3>1. f \in [A -> Busy]
      BY <2>2
    <3>2. \A i, j \in A : f[i] = f[j] => i = j
      BY <2>2, PlacesDiffer DEF BaseInv
    <3> HIDE DEF f, A
    <3> QED BY <3>1, <3>2 DEF Injection, IsInjective
  <2>4. IsFiniteSet(Busy) /\ Cardinality(Busy) \in Nat
    BY ConfigAssumption, FS_Subset, FS_CardinalityType DEF Busy
  <2>5. IsFiniteSet(A) /\ Cardinality(A) <= Cardinality(Busy)
    <3> HIDE DEF f, A
    <3> QED BY <2>3, <2>4, FS_Injection
  <2>6. Cardinality(A) \in Nat
    BY <2>5, FS_CardinalityType
  <2>7. slots = Cardinality(Busy) + 1 /\ slots \in 0..Concurrency /\ Concurrency \in Nat
    BY ConfigAssumption DEF Claim, BaseInv, TypeOK, SlotsMatchWorkers
  <2>8. Queue!Active = A
    BY ViewOf DEF Queue!Active, BaseInv
  <2> HIDE DEF A
  <2> QED BY <2>4, <2>5, <2>6, <2>7, <2>8
<1> QED BY <1>2, <1>3, <1>5, <1>6, SameCardinality, ViewOf DEF Queue!Begin, BaseInv

\* Of a worker that has the daemon to itself, nobody else finishes the item.
AloneInv ==
  Concurrency = 1 =>
    \A w \in Driving : it[w] \in Listed =>
      heap[it[w]].phase \in {"queued", "active", "stopped"}

\* The end of a drive: of an item that was stopped or cleared, nobody sees it.
LEMMA MapsToEnd ==
  ASSUME BaseInv, AloneInv, NEW w \in Worker, NEW err \in Outcome, Process(w, err)
  PROVE  View(items', heap') = View(items, heap) \/ \E n \in PRs : Queue!End(n)
<1> DEFINE p == it[w]
<1>1. w \in Driving /\ p \in Ptr /\ heap[p] \in Item
  BY DEF Process, BaseInv, MemoryOK, Driving
<1>2. CASE p \notin Listed
  BY <1>2, ViewProcess DEF BaseInv
<1>3. CASE p \in Listed
  <2>1. PICK k \in DOMAIN items :
          /\ items[k] = p
          /\ View(items', heap') = [View(items, heap) EXCEPT ![k] = Routed(heap[p], err)]
    BY <1>3, ViewProcess DEF BaseInv
  <2>2. k \in DOMAIN View(items, heap) /\ View(items, heap)[k] = heap[p]
    BY <2>1, ViewOf DEF BaseInv
  <2>3. CASE heap[p].phase = "stopped"
    <3>1. Routed(heap[p], err) = View(items, heap)[k]
      BY <2>2, <2>3 DEF Routed
    <3> QED BY <2>1, <2>2, <3>1, ViewOf DEF BaseInv
  <2>4. CASE heap[p].phase # "stopped"
    <3> DEFINE n == heap[p].num
               to == PhaseAfter[err]
               Leaving == IF Concurrency = 1 THEN InQueue ELSE Phases \ {"stopped"}
    <3>1. heap[p].phase \in Leaving /\ n \in PRs
      BY <1>1, <1>3, <2>4 DEF AloneInv, Item
    <3>2. to \in {"merged", "failed", "conflicts", "needs_approvals", "queued"}
      BY DEF PhaseAfter, Outcome
    <3>3. Routed(heap[p], err) = [heap[p] EXCEPT !.phase = to]
      BY <2>4 DEF Routed
    <3> HIDE DEF p, to
    <3>4. [View(items, heap) EXCEPT ![k].phase = to]
            = [View(items, heap) EXCEPT ![k] = [heap[p] EXCEPT !.phase = to]]
      <4> DEFINE V == View(items, heap)
      <4>1. V[k] = heap[p]
        BY <2>2
      <4> HIDE DEF V
      <4>2. [V EXCEPT ![k].phase = to] = [V EXCEPT ![k] = [heap[p] EXCEPT !.phase = to]]
        BY <4>1, NestedChange
      <4> QED BY <4>2 DEF V
    <3>5. View(items', heap') = [View(items, heap) EXCEPT ![k].phase = to]
      BY <2>1, <3>3, <3>4
    <3>6. k \in Queue!At(n) /\ View(items, heap)[k].phase \in Leaving
      BY <2>2, <3>1 DEF Queue!At
    <3>7. Queue!Moves(n, Leaving, to)
      BY <3>5, <3>6 DEF Queue!Moves
    <3>8. Queue!End(n)
      BY <3>2, <3>7 DEF Queue!End
    <3> QED BY <3>1, <3>8
  <2> QED BY <2>3, <2>4
<1> QED BY <1>2, <1>3

\* A restart lists the state file, which says what the list was.
LEMMA MapsToRestart ==
  ASSUME ~DiskFaults, BaseInv, FileIsCurrent, Restart
  PROVE  Queue!Restart
<1>1. View(items', heap') = Revive(View(items, heap))
  BY RestartView DEF FileIsCurrent
<1> QED BY <1>1 DEF Queue!Restart, Revive, Revived

LEMMA AloneStep ==
  ASSUME BaseInv, AloneInv, [Next]_vars
  PROVE  AloneInv'
<1> SUFFICES ASSUME Concurrency = 1 PROVE AloneInv'
  BY DEF AloneInv
<1> USE DEF memory, goroutines
<1>1. CASE UNCHANGED <<memory, disk, goroutines>>
  BY <1>1 DEF AloneInv, Listed, Driving
<1>2. ASSUME NEW c \in Client, NEW n \in PRs, AddNew(c, n) PROVE AloneInv'
  <2>1. PICK p \in Ptr \ Reachable :
          /\ heap' = [heap EXCEPT ![p] = [num |-> n, phase |-> "queued"]]
          /\ items' = Append(items, p)
    BY <1>2 DEF AddNew
  <2>2. Driving' = Driving /\ UNCHANGED it
    BY <1>2 DEF AddNew, Driving
  <2>3. Listed' = Listed \cup {p}
    <3>1. items \in Seq(Ptr)
      BY DEF BaseInv, MemoryOK
    <3>2. /\ DOMAIN items' = DOMAIN items \cup {Len(items) + 1}
          /\ items'[Len(items) + 1] = p
          /\ \A k \in DOMAIN items : items'[k] = items[k]
      BY <2>1, <3>1
    <3> QED BY <3>2 DEF Listed
  <2>4. \A v \in Driving : it[v] # p /\ it[v] \in Ptr
    BY <2>1 DEF BaseInv, MemoryOK, Reachable, Held, Driving
  <2> QED BY <2>1, <2>2, <2>3, <2>4 DEF AloneInv, BaseInv, MemoryOK
<1>3. ASSUME NEW p \in Listed, NEW ph \in {"queued", "active", "stopped"},
             heap' = [heap EXCEPT ![p].phase = ph], UNCHANGED <<items, it, state>>
      PROVE  AloneInv'
  <2>1. /\ Listed' = Listed /\ heap'[p] = [num |-> heap[p].num, phase |-> ph]
        /\ \A q \in Ptr : q # p => heap'[q] = heap[q]
    BY <1>3, PhaseChange DEF BaseInv
  <2>2. Driving' = Driving /\ \A v \in Driving : it[v] \in Ptr
    BY <1>3 DEF Driving, BaseInv, MemoryOK
  <2> QED BY <1>3, <2>1, <2>2 DEF AloneInv
<1>4. ASSUME NEW c \in Client, NEW phases \in ClearSets, Clear(c, phases)
      PROVE  AloneInv'
  <2> DEFINE kept == {k \in DOMAIN items : heap[items[k]].phase \notin phases \ InQueue}
             live == {items[k] : k \in kept} \cup Held
  <2>1. /\ items' = Filter(items, kept)
        /\ heap' = [q \in Ptr |-> IF q \in live THEN heap[q] ELSE None]
        /\ UNCHANGED <<state, it>>
    BY <1>4 DEF Clear, Collect
  <2>2. kept \in SUBSET DOMAIN items /\ items \in Seq(Ptr)
    BY DEF BaseInv, MemoryOK
  <2> HIDE DEF kept
  <2>3. \A j \in DOMAIN items' : \E k \in kept : items'[j] = items[k]
    BY <2>1, <2>2, FilterType
  <2>4. \A q \in Listed' : q \in Listed /\ heap'[q] = heap[q]
    BY <2>1, <2>2, <2>3 DEF Listed
  <2> QED BY <2>1, <2>4 DEF AloneInv, Driving
<1>5. ASSUME NEW w \in Worker, Claim(w) PROVE AloneInv'
  <2>1. PICK k \in DOMAIN items :
          /\ heap' = [heap EXCEPT ![items[k]].phase = "active"]
          /\ it' = [it EXCEPT ![w] = items[k]]
    BY <1>5 DEF Claim
  <2>2. /\ UNCHANGED items /\ items[k] \in Listed /\ items[k] \in Ptr
        /\ state' = [state EXCEPT ![w] = "driving"]
    BY <1>5 DEF Claim, Listed, BaseInv, MemoryOK
  <2>3. /\ Listed' = Listed
        /\ heap'[items[k]] = [num |-> heap[items[k]].num, phase |-> "active"]
        /\ \A q \in Ptr : q # items[k] => heap'[q] = heap[q]
    BY <2>1, <2>2, PhaseChange DEF BaseInv
  <2>4. /\ Driving' = Driving \cup {w} /\ it'[w] = items[k]
        /\ \A v \in Driving : v # w => it'[v] = it[v] /\ it[v] \in Ptr
    BY <2>1, <2>2 DEF Driving, BaseInv, MemoryOK
  <2> QED BY <2>3, <2>4 DEF AloneInv
<1>6. ASSUME NEW w \in Worker, NEW err \in Outcome, Process(w, err) PROVE AloneInv'
  <2>1. w \in Busy /\ state' = [state EXCEPT ![w] = "exiting"]
    BY <1>6 DEF Process, Busy
  <2>2. IsFiniteSet(Busy) /\ Cardinality(Busy) \in Nat /\ Cardinality(Busy) <= 1
    BY ConfigAssumption, FS_Subset, FS_CardinalityType
       DEF Busy, BaseInv, TypeOK, SlotsMatchWorkers
  <2>3. Busy = {w}
    <3>1. Cardinality(Busy) # 0
      BY <2>1, <2>2, FS_EmptySet
    <3> QED BY <2>1, <2>2, <3>1, FS_Singleton
  <2>4. Driving' = {}
    BY <2>1, <2>3 DEF Driving, Busy, BaseInv, TypeOK
  <2> QED BY <2>4 DEF AloneInv
<1>7. ASSUME NEW w \in Worker, Exit(w) PROVE AloneInv'
  <2>1. UNCHANGED <<items, heap, it>> /\ Listed' = Listed
    BY <1>7 DEF Exit, Listed
  <2>2. Driving' = Driving
    BY <1>7 DEF Exit, Driving, BaseInv, TypeOK
  <2> QED BY <2>1, <2>2 DEF AloneInv
<1>8. CASE Restart
  BY <1>8 DEF Restart, AloneInv, Driving
<1>9. ASSUME NEW p \in Listed, Requeued(p), UNCHANGED <<cancels, goroutines>>
      PROVE  AloneInv'
  BY <1>3, <1>9 DEF Requeued
<1>10. ASSUME NEW c \in Client, NEW n \in PRs, Remove(c, n) PROVE AloneInv'
  BY <1>3, <1>10 DEF Remove
<1> QED BY <1>1, <1>2, <1>4, <1>5, <1>6, <1>7, <1>8, <1>9, <1>10, StepCases DEF BaseInv

LEMMA StepRefines ==
  ASSUME ~DiskFaults, IInv, AloneInv, FileIsCurrent, [Next]_vars
  PROVE  Queue!Next \/ View(items', heap') = View(items, heap)
<1> USE DEF IInv, BaseInv
<1>1. CASE UNCHANGED <<memory, disk, goroutines>>
  BY <1>1 DEF memory
<1>2. ASSUME NEW w \in Worker, Exit(w) PROVE View(items', heap') = View(items, heap)
  BY <1>2 DEF Exit, memory
<1>3. CASE (\E c \in Client, n \in PRs : AddNew(c, n)) \/ \E p \in Listed : Requeued(p)
  BY <1>3, MapsToSubmit DEF Queue!Next
<1>4. ASSUME NEW c \in Client, NEW n \in PRs, Remove(c, n) PROVE Queue!Next
  BY <1>4, MapsToStop DEF Queue!Next
<1>5. ASSUME NEW c \in Client, NEW phases \in ClearSets, Clear(c, phases) PROVE Queue!Next
  BY <1>5, MapsToClear DEF Queue!Next
<1>6. ASSUME NEW w \in Worker, Claim(w) PROVE Queue!Next
  BY <1>6, MapsToBegin DEF Queue!Next
<1>7. ASSUME NEW w \in Worker, NEW err \in Outcome, Process(w, err)
      PROVE  Queue!Next \/ View(items', heap') = View(items, heap)
  BY <1>7, MapsToEnd DEF Queue!Next
<1>8. CASE Restart
  BY <1>8, MapsToRestart DEF Queue!Next
<1> QED BY <1>1, <1>2, <1>3, <1>4, <1>5, <1>6, <1>7, <1>8, StepCases

\* While every write of the state file succeeds, each step of the manager is one
\* atomic step of the list that its users see, or changes nothing they see.
THEOREM ManagerImplementsQueue ==
  ASSUME ~DiskFaults
  PROVE  Spec => ImplementsQueue
<1>1. Init => Queue!Init
  BY DEF Init, Queue!Init, View
<1>2. Init => FileIsCurrent /\ AloneInv
  BY DEF Init, FileIsCurrent, View, AloneInv, Driving
<1>3. IInv /\ FileIsCurrent /\ [Next]_vars => FileIsCurrent'
  BY CurrentStep DEF IInv
<1>4. IInv /\ AloneInv /\ [Next]_vars => AloneInv'
  BY AloneStep DEF IInv
<1>5. IInv /\ AloneInv /\ FileIsCurrent /\ [Next]_vars =>
        [Queue!Next]_(View(items, heap))
  BY StepRefines DEF View
<1> QED BY <1>1, <1>2, <1>3, <1>4, <1>5, Invariance, PTL
        DEF Spec, ImplementsQueue, Queue!Spec

-----------------------------------------------------------------------------
(* What the user decided stays decided *)

\* The phase of a pull request is that of its one listed item ...
LEMMA PhaseIs ==
  ASSUME MemoryOK, NEW p \in Listed
  PROVE  PhaseOf(heap[p].num) = heap[p].phase
<1> DEFINE q == CHOOSE r \in Listed : heap[r].num = heap[p].num
<1>1. q \in Listed /\ heap[q].num = heap[p].num
  OBVIOUS
<1> HIDE DEF q
<1>2. q = p
  BY <1>1, NumberDetermines
<1> QED BY <1>2 DEF PhaseOf, Tracked, q

\* ... before and after a step.
LEMMA PhaseWillBe ==
  ASSUME MemoryOK', NEW p \in Listed', NEW n, heap'[p].num = n
  PROVE  PhaseOf(n)' = heap'[p].phase
<1> DEFINE q == CHOOSE r \in Listed' : heap'[r].num = n
<1>1. q \in Listed' /\ heap'[q].num = n
  OBVIOUS
<1> HIDE DEF q
<1>2. q = p
  BY <1>1 DEF MemoryOK, NumbersUnique, Listed
<1> QED BY <1>2 DEF PhaseOf, Tracked, q

\* A pull request that is in the list at all has an item there.
LEMMA ListedItem ==
  ASSUME NEW n, NEW ph, PhaseOf(n) = ph, ph # "absent"
  PROVE  \E p \in Listed : heap[p].num = n
BY DEF PhaseOf, Tracked

\* What recheckParked may put back, by the mode.
Returnable == IF MergeQueueMode THEN Parked ELSE Parked \cup {"failed"}

TodoInv == todo \in Seq([num : PRs, from : Returnable])

\* What a step can do to a listed item: nothing; an Add again; back from a phase
\* that rechecks or Requeue bring back; a change of an item in the queue; what the
\* end of its drive makes of it; or it is cleared, or the daemon restarts.
LEMMA ItemStep ==
  ASSUME BaseInv, TodoInv, [Next]_vars, NEW p \in Listed, NEW m, heap[p].num = m
  PROVE  \/ p \in Listed' /\ heap'[p] = heap[p]
         \/ \E c \in Client : ReAdd(c, m)
         \/ heap[p].phase \in Returnable
         \/ heap[p].phase \in InQueue
         \/ \E w \in Driving, err \in Outcome :
              /\ it[w] = p
              /\ p \in Listed' /\ heap'[p] = Routed(heap[p], err)
         \/ ~Tracked(m)'
         \/ Restart
<1>1. ASSUME NEW q \in Listed, NEW ph \in Phases, UNCHANGED items,
             heap' = [heap EXCEPT ![q].phase = ph]
      PROVE  (p \in Listed' /\ heap'[p] = heap[p]) \/ p = q
  BY <1>1, PhaseChange DEF BaseInv, MemoryOK, Listed
<1>2. CASE UNCHANGED <<items, heap>>
  BY <1>2 DEF Listed
<1>3. ASSUME NEW c \in Client, NEW n \in PRs, AddNew(c, n)
      PROVE  p \in Listed' /\ heap'[p] = heap[p]
  <2>1. PICK q \in Ptr \ Reachable :
          /\ heap' = [heap EXCEPT ![q] = [num |-> n, phase |-> "queued"]]
          /\ items' = Append(items, q)
    BY <1>3 DEF AddNew
  <2>2. p # q /\ p \in Ptr
    BY <2>1 DEF Reachable, Listed, BaseInv, MemoryOK
  <2>3. p \in Listed'
    <3>1. items \in Seq(Ptr)
      BY DEF BaseInv, MemoryOK
    <3>2. \A k \in DOMAIN items : k \in DOMAIN items' /\ items'[k] = items[k]
      BY <2>1, <3>1
    <3> QED BY <3>2 DEF Listed
  <2> QED BY <2>1, <2>2, <2>3 DEF BaseInv, MemoryOK
<1>4. ASSUME NEW c \in Client, NEW n \in PRs, NEW from \in SUBSET Phases,
             Enqueue(c, n, from)
      PROVE  \/ p \in Listed' /\ heap'[p] = heap[p]
             \/ heap[p].num = n /\ heap[p].phase \in from
  <2>1. PICK q \in Listed :
          /\ heap[q].num = n /\ heap[q].phase \in from
          /\ heap' = [heap EXCEPT ![q].phase = "queued"]
    BY <1>4 DEF Enqueue
  <2> QED BY <1>1, <1>4, <2>1 DEF Enqueue
<1>5. ASSUME NEW c \in Client, NEW n \in PRs, Remove(c, n)
      PROVE  (p \in Listed' /\ heap'[p] = heap[p]) \/ heap[p].phase \in InQueue
  <2>1. PICK q \in Listed :
          heap[q].phase \in InQueue /\ heap' = [heap EXCEPT ![q].phase = "stopped"]
    BY <1>5 DEF Remove
  <2> QED BY <1>1, <1>5, <2>1 DEF Remove
<1>6. ASSUME NEW c \in Client, NEW phases \in ClearSets, Clear(c, phases)
      PROVE  (p \in Listed' /\ heap'[p] = heap[p]) \/ ~Tracked(m)'
  <2> DEFINE kept == {k \in DOMAIN items : heap[items[k]].phase \notin phases \ InQueue}
             live == {items[k] : k \in kept} \cup Held
  <2>1. /\ items' = Filter(items, kept)
        /\ heap' = [q \in Ptr |-> IF q \in live THEN heap[q] ELSE None]
    BY <1>6 DEF Clear, Collect
  <2>2. kept \in SUBSET DOMAIN items /\ items \in Seq(Ptr)
    BY DEF BaseInv, MemoryOK
  <2> HIDE DEF kept
  <2>3. \A j \in DOMAIN items' : \E k \in kept : items'[j] = items[k]
    BY <2>1, <2>2, FilterType
  <2>4. \A q \in Listed' : q \in Listed /\ heap'[q] = heap[q]
    BY <2>1, <2>2, <2>3 DEF Listed
  <2>5. ASSUME NEW q \in Listed', heap'[q].num = m PROVE q = p
    BY <2>4, <2>5, NumberDetermines DEF BaseInv
  <2> QED BY <2>4, <2>5 DEF Tracked
<1>7. ASSUME NEW w \in Worker, Claim(w)
      PROVE  (p \in Listed' /\ heap'[p] = heap[p]) \/ heap[p].phase \in InQueue
  <2>1. PICK k \in DOMAIN items :
          /\ heap[items[k]].phase = "queued"
          /\ heap' = [heap EXCEPT ![items[k]].phase = "active"]
    BY <1>7 DEF Claim, FirstQueued
  <2>2. items[k] \in Listed /\ UNCHANGED items
    BY <1>7 DEF Claim, Listed
  <2> QED BY <1>1, <2>1, <2>2
<1>8. ASSUME NEW w \in Worker, NEW err \in Outcome, Process(w, err)
      PROVE  \/ p \in Listed' /\ heap'[p] = heap[p]
             \/ /\ w \in Driving /\ it[w] = p
                /\ p \in Listed' /\ heap'[p] = Routed(heap[p], err)
  <2> DEFINE h == [heap EXCEPT ![it[w]] = Routed(heap[it[w]], err)]
             live == Listed \cup {it[v] : v \in Worker \ {w}}
  <2>1. /\ w \in Driving /\ it[w] \in Ptr
        /\ heap' = [q \in Ptr |-> IF q \in live THEN h[q] ELSE None]
        /\ UNCHANGED items
    BY <1>8 DEF Process, Collect, BaseInv, MemoryOK, Driving
  <2>2. p \in Listed' /\ p \in Ptr /\ p \in live
    BY <2>1 DEF Listed, BaseInv, MemoryOK
  <2>3. h[p] = IF p = it[w] THEN Routed(heap[p], err) ELSE heap[p]
    BY <2>1, <2>2 DEF BaseInv, MemoryOK
  <2> HIDE DEF h, live
  <2> QED BY <2>1, <2>2, <2>3
<1>9. CASE RequeueParked
  <2>1. CASE UNCHANGED <<items, heap>>
    BY <1>2, <2>1
  <2>2. CASE ~UNCHANGED <<items, heap>>
    <3>1. PICK q \in Listed :
            /\ heap[q] = [num |-> Head(todo).num, phase |-> Head(todo).from]
            /\ heap' = [heap EXCEPT ![q].phase = "queued"]
            /\ UNCHANGED items
      BY <1>9, <2>2 DEF RequeueParked
    <3>2. Head(todo).from \in Returnable
      <4>1. todo # <<>> /\ todo \in Seq([num : PRs, from : Returnable])
        BY <1>9 DEF RequeueParked, BaseInv, TypeOK, TodoInv
      <4>2. Head(todo) \in [num : PRs, from : Returnable]
        BY <4>1, HeadOfSeq
      <4> QED BY <4>2
    <3>3. "queued" \in Phases /\ heap[q].phase \in Returnable
      BY <3>1, <3>2
    <3>4. (p \in Listed' /\ heap'[p] = heap[p]) \/ p = q
      BY <1>1, <3>1, <3>3
    <3> QED BY <3>3, <3>4
  <2> QED BY <2>1, <2>2
<1>10. CASE UNCHANGED vars
  BY <1>2, <1>10 DEF vars
<1>11. ASSUME NEW c \in Client, Request(c)
       PROVE  \/ p \in Listed' /\ heap'[p] = heap[p]
              \/ ReAdd(c, m)
              \/ heap[p].phase \in Returnable
              \/ heap[p].phase \in InQueue
              \/ ~Tracked(m)'
  <2>1. ASSUME NEW n \in PRs, ReAdd(c, n)
        PROVE  (p \in Listed' /\ heap'[p] = heap[p]) \/ ReAdd(c, m)
    BY <1>4, <2>1 DEF ReAdd
  <2>2. ASSUME NEW n \in PRs, Requeue(c, n)
        PROVE  (p \in Listed' /\ heap'[p] = heap[p]) \/ heap[p].phase \in Returnable
    BY <1>4, <2>2 DEF Requeue, Parked, Returnable
  <2> QED BY <1>3, <1>5, <1>6, <1>11, <2>1, <2>2 DEF Request
<1>12. CASE Dispatch
  BY <1>2, <1>7, <1>12
     DEF Dispatch, Acquire, ClaimNothing, Release, Wake, Drain, Return, memory
<1>13. ASSUME NEW w \in Worker, Exit(w) PROVE UNCHANGED <<items, heap>>
  BY <1>13 DEF Exit, memory
<1>14. CASE RecheckLoop
  BY <1>2, <1>9, <1>14 DEF RecheckLoop, RecheckTick, LookupReady, LookupNotReady,
             RecheckNotify, RecheckEnd, RecheckReturn, memory
<1>15. CASE Shutdown \/ (\E c \in Client : Notify(c)) \/ \E n \in PRs : Dequeued(n)
  BY <1>2, <1>15 DEF Shutdown, Notify, Dequeued, memory
<1> QED BY <1>2, <1>8, <1>10, <1>11, <1>12, <1>13, <1>14, <1>15 DEF Next, Work

\* The snapshot of a recheck, and so what is left of it, is returnable.
LEMMA TodoStep ==
  ASSUME BaseInv, TodoInv, [Next]_vars
  PROVE  TodoInv'
<1> DEFINE T == [num : PRs, from : Returnable]
<1>1. Snapshot \in Seq(T)
  <2>1. /\ Entries("needs_approvals") \in Seq(T) /\ Entries("conflicts") \in Seq(T)
        /\ ~MergeQueueMode => Entries("failed") \in Seq(T)
    BY EntriesType DEF Returnable, Parked, BaseInv
  <2> HIDE DEF T
  <2> QED BY <2>1 DEF Snapshot
<1>2. /\ <<>> \in Seq(T) /\ todo \in Seq(T)
      /\ todo # <<>> => Tail(todo) \in Seq(T)
  BY HeadOfSeq DEF TodoInv
<1> HIDE DEF T
<1>3. todo' \in Seq(T)
  <2>1. CASE UNCHANGED todo
    BY <1>2, <2>1
  <2>2. CASE RecheckLoop
    BY <1>1, <1>2, <2>2 DEF BaseInv, TypeOK, RecheckLoop, RecheckTick, LookupReady,
       LookupNotReady, RequeueParked, RecheckNotify, RecheckEnd, RecheckReturn
  <2>3. CASE Restart
    BY <1>2, <2>3 DEF Restart
  <2>4. UNCHANGED todo \/ RecheckLoop \/ Restart
    BY DEF Next, vars, Request, AddNew, ReAdd, Requeue, Enqueue, Remove, Clear, Notify,
           Dispatch, Acquire, Claim, ClaimNothing, Release, Wake, Drain, Return,
           Work, Process, Exit, Dequeued, Shutdown, recheckers
  <2> QED BY <2>1, <2>2, <2>3, <2>4
<1> QED BY <1>3 DEF TodoInv, T

\* A restart from a file that says what the list was keeps what is not active.
LEMMA RestartKeeps ==
  ASSUME BaseInv, Restart, Revive(disk) = Revive(View(items, heap)),
         NEW p \in Listed, heap[p].phase # "active"
  PROVE  \E q \in Listed' : heap'[q] = heap[p]
<1>1. PICK k \in DOMAIN items : items[k] = p
  BY DEF Listed
<1>2. View(items', heap') = Revive(View(items, heap))
  BY RestartView
<1>3. /\ k \in DOMAIN View(items', heap')
      /\ View(items', heap')[k] = Revived(heap[p])
  BY <1>1, <1>2, ViewOf DEF Revive, BaseInv
<1>4. k \in DOMAIN items' /\ heap'[items'[k]] = heap[p]
  BY <1>3 DEF View, Revived
<1> QED BY <1>4 DEF Listed

LEMMA StickyStep ==
  ASSUME IInv, IInv', TodoInv, FileIsCurrent, ~DiskFaults, [Next]_vars,
         NEW n \in PRs, PhaseOf(n) = "stopped"
  PROVE  PhaseOf(n)' \in {"stopped", "absent"} \/ \E c \in Client : ReAdd(c, n)
<1> USE DEF IInv, BaseInv
<1>1. PICK p \in Listed : heap[p].num = n
  BY ListedItem
<1>2. heap[p].phase = "stopped"
  BY <1>1, PhaseIs
<1>3. CASE p \in Listed' /\ heap'[p] = heap[p]
  BY <1>1, <1>2, <1>3, PhaseWillBe
<1>4. ASSUME NEW err \in Outcome, p \in Listed', heap'[p] = Routed(heap[p], err)
      PROVE  PhaseOf(n)' = "stopped"
  BY <1>1, <1>2, <1>4, PhaseWillBe DEF Routed
<1>5. CASE ~Tracked(n)'
  BY <1>5 DEF PhaseOf
<1>6. CASE Restart
  <2>1. PICK q \in Listed' : heap'[q] = heap[p]
    BY <1>2, <1>6, RestartKeeps DEF FileIsCurrent
  <2> QED BY <1>1, <1>2, <2>1, PhaseWillBe
<1>7. heap[p].phase \notin Returnable \cup InQueue
  BY <1>2 DEF Returnable, Parked
<1>8. \/ p \in Listed' /\ heap'[p] = heap[p]
      \/ \E c \in Client : ReAdd(c, n)
      \/ \E w \in Driving, err \in Outcome :
           p \in Listed' /\ heap'[p] = Routed(heap[p], err)
      \/ ~Tracked(n)'
      \/ Restart
  BY <1>1, <1>7, ItemStep
<1> QED BY <1>3, <1>4, <1>5, <1>6, <1>8

\* Once the user has stopped a pull request nothing but an Add brings it back: no
\* late result of a worker, no old snapshot of a recheck and, while writes
\* succeed, no restart.
THEOREM StoppedStaysStopped ==
  ASSUME ~DiskFaults
  PROVE  Spec => StoppedIsSticky
<1>1. Init => FileIsCurrent /\ TodoInv
  BY DEF Init, FileIsCurrent, View, TodoInv
<1>2. IInv /\ FileIsCurrent /\ [Next]_vars => FileIsCurrent'
  BY CurrentStep DEF IInv
<1>3. IInv /\ TodoInv /\ [Next]_vars => TodoInv'
  BY TodoStep DEF IInv
<1>4. IInv /\ IInv' /\ TodoInv /\ FileIsCurrent /\ [Next]_vars =>
        [\A n \in PRs : PhaseOf(n) = "stopped" =>
           \/ PhaseOf(n)' \in {"stopped", "absent"}
           \/ \E c \in Client : ReAdd(c, n)]_vars
  BY StickyStep
<1> QED BY <1>1, <1>2, <1>3, <1>4, Invariance, PTL DEF Spec, StoppedIsSticky

LEMMA FailedStep ==
  ASSUME IInv, IInv', TodoInv, [Next]_vars,
         NEW n \in PRs, MergeQueueMode, PhaseOf(n) = "failed"
  PROVE  \/ PhaseOf(n)' \in {"failed", "absent"}
         \/ \E c \in Client : ReAdd(c, n)
         \/ Restart /\ disk # View(items, heap)
         \/ \E w \in Driving : heap[it[w]].num = n
<1> USE DEF IInv, BaseInv
<1>1. PICK p \in Listed : heap[p].num = n
  BY ListedItem
<1>2. heap[p].phase = "failed"
  BY <1>1, PhaseIs
<1>3. CASE p \in Listed' /\ heap'[p] = heap[p]
  BY <1>1, <1>2, <1>3, PhaseWillBe
<1>4. CASE ~Tracked(n)'
  BY <1>4 DEF PhaseOf
<1>5. CASE Restart /\ disk = View(items, heap)
  <2>1. PICK q \in Listed' : heap'[q] = heap[p]
    BY <1>2, <1>5, RestartKeeps
  <2> QED BY <1>1, <1>2, <2>1, PhaseWillBe
<1>6. heap[p].phase \notin Returnable \cup InQueue
  BY <1>2 DEF Returnable, Parked
<1>7. \/ p \in Listed' /\ heap'[p] = heap[p]
      \/ \E c \in Client : ReAdd(c, n)
      \/ \E w \in Driving : it[w] = p
      \/ ~Tracked(n)'
      \/ Restart
  BY <1>1, <1>6, ItemStep
<1> QED BY <1>1, <1>3, <1>4, <1>5, <1>7

\* In merge-queue mode a failed pull request that no worker is on waits for the
\* user's retry, even if writes of the state file fail (unless a restart then
\* reads an old one).
THEOREM FailedWaitsForRetry == Spec => FailedNeedsRetry
<1>1. Init => TodoInv
  BY DEF Init, TodoInv
<1>2. IInv /\ TodoInv /\ [Next]_vars => TodoInv'
  BY TodoStep DEF IInv
<1>3. IInv /\ IInv' /\ TodoInv /\ [Next]_vars =>
        [\A n \in PRs :
           MergeQueueMode /\ PhaseOf(n) = "failed" =>
             \/ PhaseOf(n)' \in {"failed", "absent"}
             \/ \E c \in Client : ReAdd(c, n)
             \/ Restart /\ disk # View(items, heap)
             \/ \E w \in Driving : heap[it[w]].num = n]_vars
  BY FailedStep
<1> QED BY <1>1, <1>2, <1>3, Invariance, PTL DEF Spec, FailedNeedsRetry
=============================================================================
