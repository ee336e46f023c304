------------------------- MODULE QueueManagerProofs -------------------------
(***************************************************************************)
(* Proofs about QueueManager for every number of pull requests, workers,   *)
(* handlers and every configuration.  Everything follows from one          *)
(* inductive invariant, IInv.                                              *)
(***************************************************************************)
EXTENDS QueueProperties, SelectionProofs, FiniteSetTheorems, TLAPS

USE DEF SlotFree, FreeSlot, Selecting, Signal

-----------------------------------------------------------------------------
(* The list and the items it points to *)

\* Every pointer that the list or a worker holds leads to an item, and no pull
\* request is in the list twice.
MemoryOK ==
  /\ items \in Seq(Ptr)
  /\ heap \in [Ptr -> Item \cup {None}]
  /\ state \in [Worker -> {"idle", "driving", "exiting"}]
  /\ it \in [Worker -> Ptr \cup {None}]
  /\ \A p \in Listed : heap[p] \in Item
  /\ \A w \in Driving : it[w] \in Ptr /\ heap[it[w]] \in Item
  /\ NumbersUnique

\* A listed item that is not in the queue goes back to queued: what ReAdd,
\* Requeue and RequeueParked have in common.
Requeued(p) ==
  /\ heap[p].phase \notin InQueue
  /\ heap' = [heap EXCEPT ![p].phase = "queued"]
  /\ UNCHANGED items
  /\ Save

\* Head and Tail of a sequence that is not empty.
LEMMA HeadOfSeq ==
  ASSUME NEW S, NEW s \in Seq(S), s # <<>>
  PROVE  Head(s) \in S /\ Tail(s) \in Seq(S)
OBVIOUS

\* The actions by what they do to the list, the items and the workers.
LEMMA StepCases ==
  ASSUME TypeOK, [Next]_vars
  PROVE  \/ UNCHANGED <<memory, disk, goroutines>>
         \/ \E c \in Client, n \in PRs : AddNew(c, n)
         \/ (\E p \in Listed : Requeued(p)) /\ UNCHANGED <<cancels, goroutines>>
         \/ \E c \in Client, n \in PRs : Remove(c, n)
         \/ \E c \in Client, phases \in ClearSets : Clear(c, phases)
         \/ \E w \in Worker : Claim(w)
         \/ \E w \in Worker, err \in Outcome : Process(w, err)
         \/ \E w \in Worker : Exit(w)
         \/ Restart
<1> USE DEF vars, memory, goroutines, loop, recheckers
<1>1. CASE UNCHANGED vars
  BY <1>1
<1>2. ASSUME NEW c \in Client, Request(c) PROVE
         \/ \E n \in PRs : AddNew(c, n)
         \/ (\E p \in Listed : Requeued(p)) /\ UNCHANGED <<cancels, goroutines>>
         \/ \E n \in PRs : Remove(c, n)
         \/ \E phases \in ClearSets : Clear(c, phases)
  <2>1. ASSUME NEW n \in PRs, ReAdd(c, n) \/ Requeue(c, n)
        PROVE  (\E p \in Listed : Requeued(p)) /\ UNCHANGED <<cancels, goroutines>>
    <3>1. PICK from \in {Phases \ InQueue, Parked} : Enqueue(c, n, from)
      BY <2>1 DEF ReAdd, Requeue
    <3>2. PICK p \in Listed : heap[p].phase \in from
                             /\ heap' = [heap EXCEPT ![p].phase = "queued"]
      BY <3>1 DEF Enqueue
    <3>3. heap[p].phase \notin InQueue
      BY <3>1, <3>2 DEF Parked, InQueue
    <3> QED BY <3>1, <3>2, <3>3 DEF Enqueue, Requeued
  <2> QED BY <1>2, <2>1 DEF Request
<1>3. ASSUME NEW c \in Client, Notify(c) PROVE UNCHANGED <<memory, disk, goroutines>>
  BY <1>3 DEF Notify
<1>4. ASSUME Dispatch PROVE
         \/ UNCHANGED <<memory, disk, goroutines>>
         \/ \E w \in Worker : Claim(w)
  BY <1>4 DEF Dispatch, Acquire, ClaimNothing, Release, Wake, Drain, Return
<1>5. ASSUME RecheckLoop PROVE
         \/ UNCHANGED <<memory, disk, goroutines>>
         \/ (\E p \in Listed : Requeued(p)) /\ UNCHANGED <<cancels, goroutines>>
  <2>1. ASSUME NEW p \in Listed, RequeueParked, UNCHANGED items, Save,
               heap[p] = [num |-> Head(todo).num, phase |-> Head(todo).from],
               heap' = [heap EXCEPT ![p].phase = "queued"]
        PROVE  Requeued(p)
    <3>1. Head(todo) \in [num : PRs, from : Parked \cup {"failed"}]
      BY <2>1, HeadOfSeq DEF TypeOK, RequeueParked
    <3>2. heap[p].phase \notin InQueue
      BY <3>1, <2>1 DEF InQueue, Parked
    <3> QED BY <2>1, <3>2 DEF Requeued
  <2>2. ASSUME RequeueParked PROVE
          \/ UNCHANGED <<memory, disk, goroutines>>
          \/ (\E p \in Listed : Requeued(p)) /\ UNCHANGED <<cancels, goroutines>>
    BY <2>1, <2>2 DEF RequeueParked
  <2> QED BY <1>5, <2>2 DEF RecheckLoop, RecheckTick, LookupReady, LookupNotReady,
               RecheckNotify, RecheckEnd, RecheckReturn
<1>6. ASSUME NEW n \in PRs, Dequeued(n) PROVE UNCHANGED <<memory, disk, goroutines>>
  BY <1>6 DEF Dequeued
<1>7. ASSUME Shutdown PROVE UNCHANGED <<memory, disk, goroutines>>
  BY <1>7 DEF Shutdown
<1> QED BY <1>1, <1>2, <1>3, <1>4, <1>5, <1>6, <1>7 DEF Next, Work

\* Giving one listed item another phase changes nothing else.
LEMMA PhaseChange ==
  ASSUME MemoryOK, NEW p \in Listed, NEW ph \in Phases, UNCHANGED items,
         heap' = [heap EXCEPT ![p].phase = ph]
  PROVE  /\ Listed' = Listed
         /\ heap' \in [Ptr -> Item \cup {None}]
         /\ heap'[p] = [num |-> heap[p].num, phase |-> ph]
         /\ \A q \in Ptr : q # p => heap'[q] = heap[q]
         /\ \A q \in Ptr : heap[q] \in Item =>
              heap'[q] \in Item /\ heap'[q].num = heap[q].num
         /\ NumbersUnique'
<1>1. p \in Ptr /\ heap[p] \in Item
  BY DEF MemoryOK, Listed
<1>2. heap'[p] = [num |-> heap[p].num, phase |-> ph] /\ heap'[p] \in Item
  BY <1>1 DEF MemoryOK, Item
<1>3. \A q \in Ptr : q # p => heap'[q] = heap[q]
  BY <1>1 DEF MemoryOK
<1>4. Listed' = Listed
  BY DEF Listed
<1>5. heap' \in [Ptr -> Item \cup {None}]
  BY <1>1, <1>2, <1>3 DEF MemoryOK
<1>6. \A q \in Ptr : heap[q] \in Item =>
         heap'[q] \in Item /\ heap'[q].num = heap[q].num
  BY <1>2, <1>3
<1>7. \A i \in DOMAIN items : heap'[items[i]].num = heap[items[i]].num
  BY <1>6 DEF MemoryOK, Listed
<1> QED BY <1>2, <1>3, <1>4, <1>5, <1>6, <1>7 DEF MemoryOK, NumbersUnique

\* ... and, when the workers stay as they are, leaves all pointers sound.
LEMMA PhaseChangeOK ==
  ASSUME MemoryOK, NEW p \in Listed, NEW ph \in Phases, UNCHANGED <<items, state, it>>,
         heap' = [heap EXCEPT ![p].phase = ph]
  PROVE  MemoryOK'
<1>1. /\ Listed' = Listed
      /\ heap' \in [Ptr -> Item \cup {None}]
      /\ \A q \in Ptr : heap[q] \in Item => heap'[q] \in Item
      /\ NumbersUnique'
  BY PhaseChange
<1>2. \A q \in Listed' : heap'[q] \in Item
  BY <1>1 DEF MemoryOK, Listed
<1>3. \A w \in Driving' : it'[w] \in Ptr /\ heap'[it'[w]] \in Item
  BY <1>1 DEF MemoryOK, Driving
<1> QED BY <1>1, <1>2, <1>3 DEF MemoryOK

\* No step leaves a pointer without an item or lists a pull request twice.
LEMMA MemoryStep ==
  ASSUME TypeOK, MemoryOK, FileIsLoadable, [Next]_vars
  PROVE  MemoryOK'
<1> USE DEF memory, goroutines, loop, recheckers
<1>1. CASE UNCHANGED <<memory, disk, goroutines>>
  BY <1>1 DEF MemoryOK, Listed, Driving, NumbersUnique
<1>2. ASSUME NEW c \in Client, NEW n \in PRs, AddNew(c, n) PROVE MemoryOK'
  <2>1. PICK p \in Ptr \ Reachable :
          /\ heap' = [heap EXCEPT ![p] = [num |-> n, phase |-> "queued"]]
          /\ items' = Append(items, p)
    BY <1>2 DEF AddNew
  <2>2. heap'[p] \in Item /\ heap'[p].num = n
    BY <2>1 DEF MemoryOK, Item, Phases
  <2>3. \A q \in Ptr : q # p => heap'[q] = heap[q]
    BY <2>1 DEF MemoryOK
  <2>4. heap' \in [Ptr -> Item \cup {None}]
    BY <2>1, <2>2 DEF MemoryOK
  <2>5. /\ items' \in Seq(Ptr)
        /\ DOMAIN items' = DOMAIN items \cup {Len(items) + 1}
        /\ Len(items) + 1 \notin DOMAIN items
        /\ items'[Len(items) + 1] = p
        /\ \A k \in DOMAIN items : items'[k] = items[k]
    BY <2>1 DEF MemoryOK
  <2>6. Listed' = Listed \cup {p}
    BY <2>5 DEF Listed
  <2>7. \A q \in Listed : q \in Ptr /\ q # p /\ heap'[q] = heap[q] /\ heap[q].num # n
    BY <2>1, <2>3, <1>2 DEF Listed, Reachable, AddNew, Tracked, MemoryOK
  <2>8. \A q \in Listed' : heap'[q] \in Item
    BY <2>2, <2>6, <2>7 DEF MemoryOK
  <2>9. UNCHANGED <<state, it>> /\ Driving' = Driving
    BY <1>2 DEF AddNew, Driving
  <2>10. \A w \in Driving' : it'[w] \in Ptr /\ heap'[it'[w]] \in Item
    BY <2>1, <2>3, <2>9 DEF MemoryOK, Reachable, Held, Driving
  <2>11. NumbersUnique'
    BY <2>2, <2>5, <2>7 DEF MemoryOK, NumbersUnique, Listed
  <2> QED BY <2>4, <2>5, <2>8, <2>9, <2>10, <2>11 DEF MemoryOK
<1>3. ASSUME NEW p \in Listed, Requeued(p), UNCHANGED <<cancels, goroutines>>
      PROVE  MemoryOK'
  <2>1. "queued" \in Phases
    BY DEF Phases
  <2> QED BY <1>3, <2>1, PhaseChangeOK DEF Requeued
<1>4. ASSUME NEW c \in Client, NEW n \in PRs, Remove(c, n) PROVE MemoryOK'
  <2>1. PICK p \in Listed : heap' = [heap EXCEPT ![p].phase = "stopped"]
    BY <1>4 DEF Remove
  <2>2. UNCHANGED <<items, state, it>> /\ "stopped" \in Phases
    BY <1>4 DEF Remove, Phases
  <2> QED BY <2>1, <2>2, PhaseChangeOK
<1>5. ASSUME NEW c \in Client, NEW phases \in ClearSets, Clear(c, phases)
      PROVE  MemoryOK'
  <2> DEFINE kept == {k \in DOMAIN items : heap[items[k]].phase \notin phases \ InQueue}
             live == {items[k] : k \in kept} \cup Held
  <2>1. /\ items' = Filter(items, kept)
        /\ heap' = [p \in Ptr |-> IF p \in live THEN heap[p] ELSE None]
        /\ UNCHANGED <<state, it>>
    BY <1>5 DEF Clear, Collect
  <2>2. kept \in SUBSET DOMAIN items /\ items \in Seq(Ptr)
    BY DEF MemoryOK
  <2>3. \A i, j \in DOMAIN items : items[i] = items[j] => i = j
    BY DEF MemoryOK, NumbersUnique
  <2> HIDE DEF kept
  <2>4. /\ items' \in Seq(Ptr)
        /\ \A j \in DOMAIN items' : \E k \in kept : items'[j] = items[k]
        /\ \A i, j \in DOMAIN items' : items'[i] = items'[j] => i = j
    BY <2>1, <2>2, <2>3, FilterType
  <2>5. \A j \in DOMAIN items' :
           /\ items'[j] \in Listed
           /\ items'[j] \in Ptr
           /\ heap'[items'[j]] = heap[items'[j]]
    BY <2>1, <2>2, <2>4 DEF Listed
  <2>6. heap' \in [Ptr -> Item \cup {None}]
    BY <2>1 DEF MemoryOK
  <2>7. \A w \in Driving' : it'[w] \in Ptr /\ heap'[it'[w]] \in Item
    BY <2>1 DEF MemoryOK, Driving, Held
  <2>8. NumbersUnique'
    BY <2>4, <2>5 DEF MemoryOK, NumbersUnique, Listed
  <2>9. \A p \in Listed' : heap'[p] \in Item
    BY <2>5 DEF MemoryOK, Listed
  <2> QED BY <2>1, <2>4, <2>6, <2>7, <2>8, <2>9 DEF MemoryOK
<1>6. ASSUME NEW w \in Worker, Claim(w) PROVE MemoryOK'
  <2>1. PICK k \in DOMAIN items :
          /\ heap' = [heap EXCEPT ![items[k]].phase = "active"]
          /\ it' = [it EXCEPT ![w] = items[k]]
    BY <1>6 DEF Claim
  <2>2. /\ UNCHANGED items /\ "active" \in Phases
        /\ state' = [state EXCEPT ![w] = "driving"]
        /\ items[k] \in Listed /\ items[k] \in Ptr
    BY <1>6 DEF Claim, Phases, Listed, MemoryOK
  <2>3. /\ Listed' = Listed
        /\ heap' \in [Ptr -> Item \cup {None}]
        /\ \A q \in Ptr : heap[q] \in Item => heap'[q] \in Item
        /\ NumbersUnique'
    BY <2>1, <2>2, PhaseChange
  <2>4. Driving' = Driving \cup {w}
    BY <2>2 DEF Driving, MemoryOK
  <2>5. \A v \in Driving' : it'[v] \in Ptr /\ heap'[it'[v]] \in Item
    BY <2>1, <2>2, <2>3, <2>4 DEF MemoryOK, Driving
  <2>6. \A q \in Listed' : heap'[q] \in Item
    BY <2>3 DEF MemoryOK, Listed
  <2> QED BY <2>1, <2>2, <2>3, <2>5, <2>6 DEF MemoryOK
<1>7. ASSUME NEW w \in Worker, NEW err \in Outcome, Process(w, err) PROVE MemoryOK'
  <2> DEFINE p == it[w]
             h == [heap EXCEPT ![p] = Routed(heap[p], err)]
             live == Listed \cup {it[v] : v \in Worker \ {w}}
  <2>1. /\ state[w] = "driving"
        /\ state' = [state EXCEPT ![w] = "exiting"]
        /\ it' = [it EXCEPT ![w] = None]
        /\ heap' = [q \in Ptr |-> IF q \in live THEN h[q] ELSE None]
        /\ UNCHANGED items
    BY <1>7 DEF Process, Collect
  <2>2. p \in Ptr /\ heap[p] \in Item
    BY <2>1 DEF MemoryOK, Driving
  <2>3. Routed(heap[p], err) \in Item /\ Routed(heap[p], err).num = heap[p].num
    BY <2>2 DEF Routed, Item, PhaseAfter, Outcome, Phases
  <2>4. h \in [Ptr -> Item \cup {None}]
    BY <2>2, <2>3 DEF MemoryOK
  <2>5. \A q \in Ptr : heap[q] \in Item => h[q] \in Item /\ h[q].num = heap[q].num
    BY <2>2, <2>3 DEF MemoryOK
  <2> HIDE DEF h
  <2>6. heap' \in [Ptr -> Item \cup {None}]
    BY <2>1, <2>4
  <2>7. \A q \in Listed : q \in Ptr /\ heap'[q] \in Item /\ heap'[q].num = heap[q].num
    BY <2>1, <2>5 DEF MemoryOK, Listed
  <2>8. Driving' = Driving \ {w}
    BY <2>1 DEF Driving, MemoryOK
  <2>9. \A v \in Driving' : it'[v] \in Ptr /\ heap'[it'[v]] \in Item
    BY <2>1, <2>5, <2>8 DEF MemoryOK, Driving
  <2>10. NumbersUnique'
    <3>1. \A i \in DOMAIN items : heap'[items[i]].num = heap[items[i]].num
      BY <2>7 DEF Listed
    <3>2. NumbersUnique
      BY DEF MemoryOK
    <3> QED BY <2>1, <3>1, <3>2 DEF NumbersUnique
  <2>11. \A q \in Listed' : heap'[q] \in Item
    BY <2>1, <2>7 DEF Listed
  <2> QED BY <2>1, <2>6, <2>9, <2>10, <2>11 DEF MemoryOK
<1>8. ASSUME NEW w \in Worker, Exit(w) PROVE MemoryOK'
  BY <1>8 DEF Exit, MemoryOK, Driving, Listed, NumbersUnique
<1>9. CASE Restart
  <2>1. PICK a \in Addresses :
          /\ items' = a
          /\ heap' = [p \in Ptr |->
                        IF \E k \in DOMAIN disk : a[k] = p
                        THEN Revived(disk[CHOOSE k \in DOMAIN disk : a[k] = p])
                        ELSE None]
          /\ state' = [w \in Worker |-> "idle"]
          /\ it' = [w \in Worker |-> None]
    BY <1>9 DEF Restart
  <2>2. disk \in Seq(Item) /\ DOMAIN disk = 1..Len(disk) /\ Len(disk) \in Nat
    BY DEF TypeOK
  <2>3. /\ a \in [1..Len(disk) -> Ptr]
        /\ \A i, j \in DOMAIN disk : a[i] = a[j] => i = j
    BY <2>1, <2>2 DEF Addresses
  <2>4. \A item \in Item : Revived(item) \in Item /\ Revived(item).num = item.num
    BY DEF Revived, Item, Phases
  <2>5. \A k \in DOMAIN disk : heap'[a[k]] = Revived(disk[k])
    BY <2>1, <2>2, <2>3
  <2>6. items' \in Seq(Ptr) /\ DOMAIN items' = DOMAIN disk
    BY <2>1, <2>2, <2>3
  <2>7. \A k \in DOMAIN items' :
           heap'[items'[k]] \in Item /\ heap'[items'[k]].num = disk[k].num
    BY <2>1, <2>2, <2>4, <2>5, <2>6
  <2>8. heap' \in [Ptr -> Item \cup {None}]
    BY <2>1, <2>2, <2>4
  <2>9. NumbersUnique'
    BY <2>6, <2>7 DEF NumbersUnique, FileIsLoadable
  <2>10. Driving' = {} /\ \A p \in Listed' : heap'[p] \in Item
    BY <2>1, <2>7 DEF Driving, Listed
  <2> QED BY <2>1, <2>6, <2>8, <2>9, <2>10 DEF MemoryOK
<1> QED BY <1>1, <1>2, <1>3, <1>4, <1>5, <1>6, <1>7, <1>8, <1>9, StepCases

-----------------------------------------------------------------------------
(* The state file, the slots and the control state *)

\* Every step that writes the state file writes the list as the step leaves it.
LEMMA FileStep ==
  ASSUME TypeOK, MemoryOK, FileIsLoadable, [Next]_vars
  PROVE  disk' \in Seq(Item) /\ FileIsLoadable'
<1>1. Save \/ UNCHANGED disk
  BY StepCases DEF Requeued, AddNew, Remove, Clear, Claim, Process, Exit, Restart
<1>2. MemoryOK'
  BY MemoryStep
<1>3. ASSUME disk' = View(items', heap') PROVE disk' \in Seq(Item) /\ FileIsLoadable'
  <2>1. /\ items' \in Seq(Ptr)
        /\ DOMAIN items' = 1..Len(items') /\ Len(items') \in Nat
        /\ \A k \in DOMAIN items' : heap'[items'[k]] \in Item
    BY <1>2 DEF MemoryOK, Listed
  <2>2. disk' = [k \in 1..Len(items') |-> heap'[items'[k]]]
    BY <1>3, <2>1 DEF View
  <2>3. disk' \in Seq(Item)
    BY <2>1, <2>2
  <2>4. FileIsLoadable'
    BY <1>2, <2>1, <2>2 DEF FileIsLoadable, MemoryOK, NumbersUnique
  <2> QED BY <2>3, <2>4
<1>4. CASE UNCHANGED disk
  BY <1>4 DEF TypeOK, FileIsLoadable
<1> QED BY <1>1, <1>3, <1>4 DEF Save

\* The actions by what they do to the slots.
LEMMA SlotCases ==
  ASSUME [Next]_vars
  PROVE  \/ UNCHANGED <<state, disp, slots>>
         \/ Acquire \/ ClaimNothing \/ Release \/ Wake \/ Drain \/ Return
         \/ \E w \in Worker : Claim(w)
         \/ \E w \in Worker, err \in Outcome : Process(w, err)
         \/ \E w \in Worker : Exit(w)
         \/ Restart
<1> USE DEF vars, memory, goroutines, loop, recheckers
<1>1. CASE UNCHANGED vars
  BY <1>1
<1>2. ASSUME NEW c \in Client, Request(c) \/ Notify(c)
      PROVE  UNCHANGED <<state, disp, slots>>
  BY <1>2 DEF Request, AddNew, ReAdd, Requeue, Enqueue, Remove, Clear, Notify
<1>3. ASSUME RecheckLoop \/ Shutdown \/ \E n \in PRs : Dequeued(n)
      PROVE  UNCHANGED <<state, disp, slots>>
  BY <1>3 DEF RecheckLoop, RecheckTick, LookupReady, LookupNotReady, RequeueParked,
             RecheckNotify, RecheckEnd, RecheckReturn, Shutdown, Dequeued
<1> QED BY <1>1, <1>2, <1>3 DEF Next, Dispatch, Work

\* The slots channel counts the workers, and never overflows.
LEMMA SlotStep ==
  ASSUME TypeOK, SlotsMatchWorkers, [Next]_vars
  PROVE  SlotsMatchWorkers' /\ slots' \in 0..Concurrency
<1> USE ConfigAssumption DEF loop
<1>1. /\ IsFiniteSet(Busy) /\ Cardinality(Busy) \in Nat
      /\ Concurrency \in Nat /\ slots \in 0..Concurrency
  BY FS_Subset, FS_CardinalityType DEF Busy, TypeOK
<1>2. CASE UNCHANGED <<state, disp, slots>>
  BY <1>1, <1>2 DEF SlotsMatchWorkers, Busy
<1>3. CASE Acquire \/ ClaimNothing \/ Release \/ Wake \/ Drain \/ Return
  <2>1. Busy' = Busy
    BY <1>3 DEF Busy, Acquire, ClaimNothing, Release, Wake, Drain, Return, goroutines
  <2> QED BY <1>1, <1>3, <2>1 DEF SlotsMatchWorkers, Acquire, ClaimNothing, Release,
               Wake, Drain, Return
<1>4. ASSUME NEW w \in Worker, Claim(w)
      PROVE  SlotsMatchWorkers' /\ slots' \in 0..Concurrency
  <2>1. Busy' = Busy \cup {w} /\ w \notin Busy
    BY <1>4 DEF Busy, Claim, TypeOK
  <2>2. Cardinality(Busy') = Cardinality(Busy) + 1
    BY <1>1, <2>1, FS_AddElement
  <2> QED BY <1>1, <1>4, <2>2 DEF SlotsMatchWorkers, Claim
<1>5. ASSUME NEW w \in Worker, NEW err \in Outcome, Process(w, err)
      PROVE  SlotsMatchWorkers' /\ slots' \in 0..Concurrency
  <2>1. state[w] = "driving" /\ state' = [state EXCEPT ![w] = "exiting"]
        /\ UNCHANGED <<disp, slots>>
    BY <1>5 DEF Process
  <2>2. Busy' = Busy
    BY <2>1 DEF Busy, TypeOK
  <2> QED BY <1>1, <2>1, <2>2 DEF SlotsMatchWorkers
<1>6. ASSUME NEW w \in Worker, Exit(w)
      PROVE  SlotsMatchWorkers' /\ slots' \in 0..Concurrency
  <2>1. Busy' = Busy \ {w} /\ w \in Busy
    BY <1>6 DEF Busy, Exit, TypeOK
  <2>2. Cardinality(Busy') = Cardinality(Busy) - 1 /\ Cardinality(Busy') \in Nat
    BY <1>1, <2>1, FS_RemoveElement, FS_CardinalityType
  <2> QED BY <1>1, <1>6, <2>2 DEF SlotsMatchWorkers, Exit
<1>7. CASE Restart
  <2>1. Busy' = {}
    BY <1>7 DEF Busy, Restart
  <2> QED BY <1>1, <1>7, <2>1, FS_EmptySet DEF SlotsMatchWorkers, Restart
<1> QED BY <1>2, <1>3, <1>4, <1>5, <1>6, <1>7, SlotCases

\* The entries of a phase name pull requests of the list and that phase.
LEMMA EntriesType ==
  ASSUME MemoryOK, NEW F, NEW ph \in F
  PROVE  Entries(ph) \in Seq([num : PRs, from : F])
<1> DEFINE T == [num : PRs, from : F]
           K == {k \in DOMAIN items : heap[items[k]].phase = ph}
           f == Filter(items, K)
<1>1. items \in Seq(Ptr) /\ K \in SUBSET DOMAIN items
  BY DEF MemoryOK
<1> HIDE DEF K
<1>2. /\ f \in Seq(Ptr)
      /\ \A j \in DOMAIN f : \E k \in K : f[j] = items[k]
  BY <1>1, FilterType
<1>3. \A j \in DOMAIN f : heap[f[j]] \in Item
  BY <1>1, <1>2 DEF MemoryOK, Listed
<1>4. \A j \in DOMAIN f : [num |-> heap[f[j]].num, from |-> ph] \in T
  BY <1>3 DEF Item
<1>5. Entries(ph) = [j \in DOMAIN f |-> [num |-> heap[f[j]].num, from |-> ph]]
  BY DEF Entries, K
<1> HIDE DEF f, T
<1>6. DOMAIN f = 1..Len(f) /\ Len(f) \in Nat
  BY <1>2
<1>7. Entries(ph) \in Seq(T)
  BY <1>4, <1>5, <1>6
<1> QED BY <1>7 DEF T

\* What recheckParked takes down are pull requests and the phases it revisits.
LEMMA SnapshotType ==
  ASSUME MemoryOK
  PROVE  Snapshot \in Seq([num : PRs, from : Parked \cup {"failed"}])
<1> DEFINE T == [num : PRs, from : Parked \cup {"failed"}]
<1>1. \A ph \in Parked \cup {"failed"} : Entries(ph) \in Seq(T)
  BY EntriesType
<1> HIDE DEF T
<1>2. /\ Entries("needs_approvals") \in Seq(T) /\ Entries("conflicts") \in Seq(T)
      /\ Entries("failed") \in Seq(T) /\ <<>> \in Seq(T)
  BY <1>1 DEF Parked
<1>3. Snapshot \in Seq(T)
  BY <1>2 DEF Snapshot
<1> QED BY <1>3 DEF T

\* The rest of the type invariant.
LEMMA TypeStep ==
  ASSUME TypeOK, MemoryOK, FileIsLoadable, SlotsMatchWorkers, [Next]_vars
  PROVE  TypeOK'
<1> DEFINE T == [num : PRs, from : Parked \cup {"failed"}]
<1> USE DEF memory, goroutines, loop, recheckers
<1>1. /\ items' \in Seq(Ptr) /\ heap' \in [Ptr -> Item \cup {None}]
      /\ state' \in [Worker -> {"idle", "driving", "exiting"}]
      /\ it' \in [Worker -> Ptr \cup {None}]
      /\ disk' \in Seq(Item) /\ slots' \in 0..Concurrency
  BY MemoryStep, FileStep, SlotStep DEF MemoryOK
<1>2. /\ cancels' \in [PRs -> Worker \cup {None}]
      /\ cancelled' \in [Worker -> BOOLEAN]
  <2>1. \A n : Delete(n) \in [PRs -> Worker \cup {None}]
    BY DEF Delete, TypeOK
  <2>2. \A n : Cancel(n) \in [Worker -> BOOLEAN]
    BY DEF Cancel, TypeOK
  <2>3. ASSUME NEW w \in Worker, Claim(w)
        PROVE  cancels' \in [PRs -> Worker \cup {None}] /\ cancelled' \in [Worker -> BOOLEAN]
    <3>1. PICK n : cancels' = [cancels EXCEPT ![n] = w]
      BY <2>3 DEF Claim
    <3>2. cancelled' = [cancelled EXCEPT ![w] = FALSE]
      BY <2>3 DEF Claim
    <3> QED BY <3>1, <3>2 DEF TypeOK
  <2>4. ASSUME NEW w \in Worker, NEW err \in Outcome, Process(w, err)
        PROVE  cancels' \in [PRs -> Worker \cup {None}] /\ cancelled' \in [Worker -> BOOLEAN]
    <3>1. /\ cancels' = Delete(heap[it[w]].num)
          /\ cancelled' = [Cancel(heap[it[w]].num) EXCEPT ![w] = FALSE]
      BY <2>4 DEF Process
    <3>2. /\ Delete(heap[it[w]].num) \in [PRs -> Worker \cup {None}]
          /\ Cancel(heap[it[w]].num) \in [Worker -> BOOLEAN]
      BY <2>1, <2>2
    <3> QED BY <3>1, <3>2
  <2>5. CASE UNCHANGED <<cancels, cancelled>>
    BY <2>5 DEF TypeOK
  <2>6. ASSUME NEW c \in Client, NEW n \in PRs, Remove(c, n)
        PROVE  cancels' \in [PRs -> Worker \cup {None}] /\ cancelled' \in [Worker -> BOOLEAN]
    BY <2>1, <2>2, <2>6 DEF Remove
  <2>7. CASE Restart
    BY <2>7 DEF Restart
  <2> QED BY <2>3, <2>4, <2>5, <2>6, <2>7, StepCases DEF AddNew, Clear, Exit
<1>3. /\ disp' \in {"acquire", "claim", "release", "waiting", "draining", "returned"}
      /\ wake' \in BOOLEAN /\ down' \in BOOLEAN
      /\ client' \in [Client -> {"idle", "notify"}]
      /\ dequeues' \subseteq PRs
  <2> USE DEF TypeOK
  <2>1. CASE UNCHANGED vars
    BY <2>1 DEF vars
  <2>2. ASSUME NEW c \in Client, Request(c) \/ Notify(c) PROVE <1>3
    BY <2>2 DEF Request, AddNew, ReAdd, Requeue, Enqueue, Remove, Clear, Notify
  <2>3. CASE Dispatch
    BY <2>3 DEF Dispatch, Acquire, Claim, ClaimNothing, Release, Wake, Drain, Return
  <2>4. ASSUME NEW w \in Worker, Work(w) PROVE <1>3
    <3>1. ASSUME NEW err \in Outcome, Process(w, err) PROVE heap[it[w]].num \in PRs
      BY <3>1 DEF Process, MemoryOK, Driving, Item
    <3> QED BY <2>4, <3>1 DEF Work, Process, Exit
  <2>5. CASE RecheckLoop \/ Shutdown \/ Restart \/ \E n \in PRs : Dequeued(n)
    <3>1. CASE RecheckLoop
      BY <3>1 DEF RecheckLoop, RecheckTick, LookupReady, LookupNotReady, RequeueParked,
              RecheckNotify, RecheckEnd, RecheckReturn
    <3>2. CASE Shutdown \/ Restart \/ \E n \in PRs : Dequeued(n)
      BY <3>2 DEF Shutdown, Restart, Dequeued
    <3> QED BY <2>5, <3>1, <3>2
  <2> QED BY <2>1, <2>2, <2>3, <2>4, <2>5 DEF Next
<1>4. /\ rpc' \in {"idle", "scan", "requeue", "notify", "returned"}
      /\ todo' \in Seq(T)
      /\ rpc' \in {"requeue", "notify"} => todo' # <<>>
  <2>1. CASE UNCHANGED <<rpc, todo>>
    BY <2>1 DEF TypeOK
  <2>2. CASE RecheckLoop
    <3>1. Snapshot \in Seq(T) /\ <<>> \in Seq(T)
      BY SnapshotType
    <3>2. todo \in Seq(T) /\ (todo # <<>> => Tail(todo) \in Seq(T))
      BY HeadOfSeq DEF TypeOK
    <3> HIDE DEF T
    <3> QED BY <2>2, <3>1, <3>2 DEF TypeOK, RecheckLoop, RecheckTick, LookupReady,
                 LookupNotReady, RequeueParked, RecheckNotify, RecheckEnd, RecheckReturn
  <2>3. CASE Restart
    BY <2>3 DEF Restart
  <2>4. UNCHANGED <<rpc, todo>> \/ RecheckLoop \/ Restart
    BY DEF Next, vars, Request, AddNew, ReAdd, Requeue, Enqueue, Remove, Clear, Notify,
           Dispatch, Acquire, Claim, ClaimNothing, Release, Wake, Drain, Return,
           Work, Process, Exit, Dequeued, Shutdown
  <2> QED BY <2>1, <2>2, <2>3, <2>4
<1> QED BY <1>1, <1>2, <1>3, <1>4 DEF TypeOK

\* What the proofs of the later sections build on.
BaseInv ==
  TypeOK /\ MemoryOK /\ FileIsLoadable /\ SlotsMatchWorkers

LEMMA BaseInit == Init => BaseInv
<1> SUFFICES ASSUME Init PROVE BaseInv
  OBVIOUS
<1> USE DEF Init
<1>1. TypeOK
  <2>1. /\ items \in Seq(Ptr) /\ disk \in Seq(Item)
        /\ todo \in Seq([num : PRs, from : Parked \cup {"failed"}])
    OBVIOUS
  <2>2. slots \in 0..Concurrency
    BY ConfigAssumption
  <2>3. /\ heap \in [Ptr -> Item \cup {None}] /\ cancels \in [PRs -> Worker \cup {None}]
        /\ it \in [Worker -> Ptr \cup {None}] /\ cancelled \in [Worker -> BOOLEAN]
        /\ state \in [Worker -> {"idle", "driving", "exiting"}]
        /\ client \in [Client -> {"idle", "notify"}]
    OBVIOUS
  <2> QED BY <2>1, <2>2, <2>3 DEF TypeOK
<1>2. Listed = {} /\ Driving = {} /\ Busy = {}
  BY DEF Listed, Driving, Busy
<1>3. MemoryOK /\ FileIsLoadable
  BY <1>2 DEF MemoryOK, NumbersUnique, FileIsLoadable
<1>4. SlotsMatchWorkers
  BY <1>2, FS_EmptySet DEF SlotsMatchWorkers
<1> QED BY <1>1, <1>3, <1>4 DEF BaseInv

LEMMA BaseInvariant == Spec => []BaseInv
<1>1. BaseInv /\ [Next]_vars => BaseInv'
  BY MemoryStep, FileStep, SlotStep, TypeStep DEF BaseInv
<1> QED BY BaseInit, <1>1, PTL DEF Spec

\* Every state of every behaviour is well typed, whatever the configuration.
THEOREM TypeCorrect == Spec => []TypeOK
<1>1. BaseInv => TypeOK
  BY DEF BaseInv
<1> QED BY <1>1, BaseInvariant, PTL

-----------------------------------------------------------------------------
(* The workers, their items and their cancel functions *)

\* Why Remove stops the right goroutine: live workers, active items and entries
\* of m.cancels correspond.
DriveInv == LiveWorkerStoppable /\ NoStaleCancel /\ ActiveIsDriven

\* A live worker is registered, so two of them have different numbers.
LEMMA LiveRegistered ==
  ASSUME LiveWorkerStoppable, NEW v \in Worker, NEW w \in Worker, Live(v), Live(w),
         heap[it[v]].num = heap[it[w]].num
  PROVE  v = w
BY DEF LiveWorkerStoppable

\* A listed item is determined by its number.
LEMMA NumberDetermines ==
  ASSUME MemoryOK, NEW p \in Listed, NEW q \in Listed, heap[p].num = heap[q].num
  PROVE  p = q
BY DEF MemoryOK, NumbersUnique, Listed

LEMMA DriveAdd ==
  ASSUME BaseInv, DriveInv, NEW c \in Client, NEW n \in PRs, AddNew(c, n)
  PROVE  DriveInv'
<1>1. PICK p \in Ptr \ Reachable :
        /\ heap' = [heap EXCEPT ![p] = [num |-> n, phase |-> "queued"]]
        /\ items' = Append(items, p)
  BY DEF AddNew
<1>2. UNCHANGED <<cancels, state, it, cancelled>>
  BY DEF AddNew, goroutines
<1>3. /\ Driving' = Driving /\ \A w \in Worker : Live(w)' <=> Live(w)
      /\ \A w \in Worker : Live(w) => w \in Driving
  BY <1>2 DEF Driving, Live
<1>4. Listed' = Listed \cup {p}
  <2>1. items \in Seq(Ptr)
    BY DEF BaseInv, MemoryOK
  <2>2. /\ DOMAIN items' = DOMAIN items \cup {Len(items) + 1}
        /\ items'[Len(items) + 1] = p
        /\ \A k \in DOMAIN items : items'[k] = items[k]
    BY <1>1, <2>1
  <2> QED BY <2>2 DEF Listed
<1>5. \A q \in Reachable : q \in Ptr => heap'[q] = heap[q]
  BY <1>1 DEF BaseInv, MemoryOK
<1>6. \A w \in Driving : heap'[it[w]] = heap[it[w]]
  BY <1>5 DEF BaseInv, MemoryOK, Reachable, Held, Driving
<1>7. LiveWorkerStoppable'
  BY <1>2, <1>3, <1>4, <1>6 DEF DriveInv, LiveWorkerStoppable
<1>8. NoStaleCancel'
  BY <1>2, <1>3, <1>6 DEF DriveInv, NoStaleCancel, Live
<1>9. ActiveIsDriven'
  <2>1. heap'[p].phase = "queued"
    BY <1>1 DEF BaseInv, MemoryOK
  <2>2. \A q \in Listed : heap'[q] = heap[q]
    BY <1>5 DEF Reachable, Listed, BaseInv, MemoryOK
  <2> QED BY <1>2, <1>3, <1>4, <2>1, <2>2 DEF DriveInv, ActiveIsDriven
<1> QED BY <1>7, <1>8, <1>9 DEF DriveInv

LEMMA DriveRequeued ==
  ASSUME BaseInv, DriveInv, NEW p \in Listed, Requeued(p),
         UNCHANGED <<cancels, goroutines>>
  PROVE  DriveInv'
<1>1. /\ Listed' = Listed
      /\ heap'[p] = [num |-> heap[p].num, phase |-> "queued"]
      /\ \A q \in Ptr : q # p => heap'[q] = heap[q]
      /\ \A q \in Ptr : heap[q] \in Item => heap'[q].num = heap[q].num
  BY PhaseChange DEF BaseInv, Requeued, Phases
<1>2. UNCHANGED <<cancels, state, it, cancelled>>
  BY DEF goroutines
<1>3. /\ Driving' = Driving /\ \A w \in Worker : Live(w)' <=> Live(w)
      /\ \A w \in Worker : Live(w) => w \in Driving
  BY <1>2 DEF Driving, Live
<1>4. \A w \in Driving : it[w] \in Ptr /\ heap[it[w]] \in Item
  BY DEF BaseInv, MemoryOK
<1>5. \A w \in Worker : Live(w) => it[w] # p
  BY DEF DriveInv, LiveWorkerStoppable, Requeued, InQueue
<1>6. LiveWorkerStoppable'
  BY <1>1, <1>2, <1>3, <1>4, <1>5 DEF DriveInv, LiveWorkerStoppable
<1>7. NoStaleCancel'
  BY <1>1, <1>2, <1>3, <1>4 DEF DriveInv, NoStaleCancel, Live
<1>8. ActiveIsDriven'
  <2>1. Listed \subseteq Ptr /\ \A q \in Listed : heap[q] \in Item
    BY DEF BaseInv, MemoryOK, Listed
  <2> SUFFICES ASSUME NEW q \in Listed, heap'[q].phase = "active"
               PROVE  \E w \in Driving' : it'[w] = q
    BY <1>1 DEF ActiveIsDriven
  <2>2. q # p
    BY <1>1
  <2>3. heap[q].phase = "active"
    BY <1>1, <2>1, <2>2
  <2> QED
    BY <1>2, <1>3, <2>3 DEF DriveInv, ActiveIsDriven
<1> QED BY <1>6, <1>7, <1>8 DEF DriveInv

LEMMA DriveRemove ==
  ASSUME BaseInv, DriveInv, NEW c \in Client, NEW n \in PRs, Remove(c, n)
  PROVE  DriveInv'
<1>1. PICK p \in Listed : heap[p].num = n /\ heap' = [heap EXCEPT ![p].phase = "stopped"]
  BY DEF Remove
<1>2. /\ UNCHANGED <<items, state, it>>
      /\ cancelled' = [w \in Worker |-> cancelled[w] \/ w = cancels[n]]
      /\ cancels' = [cancels EXCEPT ![n] = None]
  BY DEF Remove, Cancel, Delete
<1>3. /\ Listed' = Listed
      /\ heap'[p] = [num |-> heap[p].num, phase |-> "stopped"]
      /\ \A q \in Ptr : q # p => heap'[q] = heap[q]
      /\ \A q \in Ptr : heap[q] \in Item => heap'[q].num = heap[q].num
  BY <1>1, <1>2, PhaseChange DEF BaseInv, Phases
<1>4. /\ Driving' = Driving
      /\ \A w \in Worker : Live(w)' <=> Live(w) /\ w # cancels[n]
      /\ \A w \in Worker : Live(w) => w \in Driving
  BY <1>2 DEF Driving, Live
<1>5. \A w \in Driving : it[w] \in Ptr /\ heap[it[w]] \in Item
  BY DEF BaseInv, MemoryOK
<1>6. \A w \in Worker : Live(w)' => heap[it[w]].num # n /\ it[w] # p
  BY <1>1, <1>4 DEF DriveInv, LiveWorkerStoppable
<1>7. \A m \in PRs : cancels'[m] = IF m = n THEN None ELSE cancels[m]
  BY <1>2 DEF BaseInv, TypeOK
<1>8. LiveWorkerStoppable'
  <2> SUFFICES ASSUME NEW w \in Worker, Live(w)'
               PROVE  /\ it[w] \in Listed
                      /\ heap'[it[w]].phase = "active"
                      /\ cancels'[heap'[it[w]].num] = w
    BY <1>2, <1>3 DEF LiveWorkerStoppable
  <2>1. Live(w) /\ it[w] \in Ptr /\ heap[it[w]] \in Item
    BY <1>4, <1>5
  <2>2. heap'[it[w]] = heap[it[w]] /\ heap[it[w]].num \in PRs
    BY <1>3, <1>6, <2>1 DEF Item
  <2> QED BY <1>6, <1>7, <2>1, <2>2 DEF DriveInv, LiveWorkerStoppable
<1>9. NoStaleCancel'
  <2> SUFFICES ASSUME NEW m \in PRs, cancels'[m] # None
               PROVE  /\ cancels'[m] \in Driving' /\ ~cancelled'[cancels'[m]]
                      /\ heap'[it'[cancels'[m]]].num = m
    BY DEF NoStaleCancel, Live
  <2> DEFINE v == cancels[m]
  <2>1. m # n /\ cancels'[m] = v
    BY <1>7
  <2>2. v \in Worker /\ v \in Driving /\ ~cancelled[v] /\ heap[it[v]].num = m
    BY <2>1 DEF DriveInv, NoStaleCancel, Live, Driving
  <2>3. v # cancels[n]
    BY <2>1, <2>2 DEF DriveInv, NoStaleCancel
  <2> HIDE DEF v
  <2>4. v \in Driving' /\ ~cancelled'[v]
    BY <1>2, <1>4, <2>2, <2>3
  <2>5. heap'[it'[v]].num = m
    BY <1>2, <1>3, <1>5, <2>2
  <2> QED BY <2>1, <2>4, <2>5
<1>10. ActiveIsDriven'
  BY <1>2, <1>3, <1>4 DEF DriveInv, ActiveIsDriven, BaseInv, MemoryOK, Listed
<1> QED BY <1>8, <1>9, <1>10 DEF DriveInv

LEMMA DriveClear ==
  ASSUME BaseInv, DriveInv, NEW c \in Client, NEW phases \in ClearSets, Clear(c, phases)
  PROVE  DriveInv'
<1> DEFINE kept == {k \in DOMAIN items : heap[items[k]].phase \notin phases \ InQueue}
           live == {items[k] : k \in kept} \cup Held
<1>1. /\ items' = Filter(items, kept)
      /\ heap' = [p \in Ptr |-> IF p \in live THEN heap[p] ELSE None]
      /\ UNCHANGED <<cancels, state, it, cancelled>>
  BY DEF Clear, Collect, goroutines
<1>2. kept \in SUBSET DOMAIN items /\ items \in Seq(Ptr)
  BY DEF BaseInv, MemoryOK
<1>3. \A k \in DOMAIN items : heap[items[k]].phase = "active" => k \in kept
  BY DEF InQueue
<1> HIDE DEF kept
<1>4. /\ \A j \in DOMAIN items' : \E k \in kept : items'[j] = items[k]
      /\ \A k \in kept : \E j \in DOMAIN items' : items'[j] = items[k]
  BY <1>1, <1>2, FilterType
<1>5. \A p \in Listed' : p \in Listed /\ heap'[p] = heap[p]
  BY <1>1, <1>2, <1>4 DEF Listed
<1>6. \A p \in Listed : heap[p].phase = "active" => p \in Listed'
  BY <1>3, <1>4 DEF Listed
<1>7. \A w \in Driving : heap'[it[w]] = heap[it[w]]
  BY <1>1 DEF BaseInv, MemoryOK, Held, Driving
<1>8. /\ Driving' = Driving /\ \A w \in Worker : Live(w)' <=> Live(w)
      /\ \A w \in Worker : Live(w) => w \in Driving
  BY <1>1 DEF Driving, Live
<1>9. LiveWorkerStoppable'
  BY <1>1, <1>6, <1>7, <1>8 DEF DriveInv, LiveWorkerStoppable
<1>10. NoStaleCancel'
  BY <1>1, <1>7, <1>8 DEF DriveInv, NoStaleCancel, Live
<1>11. ActiveIsDriven'
  BY <1>1, <1>5, <1>8 DEF DriveInv, ActiveIsDriven
<1> QED BY <1>9, <1>10, <1>11 DEF DriveInv

LEMMA DriveClaim ==
  ASSUME BaseInv, DriveInv, NEW w \in Worker, Claim(w)
  PROVE  DriveInv'
<1>1. PICK k \in DOMAIN items :
        /\ heap[items[k]].phase = "queued"
        /\ heap' = [heap EXCEPT ![items[k]].phase = "active"]
        /\ cancels' = [cancels EXCEPT ![heap[items[k]].num] = w]
        /\ it' = [it EXCEPT ![w] = items[k]]
  BY DEF Claim, FirstQueued
<1> DEFINE p == items[k]
           n == heap[p].num
<1>2. /\ state[w] = "idle" /\ state' = [state EXCEPT ![w] = "driving"]
      /\ cancelled' = [cancelled EXCEPT ![w] = FALSE]
      /\ UNCHANGED items
  BY DEF Claim
<1>3. p \in Listed /\ p \in Ptr /\ heap[p] \in Item /\ n \in PRs
  BY DEF Listed, BaseInv, MemoryOK, Item
<1>4. /\ Listed' = Listed
      /\ heap'[p] = [num |-> n, phase |-> "active"]
      /\ \A q \in Ptr : q # p => heap'[q] = heap[q]
      /\ \A q \in Ptr : heap[q] \in Item => heap'[q].num = heap[q].num
  BY <1>1, <1>2, <1>3, PhaseChange DEF BaseInv, Phases
<1> HIDE DEF p, n
<1>5. /\ w \notin Driving /\ Driving' = Driving \cup {w}
      /\ \A v \in Driving : cancelled'[v] = cancelled[v] /\ it'[v] = it[v]
      /\ it'[w] = p /\ ~cancelled'[w]
      /\ \A v \in Driving : v \in Worker /\ it[v] \in Ptr /\ heap[it[v]] \in Item
  BY <1>1, <1>2 DEF Driving, BaseInv, MemoryOK, TypeOK, p
<1>6. \A m \in PRs : cancels'[m] = IF m = n THEN w ELSE cancels[m]
  BY <1>1, <1>3 DEF BaseInv, TypeOK, n, p
<1>7. ASSUME NEW v \in Driving, ~cancelled[v]
      PROVE  it[v] \in Listed /\ it[v] # p /\ heap[it[v]].num # n
  <2>1. Live(v) /\ v \in Worker
    BY <1>5, <1>7 DEF Live
  <2>2. it[v] \in Listed /\ heap[it[v]].phase = "active"
    BY <2>1 DEF DriveInv, LiveWorkerStoppable
  <2> QED BY <1>1, <1>3, <2>2, NumberDetermines DEF BaseInv, n, p
<1>8. LiveWorkerStoppable'
  <2> SUFFICES ASSUME NEW v \in Worker, v \in Driving', ~cancelled'[v]
               PROVE  /\ it'[v] \in Listed
                      /\ heap'[it'[v]].phase = "active"
                      /\ cancels'[heap'[it'[v]].num] = v
    BY <1>4 DEF LiveWorkerStoppable, Live
  <2>1. CASE v = w
    BY <1>3, <1>4, <1>5, <1>6, <2>1
  <2>2. CASE v # w
    <3>1. Live(v) /\ v \in Driving /\ ~cancelled[v] /\ it'[v] = it[v]
      BY <1>5, <2>2 DEF Live
    <3>2. heap'[it[v]] = heap[it[v]] /\ heap[it[v]].num \in PRs /\ heap[it[v]].num # n
      BY <1>4, <1>5, <1>7, <3>1 DEF Item
    <3> QED BY <1>6, <3>1, <3>2 DEF DriveInv, LiveWorkerStoppable
  <2> QED BY <2>1, <2>2
<1>9. NoStaleCancel'
  <2> SUFFICES ASSUME NEW m \in PRs, cancels'[m] # None
               PROVE  /\ cancels'[m] \in Driving' /\ ~cancelled'[cancels'[m]]
                      /\ heap'[it'[cancels'[m]]].num = m
    BY DEF NoStaleCancel, Live
  <2>1. CASE m = n
    BY <1>4, <1>5, <1>6, <2>1
  <2>2. CASE m # n
    <3>1. cancels'[m] = cancels[m] /\ cancels[m] # None
      BY <1>6, <2>2
    <3>2. cancels[m] \in Driving /\ ~cancelled[cancels[m]] /\ heap[it[cancels[m]]].num = m
      BY <3>1 DEF DriveInv, NoStaleCancel, Live
    <3> QED BY <1>4, <1>5, <3>1, <3>2
  <2> QED BY <2>1, <2>2
<1>10. ActiveIsDriven'
  <2> SUFFICES ASSUME NEW q \in Listed, heap'[q].phase = "active"
               PROVE  \E v \in Driving' : it'[v] = q
    BY <1>4 DEF ActiveIsDriven
  <2>1. CASE q = p
    BY <1>5, <2>1
  <2>2. CASE q # p
    <3>1. heap[q].phase = "active"
      BY <1>4, <2>2 DEF Listed, BaseInv, MemoryOK
    <3> QED BY <1>5, <3>1 DEF DriveInv, ActiveIsDriven
  <2> QED BY <2>1, <2>2
<1> QED BY <1>8, <1>9, <1>10 DEF DriveInv

LEMMA DriveProcess ==
  ASSUME BaseInv, DriveInv, NEW w \in Worker, NEW err \in Outcome, Process(w, err)
  PROVE  DriveInv'
<1> DEFINE p == it[w]
           n == heap[p].num
           h == [heap EXCEPT ![p] = Routed(heap[p], err)]
           live == Listed \cup {it[v] : v \in Worker \ {w}}
<1>1. /\ state[w] = "driving" /\ state' = [state EXCEPT ![w] = "exiting"]
      /\ it' = [it EXCEPT ![w] = None]
      /\ cancels' = [cancels EXCEPT ![n] = None]
      /\ cancelled' = [[v \in Worker |-> cancelled[v] \/ v = cancels[n]] EXCEPT ![w] = FALSE]
      /\ heap' = [q \in Ptr |-> IF q \in live THEN h[q] ELSE None]
      /\ UNCHANGED items
  BY DEF Process, Collect, Cancel, Delete
<1>2. w \in Driving /\ p \in Ptr /\ heap[p] \in Item /\ n \in PRs
  BY <1>1 DEF BaseInv, MemoryOK, Driving, Item
<1>3. /\ Routed(heap[p], err).num = n
      /\ Routed(heap[p], err).phase # "active"
      /\ Routed(heap[p], err) \in Item
  <2>1. Routed(heap[p], err).num = n /\ Routed(heap[p], err) \in Item
    BY <1>2 DEF Routed, Item, PhaseAfter, Outcome, Phases
  <2>2. Routed(heap[p], err).phase # "active"
    BY <1>2 DEF Routed, Item, PhaseAfter, Outcome, Phases
  <2> QED BY <2>1, <2>2
<1>4. /\ \A q \in Ptr : q # p => h[q] = heap[q]
      /\ \A q \in Ptr : heap[q] \in Item => h[q].num = heap[q].num
      /\ h[p].phase # "active"
  BY <1>2, <1>3 DEF BaseInv, MemoryOK
<1> HIDE DEF h
<1>5. /\ \A v \in Driving : v # w => heap'[it[v]] = h[it[v]]
      /\ \A q \in Listed : q \in Ptr /\ heap'[q] = h[q]
      /\ Listed' = Listed
  <2>1. Listed' = Listed
    BY <1>1 DEF Listed
  <2>2. \A v \in Driving : v # w => it[v] \in Ptr /\ it[v] \in live
    BY DEF BaseInv, MemoryOK, Driving
  <2>3. \A q \in Listed : q \in Ptr /\ q \in live
    BY DEF BaseInv, MemoryOK, Listed
  <2> HIDE DEF live
  <2> QED BY <1>1, <2>1, <2>2, <2>3
<1> HIDE DEF p, n, live
<1>6. /\ Driving' = Driving \ {w}
      /\ \A v \in Driving' : it'[v] = it[v] /\ it[v] \in Ptr /\ heap[it[v]] \in Item
      /\ \A v \in Driving' : v \in Worker /\ v # w /\ v \in Driving
      /\ \A v \in Driving' : ~cancelled'[v] <=> ~cancelled[v] /\ v # cancels[n]
  BY <1>1 DEF Driving, BaseInv, MemoryOK, TypeOK
<1>7. \A m \in PRs : cancels'[m] = IF m = n THEN None ELSE cancels[m]
  BY <1>1, <1>2 DEF BaseInv, TypeOK
<1>8. LiveWorkerStoppable'
  <2> SUFFICES ASSUME NEW v \in Worker, v \in Driving', ~cancelled'[v]
               PROVE  /\ it'[v] \in Listed
                      /\ heap'[it'[v]].phase = "active"
                      /\ cancels'[heap'[it'[v]].num] = v
    BY <1>5 DEF LiveWorkerStoppable, Live
  <2>1. /\ it[v] \in Listed /\ heap[it[v]].phase = "active"
        /\ cancels[heap[it[v]].num] = v /\ v # cancels[n]
    BY <1>6 DEF DriveInv, LiveWorkerStoppable, Live
  <2>2. heap[it[v]].num # n /\ it[v] # p /\ heap[it[v]].num \in PRs
    BY <1>6, <2>1 DEF n, Item
  <2>3. heap'[it[v]] = heap[it[v]]
    BY <1>4, <1>5, <1>6, <2>2
  <2> QED BY <1>6, <1>7, <2>1, <2>2, <2>3
<1>9. NoStaleCancel'
  <2> SUFFICES ASSUME NEW m \in PRs, cancels'[m] # None
               PROVE  /\ cancels'[m] \in Driving' /\ ~cancelled'[cancels'[m]]
                      /\ heap'[it'[cancels'[m]]].num = m
    BY DEF NoStaleCancel, Live
  <2> DEFINE v == cancels[m]
  <2>1. m # n /\ cancels'[m] = v
    BY <1>7
  <2>2. v \in Driving /\ ~cancelled[v] /\ heap[it[v]].num = m
    BY <2>1 DEF DriveInv, NoStaleCancel, Live
  <2>3. v # cancels[n]
    BY <1>2, <2>1, <2>2 DEF DriveInv, NoStaleCancel
  <2> HIDE DEF v
  <2>4. v # w /\ v \in Driving'
    BY <1>6, <2>1, <2>2 DEF n, p
  <2>5. ~cancelled'[v] /\ it'[v] = it[v] /\ it[v] \in Ptr /\ heap[it[v]] \in Item
    BY <1>6, <2>2, <2>3, <2>4
  <2>6. heap'[it[v]].num = m
    BY <1>4, <1>5, <2>2, <2>4, <2>5
  <2> QED BY <2>1, <2>4, <2>5, <2>6
<1>10. ActiveIsDriven'
  <2> SUFFICES ASSUME NEW q \in Listed, heap'[q].phase = "active"
               PROVE  \E v \in Driving' : it'[v] = q
    BY <1>5 DEF ActiveIsDriven
  <2>1. q # p /\ heap[q].phase = "active"
    BY <1>4, <1>5
  <2>2. PICK v \in Driving : it[v] = q
    BY <2>1 DEF DriveInv, ActiveIsDriven
  <2> QED BY <1>6, <2>1, <2>2 DEF p
<1> QED BY <1>8, <1>9, <1>10 DEF DriveInv

\* What Load builds: an item per entry of the file, by value, none of it active.
LEMMA RestartView ==
  ASSUME BaseInv, Restart
  PROVE  /\ DOMAIN items' = DOMAIN disk
         /\ \A k \in DOMAIN disk : heap'[items'[k]] = Revived(disk[k])
         /\ View(items', heap') = Revive(disk)
<1>1. PICK a \in Addresses :
        /\ items' = a
        /\ heap' = [p \in Ptr |->
                      IF \E k \in DOMAIN disk : a[k] = p
                      THEN Revived(disk[CHOOSE k \in DOMAIN disk : a[k] = p])
                      ELSE None]
  BY DEF Restart
<1>2. /\ a \in [DOMAIN disk -> Ptr]
      /\ \A i, j \in DOMAIN disk : a[i] = a[j] => i = j
  BY <1>1 DEF Addresses
<1>3. \A k \in DOMAIN disk : heap'[items'[k]] = Revived(disk[k])
  BY <1>1, <1>2
<1>4. DOMAIN items' = DOMAIN disk
  BY <1>1, <1>2
<1> QED BY <1>3, <1>4 DEF View, Revive

LEMMA DriveRestart ==
  ASSUME BaseInv, Restart
  PROVE  DriveInv'
<1>1. Driving' = {} /\ cancels' = [n \in PRs |-> None]
  BY DEF Restart, Driving
<1>2. \A item \in Item : Revived(item).phase # "active"
  BY DEF Revived, Item
<1>3. \A k \in DOMAIN disk : disk[k] \in Item
  BY DEF BaseInv, TypeOK
<1>4. \A p \in Listed' : heap'[p].phase # "active"
  BY <1>2, <1>3, RestartView DEF Listed
<1> QED BY <1>1, <1>4 DEF DriveInv, LiveWorkerStoppable, NoStaleCancel, ActiveIsDriven, Live

LEMMA DriveStep ==
  ASSUME BaseInv, DriveInv, [Next]_vars
  PROVE  DriveInv'
<1>1. CASE UNCHANGED <<memory, disk, goroutines>>
  BY <1>1 DEF memory, goroutines, DriveInv, LiveWorkerStoppable, NoStaleCancel,
              ActiveIsDriven, Live, Driving, Listed
<1>2. ASSUME NEW w \in Worker, Exit(w) PROVE DriveInv'
  <2>1. /\ UNCHANGED <<items, heap, cancels, it, cancelled>>
        /\ state[w] = "exiting" /\ state' = [state EXCEPT ![w] = "idle"]
    BY <1>2 DEF Exit, memory
  <2>2. Driving' = Driving /\ Listed' = Listed
    BY <2>1 DEF Driving, Listed, BaseInv, TypeOK
  <2> QED BY <2>1, <2>2 DEF DriveInv, LiveWorkerStoppable, NoStaleCancel,
             ActiveIsDriven, Live
<1> QED BY <1>1, <1>2, StepCases, DriveAdd, DriveRequeued, DriveRemove, DriveClear,
           DriveClaim, DriveProcess, DriveRestart DEF BaseInv

\* The inductive invariant.
IInv == BaseInv /\ DriveInv

LEMMA Invariance == Spec => []IInv
<1>1. Init => DriveInv
  <2> SUFFICES ASSUME Init PROVE DriveInv
    OBVIOUS
  <2>1. Driving = {} /\ Listed = {}
    BY DEF Init, Driving, Listed
  <2> QED BY <2>1 DEF Init, DriveInv, LiveWorkerStoppable, NoStaleCancel,
             ActiveIsDriven, Live
<1>2. Init => IInv
  BY <1>1, BaseInit DEF IInv
<1>3. BaseInv /\ [Next]_vars => BaseInv'
  BY MemoryStep, FileStep, SlotStep, TypeStep DEF BaseInv
<1>4. IInv /\ [Next]_vars => IInv'
  BY <1>3, DriveStep DEF IInv
<1> QED BY <1>2, <1>4, PTL DEF Spec

-----------------------------------------------------------------------------
(* What the queue promises under any concurrency *)

\* A pull request is in the list at most once.
THEOREM ListHasNoDuplicates == Spec => []NumbersUnique
<1>1. IInv => NumbersUnique
  BY DEF IInv, BaseInv, MemoryOK
<1> QED BY <1>1, Invariance, PTL

\* The user can stop every drive that was not stopped yet.
THEOREM LiveWorkersAreStoppable == Spec => []LiveWorkerStoppable
<1>1. IInv => LiveWorkerStoppable
  BY DEF IInv, DriveInv
<1> QED BY <1>1, Invariance, PTL

\* Cancelling one pull request never stops the drive of another.
THEOREM CancelsAreExact == Spec => []NoStaleCancel
<1>1. IInv => NoStaleCancel
  BY DEF IInv, DriveInv
<1> QED BY <1>1, Invariance, PTL

\* At most one goroutine that drives a pull request has not been cancelled.
THEOREM AtMostOneLiveWorker == Spec => []OneLiveWorkerPerPR
<1>1. IInv => OneLiveWorkerPerPR
  BY LiveRegistered DEF IInv, DriveInv, OneLiveWorkerPerPR
<1> QED BY <1>1, Invariance, PTL

\* No item stays active without a goroutine that will move it on.
THEOREM NothingStranded == Spec => []ActiveIsDriven
<1>1. IInv => ActiveIsDriven
  BY DEF IInv, DriveInv
<1> QED BY <1>1, Invariance, PTL

\* The number of drives never exceeds --concurrency.
THEOREM BoundedConcurrency == Spec => []ConcurrencyLimit
<1>1. IInv => ConcurrencyLimit
  <2> SUFFICES ASSUME IInv PROVE ConcurrencyLimit
    OBVIOUS
  <2>1. /\ slots \in 0..Concurrency /\ SlotsMatchWorkers /\ Concurrency \in Nat
        /\ Driving \in SUBSET Busy /\ IsFiniteSet(Busy)
    BY ConfigAssumption, FS_Subset DEF IInv, BaseInv, TypeOK, Driving, Busy
  <2>2. /\ Cardinality(Driving) <= Cardinality(Busy)
        /\ Cardinality(Driving) \in Nat /\ Cardinality(Busy) \in Nat
    BY <2>1, FS_Subset, FS_CardinalityType
  <2> QED BY <2>1, <2>2 DEF SlotsMatchWorkers, ConcurrencyLimit
<1> QED BY <1>1, Invariance, PTL

-----------------------------------------------------------------------------
(* What the queue promises of a crash, and of a single worker *)

LEMMA ReviveIdempotent == Revive(Revive(disk)) = Revive(disk)
<1>1. \A k \in DOMAIN disk : Revived(Revived(disk[k])) = Revived(disk[k])
  BY DEF Revived
<1> QED BY <1>1 DEF Revive

LEMMA CurrentStep ==
  ASSUME BaseInv, ~DiskFaults, FileIsCurrent, [Next]_vars
  PROVE  FileIsCurrent'
<1>1. Save \/ UNCHANGED <<items, heap, disk>> \/ Restart
  BY StepCases DEF Requeued, AddNew, Remove, Clear, Claim, Process, Exit, memory, BaseInv
<1>2. CASE Save
  BY <1>2 DEF Save, FileIsCurrent
<1>3. CASE UNCHANGED <<items, heap, disk>>
  BY <1>3 DEF FileIsCurrent
<1>4. CASE Restart
  <2>1. disk' = disk
    BY <1>4 DEF Restart
  <2>2. View(items', heap') = Revive(disk)
    BY <1>4, RestartView
  <2> QED BY <2>1, <2>2, ReviveIdempotent DEF FileIsCurrent
<1> QED BY <1>1, <1>2, <1>3, <1>4

\* When no write fails, a crash between any two steps loses no item, no place in
\* the list and no phase; items in flight are queued again.
THEOREM CrashSafe ==
  ASSUME ~DiskFaults
  PROVE  Spec => CrashLosesNothing
<1>1. Init => FileIsCurrent
  BY DEF Init, FileIsCurrent, View
<1>2. IInv /\ FileIsCurrent /\ [Next]_vars => FileIsCurrent'
  BY CurrentStep DEF IInv
<1>3. IInv /\ FileIsCurrent /\ [Next]_vars =>
        [Restart => View(items', heap') = Revive(View(items, heap))]_vars
  BY RestartView DEF IInv, FileIsCurrent
<1> QED BY <1>1, <1>2, <1>3, Invariance, PTL DEF Spec, CrashLosesNothing

\* With one slot, Run waits for work only while no worker is left that could put
\* its item back to queued without a wake-up.
SerialInv ==
  /\ disp = "waiting" => Busy = {}
  /\ NoLostWakeup

\* Remove and Clear queue nothing.
LEMMA NothingQueued ==
  ASSUME BaseInv, NEW c \in Client,
         \/ \E n \in PRs : Remove(c, n)
         \/ \E phases \in ClearSets : Clear(c, phases)
  PROVE  \A p \in Listed' : heap'[p].phase = "queued" =>
           p \in Listed /\ heap[p].phase = "queued"
<1>1. ASSUME NEW n \in PRs, Remove(c, n),
             NEW p \in Listed', heap'[p].phase = "queued"
      PROVE  p \in Listed /\ heap[p].phase = "queued"
  <2>1. PICK q \in Listed : heap' = [heap EXCEPT ![q].phase = "stopped"]
    BY <1>1 DEF Remove
  <2>2. UNCHANGED items /\ "stopped" \in Phases
    BY <1>1 DEF Remove, Phases
  <2>3. /\ Listed' = Listed /\ heap'[q] = [num |-> heap[q].num, phase |-> "stopped"]
        /\ \A r \in Ptr : r # q => heap'[r] = heap[r]
    BY <2>1, <2>2, PhaseChange DEF BaseInv
  <2> QED BY <1>1, <2>3 DEF BaseInv, MemoryOK, Listed
<1>2. ASSUME NEW phases \in ClearSets, Clear(c, phases),
             NEW p \in Listed', heap'[p].phase = "queued"
      PROVE  p \in Listed /\ heap[p].phase = "queued"
  <2> DEFINE kept == {k \in DOMAIN items : heap[items[k]].phase \notin phases \ InQueue}
             live == {items[k] : k \in kept} \cup Held
  <2>1. /\ items' = Filter(items, kept)
        /\ heap' = [q \in Ptr |-> IF q \in live THEN heap[q] ELSE None]
    BY <1>2 DEF Clear, Collect
  <2>2. kept \in SUBSET DOMAIN items /\ items \in Seq(Ptr)
    BY DEF BaseInv, MemoryOK
  <2> HIDE DEF kept
  <2>3. \A j \in DOMAIN items' : \E k \in kept : items'[j] = items[k]
    BY <2>1, <2>2, FilterType
  <2>4. p \in Listed /\ heap'[p] = heap[p]
    BY <2>1, <2>2, <2>3 DEF Listed
  <2> QED BY <1>2, <2>4
<1> QED BY <1>1, <1>2

LEMMA SerialStep ==
  ASSUME Concurrency = 1, BaseInv, SerialInv, [Next]_vars
  PROVE  SerialInv'
<1> USE DEF memory, goroutines, loop, recheckers
<1>1. disp \in {"release", "waiting"} => Busy = {}
  <2>1. IsFiniteSet(Busy) /\ Cardinality(Busy) \in Nat
    BY ConfigAssumption, FS_Subset, FS_CardinalityType DEF Busy
  <2>2. disp = "release" => Cardinality(Busy) = 0
    BY <2>1 DEF BaseInv, TypeOK, SlotsMatchWorkers
  <2> QED BY <2>1, <2>2, FS_EmptySet DEF SerialInv
<1>2. CASE UNCHANGED vars
  BY <1>2 DEF vars, SerialInv, NoLostWakeup, Busy, Listed
<1>3. ASSUME NEW c \in Client, Request(c) PROVE SerialInv'
  <2>1. UNCHANGED <<state, disp, wake, down, rpc>>
    BY <1>3 DEF Request, AddNew, ReAdd, Requeue, Enqueue, Remove, Clear
  <2>2. Busy' = Busy
    BY <2>1 DEF Busy
  <2>3. CASE client'[c] = "notify"
    BY <2>1, <2>2, <2>3 DEF SerialInv, NoLostWakeup
  <2>4. CASE client'[c] # "notify"
    <3>1. /\ UNCHANGED client
          /\ \/ \E n \in PRs : Remove(c, n)
             \/ \E phases \in ClearSets : Clear(c, phases)
      BY <1>3, <2>4 DEF Request, AddNew, ReAdd, Requeue, Enqueue, Remove, Clear,
                        BaseInv, TypeOK
    <3>2. (\E p \in Listed' : heap'[p].phase = "queued") =>
            \E p \in Listed : heap[p].phase = "queued"
      BY <3>1, NothingQueued
    <3> QED BY <2>1, <2>2, <3>1, <3>2 DEF SerialInv, NoLostWakeup
  <2> QED BY <2>3, <2>4
<1>4. ASSUME NEW c \in Client, Notify(c) PROVE SerialInv'
  BY <1>4 DEF Notify, SerialInv, NoLostWakeup, Busy
<1>5. CASE Dispatch
  <2>1. CASE Acquire \/ Wake \/ Drain \/ Return
    BY <2>1 DEF Acquire, Wake, Drain, Return, SerialInv, NoLostWakeup
  <2>2. ASSUME NEW w \in Worker, Claim(w) PROVE SerialInv'
    BY <2>2 DEF Claim, SerialInv, NoLostWakeup
  <2>3. CASE ClaimNothing
    BY <2>3 DEF ClaimNothing, SerialInv, NoLostWakeup, Listed
  <2>4. CASE Release
    <3>1. Busy' = Busy
      BY <2>4 DEF Release, Busy
    <3> QED BY <1>1, <2>4, <3>1 DEF Release, SerialInv, NoLostWakeup, Listed
  <2> QED BY <1>5, <2>1, <2>2, <2>3, <2>4 DEF Dispatch
<1>6. ASSUME NEW w \in Worker, Work(w) PROVE SerialInv'
  <2>1. w \in Busy /\ UNCHANGED disp
    BY <1>6 DEF Work, Process, Exit, Busy
  <2> QED BY <1>1, <2>1 DEF SerialInv, NoLostWakeup
<1>7. CASE RecheckLoop
  <2>1. UNCHANGED <<state, disp, down, client>>
    BY <1>7 DEF RecheckLoop, RecheckTick, LookupReady, LookupNotReady, RequeueParked,
                RecheckNotify, RecheckEnd, RecheckReturn
  <2>2. Busy' = Busy
    BY <2>1 DEF Busy
  <2>3. CASE RequeueParked \/ RecheckNotify
    BY <2>1, <2>2, <2>3 DEF RequeueParked, RecheckNotify, SerialInv, NoLostWakeup
  <2>4. CASE ~(RequeueParked \/ RecheckNotify)
    <3>1. UNCHANGED <<items, heap, wake>> /\ rpc # "notify"
      BY <1>7, <2>4 DEF RecheckLoop, RecheckTick, LookupReady, LookupNotReady,
                        RecheckEnd, RecheckReturn
    <3> QED BY <2>1, <2>2, <3>1 DEF SerialInv, NoLostWakeup, Listed
  <2> QED BY <2>3, <2>4
<1>8. CASE Shutdown \/ \E n \in PRs : Dequeued(n)
  BY <1>8 DEF Shutdown, Dequeued, SerialInv, NoLostWakeup, Busy, Listed
<1>9. CASE Restart
  BY <1>9 DEF Restart, SerialInv, NoLostWakeup
<1> QED BY <1>2, <1>3, <1>4, <1>5, <1>6, <1>7, <1>8, <1>9 DEF Next

\* With --concurrency 1, the default, Run never sleeps through queued work.
THEOREM SerialNeverSleepsOnWork ==
  ASSUME Concurrency = 1
  PROVE  Spec => []NoLostWakeup
<1>1. Init => SerialInv
  BY DEF Init, SerialInv, NoLostWakeup
<1>2. IInv /\ SerialInv /\ [Next]_vars => SerialInv'
  BY SerialStep DEF IInv
<1>3. SerialInv => NoLostWakeup
  BY DEF SerialInv
<1> QED BY <1>1, <1>2, <1>3, Invariance, PTL DEF Spec
=============================================================================
