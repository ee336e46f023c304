---------------------------- MODULE QueueManager ----------------------------
(***************************************************************************)
(* The merge queue of internal/queue/manager.go: the ordered list of items *)
(* guarded by m.mu, the dispatcher (Run), the worker goroutines that drive *)
(* one pull request each (process), the background recheck loop, the HTTP  *)
(* handlers that add, remove, clear and requeue, the state file, shutdown  *)
(* and restart.  One section of code under m.mu is one action; whatever    *)
(* the code does outside the lock (notify, the GitHub lookups, releasing a *)
(* slot) is an action of its own, so that it interleaves.                  *)
(*                                                                         *)
(* What driving a pull request does (merge.Runner, merge.DelegateRunner)   *)
(* is abstracted to the error it returns.                                  *)
(***************************************************************************)
EXTENDS Selection

CONSTANTS
  PRs,             \* the pull request numbers users submit
  Ptr,             \* addresses of Item structs: m.items is a slice of *Item
  Worker,          \* identities of the goroutines running process
  Client,          \* HTTP handler goroutines that can run at the same time
  Concurrency,     \* effectiveConcurrency(): capacity of the slots channel
  MergeQueueMode,  \* cfg.MergeMode = ModeMergeQueue
  Recheck,         \* cfg.RecheckInterval > 0
  DiskFaults,      \* may writing the state file fail?
  ClearSets,       \* the sets of phases that Clear is asked to drop
  None             \* Go's nil

Phases == {"queued", "active", "merged", "failed", "conflicts",
           "needs_approvals", "stopped"}
InQueue == {"queued", "active"}
Parked  == {"conflicts", "needs_approvals"}

ASSUME ConfigAssumption ==
  /\ IsFiniteSet(Worker)
  /\ Concurrency \in Nat \ {0}
  /\ MergeQueueMode \in BOOLEAN
  /\ Recheck \in BOOLEAN
  /\ DiskFaults \in BOOLEAN
  /\ ClearSets \subseteq SUBSET Phases
  /\ None \notin Worker \cup Ptr

Item == [num : PRs, phase : Phases]

\* What drive returns: nil, context.Canceled, ErrConflicts,
\* ErrInsufficientApprovals, or any other error (ErrRequiredCheckFailed,
\* ErrBlocked and the default case differ in the message only).
Outcome == {"nil", "canceled", "conflicts", "approvals", "error"}

\* The phase that process gives an item which was not stopped.
PhaseAfter == [nil       |-> "merged",
               canceled  |-> "queued",
               conflicts |-> "conflicts",
               approvals |-> "needs_approvals",
               error     |-> "failed"]

VARIABLES
  items,      \* m.items: the list, in the order of the first Add
  heap,       \* the Item each address holds (None: not allocated)
  disk,       \* the state file: the items by value, in list order
  cancels,    \* m.cancels: number -> worker its cancel function stops
  state,      \* worker -> "idle", "driving" or "exiting"
  it,         \* worker -> the *Item it was started with
  cancelled,  \* worker -> has its own context been cancelled?
  disp,       \* program counter of the dispatcher loop in Run
  slots,      \* number of tokens in the slots channel
  wake,       \* is there a token in the wake channel (capacity 1)?
  down,       \* has the daemon's root context been cancelled?
  client,     \* handler -> "idle", or "notify" after it released m.mu
  rpc,        \* program counter of recheckLoop
  todo,       \* what recheckParked still has to look at
  dequeues    \* PRs for which a dequeue goroutine is in flight

memory     == <<items, heap, cancels>>
goroutines == <<state, it, cancelled>>
loop       == <<disp, slots>>
recheckers == <<rpc, todo>>
vars == <<items, heap, disk, cancels, state, it, cancelled, disp, slots, wake,
          down, client, rpc, todo, dequeues>>

-----------------------------------------------------------------------------
(* Helpers *)

\* The items in the list.
Listed == {items[k] : k \in DOMAIN items}

\* Mutant of Tracked: a finished item does not count.
TrackedInQueue(n) == \E p \in Listed : heap[p].num = n /\ heap[p].phase \in InQueue

Tracked(n) == \E p \in Listed : heap[p].num = n

\* The addresses something still points to; the others are garbage, which the
\* Go runtime collects: an action that drops a pointer applies Collect.
Held == {it[w] : w \in Worker}
Reachable == Listed \cup Held
Collect(h, live) == [p \in Ptr |-> IF p \in live THEN h[p] ELSE None]

\* What a reader of the list sees, by value.
View(l, h) == [k \in DOMAIN l |-> h[l[k]]]

\* Load resets the items that were in flight.  Mutant of Revived: it does not.
NotRevived(item) == item

Revived(item) ==
  IF item.phase = "active" THEN [item EXCEPT !.phase = "queued"] ELSE item
Revive(file) == [k \in DOMAIN file |-> Revived(file[k])]

\* The context that drive runs under: the worker's own, a child of the daemon's.
CtxDone(w) == cancelled[w] \/ down

\* Call the cancel function registered for n, if there is one ...  Mutant of
\* Cancel: forget to call it.
CancelForgotten(n) == cancelled

Cancel(n) == [w \in Worker |-> cancelled[w] \/ w = cancels[n]]

\* ... and delete it.  Mutant of Delete: leave the entry behind.
NotDeleted(n) == cancels

Delete(n) == [cancels EXCEPT ![n] = None]

\* save: the new list replaces the file, or the write failed and the old file
\* stays (the temporary file is renamed over it only when it is complete).
\* Mutant of Save: it writes what the list was before the change.
SaveOld ==
  \/ disk' = View(items, heap)
  \/ DiskFaults /\ UNCHANGED disk

Save ==
  \/ disk' = View(items', heap')
  \/ DiskFaults /\ UNCHANGED disk

-----------------------------------------------------------------------------
(* The HTTP handlers, each under m.mu *)

\* Add of a number the list does not have: append a new item.
AddNew(c, n) ==
  /\ client[c] = "idle"
  /\ ~Tracked(n)
  /\ Ptr \ Reachable # {}
  /\ LET p == CHOOSE q \in Ptr \ Reachable : TRUE
     IN  /\ heap' = [heap EXCEPT ![p] = [num |-> n, phase |-> "queued"]]
         /\ items' = Append(items, p)
  /\ Save
  /\ client' = [client EXCEPT ![c] = "notify"]
  /\ UNCHANGED <<cancels, goroutines, loop, wake, down, recheckers, dequeues>>

\* A handler puts the listed item n back to queued, in its old place.
Enqueue(c, n, from) ==
  /\ client[c] = "idle"
  /\ \E p \in Listed :
       /\ heap[p].num = n
       /\ heap[p].phase \in from
       /\ heap' = [heap EXCEPT ![p].phase = "queued"]
  /\ UNCHANGED items
  /\ Save
  /\ client' = [client EXCEPT ![c] = "notify"]
  /\ UNCHANGED <<cancels, goroutines, loop, wake, down, recheckers, dequeues>>

\* Add of a number the list has, neither queued nor active.
ReAdd(c, n) == Enqueue(c, n, Phases \ InQueue)

\* Requeue of an item parked for conflicts or approvals.
Requeue(c, n) == Enqueue(c, n, Parked)

\* Remove of a queued or active item: cancel its worker and mark it stopped.
Remove(c, n) ==
  /\ client[c] = "idle"
  /\ \E p \in Listed :
       /\ heap[p].num = n
       /\ heap[p].phase \in InQueue
       /\ heap' = [heap EXCEPT ![p].phase = "stopped"]
  /\ cancelled' = Cancel(n)
  /\ cancels' = Delete(n)
  /\ UNCHANGED items
  /\ Save
  /\ UNCHANGED <<state, it, loop, wake, down, client, recheckers, dequeues>>

\* Clear(phases): drop the items in those phases, never queued or active ones.
Clear(c, phases) ==
  LET want == phases \ InQueue
      kept == {k \in DOMAIN items : heap[items[k]].phase \notin want}
  IN  /\ client[c] = "idle"
      /\ want # {}
      /\ items' = Filter(items, kept)
      /\ heap' = Collect(heap, {items[k] : k \in kept} \cup Held)
      /\ Save
      /\ UNCHANGED <<cancels, goroutines, loop, wake, down, client, recheckers,
                     dequeues>>

\* notify: a token if there is room for one.  Mutant of Signal: the channel has
\* no buffer, so a token that the dispatcher does not wait for is lost.
SignalUnbuffered == wake' = (wake \/ disp = "waiting")

Signal == wake' = TRUE

\* A handler calls it after it released m.mu.
Notify(c) ==
  /\ client[c] = "notify"
  /\ Signal
  /\ client' = [client EXCEPT ![c] = "idle"]
  /\ UNCHANGED <<memory, disk, goroutines, loop, down, recheckers, dequeues>>

-----------------------------------------------------------------------------
(* The dispatcher: Run and claim *)

\* The slots channel.  Mutant of SlotFree: its capacity is one too large.
SlotFreeExtra == slots <= Concurrency

SlotFree == slots < Concurrency

\* <-slots.  Mutant of FreeSlot: the slot leaks.
LeakSlot == slots' = slots

FreeSlot == slots' = slots - 1

\* slots <- struct{}{}
Acquire ==
  /\ disp = "acquire"
  /\ SlotFree
  /\ slots' = slots + 1
  /\ disp' = "claim"
  /\ UNCHANGED <<memory, disk, goroutines, wake, down, client, recheckers,
                 dequeues>>

\* The item claim selects.  Mutants of FirstQueued: any queued one; the first
\* unfinished one.
AnyQueued(k) == heap[items[k]].phase = "queued"

FirstUnfinished(k) ==
  /\ heap[items[k]].phase \in InQueue
  /\ \A j \in 1..(k - 1) : heap[items[j]].phase \notin InQueue

FirstQueued(k) ==
  /\ heap[items[k]].phase = "queued"
  /\ \A j \in 1..(k - 1) : heap[items[j]].phase # "queued"

\* claim finds the first queued item, and Run starts a worker on it.
Claim(w) ==
  /\ disp = "claim"
  /\ state[w] = "idle"
  /\ \E k \in DOMAIN items :
       /\ FirstQueued(k)
       /\ heap' = [heap EXCEPT ![items[k]].phase = "active"]
       /\ cancels' = [cancels EXCEPT ![heap[items[k]].num] = w]
       /\ it' = [it EXCEPT ![w] = items[k]]
  /\ state' = [state EXCEPT ![w] = "driving"]
  /\ cancelled' = [cancelled EXCEPT ![w] = FALSE]
  /\ disp' = "acquire"
  /\ UNCHANGED items
  /\ Save
  /\ UNCHANGED <<slots, wake, down, client, recheckers, dequeues>>

\* claim returns nil ...
ClaimNothing ==
  /\ disp = "claim"
  /\ \A p \in Listed : heap[p].phase # "queued"
  /\ disp' = "release"
  /\ UNCHANGED <<memory, disk, goroutines, slots, wake, down, client, recheckers,
                 dequeues>>

\* ... so give the slot back and wait for the wake channel.
Release ==
  /\ disp = "release"
  /\ FreeSlot
  /\ disp' = "waiting"
  /\ UNCHANGED <<memory, disk, goroutines, wake, down, client, recheckers,
                 dequeues>>

Wake ==
  /\ disp = "waiting"
  /\ wake
  /\ wake' = FALSE
  /\ disp' = "acquire"
  /\ UNCHANGED <<memory, disk, goroutines, slots, down, client, recheckers,
                 dequeues>>

\* The selects of Run that have a case <-ctx.Done().  Mutant of Selecting: the
\* second one has not.
SelectingSlot == disp = "acquire"

Selecting == disp \in {"acquire", "waiting"}

\* The daemon is shutting down: wait for the workers, then return.
Drain ==
  /\ Selecting
  /\ down
  /\ disp' = "draining"
  /\ UNCHANGED <<memory, disk, goroutines, slots, wake, down, client,
                 recheckers, dequeues>>

Return ==
  /\ disp = "draining"
  /\ \A w \in Worker : state[w] = "idle"
  /\ disp' = "returned"
  /\ UNCHANGED <<memory, disk, goroutines, slots, wake, down, client,
                 recheckers, dequeues>>

-----------------------------------------------------------------------------
(* The workers: process and the deferred release of the slot *)

\* What becomes of the item when drive returned err.  Mutant of Routed: an item
\* the user stopped meanwhile is treated like any other.
RoutedAlways(item, err) == [item EXCEPT !.phase = PhaseAfter[err]]

Routed(item, err) ==
  IF item.phase = "stopped" THEN item
                            ELSE [item EXCEPT !.phase = PhaseAfter[err]]

\* drive returned err; then, under m.mu, cancel and forget whatever cancel
\* function is registered for the number, and route the item.
Process(w, err) ==
  LET p == it[w]
      n == heap[p].num
      h == [heap EXCEPT ![p] = Routed(heap[p], err)]
  IN  /\ state[w] = "driving"
      /\ err = "canceled" => CtxDone(w)
      /\ cancelled' = [Cancel(n) EXCEPT ![w] = FALSE]
      /\ cancels' = Delete(n)
      /\ state' = [state EXCEPT ![w] = "exiting"]
      /\ it' = [it EXCEPT ![w] = None]
      /\ heap' = Collect(h, Listed \cup {it[v] : v \in Worker \ {w}})
      /\ dequeues' = IF heap[p].phase = "stopped" /\ MergeQueueMode
                        THEN dequeues \cup {n} ELSE dequeues
      /\ UNCHANGED items
      /\ Save
      /\ UNCHANGED <<loop, wake, down, client, recheckers>>

\* The deferred <-slots and wg.Done().
Exit(w) ==
  /\ state[w] = "exiting"
  /\ state' = [state EXCEPT ![w] = "idle"]
  /\ FreeSlot
  /\ UNCHANGED <<memory, disk, it, cancelled, disp, wake, down, client,
                 recheckers, dequeues>>

\* dequeue: the goroutine posted its /dequeue comment, or failed to.
Dequeued(n) ==
  /\ n \in dequeues
  /\ dequeues' = dequeues \ {n}
  /\ UNCHANGED <<memory, disk, goroutines, loop, wake, down, client,
                 recheckers>>

-----------------------------------------------------------------------------
(* The recheck loop *)

\* The entries recheckParked makes for the items in phase ph.
Entries(ph) ==
  LET s == Filter(items, {k \in DOMAIN items : heap[items[k]].phase = ph})
  IN  [j \in DOMAIN s |-> [num |-> heap[s[j]].num, from |-> ph]]

\* The parked items, in the order they are looked up; in merge-queue mode a
\* failed item stays.  Mutant of Snapshot: it does not.
SnapshotAll ==
  Entries("needs_approvals") \o Entries("conflicts") \o Entries("failed")

Snapshot ==
  Entries("needs_approvals") \o Entries("conflicts") \o
  (IF MergeQueueMode THEN <<>> ELSE Entries("failed"))

\* A tick: take the snapshot under m.mu.
RecheckTick ==
  /\ Recheck
  /\ rpc = "idle"
  /\ todo' = Snapshot
  /\ rpc' = "scan"
  /\ UNCHANGED <<memory, disk, goroutines, loop, wake, down, client, dequeues>>

\* The GitHub lookup, without the lock: the reason it was parked is gone ...
LookupReady ==
  /\ rpc = "scan" /\ todo # <<>> /\ ~down
  /\ rpc' = "requeue"
  /\ UNCHANGED <<memory, disk, goroutines, loop, wake, down, client, todo,
                 dequeues>>

\* ... or is still there, or the lookup failed.
LookupNotReady ==
  /\ rpc = "scan" /\ todo # <<>> /\ ~down
  /\ todo' = Tail(todo)
  /\ UNCHANGED <<memory, disk, goroutines, loop, wake, down, client, rpc,
                 dequeues>>

\* requeueParked: only an item that is still in the phase of the snapshot.
RequeueParked ==
  /\ rpc = "requeue"
  /\ \/ \E p \in Listed :
          /\ heap[p] = [num |-> Head(todo).num, phase |-> Head(todo).from]
          /\ heap' = [heap EXCEPT ![p].phase = "queued"]
          /\ UNCHANGED items
          /\ Save
     \/ /\ \A p \in Listed :
             heap[p] # [num |-> Head(todo).num, phase |-> Head(todo).from]
        /\ UNCHANGED <<items, heap, disk>>
  /\ rpc' = "notify"
  /\ UNCHANGED <<cancels, goroutines, loop, wake, down, client, todo, dequeues>>

RecheckNotify ==
  /\ rpc = "notify"
  /\ Signal
  /\ todo' = Tail(todo)
  /\ rpc' = "scan"
  /\ UNCHANGED <<memory, disk, goroutines, loop, down, client, dequeues>>

\* recheckParked returns: nothing left, or ctx.Err() # nil.
RecheckEnd ==
  /\ rpc = "scan"
  /\ todo = <<>> \/ down
  /\ todo' = <<>>
  /\ rpc' = "idle"
  /\ UNCHANGED <<memory, disk, goroutines, loop, wake, down, client, dequeues>>

RecheckReturn ==
  /\ rpc = "idle"
  /\ down
  /\ rpc' = "returned"
  /\ UNCHANGED <<memory, disk, goroutines, loop, wake, down, client, todo,
                 dequeues>>

-----------------------------------------------------------------------------
(* The daemon *)

\* SIGINT or SIGTERM cancels the root context.
Shutdown ==
  /\ ~down
  /\ down' = TRUE
  /\ UNCHANGED <<memory, disk, goroutines, loop, wake, client, recheckers,
                 dequeues>>

\* The addresses Load can give the items of the state file.
Addresses ==
  {a \in [DOMAIN disk -> Ptr] :
     \A i, j \in DOMAIN disk : a[i] = a[j] => i = j}

\* The process ends, at any moment (runServe does not wait for Run, and a crash
\* does not ask), and a new one Loads the state file.
Restart ==
  /\ Addresses # {}
  /\ LET a == CHOOSE b \in Addresses : TRUE
     IN  /\ items' = a
         /\ heap' = [p \in Ptr |->
                       IF \E k \in DOMAIN disk : a[k] = p
                       THEN Revived(disk[CHOOSE k \in DOMAIN disk : a[k] = p])
                       ELSE None]
  /\ cancels' = [n \in PRs |-> None]
  /\ state' = [w \in Worker |-> "idle"]
  /\ it' = [w \in Worker |-> None]
  /\ cancelled' = [w \in Worker |-> FALSE]
  /\ disp' = "acquire" /\ slots' = 0 /\ wake' = FALSE /\ down' = FALSE
  /\ client' = [c \in Client |-> "idle"]
  /\ rpc' = "idle" /\ todo' = <<>>
  /\ dequeues' = {}
  /\ UNCHANGED disk

-----------------------------------------------------------------------------
\* The first start: no state file.
Init ==
  /\ items = <<>>
  /\ heap = [p \in Ptr |-> None]
  /\ disk = <<>>
  /\ cancels = [n \in PRs |-> None]
  /\ state = [w \in Worker |-> "idle"]
  /\ it = [w \in Worker |-> None]
  /\ cancelled = [w \in Worker |-> FALSE]
  /\ disp = "acquire" /\ slots = 0 /\ wake = FALSE /\ down = FALSE
  /\ client = [c \in Client |-> "idle"]
  /\ rpc = "idle" /\ todo = <<>>
  /\ dequeues = {}

\* The requests of users.
Request(c) ==
  \/ \E n \in PRs : AddNew(c, n) \/ ReAdd(c, n) \/ Remove(c, n) \/ Requeue(c, n)
  \/ \E phases \in ClearSets : Clear(c, phases)

Dispatch ==
  \/ Acquire
  \/ \E w \in Worker : Claim(w)
  \/ ClaimNothing \/ Release \/ Wake \/ Drain \/ Return

Work(w) == (\E err \in Outcome : Process(w, err)) \/ Exit(w)

RecheckLoop ==
  \/ RecheckTick \/ LookupReady \/ LookupNotReady
  \/ RequeueParked \/ RecheckNotify \/ RecheckEnd \/ RecheckReturn

Next ==
  \/ \E c \in Client : Request(c) \/ Notify(c)
  \/ Dispatch
  \/ \E w \in Worker : Work(w)
  \/ \E n \in PRs : Dequeued(n)
  \/ RecheckLoop
  \/ Shutdown
  \/ Restart

Spec == Init /\ [][Next]_vars

\* Run's loop and the goroutines it started keep running while the process
\* lives; drive returns (Runner.Run has a deadline, both runners stop when their
\* context is done), so every worker ends.  A Go select chooses at random among
\* the cases that are ready, so a cancelled context is not passed over for ever:
\* strong fairness of Drain.  Nothing is assumed of users, of the recheck ticker
\* and its lookups, of shutdown and of crashes.
Fairness ==
  /\ WF_vars(Dispatch)
  /\ SF_vars(Drain)
  /\ \A w \in Worker : WF_vars(Work(w))
  /\ \A c \in Client : WF_vars(Notify(c))
  /\ WF_vars(RequeueParked \/ RecheckNotify)

FairSpec == Spec /\ Fairness
=============================================================================
