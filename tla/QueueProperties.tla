-------------------------- MODULE QueueProperties --------------------------
(***************************************************************************)
(* What the merge queue promises: the invariants, action properties and    *)
(* liveness of QueueManager, and what a comment says of it that the code   *)
(* does not keep.                                                          *)
(***************************************************************************)
EXTENDS QueueManager

\* Every variable keeps its type; above all the slots channel never holds more
\* than its capacity, and no cancel function outlives its worker as an address.
TypeOK ==
  /\ items \in Seq(Ptr)
  /\ heap \in [Ptr -> Item \cup {None}]
  /\ disk \in Seq(Item)
  /\ cancels \in [PRs -> Worker \cup {None}]
  /\ state \in [Worker -> {"idle", "driving", "exiting"}]
  /\ it \in [Worker -> Ptr \cup {None}]
  /\ cancelled \in [Worker -> BOOLEAN]
  /\ disp \in {"acquire", "claim", "release", "waiting", "draining", "returned"}
  /\ slots \in 0..Concurrency
  /\ wake \in BOOLEAN /\ down \in BOOLEAN
  /\ client \in [Client -> {"idle", "notify"}]
  /\ rpc \in {"idle", "scan", "requeue", "notify", "returned"}
  /\ todo \in Seq([num : PRs, from : Parked \cup {"failed"}])
  /\ rpc \in {"requeue", "notify"} => todo # <<>>
  /\ dequeues \subseteq PRs

Busy    == {w \in Worker : state[w] # "idle"}
Driving == {w \in Worker : state[w] = "driving"}

\* A worker that nobody has told to stop.
Live(w) == w \in Driving /\ ~cancelled[w]

PhaseOf(n) ==
  IF Tracked(n) THEN heap[CHOOSE p \in Listed : heap[p].num = n].phase
                ELSE "absent"

\* A pull request is in the list once, whatever the order of Add, Clear, Load:
\* every loop over m.items stops at the first match.
NumbersUnique ==
  \A i, j \in DOMAIN items : heap[items[i]].num = heap[items[j]].num => i = j

\* A worker that nobody stopped drives a listed item that is shown as active,
\* and m.cancels leads Remove to it: no drive runs on out of the user's reach.
LiveWorkerStoppable ==
  \A w \in Worker : Live(w) =>
    /\ it[w] \in Listed
    /\ heap[it[w]].phase = "active"
    /\ cancels[heap[it[w]].num] = w

\* m.cancels holds nothing else: each entry stops a live worker on its own
\* number, so Remove never cancels the drive of another pull request.
NoStaleCancel ==
  \A n \in PRs : cancels[n] # None =>
    Live(cancels[n]) /\ heap[it[cancels[n]]].num = n

\* Of several goroutines that drive one pull request (see OneWorkerPerPR), all
\* but one have been cancelled.
OneLiveWorkerPerPR ==
  \A v, w \in Worker :
    Live(v) /\ Live(w) /\ heap[it[v]].num = heap[it[w]].num => v = w

\* An item shown as active is being driven: nothing is stranded in a phase that
\* only a worker, or a restart, leaves.
ActiveIsDriven ==
  \A p \in Listed : heap[p].phase = "active" => \E w \in Driving : it[w] = p

\* Slots are neither leaked nor released twice over claims that find nothing,
\* workers and restarts; hence at most Concurrency workers run (ConcurrencyLimit).
SlotsMatchWorkers ==
  slots = Cardinality(Busy) + (IF disp \in {"claim", "release"} THEN 1 ELSE 0)

\* No more pull requests are driven at once than --concurrency allows.
ConcurrencyLimit == Cardinality(Driving) <= Concurrency

\* While every write succeeds, reloading the state file gives back the queue.
FileIsCurrent == ~DiskFaults => Revive(disk) = Revive(View(items, heap))

\* Whatever writes fail, the state file is a list that Load can take: no pull
\* request is in it twice.
FileIsLoadable ==
  \A i, j \in DOMAIN disk : disk[i].num = disk[j].num => i = j

\* Run sleeps on the wake channel only while nothing is queued or somebody is
\* about to wake it (README, "one PR is driven to merged before the next
\* starts": this is what starts the next).  False with two workers.
NoLostWakeup ==
  /\ disp \in {"release", "waiting"}
  /\ \E p \in Listed : heap[p].phase = "queued"
  => wake \/ down \/ rpc = "notify" \/ \E c \in Client : client[c] = "notify"

\* A crash or restart at any moment keeps every item, its place and its phase,
\* except that in-flight items are queued again.
CrashLosesNothing ==
  [][Restart => View(items', heap') = Revive(View(items, heap))]_vars

\* Once the user has stopped a pull request, only the user brings it back: no
\* late result of a worker, recheck with an old snapshot or restart does.
StoppedIsSticky ==
  [][\A n \in PRs : PhaseOf(n) = "stopped" =>
       \/ PhaseOf(n)' \in {"stopped", "absent"}
       \/ \E c \in Client : ReAdd(c, n)]_vars

\* In merge-queue mode a failed pull request is not handed over again behind the
\* back of whoever dequeued it: with no worker left on it, only a user's retry,
\* or a restart from a file that a failed write left behind, takes it out of
\* failed (README, "auto-requeueing is off in this mode").
FailedNeedsRetry ==
  [][\A n \in PRs :
       MergeQueueMode /\ PhaseOf(n) = "failed" =>
         \/ PhaseOf(n)' \in {"failed", "absent"}
         \/ \E c \in Client : ReAdd(c, n)
         \/ Restart /\ disk # View(items, heap)
         \/ \E w \in Driving : heap[it[w]].num = n]_vars

\* The queue that its users see (DurableQueue): the list by value.
Queue == INSTANCE DurableQueue
           WITH list <- View(items, heap), Limit <- Concurrency,
                Returning <- IF MergeQueueMode THEN Parked
                                               ELSE Parked \cup {"failed"},
                Leaving <- IF Concurrency = 1 THEN InQueue
                                              ELSE Phases \ {"stopped"}

\* While writes succeed, the manager implements it: however handlers, dispatcher,
\* workers, snapshots and crashes interleave, every step is one atomic change of
\* the list or none, only the first queued item is ever started, never more
\* than the limit, and nothing but a restart takes an item out of active except
\* its stop or the end of a drive.
ImplementsQueue == Queue!Spec

\* What happens to the queue from outside Run's loop and its workers.
Disturbance ==
  \/ \E c \in Client : Request(c)
  \/ RecheckTick \/ Shutdown \/ Restart

\* Run drains the queue: once users, rechecks, signals and crashes leave a
\* running daemon alone, every item ends up finished or parked.
QueueDrains ==
  <>[][~Disturbance]_vars =>
    <>[](down \/ \A p \in Listed : heap[p].phase \notin InQueue)

\* Once the root context is cancelled Run returns, wherever its loop and its
\* workers were, unless the process ends first.
RunReturns == down ~> (disp = "returned" \/ ~down)

-----------------------------------------------------------------------------
(* What a comment says and the code does not keep *)

\* manager.go:330-333: claiming "under one lock closes the race where two workers
\* grab the same PR".
OneWorkerPerPR ==
  \A v, w \in Driving : heap[it[v]].num = heap[it[w]].num => v = w
============================================================================
