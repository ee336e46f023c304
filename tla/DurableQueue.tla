---------------------------- MODULE DurableQueue ----------------------------
(***************************************************************************)
(* The merge queue as its users see it (README.md, "State machine" and     *)
(* "Persistence"): one ordered list of pull requests with a phase each,    *)
(* which every request, result and restart changes in one atomic step.     *)
(* There are no pointers, goroutines, channels, snapshots or files here;   *)
(* QueueManager implements this list with them.                            *)
(***************************************************************************)
EXTENDS Naturals, Sequences, FiniteSets

CONSTANTS
  PRs,      \* the pull request numbers
  Limit,    \* how many may be driven at a time
  Returning,\* the phases that the recheck loop may bring back
  Leaving   \* the phases in which a drive that ends may find its item

VARIABLE list  \* what GET /api/items shows

Phases  == {"queued", "active", "merged", "failed", "conflicts",
            "needs_approvals", "stopped"}
InQueue == {"queued", "active"}

At(n) == {k \in DOMAIN list : list[k].num = n}
Active == {k \in DOMAIN list : list[k].phase = "active"}

\* The item of n goes from one phase to another, in its place.
Moves(n, from, to) ==
  \E k \in At(n) :
    /\ list[k].phase \in from
    /\ list' = [list EXCEPT ![k].phase = to]

\* The items at the positions K are left, in their order.
Keeps(K) ==
  /\ Len(list') = Cardinality(K)
  /\ \E at \in [DOMAIN list' -> K] :
       /\ \A i, j \in DOMAIN list' : i < j => at[i] < at[j]
       /\ \A j \in DOMAIN list' : list'[j] = list[at[j]]

\* A user submits a new pull request, or one that is finished or parked again.
Submit(n) ==
  \/ At(n) = {} /\ list' = Append(list, [num |-> n, phase |-> "queued"])
  \/ Moves(n, Phases \ InQueue, "queued")

\* A user stops one.
Stop(n) == Moves(n, InQueue, "stopped")

\* A user clears the history: never what is queued or active.
Clear(phases) == Keeps({k \in DOMAIN list : list[k].phase \notin phases})

\* The recheck loop brings one back.
Return(n) == Moves(n, Returning, "queued")

\* The first queued one is driven, unless Limit are.
Begin ==
  /\ Cardinality(Active) < Limit
  /\ \E k \in DOMAIN list :
       /\ list[k].phase = "queued"
       /\ \A j \in 1..(k - 1) : list[j].phase # "queued"
       /\ list' = [list EXCEPT ![k].phase = "active"]

\* A drive ends.  It may be an older drive of a pull request that was stopped and
\* submitted again, so that the item is queued already; where several are driven
\* at a time, even finished already.  A stopped item stays as it is.
End(n) ==
  \E to \in {"merged", "failed", "conflicts", "needs_approvals", "queued"} :
    Moves(n, Leaving, to)

\* The daemon stops or crashes, and starts again: whatever was driven is queued.
Restart ==
  list' = [k \in DOMAIN list |->
             IF list[k].phase = "active" THEN [list[k] EXCEPT !.phase = "queued"]
                                         ELSE list[k]]

Init == list = <<>>

Next ==
  \/ \E n \in PRs : Submit(n) \/ Stop(n) \/ Return(n) \/ End(n)
  \/ \E phases \in SUBSET (Phases \ InQueue) : Clear(phases)
  \/ Begin
  \/ Restart

Spec == Init /\ [][Next]_list
=============================================================================
