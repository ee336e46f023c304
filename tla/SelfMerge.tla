----------------------------- MODULE SelfMerge -----------------------------
(***************************************************************************)
(* One pull request through the queue in self-merge mode: Runner drives    *)
(* it, process routes what Runner returned to a phase, the recheck loop    *)
(* looks at a parked one and brings it back, and the user can retry.  The  *)
(* list, the locks and the other pull requests are QueueManager's; here a  *)
(* queued pull request is eventually claimed.                              *)
(***************************************************************************)
EXTENDS RunnerProperties

VARIABLES
  phase,  \* the item's Phase
  back    \* recheck: the phase from which it is about to requeue, or "none"

selfVars == <<runnerVars, phase, back>>

\* What process makes of Run's result: the same table as PhaseAfter of
\* QueueManager, for Runner's own results.
Route(r) ==
  CASE r = "nil" -> "merged"
    [] r = "canceled" -> "queued"
    [] r = "conflicts" -> "conflicts"
    [] r = "approvals" -> "needs_approvals"
    [] OTHER -> "failed"

\* ApprovalsMet.  Mutant of ApprovalsMet: GitHub's own decision is left out.
CountOnly(r) == r.approvals >= opts.MinApprovals

ApprovalsMet(r) ==
  /\ r.decision \notin {"REVIEW_REQUIRED", "CHANGES_REQUESTED"}
  /\ r.approvals >= opts.MinApprovals

\* checksRecovered.  Mutant of ChecksRecovered: clean was forgotten.
RecoveredButNotClean(state) == state \in {"unstable", "behind"}

ChecksRecovered(state) == state \in {"clean", "unstable", "behind"}

\* conflictResolved
ConflictResolved(state) == state \notin {"dirty", "unknown"}

\* claim, and drive starts a Runner with a new deadline.
Claimed ==
  /\ phase = "queued"
  /\ phase' = "active"
  /\ pc' = "get" /\ late' = FALSE /\ ctxDone' = FALSE /\ result' = "none"
  /\ UNCHANGED <<pr, opts, seen, moved, dead, back>>

\* process, when Run has returned.
Process ==
  /\ phase = "active"
  /\ pc = "done"
  /\ phase' = Route(result)
  /\ UNCHANGED <<runnerVars, back>>

\* recheckParked: the lookup of a parked item says that it can make progress.
LookupReady ==
  /\ back = "none"
  /\ \/ phase = "needs_approvals" /\ ApprovalsMet(pr.review)
     \/ phase = "conflicts" /\ ConflictResolved(pr.mstate)
     \/ phase = "failed" /\ ChecksRecovered(pr.mstate)
  /\ back' = phase
  /\ UNCHANGED <<runnerVars, phase>>

\* requeueParked: only an item that is still in the phase it was looked up in.
\* Mutant of StillParked: any item.
AnyItem == TRUE

StillParked == phase = back

RequeueParked ==
  /\ back # "none"
  /\ phase' = IF StillParked THEN "queued" ELSE phase
  /\ back' = "none"
  /\ UNCHANGED runnerVars

\* The user's retry: Requeue of a parked item, Add of a failed one.
Retry ==
  /\ phase \in {"needs_approvals", "conflicts", "failed"}
  /\ phase' = "queued"
  /\ UNCHANGED <<runnerVars, back>>

Drives(step) == step /\ UNCHANGED <<phase, back>>

SelfInit == RunnerInit /\ phase = "active" /\ back = "none"

SelfNext ==
  \/ Drives(Run) \/ Drives(Changes)
  \/ phase = "active" /\ Drives(Deadline \/ CancelContext)
  \/ Claimed \/ Process \/ LookupReady \/ RequeueParked \/ Retry

SelfSpec == SelfInit /\ [][SelfNext]_selfVars

\* Workers and the recheck loop go on, time passes; and a GitHub that is asked
\* the same thing again and again answers it well again and again.
SelfFairSpec ==
  /\ SelfSpec
  /\ WF_selfVars(Drives(Run)) /\ WF_selfVars(Claimed) /\ WF_selfVars(Process)
  /\ SF_selfVars(LookupReady) /\ WF_selfVars(RequeueParked)
  /\ SF_selfVars(Drives(Get)) /\ SF_selfVars(Drives(Gate))
  /\ SF_selfVars(Drives(RequiredChecks)) /\ SF_selfVars(Drives(RequiredRuns))
  /\ SF_selfVars(Drives(MergeAccepted))

-----------------------------------------------------------------------------
\* The phase and the runner agree: no late requeue takes an item away from its
\* worker, an item that is parked or finished shows what Run returned, and a
\* merged one is merged.
PhaseMatchesRunner ==
  /\ phase \in {"queued", "active", "merged", "failed", "conflicts",
                "needs_approvals"}
  /\ back \in {"none", "needs_approvals", "conflicts", "failed"}
  /\ phase # "active" => pc = "done"
  /\ phase \in {"merged", "failed", "conflicts", "needs_approvals"} =>
       Route(result) = phase
  /\ phase = "merged" => pr.status = "merged" \/ opts.DryRun

\* A pull request that nothing happened to since it was parked for conflicts,
\* for approvals or by branch protection is not requeued: the gate that parks
\* it and the test that brings it back agree (manager.go:378-383).
ParkedNotChurned ==
  [][LookupReady /\ ~moved =>
       result \notin {"conflicts", "approvals", "blocked"}]_selfVars

\* A pull request that is ready does not stay ready for ever: it is merged, from
\* whatever phase, after whatever failures and deadlines, without a manual retry
\* (README.md:329-331, "return to `queued` automatically once the block clears").
ReadyIsMerged == ~<>[]Ready(pr)
=============================================================================
