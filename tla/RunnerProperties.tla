-------------------------- MODULE RunnerProperties --------------------------
(***************************************************************************)
(* What merge.Runner promises: about its verdicts, its writes to GitHub    *)
(* and its end.                                                            *)
(***************************************************************************)
EXTENDS Runner

\* Every variable keeps its type.  Run has a result exactly when it returned, and
\* canceled only for a cancelled context, from which the queue tells a removal or
\* shutdown from a failure.
RunnerTypeOK ==
  /\ pr \in PullRequests /\ opts \in Settings
  /\ pc \in Calls \cup {"pause", "sleep", "done"}
  /\ seen \in 0..MaxHead
  /\ late \in BOOLEAN /\ ctxDone \in BOOLEAN
  /\ moved \in BOOLEAN /\ dead \in BOOLEAN
  /\ result \in Results
  /\ result = "none" <=> pc # "done"
  /\ result = "canceled" => ctxDone

UnderApproved(r) ==
  r.decision = "REVIEW_REQUIRED" \/ r.approvals < opts.MinApprovals

\* The pull request can be merged as it stands, by the README's rules.
Ready(p) ==
  /\ p.status = "open" /\ ~p.draft
  /\ \/ p.mstate = "clean"
     \/ /\ p.mstate = "unstable"
        /\ opts.AllowUnstable \/ \A c \in Required : p.checks[c] = "green"
  /\ \/ opts.AllowUnresolved
     \/ /\ ~UnderApproved(p.review)
        /\ p.review.decision # "CHANGES_REQUESTED" /\ p.review.threads = 0

\* Unless the pull request changed during the step, what the bot merges is ready:
\* no path through step skips a gate (README, "State machine").
MergesOnlyReady == [][MergeAccepted /\ ~moved => Ready(pr)]_runnerVars

\* Whatever happens to the pull request between the calls of a step, a verdict is
\* never put together from answers that were not true at once: as long as the head
\* that step looked at is the head, one that is given up for its checks has failed
\* a required check, or there was a moment in this step at which the branch was up
\* to date, a check had failed and nothing was running (runner.go:217-226); and one
\* that is called blocked has no check to blame.
VerdictsAreTrue ==
  [][pc # "done" =>
       /\ result' = "approvals" => UnderApproved(pr.review)
       /\ result' = "checks" /\ pr.head = seen =>
            \/ dead
            \/ pc = "required runs" /\ \E c \in Required : pr.checks[c] = "failed"
       /\ result' = "blocked" /\ pr.head = seen =>
            ~Failed(pr.checks) /\ ~Pending(pr.checks)]_runnerVars

\* CI is restarted only for a branch that lacks commits of its base, although the
\* author may have rebased and pushed since the bot looked: no update-branch,
\* answered or not, is spent on a branch that is up to date (runner.go:384-386).
UpdatesAreNeeded ==
  [][UpdateAccepted \/ UpdateAnswerLost => pr.behind]_runnerVars

\* However many calls are rate limited, and whatever else the pull request goes
\* through, only a dead end (closed, draft, merge refused) or the deadline
\* declines it (runner.go:373-375).  Stated for Errors = {"limited"}.
OnlyDeadEndsDecline ==
  [][result' = "error" /\ result = "none" =>
       \/ pr.status # "open" \/ pr.draft \/ pr.mstate = "draft"
       \/ pc = "pause" /\ late]_runnerVars

\* No step of a dry run writes to the pull request, whatever path it takes, and
\* none goes to sleep: it looks once and returns.
DryRunTouchesNothing ==
  [][opts.DryRun /\ Run => UNCHANGED pr /\ pc' # "sleep"]_runnerVars

\* Run returns, whatever GitHub answers: no polling without end.
RunReturns == <>(pc = "done")
=============================================================================
