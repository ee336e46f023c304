------------------------------- MODULE Runner -------------------------------
(***************************************************************************)
(* merge.Runner (internal/merge/runner.go): the polling loop that brings   *)
(* one pull request to merged in self-merge mode.  Every call to GitHub is *)
(* an action; between two of them the pull request may change and the      *)
(* context may be cancelled.  What step decides from an answer happens     *)
(* together with reading that answer.                                      *)
(***************************************************************************)
EXTENDS PullRequest

CONSTANTS
  Settings,  \* the settings a Runner may be made with
  Errors     \* the kinds of error a call may end with

ASSUME RunnerAssumption ==
  /\ Settings \subseteq [MinApprovals : Nat, AllowUnstable : BOOLEAN,
                         AllowUnresolved : BOOLEAN, DryRun : BOOLEAN]
  /\ Errors \subseteq {"limited", "failed"}

VARIABLES
  opts,     \* the fields of the Runner, which nothing changes
  pc,       \* the call Run is in, or "pause", "sleep", "done"
  seen,     \* pr.GetHead().GetSHA() as step read it
  late,     \* is time.Now() after the deadline?
  ctxDone,  \* is the context cancelled?
  result,   \* what Run returned ("none": it is running)
  moved,    \* history: has the pull request changed since step read it?
  dead      \* history, at BehindBy: was there a moment since step read the check
            \* runs at which the head it looks at was dead?

Results == {"none", "nil", "canceled", "conflicts", "approvals",
            "checks", "blocked", "error"}
Calls == {"get", "gate", "required", "required runs", "blocked gate",
          "blocked runs", "behind by", "merge", "update"}

local == <<opts, pc, seen, late, ctxDone, result, moved, dead>>
runnerVars == <<pr, local>>

-----------------------------------------------------------------------------
(* The gates, as functions of what GitHub answered *)

\* reviewGate: missing approvals come before everything else.
ReviewGate(r) ==
  IF r.decision = "REVIEW_REQUIRED" \/ r.approvals < opts.MinApprovals
  THEN "approvals"
  ELSE IF r.decision = "CHANGES_REQUESTED" \/ r.threads > 0 THEN "hold" ELSE "ok"

\* requiredChecksGreen, in the order of the list of required checks, which is
\* arbitrary: with one check failed and one pending either may decide.  Mutant
\* of RequiredVerdicts: a check that has not reported is skipped.
MissingIsGreen(checks) ==
  LET is(c) == IF checks[c] = "pending" THEN "wait"
               ELSE IF checks[c] = "failed" THEN "checks" ELSE "ok"
      bad == {is(c) : c \in Required} \ {"ok"}
  IN  IF bad = {} THEN {"ok"} ELSE bad

RequiredVerdicts(checks) ==
  LET is(c) == CASE checks[c] \in {"absent", "pending"} -> "wait"
                 [] checks[c] = "failed" -> "checks"
                 [] checks[c] = "green" -> "ok"
      bad == {is(c) : c \in Required} \ {"ok"}
  IN  IF bad = {} THEN {"ok"} ELSE bad

\* CountChecks.
Pending(checks) == \E c \in Checks : checks[c] = "pending"
Failed(checks) == \E c \in Checks : checks[c] = "failed"

\* What handleBlocked makes of the check runs.  Mutant of BlockedVerdict: a
\* failure decides although checks are running.
FailureFirst(checks) ==
  IF Failed(checks) THEN "compare"
  ELSE IF Pending(checks) THEN "wait" ELSE "blocked"

BlockedVerdict(checks) ==
  IF Pending(checks) THEN "wait"
  ELSE IF Failed(checks) THEN "compare" ELSE "blocked"

\* "an up-to-date branch with a completed failure", nothing running: the reason
\* for which handleBlocked gives up on the head that it looks at.
IsDead(p) ==
  p.head = seen /\ ~p.behind /\ Failed(p.checks) /\ ~Pending(p.checks)

\* isRateLimited.  Mutant of IsRateLimited: the wrapped error is not recognized.
NotRecognized(e) == FALSE

IsRateLimited(e) == e = "limited"

\* What UpdateBranch passes as expected_head_sha.  Mutant of Expected: nothing,
\* so GitHub takes whatever head there is.
AnyHead == pr.head

Expected == seen

\* The deadline.  Mutant of Expired: it is never checked.
NeverExpired == FALSE

Expired == late

\* Is this more than a dry run?  Mutant of ForReal: always.
AlwaysForReal == TRUE

ForReal == ~opts.DryRun

-----------------------------------------------------------------------------
(* Run and step *)

Go(call) == pc' = call /\ UNCHANGED result
Return(r) == pc' = "done" /\ result' = r

\* step returned (false, nil).
Poll == Go("pause")

\* step returned an error that wraps what the call ended with: the context's
\* own error, if that was the reason.
Fail == \/ Return("error")
        \/ ctxDone /\ Return("canceled")

\* tryMerge
TryMerge == IF opts.AllowUnresolved THEN Go("merge") ELSE Go("gate")

\* What step does about the pull request it fetched.
Inspect ==
  \/ pr.status = "merged" /\ Return("nil")
  \/ pr.status = "closed" /\ Return("error")
  \/ pr.status = "open" /\ (pr.draft \/ pr.mstate = "draft") /\ Return("error")
  \/ /\ pr.status = "open" /\ ~pr.draft
     /\ \/ pr.mstate = "clean" /\ TryMerge
        \/ pr.mstate = "unstable" /\ IF opts.AllowUnstable THEN TryMerge
                                                      ELSE Go("required")
        \/ pr.mstate = "behind" /\ Go("update")
        \/ pr.mstate = "blocked" /\ Go(IF opts.AllowUnresolved THEN "blocked runs"
                                                          ELSE "blocked gate")
        \/ pr.mstate = "dirty" /\ Return("conflicts")
        \/ pr.mstate = "unknown" /\ Poll

\* GetPullRequest
Get ==
  /\ pc = "get"
  /\ Inspect
  /\ seen' = pr.head
  /\ moved' = FALSE
  /\ UNCHANGED <<pr, opts, late, ctxDone, dead>>

\* ReviewStatus, before merging: only missing approvals end the run.
Gate ==
  /\ pc = "gate"
  /\ LET v == ReviewGate(pr.review)
     IN  \/ v = "approvals" /\ Return("approvals")
         \/ v = "hold" /\ Poll
         \/ v = "ok" /\ Go("merge")
  /\ UNCHANGED <<pr, opts, seen, late, ctxDone, moved, dead>>

\* RequiredChecks: with none configured there is nothing to wait for.
RequiredChecks ==
  /\ pc = "required"
  /\ IF Required = {} THEN TryMerge ELSE Go("required runs")
  /\ UNCHANGED <<pr, opts, seen, late, ctxDone, moved, dead>>

\* CheckRuns of the head that step read.  After a push the model no longer has
\* them: any outcome is possible.
RunsOf(head) ==
  IF pr.head = head THEN {pr.checks} ELSE [Checks -> CheckStates]

RequiredRuns ==
  /\ pc = "required runs"
  /\ \E checks \in RunsOf(seen) : \E v \in RequiredVerdicts(checks) :
       \/ v = "checks" /\ Return(v)
       \/ v = "wait" /\ Poll
       \/ v = "ok" /\ TryMerge
  /\ UNCHANGED <<pr, opts, seen, late, ctxDone, moved, dead>>

\* handleBlocked: ReviewStatus; every verdict but missing approvals is ignored.
BlockedGate ==
  /\ pc = "blocked gate"
  /\ IF ReviewGate(pr.review) = "approvals" THEN Return("approvals")
                                            ELSE Go("blocked runs")
  /\ UNCHANGED <<pr, opts, seen, late, ctxDone, moved, dead>>

\* CheckRuns
BlockedRuns ==
  /\ pc = "blocked runs"
  /\ \E checks \in RunsOf(seen) :
       LET v == BlockedVerdict(checks)
       IN  \/ v = "wait" /\ Poll
           \/ v = "compare" /\ Go("behind by")
           \/ v = "blocked" /\ Return("blocked")
  /\ dead' = (pc' = "behind by" /\ IsDead(pr))
  /\ UNCHANGED <<pr, opts, seen, late, ctxDone, moved>>

\* BehindBy: update a stale branch, give up on a current one (logBlockers only
\* reads and logs).  Of a head that is gone any answer is possible.
BehindBy ==
  /\ pc = "behind by"
  /\ \/ (pr.behind \/ pr.head # seen) /\ Go("update")
     \/ (~pr.behind \/ pr.head # seen) /\ Return("checks")
  /\ dead' = FALSE
  /\ UNCHANGED <<pr, opts, seen, late, ctxDone, moved>>

\* merge: the call names no commit.
MergeAccepted ==
  /\ pc = "merge" /\ ForReal
  /\ Accepts(pr)
  /\ pr' = Merged(pr)
  /\ Return("nil")
  /\ moved' = TRUE
  /\ UNCHANGED <<opts, seen, late, ctxDone, dead>>

\* GitHub merged, but the answer is lost.
MergeAnswerLost ==
  /\ pc = "merge" /\ ForReal
  /\ "failed" \in Errors
  /\ Accepts(pr)
  /\ pr' = Merged(pr)
  /\ Fail
  /\ moved' = TRUE
  /\ UNCHANGED <<opts, seen, late, ctxDone, dead>>

MergeRefused ==
  /\ pc = "merge" /\ ForReal
  /\ ~Accepts(pr)
  /\ Fail
  /\ UNCHANGED <<pr, opts, seen, late, ctxDone, moved, dead>>

\* update: GitHub accepts it, or answers 422 (isStaleHeadUpdate).
UpdateAccepted ==
  /\ pc = "update" /\ ForReal
  /\ Updatable(pr, Expected)
  /\ pr' = Updated(pr)
  /\ Poll
  /\ moved' = TRUE
  /\ UNCHANGED <<opts, seen, late, ctxDone, dead>>

\* GitHub merged the base into the branch, but the answer is lost.
UpdateAnswerLost ==
  /\ pc = "update" /\ ForReal
  /\ "failed" \in Errors
  /\ Updatable(pr, Expected)
  /\ pr' = Updated(pr)
  /\ Fail
  /\ moved' = TRUE
  /\ UNCHANGED <<opts, seen, late, ctxDone, dead>>

UpdateStale ==
  /\ pc = "update" /\ ForReal
  /\ ~Updatable(pr, Expected)
  /\ Poll
  /\ UNCHANGED <<pr, opts, seen, late, ctxDone, moved, dead>>

\* A dry run says what it would do: a merge ends it, an update does not.
DryCall ==
  /\ ~ForReal
  /\ \/ pc = "merge" /\ Return("nil")
     \/ pc = "update" /\ Poll
  /\ UNCHANGED <<pr, opts, seen, late, ctxDone, moved, dead>>

\* A call ends with an error.  Three of them tell rate limits from the rest, the
\* others log any error and poll again, or look at the checks all the same.
CallFails ==
  /\ \/ /\ pc = "get" \/ (pc \in {"merge", "update"} /\ ForReal)
        /\ \E e \in Errors : IF IsRateLimited(e) THEN Poll ELSE Fail
     \/ /\ pc \in {"gate", "required", "required runs", "blocked runs", "behind by"}
        /\ Errors # {}
        /\ Poll
     \/ /\ pc = "blocked gate"
        /\ Errors # {}
        /\ Go("blocked runs")
  /\ dead' = FALSE
  /\ UNCHANGED <<pr, opts, seen, late, ctxDone, moved>>

\* After a step that decided nothing: a dry run ends, so does a late one.
Pause ==
  /\ pc = "pause"
  /\ IF ~ForReal THEN Return("nil")
     ELSE IF Expired THEN Return("error") ELSE Go("sleep")
  /\ UNCHANGED <<pr, opts, seen, late, ctxDone, moved, dead>>

\* The select of Run.
Sleep ==
  /\ pc = "sleep"
  /\ \/ Go("get")
     \/ ctxDone /\ Return("canceled")
  /\ UNCHANGED <<pr, opts, seen, late, ctxDone, moved, dead>>

-----------------------------------------------------------------------------
Call ==
  \/ Get \/ Gate \/ RequiredChecks \/ RequiredRuns
  \/ BlockedGate \/ BlockedRuns \/ BehindBy
  \/ MergeAccepted \/ MergeAnswerLost \/ MergeRefused
  \/ UpdateAccepted \/ UpdateAnswerLost \/ UpdateStale
  \/ CallFails

Run == Call \/ DryCall \/ Pause \/ Sleep

\* The deadline passes.
Deadline ==
  /\ ~late
  /\ late' = TRUE
  /\ UNCHANGED <<pr, opts, pc, seen, ctxDone, result, moved, dead>>

\* Remove or shutdown cancels the context.
CancelContext ==
  /\ ~ctxDone
  /\ ctxDone' = TRUE
  /\ UNCHANGED <<pr, opts, pc, seen, late, result, moved, dead>>

\* The pull request changes under the runner.
Changes ==
  /\ Environment
  /\ moved' = TRUE
  /\ dead' = (dead \/ (pc = "behind by" /\ IsDead(pr')))
  /\ UNCHANGED <<opts, pc, seen, late, ctxDone, result>>

Start ==
  /\ pc = "get" /\ seen = 0 /\ late = FALSE /\ ctxDone = FALSE
  /\ result = "none" /\ moved = FALSE /\ dead = FALSE

RunnerInit ==
  /\ pr \in {p \in PullRequests : Fresh(p)}
  /\ opts \in Settings
  /\ Start

RunnerNext == Run \/ Deadline \/ CancelContext \/ Changes

RunnerSpec == RunnerInit /\ [][RunnerNext]_runnerVars

\* The loop runs on, time passes, and GitHub answers every call, well or badly:
\* the http.Client of the GraphQL calls has a timeout, that of the others has
\* none, and a call that never ends would hold Run past its deadline.
RunnerFairSpec ==
  /\ RunnerSpec
  /\ WF_runnerVars(Run)
  /\ WF_runnerVars(Deadline)
=============================================================================
