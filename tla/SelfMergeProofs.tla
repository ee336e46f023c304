-------------------------- MODULE SelfMergeProofs --------------------------
(***************************************************************************)
(* Proofs about self-merge mode, for every repository, every set of        *)
(* checks, every setting of the gates and every kind of error: what the    *)
(* runner knows when it acts, and that the life of the item it drives      *)
(* agrees with it.                                                         *)
(***************************************************************************)
EXTENDS SelfMerge, TLAPS

-----------------------------------------------------------------------------
(* The gates *)

\* The state of the checks allows the merge, as far as step looks at it.
ChecksPass(p) ==
  \/ p.mstate = "clean"
  \/ /\ p.mstate = "unstable"
     /\ opts.AllowUnstable \/ \A c \in Required : p.checks[c] = "green"

\* So does the review.
ReviewPass(p) ==
  \/ opts.AllowUnresolved
  \/ /\ ~UnderApproved(p.review)
     /\ p.review.decision # "CHANGES_REQUESTED" /\ p.review.threads = 0

\* A verdict of ReviewGate means what it says.
LEMMA GateVerdict ==
  ASSUME NEW r \in ReviewStatus
  PROVE  /\ ReviewGate(r) = "approvals" => UnderApproved(r)
         /\ ReviewGate(r) = "ok" =>
              /\ ~UnderApproved(r)
              /\ r.decision # "CHANGES_REQUESTED" /\ r.threads = 0
BY DEF ReviewGate, UnderApproved, ReviewStatus

\* A verdict of requiredChecksGreen is that of some required check; green, of all.
LEMMA RequiredVerdict ==
  ASSUME NEW checks \in [Checks -> CheckStates]
  PROVE  /\ RequiredVerdicts(checks) \subseteq {"ok", "wait", "checks"}
         /\ "ok" \in RequiredVerdicts(checks) =>
              \A c \in Required : checks[c] = "green"
         /\ "checks" \in RequiredVerdicts(checks) =>
              \E c \in Required : checks[c] = "failed"
<1> DEFINE is(c) == CASE checks[c] \in {"absent", "pending"} -> "wait"
                      [] checks[c] = "failed" -> "checks"
                      [] checks[c] = "green" -> "ok"
           bad == {is(c) : c \in Required} \ {"ok"}
<1>1. \A c \in Required : checks[c] \in CheckStates
  BY PullRequestAssumption
<1>2. \A c \in Required :
        /\ is(c) \in {"ok", "wait", "checks"}
        /\ is(c) = "ok" => checks[c] = "green"
        /\ is(c) = "checks" => checks[c] = "failed"
  BY <1>1 DEF CheckStates
<1>3. RequiredVerdicts(checks) = IF bad = {} THEN {"ok"} ELSE bad
  BY DEF RequiredVerdicts
<1> HIDE DEF is
<1>4. bad = {} => \A c \in Required : is(c) = "ok"
  OBVIOUS
<1> QED
  BY <1>2, <1>3, <1>4

-----------------------------------------------------------------------------
(* Types *)

\* What RunnerTypeOK says, and what Run's return value says of the pull request
\* for good: a merged pull request stays merged.
ResultInv == result = "nil" => pr.status = "merged" \/ opts.DryRun

\* Whatever the environment does to a pull request leaves a pull request.
LEMMA EnvironmentType ==
  ASSUME pr \in PullRequests, Environment
  PROVE  pr' \in PullRequests /\ pr.status # "merged"
<1> USE PullRequestAssumption DEF PullRequests
<1>0. pr.status # "merged"
  BY DEF Environment
<1>1. CASE Push
  <2>1. pr.head + 1 \in 0..MaxHead
    BY <1>1 DEF Push
  <2>2. [c \in Checks |-> "absent"] \in [Checks -> CheckStates]
    BY DEF CheckStates
  <2>3. "unknown" \in MergeableStates
    BY DEF MergeableStates
  <2> QED
    BY <1>0, <1>1, <2>1, <2>2, <2>3 DEF Push, Pushed, Updated
<1>2. CASE CI
  BY <1>0, <1>2 DEF CI
<1>3. CASE Review
  BY <1>0, <1>3 DEF Review
<1>4. CASE BaseMoves
  BY <1>0, <1>4 DEF BaseMoves
<1>5. CASE Author
  BY <1>0, <1>5 DEF Author, MergeableStates
<1>6. CASE Judge
  BY <1>0, <1>6 DEF Judge
<1> QED
  BY <1>1, <1>2, <1>3, <1>4, <1>5, <1>6 DEF Environment

\* So does what GitHub does for the bot.
LEMMA ServiceType ==
  ASSUME pr \in PullRequests
  PROVE  /\ Merged(pr) \in PullRequests /\ Merged(pr).status = "merged"
         /\ Updatable(pr, Expected) =>
              Updated(pr) \in PullRequests /\ pr.status = "open" /\ pr.head = seen
<1> USE PullRequestAssumption DEF PullRequests
<1>1. Merged(pr) \in PullRequests /\ Merged(pr).status = "merged"
  BY DEF Merged
<1>2. ASSUME Updatable(pr, Expected)
      PROVE  Updated(pr) \in PullRequests /\ pr.status = "open" /\ pr.head = seen
  <2>1. pr.head + 1 \in 0..MaxHead
    BY <1>2 DEF Updatable
  <2>2. [c \in Checks |-> "absent"] \in [Checks -> CheckStates]
    BY DEF CheckStates
  <2>3. "unknown" \in MergeableStates
    BY DEF MergeableStates
  <2> QED
    BY <1>2, <2>1, <2>2, <2>3 DEF Updatable, Updated, Pushed, Expected
<1> QED
  BY <1>1, <1>2

\* Call returns one of Run's results, or goes on.
Continues ==
  \/ pc' \in Calls \cup {"pause", "sleep"} /\ UNCHANGED result
  \/ /\ pc' = "done"
     /\ result' \in Results \ {"none"}
     /\ result' = "canceled" => ctxDone

\* Every step of Run but a merge or an update leaves the pull request alone.
LEMMA RunStep ==
  ASSUME RunnerTypeOK, Run
  PROVE  /\ Continues
         /\ result' = "nil" /\ result # "nil" =>
              pr'.status = "merged" \/ opts.DryRun
         /\ pc # "done"
         /\ UNCHANGED <<opts, late, ctxDone>>
         /\ \/ pr' = pr \/ MergeAccepted \/ MergeAnswerLost
            \/ UpdateAccepted \/ UpdateAnswerLost
         /\ seen' \in {seen, pr.head}
         /\ moved' \in BOOLEAN /\ dead' \in BOOLEAN
<1> USE DEF Go, Return, Poll, Fail, TryMerge, Continues, Calls, Results
<1>0. /\ pr \in PullRequests /\ result \in Results
      /\ moved \in BOOLEAN /\ dead \in BOOLEAN
  BY DEF RunnerTypeOK
<1>1. CASE Get
  BY <1>0, <1>1 DEF Get, Inspect
<1>2. CASE Gate
  BY <1>0, <1>2 DEF Gate
<1>3. CASE RequiredChecks
  BY <1>0, <1>3 DEF RequiredChecks
<1>4. CASE RequiredRuns
  BY <1>0, <1>4 DEF RequiredRuns
<1>5. CASE BlockedGate
  BY <1>0, <1>5 DEF BlockedGate
<1>6. CASE BlockedRuns
  BY <1>0, <1>6 DEF BlockedRuns, IsDead
<1>7. CASE BehindBy
  BY <1>0, <1>7 DEF BehindBy
<1>8. CASE MergeAccepted
  BY <1>0, <1>8, ServiceType DEF MergeAccepted
<1>9. CASE MergeAnswerLost
  BY <1>0, <1>9 DEF MergeAnswerLost
<1>10. CASE MergeRefused
  BY <1>0, <1>10 DEF MergeRefused
<1>11. CASE UpdateAccepted \/ UpdateAnswerLost
  BY <1>0, <1>11 DEF UpdateAccepted, UpdateAnswerLost
<1>12. CASE UpdateStale
  BY <1>0, <1>12 DEF UpdateStale
<1>13. CASE CallFails
  BY <1>0, <1>13 DEF CallFails
<1>14. CASE DryCall
  BY <1>0, <1>14 DEF DryCall, ForReal
<1>15. CASE Pause
  BY <1>0, <1>15 DEF Pause, ForReal
<1>16. CASE Sleep
  BY <1>0, <1>16 DEF Sleep
<1> QED
  BY <1>1, <1>2, <1>3, <1>4, <1>5, <1>6, <1>7, <1>8, <1>9, <1>10, <1>11,
     <1>12, <1>13, <1>14, <1>15, <1>16 DEF Run, Call

\* Init and steps other than Run's keep the types.
LEMMA TypeInit == RunnerInit => RunnerTypeOK /\ ResultInv
<1> SUFFICES ASSUME RunnerInit PROVE RunnerTypeOK /\ ResultInv
  OBVIOUS
<1>1. pr \in PullRequests /\ opts \in Settings /\ 0 \in 0..MaxHead
  BY PullRequestAssumption DEF RunnerInit
<1> QED
  BY <1>1 DEF RunnerInit, Start, RunnerTypeOK, ResultInv, Calls, Results

LEMMA TypeStep ==
  ASSUME RunnerTypeOK, ResultInv, [RunnerNext]_runnerVars
  PROVE  RunnerTypeOK' /\ ResultInv'
<1> USE DEF RunnerTypeOK, ResultInv
<1>1. CASE Run
  <2>1. pr' \in PullRequests /\ (pr.status = "merged" => pr'.status = "merged")
    <3>1. CASE pr' = pr
      BY <3>1
    <3>2. CASE MergeAccepted \/ MergeAnswerLost
      BY <3>2, ServiceType DEF MergeAccepted, MergeAnswerLost
    <3>3. CASE UpdateAccepted \/ UpdateAnswerLost
      BY <3>3, ServiceType DEF UpdateAccepted, UpdateAnswerLost
    <3> QED
      BY <1>1, <3>1, <3>2, <3>3, RunStep
  <2>2. pr.head \in 0..MaxHead
    BY DEF PullRequests
  <2>3. pc' \in Calls \cup {"pause", "sleep", "done"} /\ result' \in Results
        /\ (result' = "none" <=> pc' # "done") /\ (result' = "canceled" => ctxDone')
    BY <1>1, RunStep DEF Continues, Calls
  <2>4. /\ UNCHANGED <<opts, late, ctxDone>> /\ seen' \in 0..MaxHead
        /\ moved' \in BOOLEAN /\ dead' \in BOOLEAN
    BY <1>1, <2>2, RunStep
  <2>5. result' = "nil" => pr'.status = "merged" \/ opts'.DryRun
    BY <1>1, <2>1, <2>4, RunStep
  <2> QED
    BY <2>1, <2>3, <2>4, <2>5
<1>2. CASE Deadline
  BY <1>2 DEF Deadline
<1>3. CASE CancelContext
  BY <1>3 DEF CancelContext
<1>4. CASE Changes
  <2>1. pr' \in PullRequests /\ pr.status # "merged"
    BY <1>4, EnvironmentType DEF Changes
  <2> QED
    BY <1>4, <2>1 DEF Changes, IsDead
<1>5. CASE UNCHANGED runnerVars
  BY <1>5 DEF runnerVars, local
<1> QED
  BY <1>1, <1>2, <1>3, <1>4, <1>5 DEF RunnerNext

\* Every variable keeps its type; Run has a result exactly when it returned, and
\* canceled only for a cancelled context.
THEOREM RunnerTypeCorrect == RunnerSpec => []RunnerTypeOK
<1>1. RunnerInit => RunnerTypeOK /\ ResultInv
  BY TypeInit
<1>2. RunnerTypeOK /\ ResultInv /\ [RunnerNext]_runnerVars
      => (RunnerTypeOK /\ ResultInv)'
  BY TypeStep
<1> QED
  BY <1>1, <1>2, PTL DEF RunnerSpec

-----------------------------------------------------------------------------
(* What step knows *)

\* As long as the pull request does not change, what step read of it so far is
\* still true, whichever call it has come to: what led it there, gate by gate.
\* A reason that Run gave is kept true after it returned, too, until something
\* happens to the pull request.
Knows ==
  /\ pc \in Calls \ {"get"} =>
       pr.head = seen /\ pr.status = "open" /\ ~pr.draft
  /\ pc = "gate" => ChecksPass(pr)
  /\ pc \in {"required", "required runs"} => pr.mstate = "unstable"
  /\ pc = "merge" => Ready(pr)
  /\ pc \in {"blocked gate", "blocked runs", "behind by"} => pr.mstate = "blocked"
  /\ pc = "behind by" => Failed(pr.checks) /\ ~Pending(pr.checks)
  /\ result = "conflicts" => pr.mstate = "dirty"
  /\ result = "approvals" => UnderApproved(pr.review)
  /\ result = "blocked" => pr.mstate = "blocked"

CallInv == ~moved => Knows

\* Get starts from nothing; every later call leaves what step knows true, as long
\* as nobody changes the pull request.
LEMMA CallKnows ==
  ASSUME RunnerTypeOK, pc # "get" => Knows, Run, pr' = pr
  PROVE  Knows'
<1> USE DEF Go, Return, Poll, Fail, Calls
<1>0. pr \in PullRequests /\ UNCHANGED opts /\ pc # "done" /\ result = "none"
  BY RunStep DEF RunnerTypeOK
<1>1. /\ pr.checks \in [Checks -> CheckStates]
      /\ pr.review \in ReviewStatus
  BY <1>0, PullRequestAssumption DEF PullRequests
<1>2. /\ UnderApproved(pr.review)' = UnderApproved(pr.review)
      /\ ChecksPass(pr)' = ChecksPass(pr)
      /\ Ready(pr)' = Ready(pr)
      /\ Failed(pr.checks)' = Failed(pr.checks)
      /\ Pending(pr.checks)' = Pending(pr.checks)
  BY <1>0 DEF UnderApproved, ChecksPass, Ready, Failed, Pending
<1>3. Ready(pr) <=> pr.status = "open" /\ ~pr.draft /\ ChecksPass(pr) /\ ReviewPass(pr)
  BY DEF Ready, ChecksPass, ReviewPass
<1>4. opts.AllowUnresolved => ReviewPass(pr)
  BY DEF ReviewPass
<1>5. pc = "get" \/ RunsOf(seen) = {pr.checks} \/ pc \in {"pause", "sleep"}
  BY <1>0 DEF Knows, RunsOf, RunnerTypeOK
<1>6. CASE Get
  <2>1. seen' = pr.head /\ Inspect
    BY <1>6 DEF Get
  <2>2. /\ pr.mstate = "clean" => ChecksPass(pr)
        /\ pr.mstate = "unstable" /\ opts.AllowUnstable => ChecksPass(pr)
    BY DEF ChecksPass
  <2> QED
    BY <1>0, <1>2, <1>3, <1>4, <2>1, <2>2 DEF Knows, Inspect, TryMerge
<1>7. CASE Gate
  <2>1. ReviewGate(pr.review) = "approvals" => UnderApproved(pr.review)
    BY <1>1, GateVerdict
  <2>2. ReviewGate(pr.review) = "ok" => ReviewPass(pr)
    BY <1>1, GateVerdict DEF ReviewPass
  <2> QED
    BY <1>0, <1>2, <1>3, <1>7, <2>1, <2>2 DEF Knows, Gate
<1>8. CASE RequiredChecks
  <2>1. pr.mstate = "unstable" /\ Required = {} => ChecksPass(pr)
    BY DEF ChecksPass
  <2> QED
    BY <1>0, <1>2, <1>3, <1>4, <1>8, <2>1 DEF Knows, RequiredChecks, TryMerge
<1>9. CASE RequiredRuns
  <2>1. pr.mstate = "unstable" /\ "ok" \in RequiredVerdicts(pr.checks)
        => ChecksPass(pr)
    BY <1>1, RequiredVerdict DEF ChecksPass
  <2> QED
    BY <1>0, <1>2, <1>3, <1>4, <1>5, <1>9, <2>1 DEF Knows, RequiredRuns, TryMerge
<1>10. CASE BlockedGate
  <2>1. ReviewGate(pr.review) = "approvals" => UnderApproved(pr.review)
    BY <1>1, GateVerdict
  <2> QED
    BY <1>0, <1>2, <1>10, <2>1 DEF Knows, BlockedGate
<1>11. CASE BlockedRuns
  <2>1. BlockedVerdict(pr.checks) = "compare"
        => Failed(pr.checks) /\ ~Pending(pr.checks)
    BY DEF BlockedVerdict
  <2> QED
    BY <1>0, <1>2, <1>5, <1>11, <2>1 DEF Knows, BlockedRuns
<1>12. CASE BehindBy
  BY <1>0, <1>2, <1>12 DEF Knows, BehindBy
<1>13. CASE MergeAccepted \/ MergeAnswerLost
  BY <1>0, <1>13 DEF Knows, MergeAccepted, MergeAnswerLost
<1>14. CASE MergeRefused
  BY <1>0, <1>2, <1>14 DEF Knows, MergeRefused
<1>15. CASE UpdateAccepted \/ UpdateAnswerLost
  BY <1>0, <1>2, <1>15 DEF Knows, UpdateAccepted, UpdateAnswerLost
<1>16. CASE UpdateStale
  BY <1>0, <1>2, <1>16 DEF Knows, UpdateStale
<1>17. CASE CallFails
  BY <1>0, <1>2, <1>17 DEF Knows, CallFails
<1>18. CASE DryCall \/ Pause \/ Sleep
  BY <1>0, <1>2, <1>18 DEF Knows, DryCall, Pause, Sleep
<1> QED
  BY <1>6, <1>7, <1>8, <1>9, <1>10, <1>11, <1>12, <1>13, <1>14, <1>15, <1>16,
     <1>17, <1>18 DEF Run, Call

LEMMA CallStep ==
  ASSUME RunnerTypeOK, CallInv, [RunnerNext]_runnerVars
  PROVE  CallInv'
<1>1. CASE Run
  <2>1. SUFFICES ASSUME ~moved' PROVE Knows'
    BY DEF CallInv
  <2>2. pr' = pr
    BY <1>1, <2>1, RunStep
       DEF MergeAccepted, MergeAnswerLost, UpdateAccepted, UpdateAnswerLost
  <2>3. pc # "get" => ~moved
    BY <1>1, <2>1
       DEF Run, Call, Get, Gate, RequiredChecks, RequiredRuns, BlockedGate,
           BlockedRuns, BehindBy, MergeAccepted, MergeAnswerLost, MergeRefused,
           UpdateAccepted, UpdateAnswerLost, UpdateStale, CallFails, DryCall,
           Pause, Sleep
  <2> QED
    BY <1>1, <2>2, <2>3, CallKnows DEF CallInv
<1>2. CASE Changes
  BY <1>2 DEF Changes, CallInv
<1>3. CASE Deadline \/ CancelContext \/ UNCHANGED runnerVars
  BY <1>3 DEF Deadline, CancelContext, runnerVars, local, CallInv, Knows, Ready,
              UnderApproved, ChecksPass, Failed, Pending
<1> QED
  BY <1>1, <1>2, <1>3 DEF RunnerNext

-----------------------------------------------------------------------------
(* What the runner may rely on although the pull request changes *)

\* A head is never unpushed, and a branch gets its base back only with a new head.
\* So as long as the head that step looked at is the head, the branch that is to be
\* updated is behind; and if it is up to date when it is compared with its base,
\* it was so when the check runs were read.
BranchInv ==
  /\ pr.mstate = "behind" => pr.behind
  /\ pc = "update" /\ pr.head = seen => pr.behind
  /\ pc = "behind by" /\ pr.head = seen /\ ~pr.behind => dead

HeadInv == seen <= pr.head /\ BranchInv

LEMMA PullRequestHead ==
  ASSUME NEW p \in PullRequests
  PROVE  /\ p.head \in Nat
         /\ Pushed(p).head = p.head + 1 /\ Pushed(p).mstate = "unknown"
         /\ Updated(p).head = p.head + 1 /\ Updated(p).mstate = "unknown"
         /\ Merged(p).head = p.head /\ Merged(p).mstate = p.mstate
         /\ Merged(p).behind = p.behind
<1>1. p.head \in Nat
  BY PullRequestAssumption DEF PullRequests
<1> QED
  BY <1>1 DEF PullRequests, Pushed, Updated, Merged

LEMMA EnvironmentHead ==
  ASSUME pr \in PullRequests, Environment
  PROVE  /\ pr'.head \in Nat /\ pr'.head >= pr.head
         /\ pr'.head = pr.head /\ pr.behind => pr'.behind
         /\ (pr.mstate = "behind" => pr.behind) =>
              (pr'.mstate = "behind" => pr'.behind)
<1>0. pr.head \in Nat
  BY PullRequestHead
<1>1. CASE Push
  <2>1. pr'.head = pr.head + 1 /\ pr'.mstate = "unknown"
    BY <1>1, PullRequestHead DEF Push
  <2> QED
    BY <1>0, <2>1
<1>2. CASE CI \/ Review
  <2>1. pr'.head = pr.head /\ pr'.mstate = pr.mstate /\ pr'.behind = pr.behind
    BY <1>2 DEF CI, Review, PullRequests
  <2> QED
    BY <1>0, <2>1
<1>3. CASE BaseMoves
  <2>1. pr'.head = pr.head /\ pr'.behind = TRUE
    BY <1>3 DEF BaseMoves, PullRequests
  <2> QED
    BY <1>0, <2>1
<1>4. CASE Author
  <2>1. /\ pr'.head = pr.head /\ pr'.mstate \in {pr.mstate, "unknown"}
        /\ pr'.behind = pr.behind
    BY <1>4 DEF Author, PullRequests
  <2> QED
    BY <1>0, <2>1
<1>5. CASE Judge
  <2>1. /\ pr'.head = pr.head /\ pr'.behind = pr.behind
        /\ pr'.mstate = "behind" => pr.behind
    BY <1>5 DEF Judge, PullRequests
  <2> QED
    BY <1>0, <2>1
<1> QED
  BY <1>1, <1>2, <1>3, <1>4, <1>5 DEF Environment

LEMMA HeadStep ==
  ASSUME RunnerTypeOK, HeadInv, [RunnerNext]_runnerVars
  PROVE  HeadInv'
<1>0. pr \in PullRequests /\ pr.head \in Nat /\ seen \in Nat
  <2>1. pr \in PullRequests /\ seen \in 0..MaxHead /\ MaxHead \in Nat
    BY PullRequestAssumption DEF RunnerTypeOK
  <2>2. pr.head \in Nat
    BY <2>1, PullRequestHead
  <2> QED
    BY <2>1, <2>2
<1>1. BranchInv
  BY DEF HeadInv
<1>5. seen <= pr.head
  BY DEF HeadInv
<1>2. CASE Run
  <2>1. /\ pr'.head = pr.head /\ pr'.mstate = pr.mstate /\ pr'.behind = pr.behind
        \/ /\ pr'.head = pr.head + 1 /\ pr'.mstate = "unknown" /\ seen' = seen
           /\ pc' \notin {"update", "behind by"}
    BY <1>0, <1>2, RunStep, PullRequestHead
       DEF MergeAccepted, MergeAnswerLost, UpdateAccepted, UpdateAnswerLost,
           Poll, Fail, Go, Return
  <2>2. seen' <= pr'.head
    <3>1. \/ pr'.head = pr.head
          \/ pr'.head = pr.head + 1 /\ seen' = seen
      BY <2>1
    <3>2. seen' = seen \/ seen' = pr.head
      BY <1>2, RunStep
    <3> QED
      BY <1>0, <1>5, <3>1, <3>2
  <2>3. ASSUME pr'.mstate = "unknown", pc' \notin {"update", "behind by"}
        PROVE  BranchInv'
    BY <2>3 DEF BranchInv
  <2>4. ASSUME pr'.head = pr.head, pr'.mstate = pr.mstate, pr'.behind = pr.behind
        PROVE  BranchInv'
    <3> USE <1>1, <2>4 DEF Go, Return, Poll, Fail, TryMerge, BranchInv
    <3>1. CASE Get
      BY <3>1 DEF Get, Inspect
    <3>2. CASE Gate \/ RequiredChecks \/ RequiredRuns
      BY <3>2 DEF Gate, RequiredChecks, RequiredRuns
    <3>3. CASE BlockedGate
      BY <3>3 DEF BlockedGate
    <3>4. CASE BlockedRuns
      <4>1. ASSUME pc' = "behind by", pr.head = seen, ~pr.behind PROVE IsDead(pr)
        <5>1. RunsOf(seen) = {pr.checks}
          BY <4>1 DEF RunsOf
        <5>2. BlockedVerdict(pr.checks) = "compare"
          BY <3>4, <4>1, <5>1 DEF BlockedRuns
        <5> QED
          BY <4>1, <5>2 DEF BlockedVerdict, IsDead
      <4>2. UNCHANGED <<pr, seen>> /\ pc' # "update"
            /\ (dead' <=> pc' = "behind by" /\ IsDead(pr))
        BY <3>4 DEF BlockedRuns
      <4> QED
        BY <4>1, <4>2
    <3>5. CASE BehindBy
      BY <3>5 DEF BehindBy
    <3>6. CASE MergeAccepted \/ MergeAnswerLost \/ MergeRefused
      BY <3>6 DEF MergeAccepted, MergeAnswerLost, MergeRefused
    <3>7. CASE UpdateAccepted \/ UpdateAnswerLost \/ UpdateStale
      BY <3>7 DEF UpdateAccepted, UpdateAnswerLost, UpdateStale
    <3>8. CASE CallFails
      BY <3>8 DEF CallFails
    <3>9. CASE DryCall \/ Pause \/ Sleep
      BY <3>9 DEF DryCall, Pause, Sleep
    <3> QED
      BY <1>2, <3>1, <3>2, <3>3, <3>4, <3>5, <3>6, <3>7, <3>8, <3>9 DEF Run, Call
  <2> QED
    BY <2>1, <2>2, <2>3, <2>4 DEF HeadInv
<1>3. CASE Changes
  <2>1. Environment /\ UNCHANGED <<pc, seen>> /\ (dead => dead')
    BY <1>3 DEF Changes
  <2>2. /\ pr'.head \in Nat /\ pr'.head >= pr.head
        /\ pr'.head = pr.head /\ pr.behind => pr'.behind
        /\ pr'.mstate = "behind" => pr'.behind
    BY <1>0, <1>1, <2>1, EnvironmentHead DEF BranchInv
  <2>3. /\ pr'.head = seen => pr.head = seen
        /\ seen <= pr'.head
    <3>1. pr'.head \in Nat /\ pr'.head >= pr.head
      BY <2>2
    <3> QED
      BY <1>0, <1>5, <3>1
  <2>4. BranchInv'
    BY <1>1, <2>1, <2>2, <2>3 DEF BranchInv
  <2> QED
    BY <2>1, <2>3, <2>4 DEF HeadInv
<1>4. CASE Deadline \/ CancelContext \/ UNCHANGED runnerVars
  <2>1. UNCHANGED <<pr, pc, seen, dead>>
    BY <1>4 DEF Deadline, CancelContext, runnerVars, local
  <2> QED
    BY <1>1, <1>5, <2>1 DEF HeadInv, BranchInv
<1> QED
  BY <1>2, <1>3, <1>4 DEF RunnerNext

\* The invariant of the runner.
RunnerInv == RunnerTypeOK /\ ResultInv /\ CallInv /\ HeadInv

LEMMA RunnerInvInit == RunnerInit => RunnerInv
<1>1. RunnerInit => CallInv
  BY DEF RunnerInit, Start, CallInv, Knows, Calls
<1>2. RunnerInit => HeadInv
  BY DEF RunnerInit, Start, HeadInv, BranchInv, Fresh
<1> QED
  BY <1>1, <1>2, TypeInit DEF RunnerInv

LEMMA RunnerInvStep == RunnerInv /\ [RunnerNext]_runnerVars => RunnerInv'
BY TypeStep, CallStep, HeadStep DEF RunnerInv

LEMMA RunnerInvariant == RunnerSpec => []RunnerInv
BY RunnerInvInit, RunnerInvStep, PTL DEF RunnerSpec

-----------------------------------------------------------------------------
(* What the runner does *)

\* Unless the pull request changed during the step, what the bot merges is open,
\* no draft, green as far as its settings ask, and approved.
THEOREM MergedWasReady == RunnerSpec => MergesOnlyReady
<1>1. RunnerInv => [MergeAccepted /\ ~moved => Ready(pr)]_runnerVars
  BY DEF RunnerInv, CallInv, Knows, MergeAccepted
<1> QED
  BY <1>1, RunnerInvariant, PTL DEF MergesOnlyReady

\* What a verdict says of the pull request as step reads it: as Truth does, of a
\* step of Run.
LEMMA VerdictStep ==
  ASSUME RunnerTypeOK, HeadInv, Run
  PROVE  /\ result' = "approvals" => UnderApproved(pr.review)
         /\ result' = "checks" /\ pr.head = seen =>
              \/ dead
              \/ pc = "required runs" /\ \E c \in Required : pr.checks[c] = "failed"
         /\ result' = "blocked" /\ pr.head = seen =>
              ~Failed(pr.checks) /\ ~Pending(pr.checks)
<1> USE DEF Go, Return, Poll, Fail, Calls
<1>0. pr \in PullRequests /\ result = "none"
  BY RunStep DEF RunnerTypeOK
<1>1. /\ pr.checks \in [Checks -> CheckStates]
      /\ pr.review \in ReviewStatus
  BY <1>0, PullRequestAssumption DEF PullRequests
<1>2. pr.head = seen => RunsOf(seen) = {pr.checks}
  BY DEF RunsOf
<1>3. ReviewGate(pr.review) = "approvals" => UnderApproved(pr.review)
  BY <1>1, GateVerdict
<1>4. CASE Get
  BY <1>0, <1>4 DEF Get, Inspect, TryMerge
<1>5. CASE Gate
  BY <1>0, <1>3, <1>5 DEF Gate
<1>6. CASE RequiredChecks
  BY <1>0, <1>6 DEF RequiredChecks, TryMerge
<1>7. CASE RequiredRuns
  BY <1>0, <1>1, <1>2, <1>7, RequiredVerdict DEF RequiredRuns, TryMerge
<1>8. CASE BlockedGate
  BY <1>0, <1>3, <1>8 DEF BlockedGate
<1>9. CASE BlockedRuns
  BY <1>0, <1>2, <1>9 DEF BlockedRuns, BlockedVerdict
<1>10. CASE BehindBy
  BY <1>0, <1>10 DEF BehindBy, HeadInv, BranchInv
<1>11. CASE MergeAccepted \/ MergeAnswerLost \/ MergeRefused
  BY <1>0, <1>11 DEF MergeAccepted, MergeAnswerLost, MergeRefused
<1>12. CASE UpdateAccepted \/ UpdateAnswerLost \/ UpdateStale
  BY <1>0, <1>12 DEF UpdateAccepted, UpdateAnswerLost, UpdateStale
<1>13. CASE CallFails
  BY <1>0, <1>13 DEF CallFails
<1>14. CASE DryCall \/ Pause \/ Sleep
  BY <1>0, <1>14 DEF DryCall, Pause, Sleep
<1> QED
  BY <1>4, <1>5, <1>6, <1>7, <1>8, <1>9, <1>10, <1>11, <1>12, <1>13, <1>14
     DEF Run, Call

\* Whatever happens to the pull request during the step: as long as its head is the
\* one that step looked at, what a verdict rests on was true of it at one moment.
THEOREM VerdictsHold == RunnerSpec => VerdictsAreTrue
<1> DEFINE Truth ==
      pc # "done" =>
        /\ result' = "approvals" => UnderApproved(pr.review)
        /\ result' = "checks" /\ pr.head = seen =>
             \/ dead
             \/ pc = "required runs" /\ \E c \in Required : pr.checks[c] = "failed"
        /\ result' = "blocked" /\ pr.head = seen =>
             ~Failed(pr.checks) /\ ~Pending(pr.checks)
<1>1. ASSUME RunnerInv, [RunnerNext]_runnerVars PROVE [Truth]_runnerVars
  <2>1. SUFFICES ASSUME RunnerNext, pc # "done" PROVE Truth
    BY <1>1
  <2>2. CASE Run
    BY <1>1, <2>2, VerdictStep DEF RunnerInv
  <2>3. CASE Deadline \/ CancelContext \/ Changes
    BY <1>1, <2>1, <2>3
       DEF RunnerInv, RunnerTypeOK, Deadline, CancelContext, Changes
  <2> QED
    BY <2>1, <2>2, <2>3 DEF RunnerNext
<1> QED
  BY <1>1, RunnerInvariant, PTL DEF VerdictsAreTrue, RunnerSpec

\* No update-branch, answered or not, is spent on a branch that is up to date, even
\* if it was rebased and pushed since the bot looked.
THEOREM UpdatesWereNeeded == RunnerSpec => UpdatesAreNeeded
<1>1. RunnerInv => [UpdateAccepted \/ UpdateAnswerLost => pr.behind]_runnerVars
  BY DEF RunnerInv, HeadInv, BranchInv, UpdateAccepted, UpdateAnswerLost,
         Updatable, Expected
<1> QED
  BY <1>1, RunnerInvariant, PTL DEF UpdatesAreNeeded

\* However often calls are rate limited, only a dead end or the deadline declines
\* a pull request: if no call fails otherwise, Run ends with an error only for one
\* that is closed, a draft or refused by the merge endpoint, or when time is up.
THEOREM DeadEndsDecline ==
  ASSUME Errors \subseteq {"limited"}
  PROVE  RunnerSpec => OnlyDeadEndsDecline
<1> DEFINE DeadEnd ==
      result' = "error" /\ result = "none" =>
        \/ pr.status # "open" \/ pr.draft \/ pr.mstate = "draft"
        \/ pc = "pause" /\ late
<1>1. ASSUME RunnerTypeOK, RunnerNext PROVE DeadEnd
  <2> USE DEF Go, Return, Poll, TryMerge, Calls, RunnerTypeOK
  <2>1. CASE Get
    BY <2>1 DEF Get, Inspect
  <2>2. CASE Gate \/ RequiredChecks \/ RequiredRuns
    BY <2>2 DEF Gate, RequiredChecks, RequiredRuns
  <2>3. CASE BlockedGate \/ BlockedRuns \/ BehindBy
    BY <2>3 DEF BlockedGate, BlockedRuns, BehindBy
  <2>4. CASE MergeAccepted \/ MergeAnswerLost \/ MergeRefused
    BY <2>4 DEF MergeAccepted, MergeAnswerLost, MergeRefused, Accepts
  <2>5. CASE UpdateAccepted \/ UpdateAnswerLost \/ UpdateStale
    BY <2>5 DEF UpdateAccepted, UpdateAnswerLost, UpdateStale
  <2>6. CASE CallFails
    BY <2>6 DEF CallFails, IsRateLimited
  <2>7. CASE DryCall \/ Pause \/ Sleep
    BY <2>7 DEF DryCall, Pause, Sleep, Expired
  <2>8. CASE Deadline \/ CancelContext \/ Changes
    BY <2>8 DEF Deadline, CancelContext, Changes
  <2> QED
    BY <1>1, <2>1, <2>2, <2>3, <2>4, <2>5, <2>6, <2>7, <2>8 DEF RunnerNext, Run, Call
<1>2. RunnerTypeOK /\ [RunnerNext]_runnerVars => [DeadEnd]_runnerVars
  BY <1>1
<1> QED
  BY <1>2, RunnerTypeCorrect, PTL DEF OnlyDeadEndsDecline, RunnerSpec

\* No step of a dry run writes to the pull request, and none goes to sleep.
THEOREM DryRunsOnlyWatch == RunnerSpec => DryRunTouchesNothing
<1> DEFINE OnlyWatches == opts.DryRun /\ Run => UNCHANGED pr /\ pc' # "sleep"
<1>1. ASSUME RunnerTypeOK, opts.DryRun, Run PROVE UNCHANGED pr /\ pc' # "sleep"
  <2> USE DEF Go, Return, Poll, Fail, TryMerge, ForReal
  <2>1. UNCHANGED pr
    BY <1>1, RunStep
       DEF MergeAccepted, MergeAnswerLost, UpdateAccepted, UpdateAnswerLost
  <2>2. CASE Get
    BY <2>2 DEF Get, Inspect
  <2>3. CASE Gate \/ RequiredChecks \/ RequiredRuns
    BY <2>3 DEF Gate, RequiredChecks, RequiredRuns
  <2>4. CASE BlockedGate \/ BlockedRuns \/ BehindBy
    BY <2>4 DEF BlockedGate, BlockedRuns, BehindBy
  <2>5. CASE MergeAccepted \/ MergeAnswerLost \/ MergeRefused
    BY <1>1, <2>5 DEF MergeAccepted, MergeAnswerLost, MergeRefused
  <2>6. CASE UpdateAccepted \/ UpdateAnswerLost \/ UpdateStale
    BY <1>1, <2>6 DEF UpdateAccepted, UpdateAnswerLost, UpdateStale
  <2>7. CASE CallFails
    BY <2>7 DEF CallFails
  <2>8. CASE DryCall \/ Pause \/ Sleep
    BY <1>1, <2>8 DEF DryCall, Pause, Sleep
  <2> QED
    BY <1>1, <2>1, <2>2, <2>3, <2>4, <2>5, <2>6, <2>7, <2>8 DEF Run, Call
<1>2. RunnerTypeOK => [OnlyWatches]_runnerVars
  BY <1>1
<1> QED
  BY <1>2, RunnerTypeCorrect, PTL DEF DryRunTouchesNothing

-----------------------------------------------------------------------------
(* The item that the runner drives *)

\* Only a returned Run's result is routed, and the table can be read backwards.
LEMMA RouteBack ==
  ASSUME NEW r \in Results \ {"none"}
  PROVE  /\ Route(r) \in {"merged", "queued", "conflicts", "needs_approvals", "failed"}
         /\ Route(r) = "merged" => r = "nil"
         /\ Route(r) = "conflicts" => r = "conflicts"
         /\ Route(r) = "needs_approvals" => r = "approvals"
         /\ Route(r) = "failed" => r \notin {"conflicts", "approvals"}
BY DEF Route, Results

\* The runner's own invariant holds while the queue drives it: a claim starts a
\* new Run, which knows nothing yet.
SelfInv == RunnerInv /\ PhaseMatchesRunner

LEMMA SelfInvInit == SelfInit => SelfInv
BY RunnerInvInit
   DEF SelfInit, SelfInv, PhaseMatchesRunner, RunnerInit, Start

LEMMA SelfInvStep ==
  ASSUME SelfInv, [SelfNext]_selfVars
  PROVE  SelfInv'
<1> USE DEF SelfInv
<1>1. CASE Drives(Run)
  <2>1. Run /\ UNCHANGED <<phase, back>>
    BY <1>1 DEF Drives
  <2>2. RunnerInv'
    BY <2>1, RunnerInvStep DEF RunnerNext
  <2>3. phase = "active"
    BY <2>1, RunStep DEF RunnerInv, PhaseMatchesRunner
  <2>4. PhaseMatchesRunner'
    BY <2>1, <2>3 DEF PhaseMatchesRunner
  <2> QED
    BY <2>2, <2>4
<1>2. CASE Drives(Changes)
  <2>1. Changes /\ UNCHANGED <<phase, back>>
    BY <1>2 DEF Drives
  <2>2. RunnerInv'
    BY <2>1, RunnerInvStep DEF RunnerNext
  <2>3. pr.status # "merged" /\ UNCHANGED <<pc, result, opts>>
    BY <2>1 DEF Changes, Environment
  <2>4. PhaseMatchesRunner'
    BY <2>1, <2>3 DEF PhaseMatchesRunner, Route
  <2> QED
    BY <2>2, <2>4
<1>3. CASE phase = "active" /\ Drives(Deadline \/ CancelContext)
  <2>1. (Deadline \/ CancelContext) /\ UNCHANGED <<phase, back>>
    BY <1>3 DEF Drives
  <2>2. RunnerInv'
    BY <2>1, RunnerInvStep DEF RunnerNext
  <2>3. PhaseMatchesRunner'
    BY <1>3, <2>1 DEF PhaseMatchesRunner
  <2> QED
    BY <2>2, <2>3
<1>4. CASE Claimed
  <2>1. RunnerTypeOK' /\ ResultInv' /\ HeadInv'
    BY <1>4 DEF Claimed, RunnerInv, RunnerTypeOK, ResultInv, HeadInv,
                BranchInv, Calls, Results
  <2>2. CallInv'
    <3>1. pc' = "get" /\ result' = "none"
      BY <1>4 DEF Claimed
    <3> QED
      BY <3>1 DEF CallInv, Knows
  <2>3. PhaseMatchesRunner'
    BY <1>4 DEF Claimed, PhaseMatchesRunner
  <2> QED
    BY <2>1, <2>2, <2>3 DEF RunnerInv
<1>5. ASSUME UNCHANGED runnerVars PROVE RunnerInv'
  BY <1>5, RunnerInvStep
<1>6. CASE Process
  <2>1. UNCHANGED runnerVars /\ UNCHANGED <<pr, opts, pc, result, back>>
    BY <1>6 DEF Process, runnerVars, local
  <2>2. result \in Results \ {"none"} /\ (result = "nil" => pr.status = "merged" \/ opts.DryRun)
    BY <1>6 DEF Process, RunnerInv, RunnerTypeOK, ResultInv
  <2>3. phase' = Route(result) /\ pc = "done" /\ Route(result)' = Route(result)
    BY <1>6, <2>1 DEF Process, Route
  <2>4. PhaseMatchesRunner'
    BY <2>1, <2>2, <2>3, RouteBack DEF PhaseMatchesRunner
  <2> QED
    BY <1>5, <2>1, <2>4
<1>7. CASE LookupReady \/ RequeueParked \/ Retry \/ UNCHANGED selfVars
  <2>1. UNCHANGED runnerVars /\ UNCHANGED <<pr, opts, pc, result>>
    BY <1>7 DEF LookupReady, RequeueParked, Retry, selfVars, runnerVars, local
  <2>2. Route(result)' = Route(result)
    BY <2>1 DEF Route
  <2>3. PhaseMatchesRunner'
    BY <1>7, <2>1, <2>2
       DEF LookupReady, RequeueParked, StillParked, Retry, selfVars, PhaseMatchesRunner
  <2> QED
    BY <1>5, <2>1, <2>3
<1> QED
  BY <1>1, <1>2, <1>3, <1>4, <1>6, <1>7 DEF SelfNext

LEMMA SelfInvariant == SelfSpec => []SelfInv
BY SelfInvInit, SelfInvStep, PTL DEF SelfSpec

-----------------------------------------------------------------------------
\* No late requeue takes an item away from its worker, an item that is parked or
\* finished shows what Run returned, and a merged one is merged.
THEOREM PhasesMatchTheRunner == SelfSpec => []PhaseMatchesRunner
BY SelfInvariant, PTL DEF SelfInv

\* An item that was parked for conflicts, for approvals or by branch protection,
\* and to whose pull request nothing happened since, is not requeued: the gates
\* that park it and the tests that bring it back agree, for every setting.
THEOREM ParkedStaysParked == SelfSpec => ParkedNotChurned
<1>1. ASSUME SelfInv, LookupReady, ~moved
      PROVE  result \notin {"conflicts", "approvals", "blocked"}
  <2>1. phase \in {"needs_approvals", "conflicts", "failed"} /\ Route(result) = phase
    BY <1>1 DEF LookupReady, SelfInv, PhaseMatchesRunner
  <2>2. result \in Results \ {"none"}
    BY <1>1, <2>1 DEF SelfInv, PhaseMatchesRunner, RunnerInv, RunnerTypeOK
  <2>3. /\ result = "conflicts" => pr.mstate = "dirty"
        /\ result = "approvals" => UnderApproved(pr.review)
        /\ result = "blocked" => pr.mstate = "blocked"
    BY <1>1 DEF SelfInv, RunnerInv, CallInv, Knows
  <2>4. pr.review.approvals \in Nat /\ opts.MinApprovals \in Nat
    BY <1>1, PullRequestAssumption, RunnerAssumption
       DEF SelfInv, RunnerInv, RunnerTypeOK, PullRequests, ReviewStatus
  <2>5. CASE phase = "needs_approvals"
    BY <1>1, <2>1, <2>2, <2>3, <2>4, <2>5, RouteBack
       DEF LookupReady, ApprovalsMet, UnderApproved
  <2>6. CASE phase = "conflicts"
    BY <1>1, <2>1, <2>2, <2>3, <2>6, RouteBack DEF LookupReady, ConflictResolved
  <2>7. CASE phase = "failed"
    BY <1>1, <2>1, <2>2, <2>3, <2>7, RouteBack DEF LookupReady, ChecksRecovered
  <2> QED
    BY <2>1, <2>5, <2>6, <2>7
<1>2. SelfInv => [LookupReady /\ ~moved =>
                    result \notin {"conflicts", "approvals", "blocked"}]_selfVars
  BY <1>1
<1> QED
  BY <1>2, SelfInvariant, PTL DEF ParkedNotChurned
=============================================================================
