# Verification of mergebot

TLA+ specifications of mergebot, the daemon that keeps an ordered queue of
pull requests of one GitHub repository and brings each of them to *merged*:
either by itself, polling GitHub and calling the merge endpoint (self-merge
mode, `merge.Runner`), or by handing it to a team's comment-driven merge queue
(merge-queue mode, `merge.DelegateRunner`).

Contents: [the system](#the-system), [the modules](#the-modules),
[the runs](#the-runs), [bounds](#bounds), [fairness](#fairness),
[proofs](#proofs), [disagreements](#where-code-and-documentation-disagree),
[not modelled](#what-is-not-modelled), [plan](#plan).

To check: `tlc -config QueueSerial.cfg MCQueueManager` (the module of every
configuration is in the table of runs), and `tlapm QueueManagerProofs.tla` (and so
for each module that ends in `Proofs`).

## The system

| component | state it keeps | operations | correct when |
|---|---|---|---|
| **Queue manager** `internal/queue/manager.go` | `items`, a slice of `*Item` (number, phase) in order of first `Add`; `cancels`, number → cancel function; channel `wake` (capacity 1); channel `slots` (capacity = concurrency); the state file | HTTP handlers `Add`, `Remove`, `Requeue`, `Clear`, `List`; dispatcher `Run`/`claim`; workers `process`; `recheckLoop`; `Load`/`save` | a PR is listed once; a live worker can be reached by `Remove`; nothing is stranded as active; no wake-up is lost; a stop by the user sticks; a crash loses nothing |
| **Runner** `internal/merge/runner.go` | none between polls but its settings and the deadline; within a step the head it read | `Run`, `step`, the gates, `merge`, `update` | merges only what is ready; declines only for a true reason; updates only a branch that is behind; a dry run writes nothing; ends |
| **Delegate runner** `internal/merge/delegate.go` | `asked`, `watchFrom` | `Run`, `latestSignal` | no run ends because of a reply from before it; merges and later rejections are noticed |
| **Status prober** `internal/merge/status.go` | none | ask `/status`, wait for the answer | a length it reports was true after the question; an answer that is there is found |
| **GitHub client** `internal/ghclient/client.go` | none | REST and GraphQL calls; merges check runs with legacy statuses | one verdict per check name |
| **Rate-limit transport** `internal/ghclient/ratelimit.go` | none | retries a rate-limited request after the wait GitHub asks for | waits are bounded, a temporary limit is ridden out, nothing runs twice, a done context ends it |
| **Review dashboard** `internal/review/dashboard.go` | entries, loaded, `poke` channel (capacity 1), semaphore of a refresh | refresh loop, concurrent lookups, `TriggerRefresh`, `List` | a refresh asked for during a refresh happens; the list is whole and ordered; failed is said for one commit, and only with a failed check and none pending; the loop ends |
| **Queue statistics** `internal/queuestats/collector.go` | capped history and its file | `Record`, `Load`, `History` | what was shown is in the file |
| **HTTP API** `internal/server/server.go` | none | routes requests to the queue, dashboard, prober; records what a probe found | |
| **Web page** `internal/server/index.html` | none the daemon depends on | polls the API | |
| **Daemon** `main.go` | root context | `runServe`: `Load`, then `go Run`, then serve; a signal cancels the context | |

**Interactions.** Handlers, the dispatcher, the workers and the recheck loop
share `items` and `cancels` under one mutex, and nothing else: the wake token is
sent, GitHub is asked and slots are released *after* the mutex is released. A
worker runs a runner under a context whose cancel function lies in `cancels`;
what the runner returns (nil, `context.Canceled`, `ErrConflicts`, ...) decides
the item's next phase, unless the user stopped the item meanwhile. The recheck
loop takes a snapshot of parked items under the mutex, asks GitHub about each
without it, and requeues those that are still in the phase of the snapshot.
Everything survives in one JSON file that each change rewrites; `Load` turns
active items back into queued ones.

**What is hard.** Between two actions of one goroutine any other may run: an item
can be removed, added again and claimed again while its first worker is still in
a GitHub call; a wake-up can fall between "nothing queued" and "wait"; the
pull request changes between the calls of one step; a call can take effect and
lose its answer; the process can end anywhere; the external bot answers comments
late, never, or in answer to somebody else; a list is put together by goroutines
that end in any order; a limit comes back while the last one is waited out.
`PROJECT.json` lists these hazards with their lines and the properties that cover
them.

## The modules

| module | models | composes |
|---|---|---|
| `QueueManager` | the whole of `manager.go` and the part of `main.go` that starts and ends it; what a drive does is the error it returns | |
| `QueueProperties` | its properties | `QueueManager`, `DurableQueue` |
| `QueueManagerProofs` | theorems about it | `QueueProperties`, `SelectionProofs` |
| `QueueRefinementProofs` | that it implements `DurableQueue`, and that users' decisions last | `QueueManagerProofs` |
| `DurableQueue` | the abstract queue: one list, changed in atomic steps | |
| `Selection`, `SelectionProofs` | the loops that drop elements of a slice; lemmas about them | |
| `MCQueueManager` | values for TLC | `QueueProperties` |
| `PullRequest` | *external*: a pull request on GitHub, who changes it, what the merge and update-branch endpoints do | |
| `Runner` | `runner.go`, one action per GitHub call | `PullRequest` |
| `RunnerProperties`, `MCRunner` | its properties, values for TLC | `Runner` |
| `SelfMerge`, `MCSelfMerge` | one pull request's life in self-merge mode: `Runner`, `process`'s routing and the recheck tests of `manager.go` | `RunnerProperties` |
| `SelfMergeProofs` | theorems about both | `SelfMerge` |
| `TeamQueue` | *external*: the bot of the team queue, as far as `delegate.go` describes its protocol | |
| `DelegateRunner` | `delegate.go` | `TeamQueue` |
| `DelegatedItem` | one pull request's life in merge-queue mode, with removal, retry, the dequeue goroutine and restarts; its properties | `DelegateRunner` |
| `DelegatedItemProofs` | theorems about it | `DelegatedItem` |
| `CheckRuns` | the fold of check runs and legacy statuses in `client.go`, and how it is judged | |
| `Dashboard`, `MCDashboard` | `dashboard.go` and the two handlers that use it; its properties; values for TLC | `CheckRuns`, `Selection` |
| `DashboardProofs` | theorems about it | `Dashboard`, `SelectionProofs` |
| `RateLimit` | `ratelimit.go` and the clients' timeouts in `client.go`; its properties | |
| `RateLimitProofs` | theorems about it | `RateLimit` |
| `QueueStats` | `collector.go` | |
| `StatusProbe` | `status.go` and its handler; the properties of both | `QueueStats`, `Selection` |
| `StatusProbeProofs` | theorems about it | `StatusProbe`, `SelectionProofs` |

### QueueManager

One critical section under `m.mu` is one action, its `save` included; what runs
outside the lock is an action of its own.

* **Aliasing.** `m.items` holds pointers, and a worker keeps the pointer it was
  given while `Clear` may drop it from the list and `Add` create a new item for
  the same number. So `items` is a sequence of addresses and `heap` maps an
  address to its item; `Collect` frees what nothing points to.
* **Workers.** `state[w]` is `driving` from `claim` until `process` has taken the
  result, and `exiting` until the deferred `<-slots`. `cancelled[w]` is the
  worker's own context. `Process(w, err)` takes any outcome; `canceled` only
  under a context that is done.
* **Dispatcher.** `disp` is the place in `Run`'s loop: `acquire` (first select),
  `claim`, `release` (the slot goes back), `waiting` (second select), `draining`
  (`wg.Wait`), `returned`.
* **Handlers.** `client[c]` is `notify` between releasing the mutex and sending
  the wake token, so two handlers, or a handler and the dispatcher, interleave
  there.
* **Recheck loop.** `rpc` and `todo`: snapshot, lookup (which may say anything),
  requeue under the lock, notify, next entry.
* **Disk.** `Save` replaces the file, or, with `DiskFaults`, leaves the old one:
  the temporary file is renamed only when complete. `Restart` may happen
  between any two actions.
* **Refinement.** `Queue` in `QueueProperties` is `DurableQueue` with the list by
  value for `list`: no heap, channels, goroutines, snapshots or file. `Process`
  maps to `End` or, if the item was stopped or cleared, to nothing; `Claim` to
  `Begin`; `ReAdd` and `Requeue` to `Submit`; `RequeueParked` to `Return`. `End` says
  in which phases a drive that ends may find its item (`Leaving`): with one worker in
  the queue; with several in any but stopped, because a drive whose item was
  removed and added again may end after its successor.
* **Abstracted.** Titles, messages, timestamps, the JSON text; `List` only reads.

### Runner and SelfMerge

`pc` is the call to GitHub that `Run` is in. An action reads the answer and
decides from it in one step, because nothing of the answer is kept but the head
(`seen`). Before every call `Changes` lets the environment push, run CI, review,
draft, close, merge by hand, or move the base, and `Judge` sets
`mergeable_state` within what it is tied to (clean: no check red or running;
behind: the base moved). `moved` is a history variable: has the pull request
changed since `step` fetched it? Properties that a concurrent change could
falsify for any client of GitHub's API are stated for steps during which nothing
moved: `MergesOnlyReady` and what the recheck compares with. `VerdictsAreTrue` is
not one of them. It allows for every change but that of the head, and for the
verdict that rests on two calls, check runs and comparison, the history variable
`dead` says whether both were true at one moment in between. The author may push
with or without a rebase, and the merge and update-branch calls may take effect and
lose their answer. `opts` are the Runner's settings, chosen at the start. That a
dry run writes nothing is said of the Runner's own actions: the pull request may
still be merged by hand.

`SelfMerge` adds the phase, the routing table of `process` for Runner's own
results, the three tests of `recheckParked` (`ApprovalsMet`, `ChecksRecovered`,
`ConflictResolved`) and the guard of `requeueParked`.

### TeamQueue, DelegateRunner and DelegatedItem

Comments are reduced to what `latestSignal` parses them to. Posting `/queue` takes
two actions: the comment exists (`PostQueue`) before the call returns
(`PostReturns`), and `watchFrom` is set by the second. `second` is GitHub's clock:
every reply is stamped with it (`CreatedAt`), and any number of replies may carry
the same. `LatestSignal` drops what is not *after* `since`, and of replies of one
second keeps the last only if the loop does (`Newest`: a later one replaces the kept
one if its second is later). `watchFrom` is the local clock, which is ahead of GitHub's by any
of `Skews`. `told` is a history variable: has the bot said, since the run began,
that the pull request is out? The team queue is
as `delegate.go` expects it: it reads commands in order, accepts green pull
requests, starts batches that fail or merge, and after `MaxReplies` replies is
silent. `AsksStatus` is a user's `/status` from the page: its answer is a signal
to `Run`, too.

### CheckRuns and Dashboard

`AddRuns` and `AddStatuses` are the two folds that `Client.CheckRuns` builds its map
by name with; `AnyPending` and `AnyFailed` are all that the triage asks of it.

`loop` is the place in `RefreshLoop` and `Refresh`. Each pull request has its
goroutine: `fetch[n]` is the call it is in, `got[n]` what it has learned so far,
`built[n]` the entry it leaves behind. `sem` counts the tokens in the semaphore;
`StartFetch` is the select's send, `Abort` its `ctx.Done` case. `Publish` is
`wg.Wait` and the critical section after it. `page` is one `GET /api/ready`,
which reads `Loaded()` and `List()` under two locks. Between any two calls the pull
requests change; `moved` is the history variable that says which did since their
state was read. The comparison, the runs and the statuses are asked for by the
commit that `PullState` returned (`got[n].head`), whatever has been pushed since:
`Captured` is what GitHub may say of that commit. `stale` is one, too: a refresh was asked for and none has begun.

`TriageIsTrue` has two parts. `OneCommit` holds whatever is pushed: *failed* is said of
one commit, which was blocked, up to date and has a failed check. `LaneIsTrue` holds if
nothing about the pull request changed. Both are stated against `Failing`, which says by
what GitHub lists, and not by the fold, that a check has failed and none is waited
for: the last run of a name to complete, in the order they are listed, or the first
status of a name without a run. That is less than the comments promise: the
check may be running again or not be required (see
[below](#where-code-and-documentation-disagree)). Hints, titles and the number of
missing approvals are left out.

### RateLimit

One request in `RoundTrip`: `send` (in the base transport), `wait` (in `waitFor`),
`done`. Time is in ticks. `window` is what is left of GitHub's limit; a limited
answer asks for that much (`Retry-After`) or, for the reset epoch, for less if the
local clock is ahead. `exchange` is what is left of the GraphQL client's `Timeout`;
the REST client has none (`bounded`). `executed`, `waited`, `imposed` and `long`
are history variables. An answer can be lost after GitHub executed the request.

### QueueStats and StatusProbe

`Record` is two actions, the sample and its save, between which the mutex is
held and the process may end. `Probe` is one action per call: the comment exists
(`Post`) before the call returns (`PostReturns`). Ages count ticks of a second, the
resolution of `CreatedAt`; `After` is the strict comparison of whole seconds.
Several users probe one pull request, and the bot's answers do not say whose they
are. A client may hang up in any pause of its probe (`Interrupted`), which ends the
context as its timeout does. `during[p]` is a history variable, the lengths that were true since `p` asked.

## The runs

| run | module, configuration | checks | distinct states |
|---|---|---|---|
| `queue_serial` | `MCQueueManager`, `QueueSerial` | `TypeOK`, `NoLostWakeup`, `CrashLosesNothing`, `StoppedIsSticky`, `ImplementsQueue` | 0.8 M |
| `queue_parallel` | `MCQueueManager`, `QueueParallel` | `LiveWorkerStoppable`, `NoStaleCancel`, `OneLiveWorkerPerPR` | 0.7 M |
| `queue_disk_faults` | `MCQueueManager`, `QueueDiskFaults` | `NumbersUnique`, `ActiveIsDriven`, `FailedNeedsRetry` | 1.1 M |
| `queue_live` | `MCQueueManager`, `QueueLive` | `QueueDrains`, `RunReturns` | 0.2 M |
| `runner_verdicts` | `MCRunner`, `RunnerVerdicts` | `MergesOnlyReady`, `VerdictsAreTrue`, `UpdatesAreNeeded`, `DryRunTouchesNothing` | 4.5 M |
| `runner_live` | `MCRunner`, `RunnerLive` | `OnlyDeadEndsDecline`, `RunReturns` | 0.1 M |
| `self_merge` | `MCSelfMerge`, `SelfMerge` | `PhaseMatchesRunner`, `ParkedNotChurned`, `ReadyIsMerged` | 0.3 M |
| `delegated` | `DelegatedItem`, `Delegated` | `NoStaleVerdict`, `OutIsNoticed`, `MergeIsNoticed` | 0.8 M |
| `dashboard` | `MCDashboard`, `Dashboard` | `DashTypeOK`, `LoadedMeansList`, `TriageIsTrue`, `ListIsWhole`, `PokeIsServed`, `LoopReturns` | 0.3 M |
| `rate_limit` | `RateLimit`, `RateLimit` | `RateTypeOK`, `LimitedDidNothing`, `LimitIsRidden`, `BodyIsResent`, `ContextEnds` | 52 k |
| `probes` | `StatusProbe`, `StatusProbe` | `ProbeTypeOK`, `ShownIsSaved`, `ProbeIsFresh`, `AnswerIsFound` | 2.4 M |
| `queue_two_workers` | `MCQueueManager`, `QueueTwoWorkers` | violates `OneWorkerPerPR` | |

What the passing ones show:

* **queue_serial.** The default daemon: one worker. However users, the recheck
  loop and results interleave, `Run` never waits while something is queued and
  nobody is about to wake it. A crash at any moment brings the queue back with
  every item in its place and in-flight ones re-queued. A stopped item is
  brought back by nobody but the user: not by its worker's late result, not by a
  recheck whose snapshot is older than the stop. Every step is a step of
  `DurableQueue` or leaves its list alone: nobody is overtaken by a retry, a clear
  or a restart, only the first queued item is started, and nothing leaves active
  but by a stop, the end of a drive or a restart.
* **queue_parallel.** Two workers, where a pull request that is removed and added
  again can be driven by two goroutines at a time. Even then only one of them is
  live, and it is the one that `cancels` leads to.
* **queue_disk_faults.** In merge-queue mode, with two workers and rechecks,
  writes that fail and a process that dies anywhere: no reload lists a pull request
  twice, and none strands anything as active. Nothing but a user's
  retry hands a failed pull request over again; the one exception is a restart
  from a file that lags behind because a write failed.
* **queue_live.** With one worker, once users, rechecks, signals and crashes leave
  the daemon alone, everything queued is driven to an end. `Run` returns after a
  shutdown from either of its selects.
* **runner_verdicts.** No path through `step` skips a gate, with several kinds of
  answers failing at every call. A reason for giving up was true even if the pull
  request changed between the calls: a branch that fell behind, or a check that was
  started again, between the check runs and the comparison does not put together
  two answers that were never true at once. Update-branch restarts CI only of a branch that is behind,
  although the author may have rebased and pushed between the lookup and the update.
  With every gate switched off, a dry run still writes nothing.
* **runner_live.** Rate limits only ever lead to another poll, and polling always
  ends: at the deadline if nothing else ends it.
* **self_merge.** The gate that parks a pull request and the test that brings it
  back, which are written in two files, agree for conflicts, approvals and branch
  protection; and a pull request that stays ready is merged without a user's
  help, whatever it was parked for before.
* **dashboard.** A lane that the page shows is true of the pull request, unless it
  changed while it was looked up: above all, *failed* is said only of an approved
  pull request with a failed check and none to wait for, whatever mixture of runs and
  legacy statuses GitHub lists. Even if the author pushes in the middle, *failed* is
  said of one commit and not of a mixture of two. A list is published whole and in order, although goroutines end in
  any order and some fail. A refresh that a user asks for while one runs is not
  lost, and the page is never told "no open PRs" before the first list. The loop
  ends after a shutdown wherever it is.
* **rate_limit.** The waits of a request are bounded, each and in sum. A lost answer
  is not sent again, a limited request did nothing, and a request that is sent
  again has its body again. With clocks that agree, no limit is reported that could
  have been waited out. A cancelled request ends in the middle of a wait or of a
  silent call, and so does one of the GraphQL client.
* **probes.** A recorded length was true at some moment since its user asked: it
  is not the answer to an earlier question, whoever else is asking. A probe never
  gives up with an answer in front of it. What the history has shown is on disk,
  unless the last write failed.
* **delegated.** A retry or a restarted run is never declined for what the bot said
  before that run began, although the run looks back through old comments to find
  out whether it is still queued. (The bot may say it late, in answer to a comment
  of an earlier run: then it does end the run.) In a mode without a deadline, a merge
  ends the run, and so does a reply that the pull request is out of the queue if its
  second is later than that of every other reply and than the one from which the run
  watches, whatever a user's `/status` adds to the conversation. A reply of
  the same second may be overlooked for ever.

Each property of a passing run has a mutant in `PROJECT.json`: a changed
definition (a dropped guard, a leaked slot, a stale file, a swapped order) under
which TLC finds it violated.

## Bounds

* **Two pull requests** in the list are enough for order (`ImplementsQueue`), for
  one cancelling another's worker and for claiming past a parked item. With one
  pull request and two workers (`queue_disk_faults`) every second drive is a
  second drive of the same pull request, the hazardous case.
* **`Ptr`** has one address for every listed item and every worker, so `AddNew`
  never lacks one. Runs without `Clear` (`ClearSets = {}`) drop no item and need
  one per pull request.
* **`Worker`** has as many identities as slots. A goroutine that is `exiting`
  still holds its slot, so `Claim` always finds an idle identity.
* **One handler** is between unlock and notify at a time; a second one would only
  send a token that the channel drops.
* **`ClearSets`**: the page's clear button, and requests that name parked, queued
  and active phases.
* **`Checks`**: one required and one that is not; liveness runs, the required one.
  **`Reviews`**: one state for each verdict of the gate and each order of its
  tests. **`MaxHead`** = 2 lets a push, a rebase or an update fall before and after
  the lookup; 0 in `self_merge`, where heads are `runner_verdicts`' business.
* **`Settings`**: defaults with one approval for two; every gate off; the same as
  a dry run.
* **`MaxReplies`** = 3: one reply to an earlier attempt, one to this one, and one
  that contradicts it. **`MaxCommands`** = 1: a second comment waits until the bot
  has read the first. **`MaxSecond`** = 2: a reply before the second from which a run
  watches, in it, and after it; `Tick` lets the next one begin once this one is used.
  **`Skews`** = {0}: the clocks agree. `VerdictsAreFresh` covers every clock that is not
  behind. With one that is a second behind TLC finds `NoStaleVerdict` violated; with
  one that is ahead more replies are overlooked, which `OutIsNoticed` leaves out.
* **`AsksStatus`** only while the bot has room for the answer and one more reply, and
  no command waits.
* **Dashboard**: three pull requests and two places in the semaphore (`Width`; eight
  in the code), so that the third waits for a place. One of them is of every kind
  that the triage tells apart, on two heads, and may fail in every call (`Unsteady`);
  the other two conflict. `ReadyForReview` reads only what begins before the first list: later,
  both reads are true. The pages of one listing are read together.
* **RateLimit**: `MaxWait` 2 and limits of 1 to 3 ticks, so that some are too long;
  `Retries` 3, as in the code; clocks that agree or are one tick apart; `Grace`, the
  minute in the client's timeout, 1.
* **StatusProbe**: two users and two lengths; `WaitFor` 1 and `CtxTimeout` 3 keep the
  order of the 20 and 30 seconds of the code; the poll interval is any; `MaxHistory`
  1 makes the second sample the one that is cut. Two commands may wait for the bot,
  two answers are young enough to be asked for.

Deadlock is checked where the daemon always has a next step: the queue, the
dashboard and the probes. The Runner, SelfMerge, Delegated and RateLimit
configurations switch it off: the life of one pull request, or of one request,
really ends.

Symmetry (pull requests, workers, handlers) is used in the safety runs of the
queue only. Addresses are not in it, because `AddNew` and `Restart` `CHOOSE` one.

## Fairness

* **Queue** (`FairSpec`): weak fairness of the dispatcher, of each worker, of a
  handler's notify and of the recheck loop's requeue and notify: goroutines that
  are not blocked run. Strong fairness of `Drain`: a Go `select` picks at random
  among ready cases, so a cancelled context is not passed over for ever. Workers
  may be assumed to end because runners do (`runner_live`; a delegated one only
  if the bot or a person ends it, so `queue_live` speaks of self-merge mode).
  Nothing is assumed of users, tickers, signals and crashes.
* **Runner** (`RunnerFairSpec`): weak fairness of its steps and of the deadline,
  which together say that every call ends, well or badly.
* **SelfMerge** (`SelfFairSpec`): besides, strong fairness of each good answer on
  the way to the merge and of the lookup that finds the pull request ready: calls
  fail, but not always. Without it `ReadyIsMerged` would ask the bot to
  merge through a GitHub that never answers.
* **Delegated** (`ItemFairSpec`): weak fairness of the worker, its claim included, of
  the dequeue goroutine and of the bot reading its comments; strong fairness of a good
  answer to `GetPullRequest`, of seeing a final reply, and of the `ctx.Done` case
  of the sleep. Batches, people, the clock and restarts are under no obligation.
* **Dashboard** (`DashFairSpec`): weak fairness of the loop and of each goroutine, so
  every call ends, well or badly; strong fairness of the `ctx.Done` case of the
  loop's select, as for `Drain`. Nothing is assumed of the ticker: a refresh that is
  asked for does not wait for it.
* **RateLimit** (`RateFairSpec`): timers run down, a wait that is over goes on, a done
  context ends what waits for it. GitHub need not answer.
* **StatusProbe**: safety only. That every probe ends is left out: with the clocks, the
  graph is too large for TLC's liveness check within minutes.

## Proofs

The theorems hold for **every** value of the constants that the assumption of their
module admits: every set of pull requests, workers, handlers and checks, every
concurrency, history length, timeout and width of a semaphore, both modes. They
speak of the specifications without fairness. The modules that model
what is outside of the program (`PullRequest`, `TeamQueue`, the bot in `StatusProbe`)
are part of what is assumed.

| theorem | module | states |
|---|---|---|
| `TypeCorrect` | `QueueManagerProofs` | `TypeOK`, the slots channel within its capacity included |
| `ListHasNoDuplicates` | | `NumbersUnique` |
| `LiveWorkersAreStoppable` | | `LiveWorkerStoppable` |
| `CancelsAreExact` | | `NoStaleCancel` |
| `AtMostOneLiveWorker` | | `OneLiveWorkerPerPR` |
| `NothingStranded` | | `ActiveIsDriven` |
| `BoundedConcurrency` | | `ConcurrencyLimit` |
| `CrashSafe` | | `CrashLosesNothing`, assuming `~DiskFaults` |
| `SerialNeverSleepsOnWork` | | `NoLostWakeup`, assuming `Concurrency = 1` |
| `ManagerImplementsQueue` | `QueueRefinementProofs` | `ImplementsQueue`, the refinement of `DurableQueue`, assuming `~DiskFaults` |
| `StoppedStaysStopped` | | `StoppedIsSticky`, assuming `~DiskFaults` |
| `FailedWaitsForRetry` | | `FailedNeedsRetry` |
| `RunnerTypeCorrect` | `SelfMergeProofs` | `RunnerTypeOK` |
| `MergedWasReady` | | `MergesOnlyReady` |
| `VerdictsHold` | | `VerdictsAreTrue` |
| `UpdatesWereNeeded` | | `UpdatesAreNeeded` |
| `DeadEndsDecline` | | `OnlyDeadEndsDecline`, assuming `Errors \subseteq {"limited"}` |
| `DryRunsOnlyWatch` | | `DryRunTouchesNothing` |
| `PhasesMatchTheRunner` | | `PhaseMatchesRunner` |
| `ParkedStaysParked` | | `ParkedNotChurned` |
| `ItemTypeCorrect` | `DelegatedItemProofs` | `ItemTypeOK` |
| `VerdictsAreFresh` | | `NoStaleVerdict`, assuming `Skews \subseteq Nat` |
| `DashTypeCorrect` | `DashboardProofs` | `DashTypeOK`, the semaphore included: its tokens are the lookups that run |
| `LoadedIsLoaded` | | `LoadedMeansList` |
| `ListPublishedWhole` | | `ListIsWhole` |
| `LanesAreTrue` | | `TriageIsTrue` |
| `WaitsAreBounded` | `RateLimitProofs` | `RateTypeOK`, with it the bounds on one wait and on all of them |
| `NothingTwice` | | `LimitedDidNothing` |
| `TemporaryLimitsRidden` | | `LimitIsRidden` |
| `BodyIsWhole` | | `BodyIsResent` |
| `ProbeTypeCorrect` | `StatusProbeProofs` | `ProbeTypeOK` |
| `ShownSurvives` | | `ShownIsSaved` |
| `RecordedIsFresh` | | `ProbeIsFresh` |
| `AnswersAreFound` | | `AnswerIsFound` |

These hypotheses are the properties' own. When a write fails, a crash goes back
to an older list, and `CrashLosesNothing`, `ImplementsQueue` and `StoppedIsSticky`
are false. With two workers `NoLostWakeup` is false (manager.go:562, below). That only
dead ends decline is a claim about rate limits: other errors decline at once. A reply
from before the run is told from a later one by comparing clocks, so the local one
must not be behind GitHub's.

### The queue

None of the drive properties is inductive alone; the inductive invariant is
`IInv == BaseInv /\ DriveInv`.

* `BaseInv` holds what the list is made of: `TypeOK`; `MemoryOK` (`NumbersUnique`,
  and whatever is listed or driven is an allocated item);
  `FileIsLoadable`, because `Restart` makes the list out of the file; and
  `SlotsMatchWorkers`, because releasing a slot keeps `slots` a natural number
  only if one is taken.
* `DriveInv` is `LiveWorkerStoppable /\ NoStaleCancel /\ ActiveIsDriven`, which need
  each other. `Process` cancels whatever is registered under its number: that
  this is itself or a goroutine that took over needs `NoStaleCancel`. That `Remove`
  leaves no live worker behind needs `LiveWorkerStoppable`. That a claim does not
  overwrite the entry of a live worker needs that a live worker's item is
  active, while a claimed one is queued.

`PhaseChange` covers the many actions that change one phase. There is one lemma
per part of the invariant and group of actions (`MemoryStep`, `FileStep`,
`SlotStep`, `TypeStep`, `DriveAdd`, `DriveRemove`, ...). `CrashSafe` adds
`FileIsCurrent`, and `SerialNeverSleepsOnWork` adds that with one slot the
dispatcher waits only while no worker is busy.

**The refinement** (`QueueRefinementProofs`). `View` turns pointers into values. Four
lemmas say what a change of the heap or of the list is by value: `ViewPhase` (one
item's phase), `ViewAppend` (a new item), `ViewProcess` (an item that may have left
the list), `ViewFilter` (a clear). On them rest six lemmas, one per action of
`DurableQueue`: `MapsToSubmit`, `MapsToStop`, `MapsToClear`, `MapsToBegin`,
`MapsToEnd`, `MapsToRestart`; what is left of `Next` does not change the view. Three
facts besides `IInv` are needed: that a restart is a step of the list needs
`FileIsCurrent`; that a claim keeps to the bound on active items needs
`SlotsMatchWorkers` and `ActiveIsDriven`, which make every active item a taken slot;
and that with one worker a drive ends in the phase it may end in needs `AloneInv`:
nobody else finished the item meanwhile.

`ItemStep` lists everything a step can do to a listed item, and the two properties
about what users decided follow from it. For `FailedWaitsForRetry` the snapshot of the
recheck loop must not hold a failed item in merge-queue mode, which is `TodoInv`.

### Runner and SelfMerge

The state that `step` goes through says nothing of what earlier calls answered: only
`pc` does. `Knows` spells it out: which gates a pull request at each call has
passed, and what each reason for stopping says of it. `CallInv` is
`~moved => Knows`: it holds as long as the pull request did not change since the step
began. `CallKnows` proves it call by call; the gates are understood once
(`GateVerdict`, `RequiredVerdict`). `MergesOnlyReady` is then `Knows` at the merge call.

Verdicts and updates are about a pull request that does change, and need what no
change undoes. That is `HeadInv`: a head never goes back, and a branch gets its base
only with a new head (`BranchInv`). As long as the head that step looked at is the
head, a branch about to be updated is therefore behind; and one that is up to date
when it is compared with its base was so when its check runs were read, so that `dead`
has been noted. `EnvironmentHead` shows it for everything that happens on GitHub.

`SelfInv` adds `PhaseMatchesRunner`: a parked item carries the reason it was
parked for, `Knows` says that the reason is true, and `ParkedStaysParked` compares it
with the three tests of the recheck.

### DelegatedItem

What makes the verdict fresh is `Watched`: if a reply of a later second than
`watchFrom` says that the pull request is out, the run was told. It holds whichever way
the run came to watch. If it posted `/queue` and the call returned, no reply is of
a later second than its clock, since that is not behind GitHub's (`Skews \subseteq
Nat`, which this proof alone needs). If it found itself queued, it watches from the
newest reply there was (`LatestSignalIs`). The latter needs that the newest reply
exists, ties included (`NewestExists`): replies are ordered by their seconds, and each
second has a first reply (`InOrder`). `TeamStep` shows that nothing the bot, people or
time do takes a reply back.

### Dashboard

The invariant has one part per group of variables. `FetchOK` says that the tokens of
the semaphore are exactly the goroutines in a call; `LoopOK`, that the goroutines
started are exactly those of the pull requests before `next`. When `Publish` runs,
every pull request of the search is therefore over and has left an entry or
nothing (`AllBuilt`), so that what `Filter` keeps, in the order of the search, is the
list.

`LanesAreTrue` needs to know what the loops over check runs and legacy statuses
compute, for lists of any length. `RunsKept` and `StatusesKept` say it: for each name
the last run to complete, or that none has; the first status of a name without a
run. `RunsMeaning` and `StatusesMeaning` prove it by induction over the reports: if it
were false for a list, there would be a shortest prefix for which it is (`Least`,
from the well-foundedness of the naturals), and the step from its predecessor
(`RunsKeptStep`, `StatusesKeptStep`) contradicts that. The induction theorems of the
library are not used, since the provers cannot instantiate their operator
parameter; for the same reason it is proved first that the recursive functions exist
(`RunsFolded`, `StatusesFolded`). `ChecksAreFailing` concludes that a failed check with
nothing pending in the map is `Failing` by the listings. `KnowInv` carries what a lookup
has learned from call to call: `OfCommit`, that it is all of the captured commit,
whatever has been pushed (`CapturedFacts`); and `Known`, that it is still true, while the
pull request does not change.

### RateLimit

The bound on the sum of the waits is inductive only with
`WaitsPaid`: what has been waited, with what is left of the running wait, is paid
for by the attempts so far. `LimitIsRidden` needs `LimitsCounted`: with clocks that
agree a limit never outlasts the wait for it, so what an attempt meets is a new
one, and the attempts count the limits. The product `Retries * MaxWait` stays
hidden (`Allowed`, `Patience`) behind the one lemma that multiplies.

### StatusProbe

`KnowsInv` says what a probe's clock means. Its age is the time since the button was
pressed, by the context's clock too, so that the replies which `After` lets pass were
written since; and what was written since reports a length that was true since.
`StatsOK` ties the mutex to the one handler between its sample and its save.

### Lists

`SelectionProofs` is about `Filter`, which stands for every loop that drops elements of a
slice (`Clear`, the recheck snapshot, `Publish`, the bot's replies): it returns its
input at increasing positions, each once (`FilterSelects`), of the same type
(`FilterType`) and no longer (`FilterLength`).

### Only model-checked

* Liveness, which needs fairness and `ENABLED`: `QueueDrains`, `RunReturns`,
  `ReadyIsMerged`, `OutIsNoticed`, `MergeIsNoticed`, `PokeIsServed`, `LoopReturns`,
  `ContextEnds`.
* `OneWorkerPerPR`, which is false (`queue_two_workers`).

## Where code and documentation disagree

With a run that shows it:

* `queue_two_workers`: manager.go:330-333 says that claiming under one lock
  "closes the race where two workers grab the same PR". Remove and Add of an active
  item let a second worker claim it while the first is still in a call.
  `AtMostOneLiveWorker` bounds the damage: the first has been cancelled.

Noted from the source while modelling, without a run of their own:

* manager.go:270 says that Run "drains the queue". An item that `process` puts back
  to queued (manager.go:562) wakes nobody; with two workers the dispatcher may be
  asleep already, and the item stays queued until something else wakes it.
* manager.go:381-382 and README.md:188 promise "no churn on still-broken ones". A
  pull request declined as unstable for a failed required check is requeued by
  each recheck, because `checksRecovered` counts unstable as recovered.
* runner.go:193-195 says of a blocked pull request that a failed check parks it "no
  matter how many others are still pending". The code (216-223), the comment in it,
  README.md:35 and runner_test.go:441-444 say the opposite: it waits for those that
  are pending. `VerdictsAreTrue` follows the code; its mutant is the first comment.
* runner.go:197-198 says that a pull request without failed or pending checks is "held
  by a gate the bot can't satisfy". `mergeable_state` is older than the check runs: if
  it has turned mergeable in between, the pull request is parked as blocked all the same
  (a recheck brings it back). `VerdictsAreTrue` says of this verdict only what is
  true: no check is to blame.
* delegate.go:58-59 says a run ends when the bot rejects. A rejection is not
  considered unless its whole second is later than `watchFrom`, the local time after
  the call that posted `/queue` (108): one in the same second is never *after* it, nor is
  one within the seconds by which the local clock is ahead. Of two signals of the same
  second the older one is kept (`sig.at.After(latest.at)`, 167), so that a rejection
  right after a batch comment is not seen. In a loop without a deadline
  such an item stays active until the pull request is merged, closed or removed.
  `OutIsNoticed` therefore leaves ties out, and `NoStaleVerdict` clocks that are behind.
* delegate.go:61-62 keeps "old, superseded signals out". The bot's late reply to an
  earlier attempt's `/queue`, or to the `/dequeue` after it, is newer than the retry
  and ends it. `NoStaleVerdict` says what is true: such a reply came after the run began.
* client.go:275 says that `CheckRuns` returns the latest run per name. A run that is
  not completed never replaces one that is, and of completed ones the last in the
  listing counts: a failed check that is being run again counts as failed. So the
  dashboard may show as *failed* what dashboard.go:23 calls a "failed check that can't
  recover" and 246-248 "a dead check failure", although it may be about to recover.
* README.md:173 and the hint of dashboard.go say that a *required* check failed. Any
  check counts: which ones are required is not asked. `Failing` follows the code.
* A `/status` asked before the bot has read `/queue` is answered with "not currently
  in the custom merge queue", which fails the item although it is queued a moment
  later (delegate.go:119-120).
* ratelimit.go:12-14 says that the longest wait caps how long a single request
  blocks; it caps each wait, and a request may block for as many as the retries.
* README.md:240-242 says that the depth from every parsed bot reply is recorded; only
  replies to a probe are, and of two probes that end together the older answer may
  be recorded last.
* status.go:62 compares GitHub's whole seconds with the local clock: an answer in the
  second of the question is passed over, and with a local clock that is behind an
  older answer would pass.
* status.go:58-59 goes on after a failed listing without looking at the deadline: 20
  seconds may become the 30 of the handler's context.
* manager.go:208-210 says that an in-flight item cannot be cleared; `Remove` makes
  it `stopped` at once, so it can, and the result of its worker is not shown.
* manager.go:558-561 says that `Canceled` on an item that is not stopped "means
  daemon shutdown"; it also happens after Remove and Add.
* README.md:332 says that shutting down leaves an item `stopped`; it is left, or
  reloaded as, `queued`.
* README.md:59 says that merge is held while any conversation is open; one opened
  after the gate was read does not hold it.
* README.md:283 says of `--timeout` that it gives up on a PR; the deadline is read
  between steps, and REST calls have no timeout of their own.
* delegate.go:61-62 says not to re-ask for what is queued; when the newest signal
  is a batch comment, a restarted run asks again.
* README.md:228-229 says that a deliberately dequeued PR is never re-queued; an
  item that was active at a restart is.

## What is not modelled

* The client's JSON and HTTP, and the paging inside one listing; what its calls
  answer is the environment of the runners. Only the first hundred reviews and
  threads are asked for (client.go:365-369): how GitHub pages them is not visible
  in the code.
* Flags, logging, the one-shot `merge` command (the Runner it runs is modelled),
  the HTTP server's own shutdown, the routing of requests, the page.
* In `SelfMerge` and `DelegatedItem` a second worker on the same pull request: that
  is `QueueManager`'s subject.
* In merge-queue mode `process` routes conflicts and approvals as in self-merge
  mode, but `DelegateRunner` returns neither.

## Plan

Done: the models of the components above but the page, the refinement of
`DurableQueue`, and a theorem for every safety property of a run that needs an
invariant, the refinement among them.

Next, in this order:

1. A `Drive` specification between `QueueManager`'s `Process` and the two runners: what
   a drive may return and when, refined by `Runner` (through `SelfMerge`) and by
   `DelegateRunner` (through `DelegatedItem`). It would tie the two levels together;
   the refinements follow from `SelfInv` and `ItemInv`.
2. With disk faults, what the file still guarantees: the list that a restart goes
   back to was seen by users, and it lags by no more than the writes that failed.
