------------------------------ MODULE Dashboard ------------------------------
(***************************************************************************)
(* review.Dashboard (internal/review/dashboard.go): one goroutine rebuilds *)
(* the list of the author's open pull requests when it is poked or its     *)
(* ticker fires, with one goroutine per pull request and a semaphore; HTTP *)
(* handlers poke it and read the list.  Every call to GitHub is an action, *)
(* and between two of them the pull requests change.                       *)
(***************************************************************************)
EXTENDS CheckRuns, Selection

CONSTANTS
  Search,        \* pull requests, in the order in which the search returns them
  Facts,         \* pull request -> what GitHub may say of it
  MinApprovals,  \* d.minApprovals
  Width,         \* dashboardConcurrency: capacity of the semaphore
  TeamQueue,     \* d.teamQueue
  Unsteady       \* bound: pull requests whose lookups may fail

PRs == ToSet(Search)

ASSUME DashboardAssumption ==
  /\ Search \in Seq(PRs) /\ IsInjective(Search)
  /\ DOMAIN Facts = PRs
  /\ \A n \in PRs : \A f \in Facts[n] :
       f.runs \in Seq(ToSet(f.runs)) /\ f.statuses \in Seq(ToSet(f.statuses))
  /\ MinApprovals \in Nat
  /\ Width \in Nat \ {0}
  /\ TeamQueue \in BOOLEAN
  /\ Unsteady \subseteq PRs

\* What GitHub says of a pull request: is it found by the search (open, no
\* draft), its mergeable_state, review decision and approvals, the newest signal
\* in the team queue's comments, and its head: whether that commit is behind the
\* base, its check runs and statuses as listed.

VARIABLES
  world,    \* pull request -> facts
  moved,    \* history: pull requests that changed since their entryFor read their state
  known,    \* is d.author # ""?
  loop,     \* where the refresh loop is
  prs,      \* Refresh's prs
  next,     \* the index of the loop that starts the fetches
  fetch,    \* pull request -> the call its goroutine is in
  got,      \* pull request -> what its goroutine knows so far
  built,    \* pull request -> its entry, Skipped, or Pending
  sem,      \* tokens in the semaphore
  entries,  \* d.entries
  loaded,   \* d.loaded
  poke,     \* is there a token in d.poke (capacity 1)?
  stale,    \* history: a refresh was asked for and none has started since
  down,     \* is the context cancelled?
  page      \* GET /api/ready: the reads it has made

github  == <<world, moved>>
fetches == <<fetch, got, built, sem>>
shown   == <<entries, loaded>>
http    == <<poke, stale, page>>
dashVars == <<world, moved, known, loop, prs, next, fetch, got, built, sem,
              entries, loaded, poke, stale, down, page>>

Pending == [num |-> "none", category |-> "pending", queued |-> FALSE]
Skipped == [num |-> "none", category |-> "skipped", queued |-> FALSE]
Entry(n, category, queued) == [num |-> n, category |-> category, queued |-> queued]

Nothing ==
  [state |-> "", head |-> "", queued |-> FALSE, behind |-> FALSE, checks |-> NoRuns]

-----------------------------------------------------------------------------
(* entryFor: the triage of one pull request *)

\* QueuedFromComments
Queued(signal) == signal \in {"queued", "batch"}

\* The review side satisfied: only then are checks blamed.
Approved(f) ==
  /\ f.decision \notin {"CHANGES_REQUESTED", "REVIEW_REQUIRED"}
  /\ f.approvals >= MinApprovals

\* The last switch of entryFor.
Triage(behind, checks) ==
  IF ~AnyPending(checks) /\ ~behind /\ AnyFailed(checks) THEN "failed" ELSE "mine"

In(n, call) == fetch[n] = call
Go(n, call) == fetch' = [fetch EXCEPT ![n] = call] /\ UNCHANGED <<built, sem, moved>>
Learn(n, g) == got' = [got EXCEPT ![n] = g]

\* <-sem, the deferred release.  Mutant of FreePlace: a place leaks.
LeakPlace == sem' = sem

FreePlace == sem' = sem - 1

\* entryFor returns, and with it the goroutine.
Finish(n, entry) ==
  /\ built' = [built EXCEPT ![n] = entry]
  /\ fetch' = [fetch EXCEPT ![n] = "over"]
  /\ got' = [got EXCEPT ![n] = Nothing]
  /\ moved' = moved \ {n}
  /\ FreePlace

FinishAs(n, category) == Finish(n, Entry(n, category, got[n].queued))

Fetching == UNCHANGED <<world, known, loop, prs, next, shown, http, down>>

\* After PullState and, in merge-queue mode, ListComments: a conflict needs no
\* further lookups.
AfterState(n, g) ==
  IF g.state = "dirty" THEN Finish(n, Entry(n, "conflict", g.queued))
                       ELSE Go(n, "review") /\ Learn(n, g)

PullState(n) ==
  /\ In(n, "state")
  /\ LET g == [Nothing EXCEPT !.state = world[n].state, !.head = world[n].head]
     IN  \/ IF TeamQueue THEN Go(n, "comments") /\ Learn(n, g) ELSE AfterState(n, g)
         \/ n \in Unsteady /\ Finish(n, Skipped)
  /\ Fetching

\* A failed lookup of the comments leaves the flag off.
ListComments(n) ==
  /\ In(n, "comments")
  /\ \/ AfterState(n, [got[n] EXCEPT !.queued = Queued(world[n].signal)])
     \/ n \in Unsteady /\ AfterState(n, got[n])
  /\ Fetching

\* What is left to ask after the review: nothing, unless the pull request is
\* blocked and approved.
ReviewStatus(n) ==
  /\ In(n, "review")
  /\ \/ IF got[n].state = "blocked" /\ Approved(world[n])
        THEN Go(n, "compare") /\ UNCHANGED got
        ELSE FinishAs(n, "mine")
     \/ n \in Unsteady /\ Finish(n, Skipped)
  /\ Fetching

\* What GitHub may say of the commit that PullState returned: after a push, all
\* that it ever says of it.  Mutant of Captured: it is asked for the branch.
Present(n) == {world[n]}

Captured(n) ==
  IF world[n].head = got[n].head THEN {world[n]}
                                 ELSE {f \in Facts[n] : f.head = got[n].head}

BehindBy(n) ==
  /\ In(n, "compare")
  /\ \/ \E f \in Captured(n) : Go(n, "runs") /\ Learn(n, [got[n] EXCEPT !.behind = f.behind])
     \/ n \in Unsteady /\ FinishAs(n, "mine")
  /\ Fetching

\* CheckRuns: two listings, and an error in either is an error.
ListRuns(n) ==
  /\ In(n, "runs")
  /\ \/ \E f \in Captured(n) :
          Go(n, "statuses") /\ Learn(n, [got[n] EXCEPT !.checks = AddRuns(NoRuns, f.runs)])
     \/ n \in Unsteady /\ FinishAs(n, "mine")
  /\ Fetching

ListStatuses(n) ==
  /\ In(n, "statuses")
  /\ \/ \E f \in Captured(n) :
          FinishAs(n, Triage(got[n].behind, AddStatuses(got[n].checks, f.statuses)))
     \/ n \in Unsteady /\ FinishAs(n, "mine")
  /\ Fetching

EntryFor(n) ==
  \/ PullState(n) \/ ListComments(n) \/ ReviewStatus(n)
  \/ BehindBy(n) \/ ListRuns(n) \/ ListStatuses(n)

-----------------------------------------------------------------------------
(* Refresh *)

\* Nothing is being fetched.
Clean ==
  /\ prs' = <<>> /\ next' = 1
  /\ fetch' = [n \in PRs |-> "off"] /\ got' = [n \in PRs |-> Nothing]
  /\ built' = [n \in PRs |-> Pending] /\ sem' = 0

\* ensureAuthor: asked once, unless it was configured.
EnsureAuthor ==
  /\ loop = "author"
  /\ \/ known' = TRUE /\ loop' = "search"
     \/ ~known /\ loop' = "select" /\ UNCHANGED known
  /\ UNCHANGED <<github, prs, next, fetches, shown, http, down>>

\* The search of GitHub, page by page: one failed page fails it.
ListOpenPRsByAuthor ==
  Filter(Search, {k \in DOMAIN Search : world[Search[k]].listed})

ListOpenPRs ==
  /\ loop = "search"
  /\ \/ prs' = ListOpenPRsByAuthor /\ loop' = "start"
     \/ loop' = "select" /\ UNCHANGED prs
  /\ UNCHANGED <<github, known, next, fetches, shown, http, down>>

\* Start the next goroutine, if there is a place for it ...
StartFetch ==
  /\ loop = "start" /\ next \in DOMAIN prs
  /\ sem < Width
  /\ sem' = sem + 1
  /\ fetch' = [fetch EXCEPT ![prs[next]] = "state"]
  /\ next' = next + 1
  /\ UNCHANGED <<github, known, loop, prs, got, built, shown, http, down>>

\* ... or give up: the context is done.
Abort ==
  /\ loop = "start" /\ next \in DOMAIN prs
  /\ down
  /\ loop' = "abort"
  /\ UNCHANGED <<github, known, prs, next, fetches, shown, http, down>>

\* wg.Wait().  Mutants of AllOver: it does not wait; wg was told of all of them at
\* the start.
NoWait == TRUE
AllCounted == \A n \in ToSet(prs) : fetch[n] = "over"

AllOver == \A n \in PRs : fetch[n] \in {"off", "over"}

Aborted ==
  /\ loop = "abort"
  /\ AllOver
  /\ loop' = "select"
  /\ Clean
  /\ UNCHANGED <<github, known, shown, http, down>>

\* The entries, in the order of the search; a pull request that could not be
\* read is left out.
Collected ==
  LET rows == [k \in DOMAIN prs |-> built[prs[k]]]
  IN  Filter(rows, {k \in DOMAIN rows : rows[k] \notin {Pending, Skipped}})

Publish ==
  /\ loop = "start" /\ next \notin DOMAIN prs
  /\ AllOver
  /\ entries' = Collected
  /\ loaded' = TRUE
  /\ loop' = "select"
  /\ Clean
  /\ UNCHANGED <<github, known, http, down>>

-----------------------------------------------------------------------------
(* RefreshLoop and the handlers *)

\* The ticker fires, or a token is taken: a refresh begins.
Refresh(token) ==
  /\ loop = "select"
  /\ loop' = "author"
  /\ poke' = token
  /\ stale' = FALSE
  /\ UNCHANGED <<github, known, prs, next, fetches, shown, down, page>>

Tick  == Refresh(poke)
Poked == poke /\ Refresh(FALSE)

Done ==
  /\ loop = "select" /\ down
  /\ loop' = "returned"
  /\ UNCHANGED <<github, known, prs, next, fetches, shown, http, down>>

\* TriggerRefresh: a token, if there is none.  Mutant of Token: none while a
\* refresh is running.
TokenIfIdle == poke \/ loop = "select"

Token == TRUE

TriggerRefresh ==
  /\ poke' = Token
  /\ stale' = TRUE
  /\ UNCHANGED <<github, known, loop, prs, next, fetches, shown, down, page>>

\* readyForReview: Loaded(), then List().  Mutant of Reads: the other way round.
ListFirst == <<"list", "loaded">>

Reads == <<"loaded", "list">>

\* What a read finds: d.loaded, or whether the list is one that was published.
\* Bound: only the requests that begin before the first refresh has finished.
ReadyForReview ==
  /\ \/ page = <<>> /\ ~loaded
     \/ Len(page) = 1
  /\ page' = Append(page, loaded)
  /\ UNCHANGED <<github, known, loop, prs, next, fetches, shown, poke, stale, down>>

Shutdown ==
  /\ ~down /\ down' = TRUE
  /\ UNCHANGED <<github, known, loop, prs, next, fetches, shown, http>>

\* Authors, reviewers, CI and the base branch.
Changes ==
  /\ \E n \in PRs : \E f \in Facts[n] \ {world[n]} :
       /\ world' = [world EXCEPT ![n] = f]
       /\ moved' = IF fetch[n] \in {"off", "state", "over"} THEN moved
                                                           ELSE moved \cup {n}
  /\ UNCHANGED <<known, loop, prs, next, fetches, shown, http, down>>

DashInit ==
  /\ world \in [PRs -> UNION {Facts[n] : n \in PRs}]
  /\ \A n \in PRs : world[n] \in Facts[n]
  /\ moved = {}
  /\ known \in BOOLEAN
  /\ loop = "author" /\ prs = <<>> /\ next = 1
  /\ fetch = [n \in PRs |-> "off"] /\ got = [n \in PRs |-> Nothing]
  /\ built = [n \in PRs |-> Pending] /\ sem = 0
  /\ entries = <<>> /\ loaded = FALSE
  /\ poke = FALSE /\ stale = FALSE /\ down = FALSE /\ page = <<>>

\* What the loop does of itself; the ticker may be slow.
LoopStep ==
  \/ EnsureAuthor \/ ListOpenPRs \/ StartFetch \/ Abort \/ Aborted \/ Publish
  \/ Poked \/ Done

DashNext ==
  \/ LoopStep \/ Tick
  \/ \E n \in PRs : EntryFor(n)
  \/ TriggerRefresh \/ ReadyForReview
  \/ Shutdown \/ Changes

DashSpec == DashInit /\ [][DashNext]_dashVars

\* Goroutines run and calls end, well or badly; the select of the loop, which
\* chooses at random, takes the case <-ctx.Done() some time.
DashFairSpec ==
  /\ DashSpec
  /\ WF_dashVars(LoopStep) /\ SF_dashVars(Done)
  /\ \A n \in PRs : WF_dashVars(EntryFor(n))

-----------------------------------------------------------------------------
\* Every variable keeps its type; the semaphore is exactly the goroutines that
\* run, never more than its capacity.
DashTypeOK ==
  /\ \A n \in PRs : world[n] \in Facts[n]
  /\ moved \subseteq PRs
  /\ loop \in {"author", "search", "start", "abort", "select", "returned"}
  /\ ToSet(prs) \subseteq PRs /\ next \in 1..(Len(prs) + 1)
  /\ \A n \in PRs :
       /\ fetch[n] \in {"off", "state", "comments", "review", "compare", "runs",
                       "statuses", "over"}
       /\ fetch[n] = "over" <=> built[n] # Pending
  /\ sem = Cardinality({n \in PRs : fetch[n] \notin {"off", "over"}})
  /\ sem <= Width
  /\ \A k \in DOMAIN entries : entries[k].category \in {"mine", "conflict", "failed"}
  /\ {known, loaded, poke, stale, down} \subseteq BOOLEAN
  /\ page \in Seq(BOOLEAN) /\ Len(page) <= 2

\* Some check has failed and no check is waited for, by what GitHub lists: the last
\* run of its name to complete failed, or it has no run and the first status of its
\* name failed; and every other check has completed too.  A check that failed may be
\* running again, and nothing says that it is required.
Failing(runs, statuses) ==
  LET last(k) == \A j \in DOMAIN runs :
                   runs[j].name = runs[k].name /\ runs[j].status = "completed" => j <= k
      bad(k) == runs[k].status = "completed" /\ ~CheckSucceeded(runs[k].conclusion)
      named == {runs[k].name : k \in DOMAIN runs}
      done == {runs[k].name : k \in {j \in DOMAIN runs : runs[j].status = "completed"}}
      alone(k) ==
        /\ statuses[k].context \notin named
        /\ \A j \in 1..(k - 1) : statuses[j].context # statuses[k].context
  IN  /\ \/ \E k \in DOMAIN runs : last(k) /\ bad(k)
         \/ \E k \in DOMAIN statuses :
              alone(k) /\ statuses[k].state \in {"failure", "error"}
      /\ named = done
      /\ \A k \in DOMAIN statuses : alone(k) => statuses[k].state # "pending"

\* The entry e says the truth of the facts f: it conflicts, and it is called failed
\* only if it is blocked, the reviewers are content, the branch is up to date and a
\* check has failed.
LaneIsTrue(e, f) ==
  /\ e.category = "conflict" <=> f.state = "dirty"
  /\ e.category = "failed" =>
       /\ f.state = "blocked" /\ ~f.behind /\ Failing(f.runs, f.statuses)
       /\ f.approvals >= MinApprovals
       /\ f.decision \notin {"REVIEW_REQUIRED", "CHANGES_REQUESTED"}

\* Whatever the author pushes between the calls, a pull request is called failed for
\* one commit: that commit was blocked when PullState returned it, and the
\* comparison, the runs and the statuses are its own.
OneCommit(e, n) ==
  e.category = "failed" =>
    LET its == {f \in Facts[n] : f.head = got[n].head}
    IN  /\ \E f \in its : f.state = "blocked"
        /\ \E f \in its : ~f.behind
        /\ \E f, g \in its : Failing(f.runs, g.statuses)

\* The lane of a pull request is for one commit, and true unless something about the
\* pull request changed during its up to six calls (dashboard.go:226-230, 240-243).
TriageIsTrue ==
  [][\A n \in PRs :
       fetch[n] # "over" /\ fetch'[n] = "over" /\ built'[n] # Skipped =>
         /\ OneCommit(built'[n], n)
         /\ n \notin moved => LaneIsTrue(built'[n], world[n])]_dashVars

\* Whatever order the goroutines end in, a published list has every pull request
\* of the search, in its order, but those whose own lookup failed.
ListIsWhole ==
  [][Publish =>
       [k \in DOMAIN entries' |-> entries'[k].num] =
       Filter(prs, {k \in DOMAIN prs : built[prs[k]] # Skipped})]_dashVars

\* The page is never told "loaded" with the empty list from before the first
\* refresh: "no open PRs" (dashboard.go:117-118).
LoadedMeansList ==
  LET at(read) == page[CHOOSE k \in 1..2 : Reads[k] = read]
  IN  Len(page) = 2 => (at("loaded") => at("list"))

\* A refresh that a user asks for starts after the request, also if one was
\* running then, and without the ticker's help.
PokeIsServed == stale ~> (~stale \/ down)

\* RefreshLoop returns after a shutdown, whatever it was doing.
LoopReturns == down ~> loop = "returned"
=============================================================================
