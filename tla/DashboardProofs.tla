-------------------------- MODULE DashboardProofs --------------------------
(***************************************************************************)
(* Proofs about the review dashboard, for every search, every set of facts *)
(* GitHub may tell, every width of the semaphore and every number of       *)
(* refreshes, pages and failures: the list that is published is whole, a   *)
(* page is never told it is loaded before it is, no place leaks, and a     *)
(* lane is true of its pull request, whatever checks there are.            *)
(***************************************************************************)
EXTENDS Dashboard, SelectionProofs, FiniteSetTheorems, WellFoundedInduction, TLAPS

Calls  == {"state", "comments", "review", "compare", "runs", "statuses"}
Stages == Calls \cup {"off", "over"}
Busy   == {n \in PRs : fetch[n] \in Calls}

\* What becomes of a pull request that could be read.
IsEntry(n, e) == e.num = n /\ e.category \in {"mine", "conflict", "failed"}

WorldOK ==
  /\ DOMAIN world = PRs /\ \A n \in PRs : world[n] \in Facts[n]
  /\ moved \subseteq PRs

\* The goroutines: one that is over has left an entry or nothing, and the
\* semaphore is exactly those that run.
FetchOK ==
  /\ fetch \in [PRs -> Stages]
  /\ DOMAIN built = PRs /\ DOMAIN got = PRs
  /\ \A n \in PRs :
       /\ fetch[n] # "over" => built[n] = Pending
       /\ fetch[n] = "over" => built[n] = Skipped \/ IsEntry(n, built[n])
  /\ sem = Cardinality(Busy) /\ sem \in Nat /\ sem <= Width

\* The loop: while it starts goroutines, exactly those before next are started;
\* while it does not, there are none.
LoopOK ==
  /\ loop \in {"author", "search", "start", "abort", "select", "returned"}
  /\ prs \in Seq(PRs) /\ \A j, k \in DOMAIN prs : prs[j] = prs[k] => j = k
  /\ next \in 1..(Len(prs) + 1)
  /\ \A k \in DOMAIN prs : fetch[prs[k]] = "off" <=> k >= next
  /\ loop \notin {"start", "abort"} =>
       prs = <<>> /\ \A n \in PRs : fetch[n] = "off"

\* What is shown: a page's first read is of loaded, which is never taken back.
ShownOK ==
  /\ \A k \in DOMAIN entries : entries[k].category \in {"mine", "conflict", "failed"}
  /\ known \in BOOLEAN /\ loaded \in BOOLEAN /\ poke \in BOOLEAN
  /\ stale \in BOOLEAN /\ down \in BOOLEAN
  /\ page \in Seq(BOOLEAN) /\ Len(page) <= 2
  /\ Len(page) >= 1 /\ page[1] => loaded
  /\ Len(page) = 2 /\ page[1] => page[2]

Inv == WorldOK /\ FetchOK /\ LoopOK /\ ShownOK

-----------------------------------------------------------------------------
(* The constants *)

LEMMA PRsFinite == IsFiniteSet(PRs)
<1>1. Search \in Seq(PRs) /\ DOMAIN Search = 1..Len(Search) /\ Len(Search) \in Nat
  BY DashboardAssumption
<1>2. IsFiniteSet(1..Len(Search))
  BY <1>1, FS_Interval
<1>3. Search \in Surjection(1..Len(Search), PRs)
  BY <1>1 DEF Surjection, PRs, ToSet
<1> QED
  BY <1>2, <1>3, FS_Surjection

LEMMA SearchOnce == \A j, k \in DOMAIN Search : Search[j] = Search[k] => j = k
BY DashboardAssumption DEF IsInjective

LEMMA EntriesDiffer ==
  /\ Pending # Skipped
  /\ \A n, e : IsEntry(n, e) => e # Pending /\ e # Skipped
BY DEF Pending, Skipped, IsEntry

LEMMA EntryIsEntry ==
  ASSUME NEW n, NEW c \in {"mine", "conflict", "failed"}, NEW q
  PROVE  IsEntry(n, Entry(n, c, q))
BY DEF IsEntry, Entry

LEMMA InvMeans == Inv => DashTypeOK /\ LoadedMeansList
<1> SUFFICES ASSUME Inv PROVE DashTypeOK /\ LoadedMeansList
  OBVIOUS
<1>1. ToSet(prs) \subseteq PRs /\ next \in 1..(Len(prs) + 1)
  BY DEF Inv, LoopOK, ToSet
<1>2. \A n \in PRs :
        /\ fetch[n] \in Stages
        /\ fetch[n] = "over" <=> built[n] # Pending
  BY EntriesDiffer DEF Inv, FetchOK
<1>3. Busy = {n \in PRs : fetch[n] \notin {"off", "over"}}
  BY <1>2 DEF Busy, Stages, Calls
<1>4. DashTypeOK
  BY <1>1, <1>2, <1>3
     DEF Inv, WorldOK, FetchOK, LoopOK, ShownOK, DashTypeOK, Stages, Calls
<1>5. (CHOOSE k \in 1..2 : Reads[k] = "loaded") = 1
  BY DEF Reads
<1>6. (CHOOSE k \in 1..2 : Reads[k] = "list") = 2
  BY DEF Reads
<1>7. LoadedMeansList
  BY <1>5, <1>6 DEF LoadedMeansList, Inv, ShownOK
<1> QED
  BY <1>4, <1>7

LEMMA InitInv == DashInit => Inv
<1> SUFFICES ASSUME DashInit PROVE Inv
  OBVIOUS
<1> USE DEF DashInit
<1>1. WorldOK
  BY DEF WorldOK
<1>2. FetchOK
  <2>1. Busy = {} /\ Cardinality({}) = 0
    BY FS_EmptySet DEF Busy, Calls
  <2>2. Width \in Nat /\ Width # 0
    BY DashboardAssumption
  <2>3. sem = Cardinality(Busy) /\ sem \in Nat /\ sem <= Width
    BY <2>1, <2>2
  <2>4. /\ fetch \in [PRs -> Stages]
        /\ DOMAIN built = PRs /\ DOMAIN got = PRs
        /\ \A n \in PRs : fetch[n] = "off" /\ built[n] = Pending
    BY DEF Stages
  <2> QED
    BY <2>3, <2>4 DEF FetchOK
<1>3. LoopOK
  BY DEF LoopOK
<1>4. ShownOK
  <2>1. page \in Seq(BOOLEAN) /\ Len(page) = 0 /\ DOMAIN entries = {}
    OBVIOUS
  <2>2. Len(page) <= 2 /\ ~(Len(page) >= 1) /\ Len(page) # 2
    BY <2>1
  <2>3. /\ known \in BOOLEAN /\ loaded \in BOOLEAN /\ poke \in BOOLEAN
        /\ stale \in BOOLEAN /\ down \in BOOLEAN
    OBVIOUS
  <2> QED
    BY <2>1, <2>2, <2>3, Zenon DEF ShownOK
<1> QED
  BY <1>1, <1>2, <1>3, <1>4 DEF Inv

-----------------------------------------------------------------------------
(* The goroutines *)

\* A step of entryFor moves one goroutine from call to call, or ends it.
Moves(n) ==
  /\ fetch[n] \in Calls
  /\ \E c \in Calls : fetch' = [fetch EXCEPT ![n] = c]
  /\ UNCHANGED <<built, sem, moved>>

Ends(n) ==
  /\ fetch[n] \in Calls
  /\ \E e : (e = Skipped \/ IsEntry(n, e)) /\ Finish(n, e)

LEMMA AfterStateStep ==
  ASSUME Inv, NEW n \in PRs, fetch[n] \in Calls, NEW g, AfterState(n, g)
  PROVE  DOMAIN got' = PRs /\ (Moves(n) \/ Ends(n))
<1> DEFINE e == Entry(n, "conflict", g.queued)
<1>1. CASE g.state = "dirty"
  <2>1. Finish(n, e) /\ IsEntry(n, e)
    BY <1>1, EntryIsEntry DEF AfterState
  <2>2. DOMAIN got' = PRs
    BY <2>1 DEF Finish, Inv, FetchOK
  <2> QED
    BY <2>1, <2>2 DEF Ends
<1>2. CASE g.state # "dirty"
  BY <1>2 DEF AfterState, Go, Learn, Moves, Inv, FetchOK, Calls
<1> QED
  BY <1>1, <1>2

LEMMA EntryForStep ==
  ASSUME Inv, NEW n \in PRs, EntryFor(n)
  PROVE  Fetching /\ DOMAIN got' = PRs /\ (Moves(n) \/ Ends(n))
<1> DEFINE Goes(c) == fetch' = [fetch EXCEPT ![n] = c] /\ UNCHANGED <<built, sem, moved>>
<1>1. ASSUME fetch[n] \in Calls, NEW e, e = Skipped \/ IsEntry(n, e), Finish(n, e)
      PROVE  DOMAIN got' = PRs /\ Ends(n)
  <2>1. DOMAIN got' = PRs
    BY <1>1 DEF Finish, Inv, FetchOK
  <2> QED
    BY <1>1, <2>1 DEF Ends
<1>2. ASSUME fetch[n] \in Calls, NEW c \in {"mine", "conflict", "failed"}, FinishAs(n, c)
      PROVE  DOMAIN got' = PRs /\ Ends(n)
  BY <1>1, <1>2, EntryIsEntry DEF FinishAs
<1>3. ASSUME fetch[n] \in Calls, NEW c \in Calls, Go(n, c),
             UNCHANGED got \/ (\E g : Learn(n, g))
      PROVE  DOMAIN got' = PRs /\ Moves(n)
  BY <1>3 DEF Go, Learn, Moves, Inv, FetchOK
<1>4. CASE PullState(n)
  <2>1. fetch[n] \in Calls /\ Fetching
    BY <1>4 DEF PullState, In, Calls
  <2> DEFINE g == [Nothing EXCEPT !.state = world[n].state, !.head = world[n].head]
  <2>2. CASE AfterState(n, g)
    BY <2>1, <2>2, AfterStateStep
  <2>3. CASE Go(n, "comments") /\ Learn(n, g)
    BY <2>1, <2>3, <1>3 DEF Calls
  <2>4. CASE Finish(n, Skipped)
    BY <2>1, <2>4, <1>1
  <2> QED
    BY <1>4, <2>1, <2>2, <2>3, <2>4 DEF PullState
<1>5. CASE ListComments(n)
  <2>1. fetch[n] \in Calls /\ Fetching
    BY <1>5 DEF ListComments, In, Calls
  <2>2. \E g : AfterState(n, g)
    BY <1>5 DEF ListComments
  <2> QED
    BY <2>1, <2>2, AfterStateStep
<1>6. CASE ReviewStatus(n)
  <2>1. fetch[n] \in Calls /\ Fetching
    BY <1>6 DEF ReviewStatus, In, Calls
  <2>2. CASE Go(n, "compare") /\ UNCHANGED got
    BY <2>1, <2>2, <1>3 DEF Calls
  <2>3. CASE FinishAs(n, "mine")
    BY <2>1, <2>3, <1>2
  <2>4. CASE Finish(n, Skipped)
    BY <2>1, <2>4, <1>1
  <2> QED
    BY <1>6, <2>1, <2>2, <2>3, <2>4 DEF ReviewStatus
<1>7. CASE BehindBy(n)
  <2>1. fetch[n] \in Calls /\ Fetching
    BY <1>7 DEF BehindBy, In, Calls
  <2>2. CASE Go(n, "runs") /\ \E g : Learn(n, g)
    BY <2>1, <2>2, <1>3 DEF Calls
  <2>3. CASE FinishAs(n, "mine")
    BY <2>1, <2>3, <1>2
  <2> QED
    BY <1>7, <2>1, <2>2, <2>3 DEF BehindBy
<1>8. CASE ListRuns(n)
  <2>1. fetch[n] \in Calls /\ Fetching
    BY <1>8 DEF ListRuns, In, Calls
  <2>2. CASE Go(n, "statuses") /\ \E g : Learn(n, g)
    BY <2>1, <2>2, <1>3 DEF Calls
  <2>3. CASE FinishAs(n, "mine")
    BY <2>1, <2>3, <1>2
  <2> QED
    BY <1>8, <2>1, <2>2, <2>3 DEF ListRuns
<1>9. CASE ListStatuses(n)
  <2>1. fetch[n] \in Calls /\ Fetching
    BY <1>9 DEF ListStatuses, In, Calls
  <2>2. \E c \in {"mine", "failed"} : FinishAs(n, c)
    BY <1>9 DEF ListStatuses, Triage
  <2> QED
    BY <2>1, <2>2, <1>2
<1> QED
  BY <1>4, <1>5, <1>6, <1>7, <1>8, <1>9 DEF EntryFor

LEMMA EntryForKeeps ==
  ASSUME Inv, NEW n \in PRs, EntryFor(n)
  PROVE  Inv'
<1>1. Fetching /\ DOMAIN got' = PRs /\ fetch[n] \in Calls /\ (Moves(n) \/ Ends(n))
  BY EntryForStep DEF Moves, Ends
<1>2. /\ fetch' \in [PRs -> Stages]
      /\ fetch'[n] \in Calls \cup {"over"}
      /\ \A m \in PRs \ {n} : fetch'[m] = fetch[m]
      /\ moved' \subseteq PRs
  BY <1>1 DEF Moves, Ends, Finish, Inv, FetchOK, WorldOK, Stages
<1>3. FetchOK'
  <2>1. CASE Moves(n)
    <3>1. fetch'[n] \in Calls
      BY <2>1, <1>2 DEF Moves, Inv, FetchOK
    <3>2. Busy' = Busy
      BY <1>1, <1>2, <3>1 DEF Busy
    <3>3. built' = built /\ sem' = sem
      BY <2>1 DEF Moves
    <3>4. fetch[n] # "over" /\ fetch'[n] # "over"
      BY <1>1, <3>1 DEF Calls
    <3> QED
      BY <1>1, <1>2, <3>2, <3>3, <3>4 DEF Inv, FetchOK
  <2>2. CASE Ends(n)
    <3>1. PICK e : (e = Skipped \/ IsEntry(n, e)) /\ Finish(n, e)
      BY <2>2 DEF Ends
    <3>2. /\ fetch' = [fetch EXCEPT ![n] = "over"]
          /\ built' = [built EXCEPT ![n] = e]
          /\ sem' = sem - 1
      BY <3>1 DEF Finish, FreePlace
    <3>3. fetch'[n] = "over" /\ built'[n] = e /\ DOMAIN built' = PRs
      BY <3>2 DEF Inv, FetchOK
    <3>4. \A m \in PRs \ {n} : built'[m] = built[m]
      BY <3>2 DEF Inv, FetchOK
    <3>5. Busy' = Busy \ {n} /\ n \in Busy
      BY <1>1, <1>2, <3>3 DEF Busy, Calls
    <3>6. IsFiniteSet(Busy)
      BY PRsFinite, FS_Subset DEF Busy
    <3>7. Cardinality(Busy') = Cardinality(Busy) - 1 /\ Cardinality(Busy') \in Nat
      BY <3>5, <3>6, FS_RemoveElement, FS_CardinalityType
    <3>8. sem' = Cardinality(Busy') /\ sem' \in Nat /\ sem' <= Width
      BY <3>2, <3>7, DashboardAssumption DEF Inv, FetchOK
    <3>9. \A m \in PRs :
            /\ fetch'[m] # "over" => built'[m] = Pending
            /\ fetch'[m] = "over" => built'[m] = Skipped \/ IsEntry(m, built'[m])
      BY <1>2, <3>1, <3>3, <3>4 DEF Inv, FetchOK
    <3> QED
      BY <1>1, <1>2, <3>3, <3>8, <3>9 DEF FetchOK
  <2> QED
    BY <1>1, <2>1, <2>2
<1>4. WorldOK'
  BY <1>1, <1>2 DEF Fetching, Inv, WorldOK
<1>5. LoopOK'
  <2>1. \A m \in PRs : fetch'[m] = "off" <=> fetch[m] = "off"
    BY <1>1, <1>2 DEF Calls
  <2>2. loop' = loop /\ prs' = prs /\ next' = next
    BY <1>1 DEF Fetching
  <2>3. \A k \in DOMAIN prs : prs[k] \in PRs
    BY DEF Inv, LoopOK
  <2> QED
    BY <2>1, <2>2, <2>3 DEF Inv, LoopOK
<1>6. ShownOK'
  BY <1>1 DEF Fetching, shown, http, Inv, ShownOK
<1> QED
  BY <1>3, <1>4, <1>5, <1>6 DEF Inv

-----------------------------------------------------------------------------
(* The refresh *)

\* A goroutine is started for a pull request that has none yet: the search lists
\* each once.
LEMMA StartFetchKeeps == Inv /\ StartFetch => Inv'
<1> SUFFICES ASSUME Inv, StartFetch PROVE Inv'
  OBVIOUS
<1>1. /\ loop = "start" /\ next \in DOMAIN prs /\ sem < Width
      /\ sem' = sem + 1 /\ next' = next + 1
      /\ fetch' = [fetch EXCEPT ![prs[next]] = "state"]
      /\ UNCHANGED <<world, moved, known, loop, prs, got, built, entries, loaded>>
      /\ UNCHANGED <<poke, stale, page, down>>
  BY DEF StartFetch, github, shown, http
<1>2. prs \in Seq(PRs) /\ prs[next] \in PRs /\ fetch[prs[next]] = "off"
  <2>1. prs \in Seq(PRs) /\ next >= next
    BY <1>1 DEF Inv, LoopOK
  <2> QED
    BY <1>1, <2>1 DEF Inv, LoopOK
<1> DEFINE n == prs[next]
<1>3. /\ fetch' \in [PRs -> Stages] /\ fetch'[n] = "state"
      /\ \A m \in PRs \ {n} : fetch'[m] = fetch[m]
  BY <1>1, <1>2 DEF Inv, FetchOK, Stages, Calls
<1>4. FetchOK'
  <2>1. Busy' = Busy \cup {n} /\ n \notin Busy
    BY <1>2, <1>3 DEF Busy, Calls
  <2>2. IsFiniteSet(Busy)
    BY PRsFinite, FS_Subset DEF Busy
  <2>3. Cardinality(Busy') = Cardinality(Busy) + 1 /\ Cardinality(Busy') \in Nat
    BY <2>1, <2>2, FS_AddElement, FS_CardinalityType
  <2>4. sem' = Cardinality(Busy') /\ sem' \in Nat /\ sem' <= Width
    BY <1>1, <2>3, DashboardAssumption DEF Inv, FetchOK
  <2>5. \A m \in PRs :
          /\ fetch'[m] # "over" => built[m] = Pending
          /\ fetch'[m] = "over" => built[m] = Skipped \/ IsEntry(m, built[m])
    BY <1>2, <1>3 DEF Inv, FetchOK
  <2> QED
    BY <1>1, <1>3, <2>4, <2>5 DEF Inv, FetchOK
<1>5. WorldOK'
  BY <1>1 DEF Inv, WorldOK
<1>6. LoopOK'
  <2>1. next' \in 1..(Len(prs) + 1)
    BY <1>1, <1>2
  <2>2. \A k \in DOMAIN prs : fetch'[prs[k]] = "off" <=> k >= next + 1
    <3> SUFFICES ASSUME NEW k \in DOMAIN prs
                 PROVE  fetch'[prs[k]] = "off" <=> k >= next + 1
      OBVIOUS
    <3>1. prs[k] \in PRs /\ k \in Nat /\ next \in Nat
      BY <1>1, <1>2
    <3>2. CASE k = next
      BY <1>3, <3>1, <3>2
    <3>3. CASE k # next
      <4>1. fetch'[prs[k]] = fetch[prs[k]]
        BY <1>1, <1>3, <3>1, <3>3 DEF Inv, LoopOK
      <4>2. fetch[prs[k]] = "off" <=> k >= next
        BY DEF Inv, LoopOK
      <4> QED
        BY <3>1, <3>3, <4>1, <4>2
    <3> QED
      BY <3>2, <3>3
  <2> QED
    BY <1>1, <2>1, <2>2 DEF Inv, LoopOK
<1>7. ShownOK'
  BY <1>1 DEF Inv, ShownOK
<1> QED
  BY <1>4, <1>5, <1>6, <1>7 DEF Inv

\* After a refresh, given up or published, nothing is being fetched.
LEMMA CleanKeeps ==
  ASSUME Inv, Clean, UNCHANGED <<world, moved>>,
         loop' \in {"author", "search", "start", "abort", "select", "returned"}
  PROVE  WorldOK' /\ FetchOK' /\ LoopOK'
<1>1. WorldOK'
  BY DEF Inv, WorldOK
<1>2. FetchOK'
  <2>1. \A n \in PRs : fetch'[n] = "off" /\ built'[n] = Pending
    BY DEF Clean
  <2>2. Busy' = {} /\ Cardinality({}) = 0
    BY <2>1, FS_EmptySet DEF Busy, Calls
  <2>3. sem' = Cardinality(Busy') /\ sem' \in Nat /\ sem' <= Width
    BY <2>2, DashboardAssumption DEF Clean
  <2>4. /\ fetch' \in [PRs -> Stages]
        /\ DOMAIN built' = PRs /\ DOMAIN got' = PRs
    BY DEF Clean, Stages
  <2> QED
    BY <2>1, <2>3, <2>4 DEF FetchOK
<1>3. LoopOK'
  BY DEF LoopOK, Clean
<1> QED
  BY <1>1, <1>2, <1>3

LEMMA ListOpenPRsKeeps == Inv /\ ListOpenPRs => Inv'
<1> SUFFICES ASSUME Inv, ListOpenPRs PROVE Inv'
  OBVIOUS
<1>1. /\ loop = "search" /\ prs = <<>> /\ next = 1
      /\ \A n \in PRs : fetch[n] = "off"
  BY DEF Inv, LoopOK, ListOpenPRs
<1>2. /\ UNCHANGED <<world, moved, known, next, fetch, got, built, sem>>
      /\ UNCHANGED <<entries, loaded, poke, stale, page, down>>
  BY DEF ListOpenPRs, github, fetches, shown, http
<1>3. WorldOK' /\ FetchOK' /\ ShownOK'
  BY <1>2 DEF Inv, WorldOK, FetchOK, ShownOK, Busy
<1>4. LoopOK'
  <2>1. CASE loop' = "select" /\ UNCHANGED prs
    BY <1>1, <1>2, <2>1 DEF LoopOK, Inv
  <2>2. CASE prs' = ListOpenPRsByAuthor /\ loop' = "start"
    <3> DEFINE K == {k \in DOMAIN Search : world[Search[k]].listed}
    <3>1. Search \in Seq(PRs) /\ K \in SUBSET (DOMAIN Search)
      BY DashboardAssumption
    <3>2. prs' = Filter(Search, K)
      BY <2>2 DEF ListOpenPRsByAuthor
    <3> HIDE DEF K
    <3>3. prs' \in Seq(PRs) /\ \A j, k \in DOMAIN prs' : prs'[j] = prs'[k] => j = k
      BY <3>1, <3>2, SearchOnce, FilterType
    <3>4. \A k \in DOMAIN prs' : prs'[k] \in PRs /\ k >= 1
      BY <3>3
    <3>5. next' \in 1..(Len(prs') + 1)
      BY <1>1, <1>2, <3>3
    <3> QED
      BY <1>1, <1>2, <2>2, <3>3, <3>4, <3>5 DEF LoopOK
  <2> QED
    BY <2>1, <2>2 DEF ListOpenPRs
<1> QED
  BY <1>3, <1>4 DEF Inv

\* When the last goroutine has ended, each pull request of the search has an entry
\* of its own, or was skipped.
LEMMA AllBuilt ==
  ASSUME Inv, Publish
  PROVE  /\ prs \in Seq(PRs)
         /\ \A k \in DOMAIN prs :
              built[prs[k]] = Skipped \/ IsEntry(prs[k], built[prs[k]])
<1>1. prs \in Seq(PRs) /\ \A k \in DOMAIN prs : prs[k] \in PRs
  BY DEF Inv, LoopOK
<1>2. \A k \in DOMAIN prs : fetch[prs[k]] = "over"
  <2> SUFFICES ASSUME NEW k \in DOMAIN prs PROVE fetch[prs[k]] = "over"
    OBVIOUS
  <2>1. next \in 1..(Len(prs) + 1) /\ next \notin DOMAIN prs
    BY DEF Inv, LoopOK, Publish
  <2>2. k \in 1..Len(prs) /\ Len(prs) \in Nat /\ DOMAIN prs = 1..Len(prs)
    BY <1>1
  <2>3. ~(k >= next)
    BY <2>1, <2>2
  <2>4. fetch[prs[k]] # "off"
    BY <2>3 DEF Inv, LoopOK
  <2> QED
    BY <1>1, <2>4 DEF Publish, AllOver
<1> QED
  BY <1>1, <1>2 DEF Inv, FetchOK

\* The list that is published, position by position.
LEMMA Published ==
  ASSUME Inv, Publish
  PROVE  LET K == {k \in DOMAIN prs : built[prs[k]] # Skipped}
         IN  /\ DOMAIN entries' = 1..Cardinality(K)
             /\ \A j \in 1..Cardinality(K) :
                  /\ Position(K, j) \in K
                  /\ entries'[j] = built[prs[Position(K, j)]]
                  /\ IsEntry(prs[Position(K, j)], entries'[j])
<1> DEFINE K    == {k \in DOMAIN prs : built[prs[k]] # Skipped}
           rows == [k \in DOMAIN prs |-> built[prs[k]]]
<1>1. {k \in DOMAIN rows : rows[k] \notin {Pending, Skipped}} = K
  BY AllBuilt, EntriesDiffer
<1>2. entries' = Filter(rows, K)
  BY <1>1 DEF Publish, Collected
<1>3. K \in SUBSET (DOMAIN prs) /\ prs \in Seq(PRs)
  BY AllBuilt
<1>4. \A k \in K : rows[k] = built[prs[k]] /\ IsEntry(prs[k], rows[k])
  BY AllBuilt
<1> HIDE DEF K, rows
<1>5. \A j \in 1..Cardinality(K) : Position(K, j) \in K
  BY <1>3, Positions
<1>6. /\ DOMAIN entries' = 1..Cardinality(K)
      /\ \A j \in 1..Cardinality(K) : entries'[j] = rows[Position(K, j)]
  BY <1>2 DEF Filter
<1>7. \A j \in 1..Cardinality(K) :
        /\ entries'[j] = built[prs[Position(K, j)]]
        /\ IsEntry(prs[Position(K, j)], entries'[j])
  BY <1>4, <1>5, <1>6
<1> QED
  BY <1>5, <1>6, <1>7 DEF K

LEMMA PublishKeeps == Inv /\ Publish => Inv'
<1> SUFFICES ASSUME Inv, Publish PROVE Inv'
  OBVIOUS
<1>1. WorldOK' /\ FetchOK' /\ LoopOK'
  BY CleanKeeps DEF Publish, github
<1>2. \A j \in DOMAIN entries' :
        entries'[j].category \in {"mine", "conflict", "failed"}
  BY Published DEF IsEntry
<1>3. ShownOK'
  <2>1. /\ loaded' = TRUE
        /\ UNCHANGED <<known, poke, stale, page, down>>
    BY DEF Publish, http
  <2> QED
    BY <1>2, <2>1 DEF Inv, ShownOK
<1> QED
  BY <1>1, <1>3 DEF Inv

-----------------------------------------------------------------------------
(* The handlers and the world, and every step *)

\* The first read of a page is of loaded, and the second finds it still true.
LEMMA ReadyForReviewKeeps == Inv /\ ReadyForReview => Inv'
<1> SUFFICES ASSUME Inv, ReadyForReview PROVE Inv'
  OBVIOUS
<1>1. /\ UNCHANGED <<world, moved, known, loop, prs, next, fetch, got, built, sem>>
      /\ UNCHANGED <<entries, loaded, poke, stale, down>>
      /\ page' = Append(page, loaded)
      /\ (page = <<>> /\ ~loaded) \/ Len(page) = 1
  BY DEF ReadyForReview, github, fetches, shown
<1>2. WorldOK' /\ FetchOK' /\ LoopOK'
  BY <1>1 DEF Inv, WorldOK, FetchOK, LoopOK, Busy
<1>3. page \in Seq(BOOLEAN) /\ loaded \in BOOLEAN /\ Len(page) \in Nat
  BY DEF Inv, ShownOK
<1>4. page' \in Seq(BOOLEAN) /\ Len(page') = Len(page) + 1
  BY <1>1, <1>3
<1>5. CASE page = <<>> /\ ~loaded
  <2>1. Len(page') = 1 /\ page'[1] = loaded
    BY <1>1, <1>3, <1>4, <1>5
  <2>2. Len(page') <= 2 /\ Len(page') # 2
    BY <2>1
  <2> QED
    BY <1>1, <1>2, <1>4, <2>1, <2>2 DEF Inv, ShownOK
<1>6. CASE Len(page) = 1
  <2>1. Len(page') = 2 /\ page'[1] = page[1] /\ page'[2] = loaded
    BY <1>1, <1>3, <1>4, <1>6
  <2>2. Len(page') <= 2 /\ Len(page) >= 1
    BY <1>6, <2>1
  <2>3. page[1] => loaded
    BY <2>2 DEF Inv, ShownOK
  <2> QED
    BY <1>1, <1>2, <1>4, <2>1, <2>2, <2>3 DEF Inv, ShownOK
<1> QED
  BY <1>1, <1>5, <1>6

LEMMA ChangesKeeps == Inv /\ Changes => Inv'
<1> SUFFICES ASSUME Inv, Changes PROVE Inv'
  OBVIOUS
<1>1. UNCHANGED <<known, loop, prs, next, fetch, got, built, sem, entries, loaded>>
  BY DEF Changes, fetches, shown
<1>2. UNCHANGED <<poke, stale, page, down>>
  BY DEF Changes, http
<1>3. PICK n \in PRs : \E f \in Facts[n] \ {world[n]} :
        /\ world' = [world EXCEPT ![n] = f]
        /\ moved' = IF fetch[n] \in {"off", "state", "over"} THEN moved
                                                             ELSE moved \cup {n}
  BY DEF Changes
<1>4. WorldOK'
  <2>1. DOMAIN world' = PRs /\ \A m \in PRs : world'[m] \in Facts[m]
    BY <1>3 DEF Inv, WorldOK
  <2>2. moved' \subseteq PRs
    BY <1>3 DEF Inv, WorldOK
  <2> QED
    BY <2>1, <2>2 DEF WorldOK
<1>5. FetchOK' /\ LoopOK' /\ ShownOK'
  BY <1>1, <1>2 DEF Inv, FetchOK, LoopOK, ShownOK, Busy
<1> QED
  BY <1>4, <1>5 DEF Inv

\* The steps that touch neither the goroutines nor the list.
LEMMA OthersKeep ==
  ASSUME Inv, EnsureAuthor \/ Abort \/ Poked \/ Done \/ Tick \/ TriggerRefresh \/ Shutdown
  PROVE  Inv'
<1>1. /\ UNCHANGED <<world, moved, prs, next, fetch, got, built, sem>>
      /\ UNCHANGED <<entries, loaded, page>>
  BY DEF EnsureAuthor, Abort, Poked, Done, Tick, TriggerRefresh, Shutdown, Refresh,
         github, fetches, shown, http
<1>2. WorldOK' /\ FetchOK'
  BY <1>1 DEF Inv, WorldOK, FetchOK, Busy
<1>3. LoopOK'
  <2>1. \/ loop' = loop
        \/ loop = "start" /\ loop' = "abort"
        \/ loop \notin {"start", "abort"}
           /\ loop' \in {"author", "search", "select", "returned"}
    BY DEF EnsureAuthor, Abort, Poked, Done, Tick, TriggerRefresh, Shutdown, Refresh
  <2> QED
    BY <1>1, <2>1 DEF Inv, LoopOK
<1>4. ShownOK'
  <2>1. /\ known \in BOOLEAN /\ loaded \in BOOLEAN /\ poke \in BOOLEAN
        /\ stale \in BOOLEAN /\ down \in BOOLEAN
    BY DEF Inv, ShownOK
  <2>2. known' \in BOOLEAN
    BY <2>1 DEF EnsureAuthor, Abort, Poked, Done, Tick, TriggerRefresh, Shutdown, Refresh
  <2>3. poke' \in BOOLEAN /\ stale' \in BOOLEAN
    BY <2>1 DEF EnsureAuthor, Abort, Poked, Done, Tick, TriggerRefresh, Shutdown,
                Refresh, Token, http
  <2>4. down' \in BOOLEAN
    BY <2>1 DEF EnsureAuthor, Abort, Poked, Done, Tick, TriggerRefresh, Shutdown, Refresh
  <2> QED
    BY <1>1, <2>1, <2>2, <2>3, <2>4 DEF Inv, ShownOK
<1> QED
  BY <1>2, <1>3, <1>4 DEF Inv

LEMMA AbortedKeeps == Inv /\ Aborted => Inv'
<1> SUFFICES ASSUME Inv, Aborted PROVE Inv'
  OBVIOUS
<1>1. WorldOK' /\ FetchOK' /\ LoopOK'
  BY CleanKeeps DEF Aborted, github
<1>2. ShownOK'
  BY DEF Aborted, shown, http, Inv, ShownOK
<1> QED
  BY <1>1, <1>2 DEF Inv

LEMMA StepInv == Inv /\ [DashNext]_dashVars => Inv'
<1> SUFFICES ASSUME Inv, [DashNext]_dashVars PROVE Inv'
  OBVIOUS
<1>1. CASE StartFetch
  BY <1>1, StartFetchKeeps
<1>2. CASE ListOpenPRs
  BY <1>2, ListOpenPRsKeeps
<1>3. CASE Publish
  BY <1>3, PublishKeeps
<1>4. CASE Aborted
  BY <1>4, AbortedKeeps
<1>5. CASE ReadyForReview
  BY <1>5, ReadyForReviewKeeps
<1>6. CASE Changes
  BY <1>6, ChangesKeeps
<1>7. CASE \E n \in PRs : EntryFor(n)
  BY <1>7, EntryForKeeps
<1>8. CASE EnsureAuthor \/ Abort \/ Poked \/ Done \/ Tick \/ TriggerRefresh \/ Shutdown
  BY <1>8, OthersKeep
<1>9. CASE UNCHANGED dashVars
  <2>1. /\ UNCHANGED <<world, moved, prs, next, fetch, got, built, sem>>
        /\ UNCHANGED <<entries, loaded, page, known, loop, poke, stale, down>>
    BY <1>9 DEF dashVars
  <2> QED
    BY <2>1 DEF Inv, WorldOK, FetchOK, LoopOK, ShownOK, Busy
<1> QED
  BY <1>1, <1>2, <1>3, <1>4, <1>5, <1>6, <1>7, <1>8, <1>9 DEF DashNext, LoopStep

LEMMA AlwaysInv == DashSpec => []Inv
BY InitInv, StepInv, PTL DEF DashSpec

-----------------------------------------------------------------------------
(* The results *)

\* Every variable keeps its type and the semaphore is exactly the goroutines that
\* run, never more than its capacity: no path of entryFor leaks a place or gives
\* one back twice (dashboard.go:150-165).
THEOREM DashTypeCorrect == DashSpec => []DashTypeOK
BY AlwaysInv, InvMeans, PTL

\* The page is never told "loaded" with the empty list of before the first
\* refresh: readyForReview reads loaded first, and loaded is never taken back.
THEOREM LoadedIsLoaded == DashSpec => []LoadedMeansList
BY AlwaysInv, InvMeans, PTL

\* In whatever order the goroutines end, the list that Refresh publishes has every
\* pull request of the search but those whose own lookup failed, in its order.
THEOREM ListPublishedWhole == DashSpec => ListIsWhole
<1> DEFINE Whole == Publish =>
             [k \in DOMAIN entries' |-> entries'[k].num] =
             Filter(prs, {k \in DOMAIN prs : built[prs[k]] # Skipped})
<1>1. Inv => Whole
  <2> SUFFICES ASSUME Inv, Publish
               PROVE  [k \in DOMAIN entries' |-> entries'[k].num] =
                      Filter(prs, {k \in DOMAIN prs : built[prs[k]] # Skipped})
    OBVIOUS
  <2> DEFINE K == {k \in DOMAIN prs : built[prs[k]] # Skipped}
  <2>1. /\ DOMAIN entries' = 1..Cardinality(K)
        /\ \A j \in 1..Cardinality(K) : IsEntry(prs[Position(K, j)], entries'[j])
    BY Published
  <2> HIDE DEF K
  <2>2. \A j \in 1..Cardinality(K) : entries'[j].num = prs[Position(K, j)]
    BY <2>1 DEF IsEntry
  <2>3. [k \in DOMAIN entries' |-> entries'[k].num] = Filter(prs, K)
    BY <2>1, <2>2 DEF Filter
  <2> QED
    BY <2>3 DEF K
<1>2. Inv /\ [DashNext]_dashVars => [Whole]_dashVars
  BY <1>1
<1> QED
  BY <1>2, AlwaysInv, PTL DEF DashSpec, ListIsWhole

-----------------------------------------------------------------------------
(* The map of the checks: what CheckRuns folds, for every list of reports *)

\* Every set of numbers has a least one: the induction on a list of reports is the
\* least position where the claim fails.
LEMMA Least ==
  ASSUME NEW T \in SUBSET Nat, T # {}
  PROVE  \E m \in T : \A k \in T : m <= k
<1> DEFINE R == OpToRel(<, Nat)
<1>1. IsWellFoundedOn(R, Nat)
  BY NatLessThanWellFounded
<1>2. \A j, k \in Nat : <<j, k>> \in R <=> j < k
  BY DEF OpToRel
<1> HIDE DEF R
<1>3. PICK m \in T : \A k \in T : ~(<<k, m>> \in R)
  BY <1>1, WFMin
<1>4. \A k \in T : ~(k < m)
  BY <1>2, <1>3, Zenon
<1> QED
  BY <1>4

RunsFrom(byName, runs, map, n) ==
  map = [k \in 0..n |-> IF k = 0 THEN byName ELSE AddRun(map[k - 1], runs[k])]

\* The loop over the runs has a map after each of them.
LEMMA RunsFolded ==
  ASSUME NEW byName, NEW runs
  PROVE  \A n \in Nat : \E map : RunsFrom(byName, runs, map, n)
<1> DEFINE T == {n \in Nat : ~\E map : RunsFrom(byName, runs, map, n)}
<1>1. SUFFICES ASSUME T # {} PROVE FALSE
  OBVIOUS
<1>2. PICK n \in T : \A k \in T : n <= k
  BY <1>1, Least
<1>3. n \in Nat /\ ~\E map : RunsFrom(byName, runs, map, n)
  BY <1>2
<1>4. CASE n = 0
  <2> DEFINE map == [k \in 0..0 |-> byName]
  <2>1. RunsFrom(byName, runs, map, 0)
    BY DEF RunsFrom
  <2> QED
    BY <1>3, <1>4, <2>1
<1>5. CASE n # 0
  <2>1. n - 1 \in Nat /\ n - 1 \notin T
    BY <1>2, <1>3, <1>5
  <2>2. PICK g : RunsFrom(byName, runs, g, n - 1)
    BY <2>1
  <2> DEFINE map == [k \in 0..n |-> IF k = n THEN AddRun(g[n - 1], runs[n]) ELSE g[k]]
  <2>3. \A k \in 0..(n - 1) :
          g[k] = IF k = 0 THEN byName ELSE AddRun(g[k - 1], runs[k])
    BY <2>1, <2>2 DEF RunsFrom
  <2>4. \A k \in 0..n : map[k] = IF k = 0 THEN byName ELSE AddRun(map[k - 1], runs[k])
    <3> SUFFICES ASSUME NEW k \in 0..n
                 PROVE  map[k] = IF k = 0 THEN byName ELSE AddRun(map[k - 1], runs[k])
      OBVIOUS
    <3>1. CASE k = n
      <4>1. k - 1 \in 0..n /\ k - 1 # n /\ k # 0
        BY <1>3, <1>5, <3>1
      <4> QED
        BY <3>1, <4>1
    <3>2. CASE k # n
      <4>1. k \in 0..(n - 1)
        BY <1>3, <3>2
      <4>2. k # 0 => k - 1 \in 0..n /\ k - 1 # n
        BY <1>3, <3>2
      <4> QED
        BY <2>3, <3>2, <4>1, <4>2
    <3> QED
      BY <3>1, <3>2
  <2>5. RunsFrom(byName, runs, map, n)
    BY <2>4 DEF RunsFrom
  <2> QED
    BY <1>3, <2>5
<1> QED
  BY <1>4, <1>5

\* ... so AddRuns is where those maps end.
LEMMA RunsUnfold ==
  ASSUME NEW byName, NEW S, NEW runs \in Seq(S)
  PROVE  \E map :
           /\ map[0] = byName
           /\ \A k \in 1..Len(runs) : map[k] = AddRun(map[k - 1], runs[k])
           /\ AddRuns(byName, runs) = map[Len(runs)]
<1>1. Len(runs) \in Nat
  OBVIOUS
<1> DEFINE map == CHOOSE g : RunsFrom(byName, runs, g, Len(runs))
<1>2. RunsFrom(byName, runs, map, Len(runs))
  BY <1>1, RunsFolded
<1>3. AddRuns(byName, runs) = map[Len(runs)]
  BY DEF AddRuns, RunsFrom
<1> HIDE DEF map
<1>4. \A k \in 0..Len(runs) :
        map[k] = IF k = 0 THEN byName ELSE AddRun(map[k - 1], runs[k])
  BY <1>2 DEF RunsFrom
<1>5. map[0] = byName
  BY <1>1, <1>4
<1>6. \A k \in 1..Len(runs) : map[k] = AddRun(map[k - 1], runs[k])
  BY <1>1, <1>4
<1> QED
  BY <1>3, <1>5, <1>6

\* What the map holds after the first n runs: of each name seen, the last run to
\* complete if there is one, and else one that has not completed.
LastDone(runs, k, n) ==
  /\ runs[k].status = "completed"
  /\ \A j \in 1..n :
       runs[j].name = runs[k].name /\ runs[j].status = "completed" => j <= k

RunsKept(runs, map, n) ==
  /\ DOMAIN map = {runs[k].name : k \in 1..n}
  /\ \A name \in DOMAIN map :
       \/ \E k \in 1..n : /\ runs[k].name = name /\ LastDone(runs, k, n)
                          /\ map[name] = OfRun(runs[k])
       \/ /\ \A k \in 1..n : runs[k].name = name => runs[k].status # "completed"
          /\ ~map[name].completed

LEMMA RunsKeptStep ==
  ASSUME NEW runs, NEW map, NEW n \in Nat \ {0}, RunsKept(runs, map, n - 1)
  PROVE  RunsKept(runs, AddRun(map, runs[n]), n)
<1> DEFINE run == runs[n]  after == AddRun(map, run)
<1>1. /\ 1..n = 1..(n - 1) \cup {n} /\ n \notin 1..(n - 1)
      /\ \A k \in 1..(n - 1) : k \in Nat /\ k <= n
  OBVIOUS
<1>2. DOMAIN map = {runs[k].name : k \in 1..(n - 1)}
  BY DEF RunsKept
<1>3. DOMAIN after = DOMAIN map \cup {run.name}
  BY DEF AddRun, Put
<1>4. DOMAIN after = {runs[k].name : k \in 1..n}
  BY <1>1, <1>2, <1>3
<1>5. ASSUME NEW name \in DOMAIN after
      PROVE  \/ \E k \in 1..n : /\ runs[k].name = name /\ LastDone(runs, k, n)
                                /\ after[name] = OfRun(runs[k])
             \/ /\ \A k \in 1..n : runs[k].name = name => runs[k].status # "completed"
                /\ ~after[name].completed
  <2>1. CASE name # run.name
    <3>1. name \in DOMAIN map /\ after[name] = map[name]
      BY <1>3, <2>1 DEF AddRun, Put
    <3>2. CASE \E k \in 1..(n - 1) : /\ runs[k].name = name /\ LastDone(runs, k, n - 1)
                                     /\ map[name] = OfRun(runs[k])
      BY <1>1, <2>1, <3>1, <3>2 DEF LastDone
    <3>3. CASE /\ \A k \in 1..(n - 1) :
                    runs[k].name = name => runs[k].status # "completed"
               /\ ~map[name].completed
      BY <1>1, <2>1, <3>1, <3>3
    <3> QED
      BY <3>1, <3>2, <3>3 DEF RunsKept
  <2>2. CASE name = run.name /\ run.status = "completed"
    <3>1. after[name] = OfRun(run)
      BY <2>2 DEF AddRun, Put
    <3>2. LastDone(runs, n, n)
      BY <2>2 DEF LastDone
    <3> QED
      BY <2>2, <3>1, <3>2
  <2>3. CASE name = run.name /\ run.status # "completed"
    <3>1. CASE name \in DOMAIN map /\ map[name].completed
      <4>1. after[name] = map[name]
        BY <2>3, <3>1 DEF AddRun
      <4>2. PICK k \in 1..(n - 1) : /\ runs[k].name = name /\ LastDone(runs, k, n - 1)
                                    /\ map[name] = OfRun(runs[k])
        BY <3>1 DEF RunsKept
      <4>3. LastDone(runs, k, n)
        BY <1>1, <2>3, <4>2 DEF LastDone
      <4> QED
        BY <1>1, <4>1, <4>2, <4>3
    <3>2. CASE ~(name \in DOMAIN map /\ map[name].completed)
      <4>1. after[name] = OfRun(run)
        BY <2>3, <3>2 DEF AddRun, Put
      <4>2. ~after[name].completed
        <5>1. OfRun(run).completed <=> run.status = "completed"
          BY DEF OfRun
        <5> QED
          BY <2>3, <4>1, <5>1, Zenon
      <4>3. ASSUME NEW k \in 1..(n - 1), runs[k].name = name
            PROVE  runs[k].status # "completed"
        <5>1. name \in DOMAIN map
          BY <1>2, <4>3
        <5>2. \A j : OfRun(runs[j]).completed <=> runs[j].status = "completed"
          BY DEF OfRun
        <5>3. ~\E j \in 1..(n - 1) : /\ runs[j].name = name /\ LastDone(runs, j, n - 1)
                                     /\ map[name] = OfRun(runs[j])
          BY <3>2, <5>1, <5>2 DEF LastDone
        <5> QED
          BY <4>3, <5>1, <5>3 DEF RunsKept
      <4>4. \A k \in 1..n : runs[k].name = name => runs[k].status # "completed"
        <5> HIDE DEF after
        <5> QED
          BY <1>1, <2>3, <4>3
      <4> QED
        BY <4>2, <4>4
    <3> QED
      BY <3>1, <3>2
  <2> QED
    BY <2>1, <2>2, <2>3
<1> QED
  BY <1>4, <1>5 DEF RunsKept

LEMMA RunsMeaning ==
  ASSUME NEW S, NEW runs \in Seq(S)
  PROVE  RunsKept(runs, AddRuns(NoRuns, runs), Len(runs))
<1>1. PICK map :
        /\ map[0] = NoRuns
        /\ \A k \in 1..Len(runs) : map[k] = AddRun(map[k - 1], runs[k])
        /\ AddRuns(NoRuns, runs) = map[Len(runs)]
  BY RunsUnfold
<1>2. Len(runs) \in Nat
  OBVIOUS
<1> DEFINE T == {n \in 0..Len(runs) : ~RunsKept(runs, map[n], n)}
<1>3. T = {}
  <2>1. SUFFICES ASSUME T # {} PROVE FALSE
    OBVIOUS
  <2>2. T \in SUBSET Nat
    BY <1>2
  <2>3. PICK n \in T : \A k \in T : n <= k
    BY <2>1, <2>2, Least
  <2>4. n \in 0..Len(runs) /\ n \in Nat /\ ~RunsKept(runs, map[n], n)
    BY <2>2, <2>3
  <2>5. RunsKept(runs, map[0], 0)
    BY <1>1 DEF RunsKept, NoRuns
  <2>6. n \in 1..Len(runs) /\ n - 1 \in 0..Len(runs) /\ ~(n <= n - 1)
    BY <1>2, <2>4, <2>5
  <2>7. RunsKept(runs, map[n - 1], n - 1)
    BY <2>3, <2>6
  <2>8. RunsKept(runs, AddRun(map[n - 1], runs[n]), n)
    BY <2>4, <2>6, <2>7, RunsKeptStep
  <2> QED
    BY <1>1, <2>4, <2>6, <2>8
<1> QED
  BY <1>1, <1>2, <1>3

\* The same for the loop over the statuses.
StatusesFrom(byName, statuses, map, n) ==
  map = [k \in 0..n |-> IF k = 0 THEN byName ELSE AddStatus(map[k - 1], statuses[k])]

LEMMA StatusesFolded ==
  ASSUME NEW byName, NEW statuses
  PROVE  \A n \in Nat : \E map : StatusesFrom(byName, statuses, map, n)
<1> DEFINE T == {n \in Nat : ~\E map : StatusesFrom(byName, statuses, map, n)}
<1>1. SUFFICES ASSUME T # {} PROVE FALSE
  OBVIOUS
<1>2. PICK n \in T : \A k \in T : n <= k
  BY <1>1, Least
<1>3. n \in Nat /\ ~\E map : StatusesFrom(byName, statuses, map, n)
  BY <1>2
<1>4. CASE n = 0
  <2> DEFINE map == [k \in 0..0 |-> byName]
  <2>1. StatusesFrom(byName, statuses, map, 0)
    BY DEF StatusesFrom
  <2> QED
    BY <1>3, <1>4, <2>1
<1>5. CASE n # 0
  <2>1. n - 1 \in Nat /\ n - 1 \notin T
    BY <1>2, <1>3, <1>5
  <2>2. PICK g : StatusesFrom(byName, statuses, g, n - 1)
    BY <2>1
  <2> DEFINE map == [k \in 0..n |->
                       IF k = n THEN AddStatus(g[n - 1], statuses[n]) ELSE g[k]]
  <2>3. \A k \in 0..(n - 1) :
          g[k] = IF k = 0 THEN byName ELSE AddStatus(g[k - 1], statuses[k])
    BY <2>1, <2>2 DEF StatusesFrom
  <2>4. \A k \in 0..n :
          map[k] = IF k = 0 THEN byName ELSE AddStatus(map[k - 1], statuses[k])
    <3> SUFFICES ASSUME NEW k \in 0..n
                 PROVE  map[k] = IF k = 0 THEN byName
                                          ELSE AddStatus(map[k - 1], statuses[k])
      OBVIOUS
    <3>1. CASE k = n
      <4>1. k - 1 \in 0..n /\ k - 1 # n /\ k # 0
        BY <1>3, <1>5, <3>1
      <4> QED
        BY <3>1, <4>1
    <3>2. CASE k # n
      <4>1. k \in 0..(n - 1)
        BY <1>3, <3>2
      <4>2. k # 0 => k - 1 \in 0..n /\ k - 1 # n
        BY <1>3, <3>2
      <4> QED
        BY <2>3, <3>2, <4>1, <4>2
    <3> QED
      BY <3>1, <3>2
  <2>5. StatusesFrom(byName, statuses, map, n)
    BY <2>4 DEF StatusesFrom
  <2> QED
    BY <1>3, <2>5
<1> QED
  BY <1>4, <1>5

LEMMA StatusesUnfold ==
  ASSUME NEW byName, NEW S, NEW statuses \in Seq(S)
  PROVE  \E map :
           /\ map[0] = byName
           /\ \A k \in 1..Len(statuses) : map[k] = AddStatus(map[k - 1], statuses[k])
           /\ AddStatuses(byName, statuses) = map[Len(statuses)]
<1>1. Len(statuses) \in Nat
  OBVIOUS
<1> DEFINE map == CHOOSE g : StatusesFrom(byName, statuses, g, Len(statuses))
<1>2. StatusesFrom(byName, statuses, map, Len(statuses))
  BY <1>1, StatusesFolded
<1>3. AddStatuses(byName, statuses) = map[Len(statuses)]
  BY DEF AddStatuses, StatusesFrom
<1> HIDE DEF map
<1>4. \A k \in 0..Len(statuses) :
        map[k] = IF k = 0 THEN byName ELSE AddStatus(map[k - 1], statuses[k])
  BY <1>2 DEF StatusesFrom
<1>5. map[0] = byName
  BY <1>1, <1>4
<1>6. \A k \in 1..Len(statuses) : map[k] = AddStatus(map[k - 1], statuses[k])
  BY <1>1, <1>4
<1> QED
  BY <1>3, <1>5, <1>6

\* What the map holds after the first n statuses: the runs it had, and of each
\* other name the first status.
FirstOf(statuses, k) ==
  \A j \in 1..(k - 1) : statuses[j].context # statuses[k].context

StatusesKept(byName, statuses, map, n) ==
  /\ DOMAIN map = DOMAIN byName \cup {statuses[k].context : k \in 1..n}
  /\ \A name \in DOMAIN byName : map[name] = byName[name]
  /\ \A name \in DOMAIN map \ DOMAIN byName :
       \E k \in 1..n : /\ statuses[k].context = name /\ FirstOf(statuses, k)
                       /\ map[name] = OfStatus(statuses[k])

LEMMA StatusesKeptStep ==
  ASSUME NEW byName, NEW statuses, NEW map, NEW n \in Nat \ {0},
         StatusesKept(byName, statuses, map, n - 1)
  PROVE  StatusesKept(byName, statuses, AddStatus(map, statuses[n]), n)
<1> DEFINE c == statuses[n].context  after == AddStatus(map, statuses[n])
<1>1. 1..n = 1..(n - 1) \cup {n}
  OBVIOUS
<1>2. DOMAIN map = DOMAIN byName \cup {statuses[k].context : k \in 1..(n - 1)}
  BY DEF StatusesKept
<1>3. DOMAIN after = DOMAIN map \cup {c}
  BY DEF AddStatus, Put
<1>4. \A name \in DOMAIN map : after[name] = map[name]
  BY DEF AddStatus, Put
<1>5. c \notin DOMAIN map => after[c] = OfStatus(statuses[n]) /\ FirstOf(statuses, n)
  BY <1>2 DEF AddStatus, Put, FirstOf
<1> HIDE DEF after
<1>6. DOMAIN after = DOMAIN byName \cup {statuses[k].context : k \in 1..n}
  BY <1>1, <1>2, <1>3
<1>7. \A name \in DOMAIN byName : after[name] = byName[name]
  BY <1>2, <1>4 DEF StatusesKept
<1>8. ASSUME NEW name \in DOMAIN after \ DOMAIN byName
      PROVE  \E k \in 1..n : /\ statuses[k].context = name /\ FirstOf(statuses, k)
                             /\ after[name] = OfStatus(statuses[k])
  <2>1. CASE name \in DOMAIN map
    <3>1. PICK k \in 1..(n - 1) : /\ statuses[k].context = name /\ FirstOf(statuses, k)
                                  /\ map[name] = OfStatus(statuses[k])
      BY <1>8, <2>1 DEF StatusesKept
    <3> QED
      BY <1>1, <1>4, <2>1, <3>1
  <2>2. CASE name \notin DOMAIN map
    BY <1>1, <1>3, <1>5, <1>8, <2>2
  <2> QED
    BY <2>1, <2>2
<1> QED
  BY <1>6, <1>7, <1>8 DEF StatusesKept, after

LEMMA StatusesMeaning ==
  ASSUME NEW byName, NEW S, NEW statuses \in Seq(S)
  PROVE  StatusesKept(byName, statuses, AddStatuses(byName, statuses), Len(statuses))
<1>1. PICK map :
        /\ map[0] = byName
        /\ \A k \in 1..Len(statuses) : map[k] = AddStatus(map[k - 1], statuses[k])
        /\ AddStatuses(byName, statuses) = map[Len(statuses)]
  BY StatusesUnfold
<1>2. Len(statuses) \in Nat
  OBVIOUS
<1> DEFINE T == {n \in 0..Len(statuses) : ~StatusesKept(byName, statuses, map[n], n)}
<1>3. T = {}
  <2>1. SUFFICES ASSUME T # {} PROVE FALSE
    OBVIOUS
  <2>2. T \in SUBSET Nat
    BY <1>2
  <2>3. PICK n \in T : \A k \in T : n <= k
    BY <2>1, <2>2, Least
  <2>4. /\ n \in 0..Len(statuses) /\ n \in Nat
        /\ ~StatusesKept(byName, statuses, map[n], n)
    BY <2>2, <2>3
  <2>5. StatusesKept(byName, statuses, map[0], 0)
    <3>1. 1..0 = {}
      OBVIOUS
    <3>2. {statuses[k].context : k \in 1..0} = {}
      BY <3>1
    <3> QED
      BY <1>1, <3>2 DEF StatusesKept
  <2>6. n \in 1..Len(statuses) /\ n - 1 \in 0..Len(statuses) /\ ~(n <= n - 1)
    BY <1>2, <2>4, <2>5
  <2>7. StatusesKept(byName, statuses, map[n - 1], n - 1)
    BY <2>3, <2>6
  <2>8. StatusesKept(byName, statuses, AddStatus(map[n - 1], statuses[n]), n)
    BY <2>4, <2>6, <2>7, StatusesKeptStep
  <2> QED
    BY <1>1, <2>4, <2>6, <2>8
<1> QED
  BY <1>1, <1>2, <1>3

\* So a map with a failed check and none that is pending means what Failing says.
LEMMA ChecksAreFailing ==
  ASSUME NEW n \in PRs, NEW f \in Facts[n], NEW g \in Facts[n],
         LET checks == AddStatuses(AddRuns(NoRuns, f.runs), g.statuses)
         IN  AnyFailed(checks) /\ ~AnyPending(checks)
  PROVE  Failing(f.runs, g.statuses)
<1> DEFINE runs == f.runs  sts == g.statuses
           byName == AddRuns(NoRuns, runs)
           checks == AddStatuses(byName, sts)
           named == {runs[k].name : k \in DOMAIN runs}
           done == {runs[k].name : k \in {j \in DOMAIN runs : runs[j].status = "completed"}}
           alone(k) == /\ sts[k].context \notin named
                       /\ \A j \in 1..(k - 1) : sts[j].context # sts[k].context
           last(k) == \A j \in DOMAIN runs :
                        runs[j].name = runs[k].name /\ runs[j].status = "completed" => j <= k
           bad(k) == runs[k].status = "completed" /\ ~CheckSucceeded(runs[k].conclusion)
<1>1. /\ runs \in Seq(ToSet(runs)) /\ DOMAIN runs = 1..Len(runs) /\ Len(runs) \in Nat
      /\ sts \in Seq(ToSet(sts)) /\ DOMAIN sts = 1..Len(sts) /\ Len(sts) \in Nat
  BY DashboardAssumption
<1>2. RunsKept(runs, byName, Len(runs))
  BY <1>1, RunsMeaning
<1>3. StatusesKept(byName, sts, checks, Len(sts))
  BY <1>1, StatusesMeaning
<1>4. AnyFailed(checks) /\ ~AnyPending(checks)
  OBVIOUS
<1> HIDE DEF byName, checks, runs, sts
<1>5. DOMAIN byName = named /\ named \subseteq DOMAIN checks
  BY <1>1, <1>2, <1>3 DEF RunsKept, StatusesKept
<1>6. \A c \in DOMAIN checks : checks[c].completed
  BY <1>4 DEF AnyPending
<1>7. \A c \in named :
        \E k \in DOMAIN runs : /\ runs[k].name = c /\ LastDone(runs, k, Len(runs))
                               /\ checks[c] = OfRun(runs[k])
  <2> SUFFICES ASSUME NEW c \in named
               PROVE  \E k \in DOMAIN runs :
                         /\ runs[k].name = c /\ LastDone(runs, k, Len(runs))
                         /\ checks[c] = OfRun(runs[k])
    OBVIOUS
  <2>1. c \in DOMAIN byName /\ checks[c] = byName[c] /\ byName[c].completed
    BY <1>3, <1>5, <1>6 DEF StatusesKept
  <2> QED
    BY <1>1, <1>2, <2>1 DEF RunsKept
<1>8. \A c \in DOMAIN checks \ named :
        \E k \in DOMAIN sts : /\ sts[k].context = c /\ FirstOf(sts, k)
                              /\ checks[c] = OfStatus(sts[k])
  BY <1>1, <1>3, <1>5 DEF StatusesKept
<1>9. named = done
  <2>1. \A c \in named : \E k \in DOMAIN runs :
          runs[k].name = c /\ runs[k].status = "completed"
    BY <1>7 DEF LastDone
  <2>2. named \subseteq done
    BY <2>1
  <2>3. done \subseteq named
    OBVIOUS
  <2> QED
    BY <2>2, <2>3
<1>10. \A k \in DOMAIN sts : alone(k) => sts[k].state # "pending"
  <2> SUFFICES ASSUME NEW k \in DOMAIN sts, alone(k) PROVE sts[k].state # "pending"
    OBVIOUS
  <2>1. sts[k].context \in DOMAIN checks \ named
    BY <1>1, <1>3 DEF StatusesKept
  <2>2. PICK j \in DOMAIN sts : /\ sts[j].context = sts[k].context /\ FirstOf(sts, j)
                                /\ checks[sts[k].context] = OfStatus(sts[j])
    BY <1>8, <2>1
  <2>3. j = k
    <3>1. ~(j < k) /\ ~(k < j)
      BY <1>1, <2>2 DEF FirstOf
    <3> QED
      BY <1>1, <3>1
  <2>4. OfStatus(sts[k]).completed
    BY <1>6, <2>1, <2>2, <2>3
  <2>5. OfStatus(sts[k]).completed <=> sts[k].state \in {"success", "failure", "error"}
    BY DEF OfStatus
  <2> QED
    BY <2>4, <2>5
<1>11. \/ \E k \in DOMAIN runs : last(k) /\ bad(k)
       \/ \E k \in DOMAIN sts : alone(k) /\ sts[k].state \in {"failure", "error"}
  <2>1. PICK c \in DOMAIN checks : ~CheckSucceeded(checks[c].conclusion)
    BY <1>4 DEF AnyFailed
  <2>2. CASE c \in named
    <3>1. PICK k \in DOMAIN runs : /\ runs[k].name = c /\ LastDone(runs, k, Len(runs))
                                   /\ checks[c] = OfRun(runs[k])
      BY <1>7, <2>2
    <3>2. checks[c].conclusion = runs[k].conclusion
      BY <3>1 DEF OfRun
    <3>3. last(k) /\ bad(k)
      BY <1>1, <2>1, <3>1, <3>2 DEF LastDone
    <3> QED
      BY <3>3
  <2>3. CASE c \notin named
    <3>1. PICK k \in DOMAIN sts : /\ sts[k].context = c /\ FirstOf(sts, k)
                                  /\ checks[c] = OfStatus(sts[k])
      BY <1>8, <2>3
    <3>2. OfStatus(sts[k]).completed /\ ~CheckSucceeded(OfStatus(sts[k]).conclusion)
      BY <1>6, <2>1, <3>1
    <3>3. sts[k].state \in {"failure", "error"}
      BY <3>2 DEF OfStatus, CheckSucceeded
    <3> QED
      BY <2>3, <3>1, <3>3 DEF FirstOf
  <2> QED
    BY <2>2, <2>3
<1> HIDE DEF named, done, alone, last, bad
<1>12. (\/ \E k \in DOMAIN runs : last(k) /\ bad(k)
        \/ \E k \in DOMAIN sts : alone(k) /\ sts[k].state \in {"failure", "error"})
       /\ named = done
       /\ \A k \in DOMAIN sts : alone(k) => sts[k].state # "pending"
  BY <1>9, <1>10, <1>11
<1> QED
  BY <1>12, Zenon DEF Failing, runs, sts, named, done, alone, last, bad

-----------------------------------------------------------------------------
(* The triage *)

\* The fields of what a goroutine knows, and the facts of the commit g.head.
Fields == {"state", "head", "queued", "behind", "checks"}
Its(n, g) == {f \in Facts[n] : f.head = g.head}

\* What a goroutine knows at each call, whatever has changed since: everything is
\* about one commit.
OfCommit(n, g, call) ==
  /\ call \in {"comments", "review", "compare", "runs", "statuses"} =>
       \E f \in Its(n, g) : f.state = g.state
  /\ call \in {"compare", "runs", "statuses"} => g.state = "blocked"
  /\ call \in {"runs", "statuses"} => \E f \in Its(n, g) : g.behind = f.behind
  /\ call = "statuses" => \E f \in Its(n, g) : g.checks = AddRuns(NoRuns, f.runs)

\* What it knows of a pull request that has not changed.
Known(g, f, call) ==
  /\ call \in {"comments", "review", "compare", "runs", "statuses"} =>
       g.state = f.state /\ g.head = f.head
  /\ call \in {"review", "compare", "runs", "statuses"} => f.state # "dirty"
  /\ call \in {"compare", "runs", "statuses"} => f.state = "blocked" /\ Approved(f)
  /\ call \in {"runs", "statuses"} => g.behind = f.behind
  /\ call = "statuses" => g.checks = AddRuns(NoRuns, f.runs)

KnowsAt(n, g, call) ==
  /\ DOMAIN g = Fields
  /\ OfCommit(n, g, call)
  /\ n \notin moved => Known(g, world[n], call)

Knows(n) == KnowsAt(n, got[n], fetch[n])

KnowInv == \A n \in PRs : Knows(n)

LEMMA NothingKnown ==
  /\ DOMAIN Nothing = Fields
  /\ \A g, f : /\ Known(g, f, "off") /\ Known(g, f, "over") /\ Known(g, f, "state")
  /\ \A n, g : OfCommit(n, g, "off") /\ OfCommit(n, g, "over") /\ OfCommit(n, g, "state")
BY DEF Nothing, Known, OfCommit, Fields

LEMMA FinishEffect ==
  ASSUME Inv, NEW n \in PRs, NEW e, Finish(n, e)
  PROVE  fetch'[n] = "over" /\ built'[n] = e /\ got'[n] = Nothing
BY DEF Finish, Inv, FetchOK

LEMMA GoEffect ==
  ASSUME Inv, NEW n \in PRs, NEW c, Go(n, c)
  PROVE  /\ fetch'[n] = c /\ built' = built /\ moved' = moved
         /\ UNCHANGED got => got'[n] = got[n]
         /\ \A g : Learn(n, g) => got'[n] = g
BY DEF Go, Learn, Inv, FetchOK

\* What a step of entryFor has to show: what is known stays true, and an end is for
\* one commit and, if the pull request has not changed, true.
Right(n) ==
  fetch'[n] = "over" /\ built'[n] # Skipped =>
    OneCommit(built'[n], n) /\ (n \notin moved => LaneIsTrue(built'[n], world[n]))

LEMMA EndIsRight ==
  ASSUME Inv, NEW n \in PRs, world' = world, NEW e, Finish(n, e),
         e # Skipped => OneCommit(e, n) /\ (n \notin moved => LaneIsTrue(e, world[n]))
  PROVE  Knows(n)' /\ Right(n)
<1>1. fetch'[n] = "over" /\ built'[n] = e /\ got'[n] = Nothing
  BY FinishEffect
<1> QED
  BY <1>1, NothingKnown DEF Knows, KnowsAt, Right

LEMMA CallIsRight ==
  ASSUME Inv, NEW n \in PRs, world' = world,
         NEW c \in {"comments", "review", "compare", "runs", "statuses"}, NEW g,
         KnowsAt(n, g, c), Go(n, c), Learn(n, g) \/ (UNCHANGED got /\ g = got[n])
  PROVE  Knows(n)' /\ Right(n)
<1>1. fetch'[n] = c /\ got'[n] = g /\ moved' = moved
  BY GoEffect
<1> QED
  BY <1>1 DEF Knows, KnowsAt, Right

\* The facts that GitHub may tell of the captured commit are its own, and the present
\* ones if nothing has changed.
LEMMA CapturedFacts ==
  ASSUME Inv, NEW n \in PRs, Knows(n), fetch[n] \in {"compare", "runs", "statuses"},
         NEW f \in Captured(n)
  PROVE  f \in Its(n, got[n]) /\ (n \notin moved => f = world[n])
<1>1. world[n] \in Facts[n]
  BY DEF Inv, WorldOK
<1>2. n \notin moved => got[n].head = world[n].head
  BY DEF Knows, KnowsAt, Known
<1> QED
  BY <1>1, <1>2 DEF Captured, Its

LEMMA AfterStateRight ==
  ASSUME Inv, NEW n \in PRs, world' = world, NEW g, AfterState(n, g),
         KnowsAt(n, g, "comments")
  PROVE  Knows(n)' /\ Right(n)
<1>0. n \notin moved => g.state = world[n].state
  BY DEF KnowsAt, Known
<1>1. CASE g.state = "dirty"
  <2> DEFINE e == Entry(n, "conflict", g.queued)
  <2>1. Finish(n, e)
    BY <1>1 DEF AfterState
  <2>2. OneCommit(e, n) /\ (n \notin moved => LaneIsTrue(e, world[n]))
    BY <1>0, <1>1 DEF LaneIsTrue, OneCommit, Entry
  <2> HIDE DEF e
  <2> QED
    BY <2>1, <2>2, EndIsRight
<1>2. CASE g.state # "dirty"
  <2>1. Go(n, "review") /\ Learn(n, g)
    BY <1>2 DEF AfterState
  <2>2. KnowsAt(n, g, "review")
    BY <1>0, <1>2 DEF KnowsAt, Known, OfCommit
  <2> QED
    BY <2>1, <2>2, CallIsRight
<1> QED
  BY <1>1, <1>2

LEMMA EntryForRight ==
  ASSUME Inv, NEW n \in PRs, Knows(n), EntryFor(n)
  PROVE  Knows(n)' /\ Right(n)
<1> DEFINE f == world[n]
<1>1. world' = world /\ f \in Facts[n]
  BY EntryForStep DEF Fetching, Inv, WorldOK
<1>2. ASSUME Finish(n, Skipped) PROVE Knows(n)' /\ Right(n)
  BY <1>1, <1>2, EndIsRight
<1>3. ASSUME n \notin moved => f.state # "dirty", FinishAs(n, "mine")
      PROVE  Knows(n)' /\ Right(n)
  <2> DEFINE e == Entry(n, "mine", got[n].queued)
  <2>1. Finish(n, e)
    BY <1>3 DEF FinishAs
  <2>2. OneCommit(e, n) /\ (n \notin moved => LaneIsTrue(e, f))
    BY <1>3 DEF LaneIsTrue, OneCommit, Entry
  <2> HIDE DEF e
  <2> QED
    BY <1>1, <2>1, <2>2, EndIsRight
<1>4. KnowsAt(n, got[n], fetch[n])
  BY DEF Knows
<1>5. CASE PullState(n)
  <2> DEFINE g == [Nothing EXCEPT !.state = f.state, !.head = f.head]
  <2>1. g.state = f.state /\ g.head = f.head /\ DOMAIN g = Fields
    BY DEF Nothing, Fields
  <2>2. AfterState(n, g) \/ (Go(n, "comments") /\ Learn(n, g)) \/ Finish(n, Skipped)
    BY <1>5 DEF PullState
  <2> HIDE DEF g
  <2>3. KnowsAt(n, g, "comments")
    BY <1>1, <2>1 DEF KnowsAt, Known, OfCommit, Its
  <2> QED
    BY <1>1, <1>2, <2>2, <2>3, AfterStateRight, CallIsRight
<1>6. CASE ListComments(n)
  <2>1. fetch[n] = "comments"
    BY <1>6 DEF ListComments, In
  <2> DEFINE g == [got[n] EXCEPT !.queued = Queued(f.signal)]
  <2>2. AfterState(n, g) \/ AfterState(n, got[n])
    BY <1>6 DEF ListComments
  <2>3. /\ DOMAIN g = DOMAIN got[n] /\ g.state = got[n].state /\ g.head = got[n].head
    BY <1>4 DEF KnowsAt, Fields
  <2> HIDE DEF g
  <2>4. KnowsAt(n, g, "comments") /\ KnowsAt(n, got[n], "comments")
    BY <1>4, <2>1, <2>3 DEF KnowsAt, Known, OfCommit, Its
  <2> QED
    BY <1>1, <2>2, <2>4, AfterStateRight
<1>7. CASE ReviewStatus(n)
  <2>1. fetch[n] = "review" /\ KnowsAt(n, got[n], "review")
    BY <1>4, <1>7 DEF ReviewStatus, In
  <2>2. CASE Go(n, "compare") /\ UNCHANGED got
    <3>1. got[n].state = "blocked" /\ Approved(f)
      <4>1. fetch'[n] = "compare"
        BY <2>2, GoEffect
      <4>2. ~(\E e : Finish(n, e))
        BY <4>1, FinishEffect
      <4> QED
        BY <1>7, <4>2 DEF ReviewStatus, FinishAs
    <3>2. KnowsAt(n, got[n], "compare")
      BY <2>1, <3>1 DEF KnowsAt, Known, OfCommit
    <3> QED
      BY <1>1, <2>2, <3>2, CallIsRight
  <2>3. CASE FinishAs(n, "mine")
    BY <1>3, <2>1, <2>3 DEF KnowsAt, Known
  <2> QED
    BY <1>2, <1>7, <2>2, <2>3 DEF ReviewStatus
<1>8. CASE BehindBy(n)
  <2>1. fetch[n] = "compare" /\ KnowsAt(n, got[n], "compare")
    BY <1>4, <1>8 DEF BehindBy, In
  <2>2. ASSUME NEW c \in Captured(n), Go(n, "runs"),
               Learn(n, [got[n] EXCEPT !.behind = c.behind])
        PROVE  Knows(n)' /\ Right(n)
    <3> DEFINE g == [got[n] EXCEPT !.behind = c.behind]
    <3>1. /\ DOMAIN g = Fields /\ g.state = got[n].state /\ g.head = got[n].head
          /\ g.behind = c.behind
      BY <2>1 DEF KnowsAt, Fields
    <3> HIDE DEF g
    <3>2. c \in Its(n, got[n]) /\ (n \notin moved => c = f)
      BY <2>1, <2>2, CapturedFacts
    <3>3. KnowsAt(n, g, "runs")
      BY <2>1, <3>1, <3>2 DEF KnowsAt, Known, OfCommit, Its
    <3> QED
      BY <1>1, <2>2, <3>3, CallIsRight DEF g
  <2>3. CASE FinishAs(n, "mine")
    BY <1>3, <2>1, <2>3 DEF KnowsAt, Known
  <2> QED
    BY <1>8, <2>2, <2>3 DEF BehindBy
<1>9. CASE ListRuns(n)
  <2>1. fetch[n] = "runs" /\ KnowsAt(n, got[n], "runs")
    BY <1>4, <1>9 DEF ListRuns, In
  <2>2. ASSUME NEW c \in Captured(n), Go(n, "statuses"),
               Learn(n, [got[n] EXCEPT !.checks = AddRuns(NoRuns, c.runs)])
        PROVE  Knows(n)' /\ Right(n)
    <3> DEFINE g == [got[n] EXCEPT !.checks = AddRuns(NoRuns, c.runs)]
    <3>1. /\ DOMAIN g = Fields /\ g.state = got[n].state /\ g.head = got[n].head
          /\ g.behind = got[n].behind /\ g.checks = AddRuns(NoRuns, c.runs)
      BY <2>1 DEF KnowsAt, Fields
    <3> HIDE DEF g
    <3>2. c \in Its(n, got[n]) /\ (n \notin moved => c = f)
      BY <2>1, <2>2, CapturedFacts
    <3>3. KnowsAt(n, g, "statuses")
      BY <2>1, <3>1, <3>2 DEF KnowsAt, Known, OfCommit, Its
    <3> QED
      BY <1>1, <2>2, <3>3, CallIsRight DEF g
  <2>3. CASE FinishAs(n, "mine")
    BY <1>3, <2>1, <2>3 DEF KnowsAt, Known
  <2> QED
    BY <1>9, <2>2, <2>3 DEF ListRuns
<1>10. CASE ListStatuses(n)
  <2>1. fetch[n] = "statuses" /\ KnowsAt(n, got[n], "statuses")
    BY <1>4, <1>10 DEF ListStatuses, In
  <2>2. ASSUME NEW c \in Captured(n),
               FinishAs(n, Triage(got[n].behind, AddStatuses(got[n].checks, c.statuses)))
        PROVE  Knows(n)' /\ Right(n)
    <3> DEFINE checks == AddStatuses(got[n].checks, c.statuses)
               lane == Triage(got[n].behind, checks)
    <3>1. lane \in {"mine", "failed"}
      BY DEF Triage
    <3>2. CASE lane = "mine"
      BY <1>3, <2>1, <2>2, <3>2 DEF KnowsAt, Known
    <3>3. CASE lane = "failed"
      <4> DEFINE e == Entry(n, "failed", got[n].queued)
      <4>1. ~AnyPending(checks) /\ ~got[n].behind /\ AnyFailed(checks)
        BY <3>3 DEF Triage
      <4>2. c \in Its(n, got[n]) /\ (n \notin moved => c = f)
        BY <2>1, <2>2, CapturedFacts
      <4>3. PICK r \in Its(n, got[n]) : got[n].checks = AddRuns(NoRuns, r.runs)
        BY <2>1 DEF KnowsAt, OfCommit
      <4>4. Failing(r.runs, c.statuses)
        BY <4>1, <4>2, <4>3, ChecksAreFailing DEF Its
      <4>5. /\ \E b \in Its(n, got[n]) : b.state = "blocked"
            /\ \E b \in Its(n, got[n]) : ~b.behind
        <5>1. \E b \in Its(n, got[n]) : b.state = got[n].state
          BY <2>1 DEF KnowsAt, OfCommit
        <5>2. got[n].state = "blocked"
          BY <2>1 DEF KnowsAt, OfCommit
        <5>3. \E b \in Its(n, got[n]) : got[n].behind = b.behind
          BY <2>1 DEF KnowsAt, OfCommit
        <5> QED
          BY <4>1, <5>1, <5>2, <5>3, Zenon
      <4>6. OneCommit(e, n)
        BY <4>2, <4>3, <4>4, <4>5 DEF OneCommit, Its
      <4>7. ASSUME n \notin moved PROVE LaneIsTrue(e, f)
        <5>1. Known(got[n], f, "statuses")
          BY <2>1, <4>7 DEF KnowsAt
        <5>2. /\ f.state = "blocked" /\ Approved(f) /\ got[n].behind = f.behind
              /\ got[n].checks = AddRuns(NoRuns, f.runs)
          BY <5>1 DEF Known
        <5>3. Failing(f.runs, f.statuses)
          BY <1>1, <4>1, <4>2, <4>7, <5>2, ChecksAreFailing
        <5>4. ~f.behind
          BY <4>1, <5>2, Zenon
        <5> QED
          BY <5>2, <5>3, <5>4 DEF LaneIsTrue, Approved, Entry
      <4>8. Finish(n, e)
        BY <2>2, <3>3 DEF FinishAs
      <4> HIDE DEF e
      <4> QED
        BY <1>1, <4>6, <4>7, <4>8, EndIsRight
    <3> QED
      BY <3>1, <3>2, <3>3
  <2>3. CASE FinishAs(n, "mine")
    BY <1>3, <2>1, <2>3 DEF KnowsAt, Known
  <2> QED
    BY <1>10, <2>2, <2>3 DEF ListStatuses
<1> QED
  BY <1>5, <1>6, <1>7, <1>8, <1>9, <1>10 DEF EntryFor

LEMMA TriageInit == DashInit => KnowInv
<1> SUFFICES ASSUME DashInit, NEW n \in PRs PROVE Knows(n)
  BY DEF KnowInv
<1>1. got[n] = Nothing /\ fetch[n] = "off"
  BY DEF DashInit
<1> QED
  BY <1>1, NothingKnown DEF Knows, KnowsAt

\* Between the steps of entryFor, a call is only begun, or all is forgotten; and a
\* pull request that changes is known to have changed.
LEMMA TriageOther ==
  ASSUME Inv, KnowInv, NEW n \in PRs, [DashNext]_dashVars, ~EntryFor(n)
  PROVE  Knows(n)' /\ (fetch'[n] = "over" => fetch[n] = "over")
<1>0. Knows(n)
  BY DEF KnowInv
<1>1. CASE UNCHANGED <<world, moved, fetch, got>>
  BY <1>0, <1>1 DEF Knows, KnowsAt
<1>2. CASE Clean
  <2>1. got'[n] = Nothing /\ fetch'[n] = "off"
    BY <1>2 DEF Clean
  <2> QED
    BY <2>1, NothingKnown DEF Knows, KnowsAt
<1>3. CASE StartFetch
  <2>1. UNCHANGED <<world, moved, got>> /\ fetch' = [fetch EXCEPT ![prs[next]] = "state"]
    BY <1>3 DEF StartFetch, github
  <2>2. fetch'[n] = fetch[n] \/ fetch'[n] = "state"
    BY <2>1 DEF Inv, FetchOK
  <2> QED
    BY <1>0, <2>1, <2>2, NothingKnown DEF Knows, KnowsAt
<1>4. CASE \E m \in PRs : EntryFor(m)
  <2>1. PICK m \in PRs : EntryFor(m) /\ m # n
    BY <1>4
  <2>2. world' = world /\ fetch'[n] = fetch[n] /\ (n \in moved <=> n \in moved')
    BY <2>1, EntryForStep DEF Fetching, Moves, Ends, Finish, Inv, FetchOK
  <2>3. got'[n] = got[n]
    BY <2>1 DEF EntryFor, PullState, ListComments, ReviewStatus, BehindBy, ListRuns,
                ListStatuses, AfterState, FinishAs, Finish, Learn, Inv, FetchOK
  <2> QED
    BY <1>0, <2>2, <2>3 DEF Knows, KnowsAt
<1>5. CASE Changes
  <2>1. UNCHANGED <<fetch, got>>
    BY <1>5 DEF Changes, fetches
  <2>2. PICK m \in PRs : \E f \in Facts[m] \ {world[m]} :
          /\ world' = [world EXCEPT ![m] = f]
          /\ moved' = IF fetch[m] \in {"off", "state", "over"} THEN moved
                                                               ELSE moved \cup {m}
    BY <1>5 DEF Changes
  <2>3. CASE m # n
    <3>1. world'[n] = world[n] /\ (n \in moved <=> n \in moved')
      BY <2>2, <2>3 DEF Inv, WorldOK
    <3> QED
      BY <1>0, <2>1, <3>1 DEF Knows, KnowsAt
  <2>4. CASE m = n /\ fetch[n] \in {"off", "state", "over"}
    BY <1>0, <2>1, <2>4, NothingKnown DEF Knows, KnowsAt
  <2>5. CASE m = n /\ fetch[n] \notin {"off", "state", "over"}
    <3>1. n \in moved'
      BY <2>2, <2>5
    <3> QED
      BY <1>0, <2>1, <3>1 DEF Knows, KnowsAt
  <2> QED
    BY <2>3, <2>4, <2>5
<1>6. CASE EnsureAuthor \/ ListOpenPRs \/ Abort \/ Poked \/ Done \/ Tick
           \/ TriggerRefresh \/ ReadyForReview \/ Shutdown
  <2>1. UNCHANGED <<world, moved, fetch, got>>
    BY <1>6 DEF EnsureAuthor, ListOpenPRs, Abort, Poked, Done, Tick, TriggerRefresh,
                ReadyForReview, Shutdown, Refresh, github, fetches
  <2> QED
    BY <1>1, <2>1
<1>7. CASE UNCHANGED dashVars
  BY <1>1, <1>7 DEF dashVars
<1> QED
  BY <1>2, <1>3, <1>4, <1>5, <1>6, <1>7 DEF DashNext, LoopStep, Aborted, Publish

LEMMA TriageStep ==
  ASSUME Inv, KnowInv, [DashNext]_dashVars
  PROVE  KnowInv' /\ \A n \in PRs : fetch[n] # "over" => Right(n)
<1> SUFFICES ASSUME NEW n \in PRs PROVE Knows(n)' /\ (fetch[n] # "over" => Right(n))
  BY DEF KnowInv
<1>1. CASE EntryFor(n)
  BY <1>1, EntryForRight DEF KnowInv
<1>2. CASE ~EntryFor(n)
  BY <1>2, TriageOther DEF Right
<1> QED
  BY <1>1, <1>2

\* A pull request is put in its lane: the conflicts are those GitHub calls dirty, and
\* "failed" is said only where the reviewers are content, the branch is up to date, a
\* check has failed and none is waited for, whatever runs and statuses it has, in
\* whatever order.  If it changes meanwhile, between up to six calls, "failed" is
\* still said for one commit, of whose own checks one has failed.
THEOREM LanesAreTrue == DashSpec => TriageIsTrue
<1> DEFINE Lanes ==
      \A n \in PRs :
        fetch[n] # "over" /\ fetch'[n] = "over" /\ built'[n] # Skipped =>
          /\ OneCommit(built'[n], n)
          /\ n \notin moved => LaneIsTrue(built'[n], world[n])
<1>1. Inv /\ KnowInv /\ [DashNext]_dashVars => Lanes
  BY TriageStep DEF Right
<1>2. Inv /\ KnowInv /\ [DashNext]_dashVars => KnowInv'
  BY TriageStep
<1>3. Inv /\ KnowInv /\ [DashNext]_dashVars => [Lanes]_dashVars
  BY <1>1
<1> QED
  BY <1>2, <1>3, AlwaysInv, TriageInit, PTL DEF DashSpec, TriageIsTrue
=============================================================================
