------------------------------ MODULE CheckRuns ------------------------------
(***************************************************************************)
(* One verdict per check: how Client.CheckRuns (internal/ghclient/         *)
(* client.go) folds the check runs of a commit, and then its legacy        *)
(* statuses, into a map from names, and how that map is judged             *)
(* (internal/merge/runner.go).                                             *)
(***************************************************************************)
EXTENDS SequencesExt

\* As GitHub lists them: a run has a name, a status and a conclusion ("" while
\* it has none), a commit status a context and a state.
Statuses    == {"queued", "in_progress", "completed"}
Conclusions == {"", "success", "skipped", "neutral", "failure", "cancelled"}
States      == {"pending", "success", "failure", "error"}

\* The map is a function from the names seen so far.
NoRuns == [n \in {} |-> n]
Put(byName, name, run) ==
  [n \in DOMAIN byName \cup {name} |-> IF n = name THEN run ELSE byName[n]]

\* What the map keeps of a run ...
OfRun(run) == [completed  |-> run.status = "completed",
               conclusion |-> run.conclusion]

\* ... and of a status, in the words of runs (statusConclusion).
OfStatus(status) ==
  [completed  |-> status.state \in {"success", "failure", "error"},
   conclusion |-> CASE status.state = "success" -> "success"
                    [] status.state \in {"failure", "error"} -> "failure"
                    [] OTHER -> ""]

\* A run replaces an earlier one of its name, but a running one never replaces
\* one that has completed.
AddRun(byName, run) ==
  IF /\ run.name \in DOMAIN byName
     /\ byName[run.name].completed
     /\ run.status # "completed"
  THEN byName ELSE Put(byName, run.name, OfRun(run))

\* addLegacyStatuses: a status never replaces a run, or an earlier status.
AddStatus(byName, status) ==
  IF status.context \in DOMAIN byName THEN byName
                                      ELSE Put(byName, status.context, OfStatus(status))

\* The two loops: what the map is after the k-th report.
AddRuns(byName, runs) ==
  LET map[k \in 0..Len(runs)] ==
        IF k = 0 THEN byName ELSE AddRun(map[k - 1], runs[k])
  IN  map[Len(runs)]

AddStatuses(byName, statuses) ==
  LET map[k \in 0..Len(statuses)] ==
        IF k = 0 THEN byName ELSE AddStatus(map[k - 1], statuses[k])
  IN  map[Len(statuses)]

\* checkSucceeded
CheckSucceeded(conclusion) == conclusion \in {"success", "skipped", "neutral"}

\* CountChecks, as far as anybody asks: is there one?
AnyPending(byName) == \E n \in DOMAIN byName : ~byName[n].completed
AnyFailed(byName) ==
  \E n \in DOMAIN byName :
    byName[n].completed /\ ~CheckSucceeded(byName[n].conclusion)
=============================================================================
