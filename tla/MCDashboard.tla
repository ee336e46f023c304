---------------------------- MODULE MCDashboard ----------------------------
(***************************************************************************)
(* Values for the constants of Dashboard that a .cfg cannot write down.    *)
(***************************************************************************)
EXTENDS Dashboard

Three == <<"a", "b", "c">>

Run(name, status, conclusion) ==
  [name |-> name, status |-> status, conclusion |-> conclusion]
Green == Run("build", "completed", "success")
Red   == Run("build", "completed", "failure")
Again == Run("build", "in_progress", "")
Other == Run("lint", "queued", "")
RedStatus == [context |-> "build", state |-> "failure"]

Ready == [listed |-> TRUE, state |-> "clean", decision |-> "APPROVED",
          approvals |-> 1, head |-> "first", behind |-> FALSE, runs |-> <<Green>>,
          statuses |-> <<>>, signal |-> "none"]
Blocked(runs, statuses) ==
  [Ready EXCEPT !.state = "blocked", !.runs = runs, !.statuses = statuses]

\* One pull request of every kind that the triage tells apart, and with another
\* head: one that waits for a new approval, its checks being green; the one that
\* conflicts has been closed ...
Kinds ==
  {Ready, [Ready EXCEPT !.state = "dirty", !.listed = FALSE],
   Blocked(<<Red>>, <<>>),
   [Blocked(<<Red>>, <<>>) EXCEPT !.decision = "REVIEW_REQUIRED"],
   [Blocked(<<Red>>, <<>>) EXCEPT !.behind = TRUE],
   Blocked(<<Red, Other>>, <<>>),
   Blocked(<<Red, Again>>, <<>>),
   Blocked(<<Green>>, <<RedStatus>>),
   [Blocked(<<Green>>, <<>>) EXCEPT !.head = "second"]}

\* ... beside two that conflict, one of them in the team queue.
Dirty == [Ready EXCEPT !.state = "dirty"]
SomeFacts == [n \in {"a", "b", "c"} |->
                CASE n = "a" -> Kinds
                  [] n = "b" -> {[Dirty EXCEPT !.signal = "batch"]}
                  [] n = "c" -> {Dirty}]
=============================================================================
