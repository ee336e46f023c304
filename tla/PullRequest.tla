---------------------------- MODULE PullRequest ----------------------------
(***************************************************************************)
(* One pull request as GitHub holds it: not code of this repository, but   *)
(* what internal/merge reads through the GitHub interface (runner.go:65-74)*)
(* and what it has to expect to change between two of its calls.           *)
(***************************************************************************)
EXTENDS Naturals, FiniteSets

CONSTANTS
  Checks,     \* the checks that may run on a head commit
  Required,   \* those that branch protection requires on the base branch
  Reviews,    \* the review states people bring the pull request to
  MaxHead     \* bound: how many commits and branch updates are pushed

MergeableStates ==
  {"clean", "unstable", "behind", "blocked", "dirty", "draft", "unknown"}
CheckStates == {"absent", "pending", "failed", "green"}
Decisions == {"", "APPROVED", "CHANGES_REQUESTED", "REVIEW_REQUIRED"}
ReviewStatus == [decision : Decisions, approvals : Nat, threads : Nat]

PullRequests ==
  [status : {"open", "closed", "merged"},
   draft  : BOOLEAN,
   head   : 0..MaxHead,
   behind : BOOLEAN,
   checks : [Checks -> CheckStates],
   review : Reviews,
   mstate : MergeableStates]

ASSUME PullRequestAssumption ==
  /\ IsFiniteSet(Checks)
  /\ Required \subseteq Checks
  /\ Reviews \subseteq ReviewStatus
  /\ MaxHead \in Nat

VARIABLE pr

-----------------------------------------------------------------------------
(* Who changes a pull request besides the bot *)

\* A new head: CI has to start again and GitHub to compute mergeability again.
Pushed(p) ==
  [p EXCEPT !.head = @ + 1, !.mstate = "unknown",
            !.checks = [c \in Checks |-> "absent"]]

\* The new head has the base merged into it.
Updated(p) == [Pushed(p) EXCEPT !.behind = FALSE]

\* The author pushes commits, with or without a rebase onto the base.
Push ==
  /\ pr.status = "open" /\ pr.head < MaxHead
  /\ pr' \in {Pushed(pr), Updated(pr)}

\* CI starts a check, finishes it or runs it again.
CI ==
  \E c \in Checks : \E s \in CheckStates \ {"absent", pr.checks[c]} :
    pr' = [pr EXCEPT !.checks[c] = s]

\* Reviewers approve, request changes, open and resolve conversations.
Review == \E r \in Reviews \ {pr.review} : pr' = [pr EXCEPT !.review = r]

\* Somebody else's merge moves the base branch.
BaseMoves == ~pr.behind /\ pr' = [pr EXCEPT !.behind = TRUE]

\* The author closes, reopens or drafts it; somebody merges it by hand.
Author ==
  \/ pr.status = "open" /\ \E s \in {"closed", "merged"} :
       pr' = [pr EXCEPT !.status = s]
  \/ pr.status = "closed" /\ pr' = [pr EXCEPT !.status = "open"]
  \/ pr.status = "open" /\ pr' = [pr EXCEPT !.draft = ~@, !.mstate = "unknown"]

\* GitHub recomputes mergeable_state, from facts it need not show the bot
\* (rulesets, last-push approval, what the token's owner may bypass).
Judge ==
  \E s \in MergeableStates \ {pr.mstate} :
    /\ s = "clean" => \A c \in Checks : pr.checks[c] \in {"green", "absent"}
    /\ s = "unstable" => \E c \in Checks : pr.checks[c] # "green"
    /\ s = "behind" => pr.behind
    /\ s = "draft" <=> pr.draft
    /\ pr' = [pr EXCEPT !.mstate = s]

\* Nothing that happens to a merged pull request matters to the bot.
Environment ==
  /\ pr.status # "merged"
  /\ Push \/ CI \/ Review \/ BaseMoves \/ Author \/ Judge

\* A freshly opened pull request.
Fresh(p) ==
  /\ p.status = "open" /\ ~p.draft /\ p.head = 0 /\ ~p.behind
  /\ p.checks = [c \in Checks |-> "absent"]
  /\ p.mstate = "unknown"

-----------------------------------------------------------------------------
(* What GitHub does for the bot *)

\* The merge endpoint may accept what is open and not a draft.
Accepts(p) == p.status = "open" /\ ~p.draft

Merged(p) == [p EXCEPT !.status = "merged"]

\* The update-branch endpoint merges the base into the head, if the head is the
\* expected one; otherwise it answers 422.
Updatable(p, expected) ==
  p.status = "open" /\ p.head = expected /\ p.head < MaxHead
=============================================================================
