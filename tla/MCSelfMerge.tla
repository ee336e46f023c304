---------------------------- MODULE MCSelfMerge ----------------------------
(***************************************************************************)
(* Values for the constants of SelfMerge that a .cfg cannot write down.    *)
(***************************************************************************)
EXTENDS SelfMerge, TLC

\* Ready, not approved by count, and not approved by GitHub's own decision.
SomeReviews ==
  {[decision |-> "APPROVED", approvals |-> 1, threads |-> 0],
   [decision |-> "", approvals |-> 0, threads |-> 0],
   [decision |-> "REVIEW_REQUIRED", approvals |-> 1, threads |-> 0]}

\* The defaults of the flags, with one approval instead of two.
Defaults == {[MinApprovals |-> 1, AllowUnstable |-> FALSE,
              AllowUnresolved |-> FALSE, DryRun |-> FALSE]}
=============================================================================
