------------------------------ MODULE MCRunner ------------------------------
(***************************************************************************)
(* Values for the constants of Runner that a .cfg cannot write down.       *)
(***************************************************************************)
EXTENDS RunnerProperties, TLC

\* One review state for each verdict of the gate, and one for each order of its
\* tests: approved, nobody looked yet, approved with an open conversation, not
\* approved with one, and the two decisions against merging.
AllReviews ==
  {[decision |-> "APPROVED", approvals |-> 1, threads |-> 0],
   [decision |-> "", approvals |-> 0, threads |-> 0],
   [decision |-> "APPROVED", approvals |-> 1, threads |-> 1],
   [decision |-> "", approvals |-> 0, threads |-> 1],
   [decision |-> "REVIEW_REQUIRED", approvals |-> 1, threads |-> 0],
   [decision |-> "CHANGES_REQUESTED", approvals |-> 1, threads |-> 0]}

\* Approved, not yet, and an open conversation.
FewReviews ==
  {[decision |-> "APPROVED", approvals |-> 1, threads |-> 0],
   [decision |-> "", approvals |-> 0, threads |-> 0],
   [decision |-> "APPROVED", approvals |-> 1, threads |-> 1]}

\* The defaults of the flags, with one approval instead of two ...
Careful == [MinApprovals |-> 1, AllowUnstable |-> FALSE,
            AllowUnresolved |-> FALSE, DryRun |-> FALSE]
\* ... with every gate switched off, for real and as a dry run.
Bold    == [Careful EXCEPT !.AllowUnstable = TRUE, !.AllowUnresolved = TRUE]
BoldDry == [Bold EXCEPT !.DryRun = TRUE]

AllSettings == {Careful, Bold, BoldDry}
Defaults    == {Careful}
=============================================================================
