--------------------------- MODULE MCQueueManager ---------------------------
(***************************************************************************)
(* Values for the constants of QueueManager that a .cfg cannot write down. *)
(***************************************************************************)
EXTENDS QueueProperties, TLC

\* The pull requests, the goroutines and the handlers are interchangeable: no
\* definition singles one out.  Addresses are not: AddNew and Restart CHOOSE.
Symmetry ==
  Permutations(PRs) \cup Permutations(Worker) \cup Permutations(Client)

\* The requests of the web page's clear button and of a client that also names
\* queued and active items, which Clear ignores.
Clears == {{"merged"}, {"failed", "stopped"}, {"stopped", "conflicts", "active"}}
OneClear == {{"merged", "failed", "stopped"}}
=============================================================================
