--------------------------- MODULE DelegatedItem ---------------------------
(***************************************************************************)
(* One pull request through the queue in merge-queue mode: DelegateRunner  *)
(* drives it, process routes the result and sends a goroutine to dequeue   *)
(* what the user removed, the user removes and adds again, the daemon      *)
(* restarts.  The list, the locks and a second worker on the same pull     *)
(* request are QueueManager's.                                             *)
(***************************************************************************)
EXTENDS DelegateRunner

CONSTANT Restarts  \* may the daemon stop and start again?
ASSUME RestartsAssumption == Restarts \in BOOLEAN

VARIABLES
  phase,     \* the item's Phase
  dequeuing, \* is a dequeue goroutine about to post /dequeue?
  told       \* history: has the bot said since the run began, if one runs, that the
             \* pull request is not in the team queue?

itemVars == <<teamVars, delegateVars, phase, dequeuing, told>>

\* The locals of a Run that is not running.
NoRun ==
  /\ asked' = FALSE /\ watchFrom' = Lookback /\ ctxDone' = FALSE
  /\ result' = "none"

\* claim, and drive starts a DelegateRunner.
Claimed ==
  /\ phase = "queued" /\ pc = "off"
  /\ phase' = "active"
  /\ pc' = "start" /\ NoRun
  /\ told' = FALSE
  /\ UNCHANGED <<teamVars, dequeuing>>

\* process, when Run has returned: a stopped item stays and is dequeued.
Process ==
  /\ pc = "done"
  /\ phase' = CASE phase = "stopped" -> "stopped"
                [] phase # "stopped" /\ result = "nil" -> "merged"
                [] phase # "stopped" /\ result = "canceled" -> "queued"
                [] OTHER -> "failed"
  /\ dequeuing' = (dequeuing \/ phase = "stopped")
  /\ pc' = "off" /\ NoRun /\ told' = FALSE
  /\ UNCHANGED teamVars

\* dequeue: the goroutine posts its comment, or gives up.
DequeuePosts ==
  /\ dequeuing
  /\ dequeuing' = FALSE
  /\ \/ Comment("/dequeue") /\ UNCHANGED <<status, checks, place, second, replies>>
     \/ CallsFail /\ UNCHANGED teamVars
  /\ UNCHANGED <<delegateVars, phase, told>>

\* The status button: a StatusProber posts /status, and the bot's answer is a
\* signal to Run.  Bound: while the bot can answer a /queue as well.
AsksStatus ==
  /\ phase \in {"queued", "active"}
  /\ commands = <<>> /\ Len(replies) + 1 < MaxReplies
  /\ Comment("/status")
  /\ UNCHANGED <<status, checks, place, second, replies, delegateVars, phase,
                 dequeuing, told>>

\* Remove: its worker is cancelled if it is the one the item shows.
Remove ==
  /\ phase \in {"queued", "active"}
  /\ phase' = "stopped"
  /\ ctxDone' = (ctxDone \/ phase = "active")
  /\ UNCHANGED <<teamVars, pc, asked, watchFrom, result, dequeuing, told>>

\* Add of an item that is neither queued nor active.
ReAdd ==
  /\ phase \notin {"queued", "active"}
  /\ phase' = "queued"
  /\ UNCHANGED <<teamVars, delegateVars, dequeuing, told>>

\* The daemon ends at any moment and Load puts an active item back.
Restart ==
  /\ Restarts
  /\ phase' = IF phase = "active" THEN "queued" ELSE phase
  /\ pc' = "off" /\ NoRun /\ told' = FALSE
  /\ dequeuing' = FALSE
  /\ UNCHANGED teamVars

\* A reply is written that says so.
Out == {"rejected", "notQueued"}
SaysOut ==
  Len(replies') > Len(replies) /\ replies'[Len(replies')].sig \in Out

ItemInit ==
  /\ TeamInit
  /\ pc = "off" /\ asked = FALSE /\ watchFrom = Lookback /\ ctxDone = FALSE
  /\ result = "none"
  /\ phase = "queued" /\ dequeuing = FALSE /\ told = FALSE

Outside(step) ==
  /\ step
  /\ told' = (told \/ (pc # "off" /\ SaysOut))
  /\ UNCHANGED <<delegateVars, phase, dequeuing>>

Drives(step) == step /\ UNCHANGED <<phase, dequeuing, told>>

Worker == Claimed \/ Drives(DelegateRun) \/ Process

ItemNext ==
  \/ Outside(TeamNext \/ Tick(watchFrom)) \/ Worker
  \/ DequeuePosts \/ AsksStatus \/ Remove \/ ReAdd \/ Restart

ItemSpec == ItemInit /\ [][ItemNext]_itemVars

\* GitHub answers, Run finds a reply that ends it, Run notices its cancellation.
Answered    == Get /\ pc' # "sleep"
Ended       == Watch /\ pc' = "done"
Interrupted == Sleep /\ pc' = "done"

\* The worker and the goroutines of the queue go on while the daemon runs, the
\* bot reads its comments, and a GitHub that is asked for the pull request or
\* its comments again and again answers well again and again.  The select of a
\* cancelled Run, which chooses at random, takes the case <-ctx.Done() some time.
ItemFairSpec ==
  /\ ItemSpec
  /\ WF_itemVars(Worker) /\ WF_itemVars(DequeuePosts)
  /\ SF_itemVars(Drives(Answered)) /\ SF_itemVars(Drives(Ended))
  /\ SF_itemVars(Drives(Interrupted))
  /\ WF_itemVars(Outside(Bot))

-----------------------------------------------------------------------------
\* Every variable keeps its type: no reply is stamped with a second that is still
\* to come, and Run has a result when it returned.
ItemTypeOK ==
  /\ status \in {"open", "closed", "merged"}
  /\ checks \in {"pending", "failed", "green"}
  /\ place \in {"out", "waiting", "batch"}
  /\ commands \in Seq(Commands) /\ Len(commands) <= MaxCommands
  /\ second \in 0..MaxSecond
  /\ replies \in Seq(Reply) /\ Len(replies) <= MaxReplies
  /\ \A i \in DOMAIN replies : replies[i].at <= second
  /\ pc \in {"off", "start", "get", "checks", "post", "posting", "signals",
             "sleep", "done"}
  /\ asked \in BOOLEAN /\ ctxDone \in BOOLEAN
  /\ dequeuing \in BOOLEAN
  /\ watchFrom \in Int /\ told \in BOOLEAN
  /\ result \in {"none", "nil", "canceled", "checks", "error"}
  /\ phase \in {"queued", "active", "merged", "failed", "stopped"}
  /\ pc = "done" => result # "none"

\* A retry is not declined for what the bot said before it: over any number of
\* retries, removals and restarts, a run ends as rejected or dequeued only if the
\* bot said one of the two after the run began, maybe to a comment of an earlier
\* run.  Stated for Skews \subseteq Nat: a local clock that is not behind GitHub's.
NoStaleVerdict == [][Watch /\ pc' = "done" => told]_itemVars

\* Once the bot's last word is that the pull request is not in the team queue, the
\* run ends or the bot says something else: if that reply's second is later than
\* every other reply's, and later than the one from which the run watches.
OutIsNoticed ==
  LET n == Len(replies)
      out == /\ pc \notin {"off", "done"} /\ asked
             /\ n > 0 /\ replies[n].sig \in Out /\ replies[n].at > watchFrom
             /\ \A i \in 1..(n - 1) : replies[i].at < replies[n].at
  IN  out ~> ~out

\* The merge is noticed whatever the bot's comments say or fail to say, so the
\* item does not stay active for ever in a mode without a deadline.
MergeIsNoticed == (status = "merged" /\ phase = "active") ~> phase # "active"
=============================================================================
