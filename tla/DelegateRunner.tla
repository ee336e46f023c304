--------------------------- MODULE DelegateRunner ---------------------------
(***************************************************************************)
(* merge.DelegateRunner (internal/merge/delegate.go): hand one pull        *)
(* request to the team queue with a /queue comment, then watch the bot's   *)
(* replies.  Every call to GitHub is an action, posting a comment two: it  *)
(* exists before CreateComment returns.                                    *)
(***************************************************************************)
EXTENDS TeamQueue

CONSTANTS
  CallsFail,  \* may a call to GitHub end with an error?
  Skews       \* by how many seconds the local clock may be ahead of GitHub's

ASSUME DelegateAssumption == CallsFail \in BOOLEAN /\ Skews \subseteq Int

VARIABLES
  pc,         \* the call Run is in, or "sleep", "done"
  asked,      \* Run's asked
  watchFrom,  \* Run's watchFrom, in seconds
  ctxDone,    \* is the context cancelled?
  result      \* what Run returned ("none": it is running)

delegateVars == <<pc, asked, watchFrom, ctxDone, result>>

\* A call can end with an error; under a cancelled context it is likely to.
Errs == CallsFail \/ ctxDone

Go(call) == pc' = call /\ UNCHANGED result
Return(r) == pc' = "done" /\ result' = r

\* The start of the lookback of seven days: all replies are younger.
Lookback == -1

\* Of some replies the one latestSignal keeps: a later one replaces it only if its
\* second is later.  Mutant of Newest: the oldest.
Oldest(some) == CHOOSE i \in some : \A j \in some : i <= j

Newest(some) ==
  CHOOSE i \in some : \A j \in some :
    \/ replies[j].at < replies[i].at
    \/ replies[j].at = replies[i].at /\ j >= i

\* latestSignal(since): the newest signal after since, if there is one.
LatestSignal(since) ==
  LET after == {i \in DOMAIN replies : replies[i].at > since}
  IN  IF after = {} THEN [sig |-> "none", at |-> since] ELSE replies[Newest(after)]

\* When Run asks nobody: the bot said the pull request waits in the team queue.
AlreadyQueued(sig) == sig = "queued"

\* time.Now() after Run has asked, rounded down: a whole second is After a time if
\* and only if it is after the time's own second.  Mutant of FromNow: the start of
\* the lookback.
FromLookback(skew) == Lookback

FromNow(skew) == second + skew

\* Before the loop: is it in the queue already?  A failed lookup says no.
Begin ==
  /\ pc = "start"
  /\ \/ LET latest == LatestSignal(Lookback)
        IN  /\ asked' = AlreadyQueued(latest.sig)
            /\ watchFrom' = IF asked' THEN latest.at ELSE Lookback
     \/ Errs /\ asked' = FALSE /\ watchFrom' = Lookback
  /\ Go("get")
  /\ UNCHANGED <<teamVars, ctxDone>>

\* What Run does next about the pull request it fetched.  Mutant of NextCall:
\* once it has asked, only the replies count.
RepliesOnly == IF asked THEN "signals" ELSE IF status = "open" THEN "checks" ELSE "done"

NextCall == IF status # "open" THEN "done" ELSE IF asked THEN "signals" ELSE "checks"

\* GetPullRequest
Get ==
  /\ pc = "get"
  /\ \/ IF NextCall = "done"
        THEN Return(IF status = "merged" THEN "nil" ELSE "error")
        ELSE Go(NextCall)
     \/ CallsFail /\ ~ctxDone /\ Go("sleep")
     \/ ctxDone /\ Return("canceled")
  /\ UNCHANGED <<teamVars, asked, watchFrom, ctxDone>>

\* CheckRuns: the bot rejects what is not green.
ChecksCall ==
  /\ pc = "checks"
  /\ \/ checks = "pending" /\ Go("sleep")
     \/ checks = "failed" /\ Return("checks")
     \/ checks = "green" /\ Go("post")
     \/ Errs /\ Go("sleep")
  /\ UNCHANGED <<teamVars, asked, watchFrom, ctxDone>>

\* CreateComment: the comment is on GitHub ...
PostQueue ==
  /\ pc = "post"
  /\ Comment("/queue")
  /\ Go("posting")
  /\ UNCHANGED <<status, checks, place, second, replies, asked, watchFrom, ctxDone>>

\* ... and the call returns, or ends with an error all the same; Run will post
\* it again.
PostReturns ==
  /\ pc = "posting"
  /\ \/ asked' = TRUE /\ \E skew \in Skews : watchFrom' = FromNow(skew)
     \/ Errs /\ UNCHANGED <<asked, watchFrom>>
  /\ Go("sleep")
  /\ UNCHANGED <<teamVars, ctxDone>>

PostFails ==
  /\ pc = "post"
  /\ Errs
  /\ Go("sleep")
  /\ UNCHANGED <<teamVars, asked, watchFrom, ctxDone>>

\* The signals that end a run.
Declines(sig) == sig \in {"rejected", "notQueued"}

\* latestSignal while watching.
Watch ==
  /\ pc = "signals"
  /\ LET sig == LatestSignal(watchFrom).sig
     IN  \/ Declines(sig) /\ Return("error")
         \/ ~Declines(sig) /\ Go("sleep")
         \/ Errs /\ Go("sleep")
  /\ UNCHANGED <<teamVars, asked, watchFrom, ctxDone>>

Sleep ==
  /\ pc = "sleep"
  /\ \/ Go("get")
     \/ ctxDone /\ Return("canceled")
  /\ UNCHANGED <<teamVars, asked, watchFrom, ctxDone>>

DelegateRun ==
  \/ Begin \/ Get \/ ChecksCall \/ PostQueue \/ PostReturns \/ PostFails
  \/ Watch \/ Sleep
=============================================================================
