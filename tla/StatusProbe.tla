----------------------------- MODULE StatusProbe -----------------------------
(***************************************************************************)
(* The status button of merge-queue mode: the handler probeStatus          *)
(* (internal/server/server.go) runs StatusProber.Probe (internal/merge/    *)
(* status.go), which posts /status on a pull request and polls for the     *)
(* bot's answer, and adds the queue length it reports to the statistics.   *)
(* Several users press it.  A tick of the clock is the second, the         *)
(* resolution of GitHub's CreatedAt; the waits are scaled down.            *)
(***************************************************************************)
EXTENDS QueueStats, Selection

CONSTANTS
  Prober,      \* requests that are served at once
  Lengths,     \* lengths of the team queue
  WaitFor,     \* p.WaitFor, in ticks
  CtxTimeout,  \* the timeout of the handler's context
  MaxUnread,   \* bound: how many commands wait for the bot
  MaxReplies,  \* bound: how many replies it writes while a probe lasts
  NoLength     \* what a reply reports that has no length to parse

ASSUME ProbeAssumption ==
  /\ "free" \notin Prober
  /\ Lengths \subseteq Nat
  /\ NoLength \notin Lengths
  /\ WaitFor \in Nat /\ CtxTimeout \in Nat
  /\ MaxUnread \in Nat /\ MaxReplies \in Nat

VARIABLES
  length,   \* the team queue's length
  unread,   \* how many /status comments the bot has not read
  replies,  \* its answers, oldest first: the length (or none), how many ticks ago
  pc,       \* prober -> the call it is in
  age,      \* prober -> ticks since asked was taken
  left,     \* prober -> ticks left to the deadline
  budget,   \* prober -> what is left of the handler's context
  found,    \* prober -> the length it has to record, or none
  during    \* history: the lengths that were true since the button was pressed

bot    == <<length, unread, replies>>
clocks == <<age, left, budget>>
probeVars == <<statsVars, bot, pc, clocks, found, during>>

\* What a reply reports.
Reports == Lengths \cup {NoLength}

\* A probe of this age lists no comments any more, and no probe's since asks for
\* replies of this age: they are not kept.
Oldest == CtxTimeout
Monus(a, b) == IF a > b THEN a - b ELSE 0

Probing(p) == pc[p] \in {"post", "posting", "sleep"}

\* The handler's context is done.
Done(p) == budget[p] = 0

-----------------------------------------------------------------------------
(* The bot and time *)

\* Other pull requests come and go.
LengthChanges ==
  /\ \E n \in Lengths \ {length} :
       /\ length' = n
       /\ during' = [p \in Prober |->
                     IF pc[p] \in {"idle", "save"} THEN {} ELSE during[p] \cup {n}]
  /\ UNCHANGED <<statsVars, unread, replies, pc, clocks, found>>

\* The bot answers a command, some time, if it is not silent.
BotAnswers ==
  /\ unread > 0 /\ Len(replies) < MaxReplies
  /\ \E n \in {length, NoLength} :
       replies' = Append(replies, [length |-> n, age |-> 0])
  /\ unread' = unread - 1
  /\ UNCHANGED <<statsVars, length, pc, clocks, found, during>>

\* The replies a second later, and those of them that are kept.
Aged == [k \in DOMAIN replies |-> [replies[k] EXCEPT !.age = @ + 1]]
Kept(s) == Filter(s, {k \in DOMAIN s : s[k].age < Oldest})

Tick ==
  /\ replies' = Kept(Aged)
  /\ age' = [p \in Prober |-> IF Probing(p) THEN Min({age[p] + 1, Oldest}) ELSE 0]
  /\ left'   = [p \in Prober |-> Monus(left[p], 1)]
  /\ budget' = [p \in Prober |-> Monus(budget[p], 1)]
  /\ UNCHANGED <<statsVars, length, unread, pc, found, during>>

-----------------------------------------------------------------------------
(* Probe and its handler *)

At(p, call) == pc[p] = call
Go(p, call) == pc' = [pc EXCEPT ![p] = call]

\* Probe returns, and what it kept is gone.
ProbeReturns(p) ==
  /\ age' = [age EXCEPT ![p] = 0] /\ left' = [left EXCEPT ![p] = 0]
  /\ budget' = [budget EXCEPT ![p] = 0]

\* The handler returns without a sample, mostly with an error.
Fails(p) ==
  /\ Go(p, "idle")
  /\ ProbeReturns(p)
  /\ UNCHANGED <<statsVars, bot, found>>
  /\ during' = [during EXCEPT ![p] = {}]

\* The button is pressed.
Ask(p) ==
  /\ At(p, "idle")
  /\ Go(p, "post")
  /\ age' = [age EXCEPT ![p] = 0]
  /\ budget' = [budget EXCEPT ![p] = CtxTimeout]
  /\ during' = [during EXCEPT ![p] = {length}]
  /\ UNCHANGED <<statsVars, bot, left, found>>

\* CreateComment: the comment exists ...
Post(p) ==
  /\ At(p, "post") /\ ~Done(p)
  /\ unread < MaxUnread /\ unread' = unread + 1
  /\ Go(p, "posting")
  /\ UNCHANGED <<statsVars, length, replies, clocks, found, during>>

\* asked is older than the call.  Mutant of AgeAfterPost: it is taken when the
\* call has returned.
AgeFromReturn(p) == 0

AgeAfterPost(p) == age[p]

\* ... and the call returns.
PostReturns(p) ==
  /\ At(p, "posting")
  /\ age' = [age EXCEPT ![p] = AgeAfterPost(p)]
  /\ left' = [left EXCEPT ![p] = WaitFor]
  /\ Go(p, "sleep")
  /\ UNCHANGED <<statsVars, bot, budget, found, during>>

\* Or it ends with an error, whether or not the comment exists.
PostFails(p) == pc[p] \in {"post", "posting"} /\ Fails(p)

\* ctx.Done(), in the sleep between two listings: the handler's context is done, or
\* the client has gone, which it may at any moment.
Interrupted(p) == At(p, "sleep") /\ Fails(p)

\* c.CreatedAt.After(asked), in whole seconds.  Mutant of After: !Before.
NotBefore(reply, p) == reply.age <= age[p]

After(reply, p) == reply.age < age[p]

NewReplies(p) == Filter(replies, {k \in DOMAIN replies : After(replies[k], p)})

\* Probe polls.  A listing that fails changes nothing: no reason to stop, nor to
\* look at the deadline.  If there is an answer in it, the oldest is taken, and
\* the handler records the length, if it can parse one ...
Found(p) ==
  /\ At(p, "sleep") /\ ~Done(p)
  /\ NewReplies(p) # <<>>
  /\ LET n == Head(NewReplies(p)).length
     IN  IF n = NoLength THEN Fails(p)
         ELSE /\ Go(p, "record")
              /\ found' = [found EXCEPT ![p] = n]
              /\ ProbeReturns(p)
              /\ UNCHANGED <<statsVars, bot, during>>

\* ... if there is none, Probe goes on, or gives up after the deadline.
NotFound(p) ==
  /\ At(p, "sleep") /\ ~Done(p)
  /\ NewReplies(p) = <<>>
  /\ left[p] = 0
  /\ Fails(p)

\* Record
RecordAdds(p) ==
  /\ At(p, "record")
  /\ AddSample(p, found[p])
  /\ Go(p, "save")
  /\ found' = [found EXCEPT ![p] = NoLength]
  /\ during' = [during EXCEPT ![p] = {}]
  /\ UNCHANGED <<bot, clocks>>

RecordSaves(p) ==
  /\ At(p, "save")
  /\ SaveStats
  /\ Go(p, "idle")
  /\ UNCHANGED <<bot, clocks, found, during>>

Handler(p) ==
  \/ Ask(p)
  \/ Post(p) \/ PostReturns(p) \/ PostFails(p)
  \/ Found(p) \/ NotFound(p) \/ Interrupted(p)
  \/ RecordAdds(p) \/ RecordSaves(p)

\* The daemon ends at any moment and starts again; what was posted stays.
Restart ==
  /\ LoadStats
  /\ pc' = [p \in Prober |-> "idle"]
  /\ age' = [p \in Prober |-> 0] /\ left' = [p \in Prober |-> 0]
  /\ budget' = [p \in Prober |-> 0]
  /\ found' = [p \in Prober |-> NoLength]
  /\ during' = [p \in Prober |-> {}]
  /\ UNCHANGED bot

ProbeInit ==
  /\ StatsInit
  /\ length \in Lengths /\ unread = 0 /\ replies = <<>>
  /\ pc = [p \in Prober |-> "idle"]
  /\ age = [p \in Prober |-> 0] /\ left = [p \in Prober |-> 0]
  /\ budget = [p \in Prober |-> 0]
  /\ found = [p \in Prober |-> NoLength]
  /\ during = [p \in Prober |-> {}]

ProbeNext ==
  \/ LengthChanges \/ BotAnswers \/ Tick
  \/ \E p \in Prober : Handler(p)
  \/ Restart

ProbeSpec == ProbeInit /\ [][ProbeNext]_probeVars

-----------------------------------------------------------------------------
\* Every variable keeps its type; history and file keep to the cap, and the
\* mutex is held by who is saving.
ProbeTypeOK ==
  /\ length \in Lengths
  /\ unread \in 0..MaxUnread
  /\ replies \in Seq([length : Reports, age : 0..Oldest])
  /\ Len(replies) <= MaxReplies
  /\ pc \in [Prober -> {"idle", "post", "posting", "sleep", "record", "save"}]
  /\ age \in [Prober -> 0..Oldest] /\ left \in [Prober -> 0..WaitFor]
  /\ budget \in [Prober -> 0..CtxTimeout]
  /\ found \in [Prober -> Reports]
  /\ during \in [Prober -> SUBSET Lengths]
  /\ {history, statsFile} \subseteq Seq(Lengths)
  /\ Len(history) <= MaxHistory /\ Len(statsFile) <= MaxHistory
  /\ \A p \in Prober : mu = p <=> pc[p] = "save"
  /\ lag \in BOOLEAN

\* A length is shown and recorded only if it was true at some moment since the
\* user asked: not the answer to a question from before, whoever asked it
\* (status.go:63).
ProbeIsFresh ==
  [][\A p \in Prober : RecordAdds(p) => found[p] \in during[p]]_probeVars

\* Probe does not give up when the comments have an answer from after the second
\* in which the user asked.
AnswerIsFound ==
  [][\A p \in Prober :
       LET elapsed == CtxTimeout - budget[p]
       IN  NotFound(p) => \A k \in DOMAIN replies : replies[k].age >= elapsed]_probeVars

\* What GET /api/queuestats shows is in the file: a crash takes nothing of it
\* back, unless the last write failed.
ShownIsSaved == Readable => lag \/ statsFile = history
=============================================================================
