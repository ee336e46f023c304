----------------------------- MODULE TeamQueue -----------------------------
(***************************************************************************)
(* The external, comment-driven team merge queue as merge-queue mode sees  *)
(* it: not code of this repository, but the protocol that delegate.go      *)
(* "observed" (delegate.go:29-43).  Commands are comments the bot reads in *)
(* order and some time later; its replies are comments too, which GitHub   *)
(* stamps with whole seconds of its own clock.                             *)
(***************************************************************************)
EXTENDS Integers, Sequences

CONSTANTS
  MaxReplies,   \* bound: how many replies the bot writes
  MaxCommands,  \* bound: how many commands wait for the bot
  MaxSecond     \* bound: how many seconds GitHub's clock goes on

ASSUME TeamQueueAssumption ==
  MaxReplies \in Nat /\ MaxCommands \in Nat /\ MaxSecond \in Nat

VARIABLES
  status,    \* the pull request: "open", "closed" or "merged"
  checks,    \* its checks: "pending", "failed" or "green"
  place,     \* where it is in the team queue: "out", "waiting" or "batch"
  commands,  \* the commands the bot has not read yet
  second,    \* GitHub's clock
  replies    \* its replies, oldest first: the signal and CreatedAt

Signals == {"queued", "rejected", "notQueued", "batch"}
Commands == {"/queue", "/dequeue", "/status"}
Reply == [sig : Signals, at : 0..MaxSecond]
teamVars == <<status, checks, place, commands, second, replies>>

Replies(sig) ==
  /\ Len(replies) < MaxReplies
  /\ replies' = Append(replies, [sig |-> sig, at |-> second])

\* A comment with a command arrives.
Comment(c) ==
  /\ Len(commands) < MaxCommands
  /\ commands' = Append(commands, c)

Accepted == status = "open" /\ checks = "green"

\* The bot reads a command and answers it ...
BotReads ==
  /\ commands # <<>>
  /\ commands' = Tail(commands)
  /\ CASE Head(commands) = "/queue" ->
            IF place # "out" THEN UNCHANGED place /\ Replies("queued")
            ELSE IF Accepted THEN place' = "waiting" /\ Replies("queued")
                             ELSE UNCHANGED place /\ Replies("rejected")
       [] Head(commands) = "/dequeue" -> place' = "out" /\ Replies("notQueued")
       [] Head(commands) = "/status" ->
            /\ UNCHANGED place
            /\ Replies(CASE place = "out" -> "notQueued"
                         [] place = "waiting" -> "queued"
                         [] place = "batch" -> "batch")
  /\ UNCHANGED <<status, checks, second>>

\* ... until it falls silent: after MaxReplies it ignores what it reads.
BotIgnores ==
  /\ commands # <<>> /\ Len(replies) = MaxReplies
  /\ commands' = Tail(commands)
  /\ UNCHANGED <<status, checks, place, second, replies>>

Bot == BotReads \/ BotIgnores

\* The pull request is merged or closed: it is in no queue any more, and nobody
\* looks at its checks.
Ends(s) ==
  /\ status' = s /\ place' = "out" /\ checks' = "pending"
  /\ UNCHANGED <<commands, second, replies>>

\* A validation batch starts, fails (and the pull request waits for another) or
\* merges.
BatchStarts ==
  /\ place = "waiting" /\ place' = "batch"
  /\ Replies("batch")
  /\ UNCHANGED <<status, checks, commands, second>>

BatchFails ==
  /\ place = "batch" /\ place' = "waiting"
  /\ Replies("batch")
  /\ UNCHANGED <<status, checks, commands, second>>

BatchMerges ==
  /\ place = "batch" /\ status = "open"
  /\ Ends("merged")

\* People: CI and the author change the pull request, somebody takes it out of
\* the team queue by a comment on GitHub.
ChecksChange ==
  /\ status = "open"
  /\ \E s \in {"pending", "failed", "green"} \ {checks} : checks' = s
  /\ UNCHANGED <<status, place, commands, second, replies>>

Closes ==
  /\ status = "open"
  /\ Ends("closed")

PersonDequeues ==
  /\ place # "out" /\ commands = <<>>
  /\ Comment("/dequeue")
  /\ UNCHANGED <<status, checks, place, second, replies>>

\* The next second begins; several replies may carry the same one.  Bound: as soon
\* as this one is in use, for nothing tells two seconds apart in which no reply was
\* written and from which nobody watches.
Tick(watched) ==
  /\ second < MaxSecond
  /\ watched >= second \/ \E i \in DOMAIN replies : replies[i].at = second
  /\ second' = second + 1
  /\ UNCHANGED <<status, checks, place, commands, replies>>

TeamNext ==
  \/ Bot \/ BatchStarts \/ BatchFails \/ BatchMerges
  \/ ChecksChange \/ Closes \/ PersonDequeues

TeamInit ==
  /\ status = "open" /\ checks \in {"pending", "green"} /\ place = "out"
  /\ commands = <<>> /\ second = 0 /\ replies = <<>>
=============================================================================
