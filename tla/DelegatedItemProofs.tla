------------------------ MODULE DelegatedItemProofs ------------------------
(***************************************************************************)
(* Proofs about merge-queue mode: types, and that a run never declines a   *)
(* pull request for what the bot said before it, however many comments,    *)
(* failed calls, retries, removals and restarts there are, as long as the  *)
(* local clock is not behind GitHub's.                                     *)
(***************************************************************************)
EXTENDS DelegatedItem, TLAPS

-----------------------------------------------------------------------------
(* The team queue *)

\* The part of the type invariant that is the team queue's.
TeamTypeOK ==
  /\ status \in {"open", "closed", "merged"}
  /\ checks \in {"pending", "failed", "green"}
  /\ place \in {"out", "waiting", "batch"}
  /\ commands \in Seq(Commands) /\ Len(commands) <= MaxCommands
  /\ second \in 0..MaxSecond
  /\ replies \in Seq(Reply) /\ Len(replies) <= MaxReplies
  /\ \A i \in DOMAIN replies : replies[i].at <= second

\* The replies are ordered by their seconds, and each second that one of them
\* carries has a first reply: what LatestSignal chooses exists.
InOrder ==
  \A i \in DOMAIN replies :
    /\ \A j \in DOMAIN replies : j <= i => replies[j].at <= replies[i].at
    /\ \E f \in DOMAIN replies :
         /\ f <= i /\ replies[f].at = replies[i].at
         /\ \A j \in DOMAIN replies : j < f => replies[j].at < replies[f].at

\* What the types say of a reply's second.
LEMMA Seconds ==
  ASSUME TeamTypeOK
  PROVE  /\ second \in Nat /\ Len(replies) \in Nat
         /\ DOMAIN replies = 1..Len(replies)
         /\ \A i \in DOMAIN replies : replies[i].at \in Nat /\ replies[i].at <= second
<1>1. /\ replies \in Seq(Reply) /\ second \in 0..MaxSecond
      /\ \A i \in DOMAIN replies : replies[i].at <= second
  BY DEF TeamTypeOK
<1>2. \A i \in DOMAIN replies : replies[i] \in Reply
  BY <1>1
<1>3. \A r \in Reply : r.at \in Nat
  BY TeamQueueAssumption DEF Reply
<1> QED
  BY <1>1, <1>2, <1>3, TeamQueueAssumption

LEMMA LookbackIsInt == Lookback \in Int
BY DEF Lookback

\* A reply or a command more is one within the bounds.
LEMMA RepliesGrow ==
  ASSUME TeamTypeOK, NEW sig \in Signals, Replies(sig), UNCHANGED second
  PROVE  /\ replies' \in Seq(Reply) /\ Len(replies') <= MaxReplies
         /\ Len(replies') = Len(replies) + 1 /\ Len(replies) \in Nat
         /\ DOMAIN replies = 1..Len(replies) /\ DOMAIN replies' = 1..Len(replies')
         /\ \A i \in 1..Len(replies) : replies'[i] = replies[i]
         /\ replies'[Len(replies')] = [sig |-> sig, at |-> second]
         /\ \A i \in DOMAIN replies' : replies'[i].at <= second'
<1> DEFINE new == [sig |-> sig, at |-> second]
<1>1. /\ Len(replies) \in Nat /\ Len(replies) < MaxReplies
      /\ replies' = Append(replies, new) /\ replies \in Seq(Reply)
  BY DEF TeamTypeOK, Replies
<1>2. new \in Reply /\ second \in Nat /\ new.at = second
  BY TeamQueueAssumption DEF TeamTypeOK, Reply
<1> HIDE DEF new
<1>3. /\ replies' \in Seq(Reply) /\ Len(replies') = Len(replies) + 1
      /\ DOMAIN replies = 1..Len(replies) /\ DOMAIN replies' = 1..Len(replies')
      /\ \A i \in 1..Len(replies) : replies'[i] = replies[i]
      /\ replies'[Len(replies')] = new
  BY <1>1, <1>2
<1>4. \A i \in DOMAIN replies' : replies'[i].at <= second'
  <2> TAKE i \in DOMAIN replies'
  <2>1. CASE i = Len(replies')
    BY <1>2, <1>3, <2>1
  <2>2. CASE i # Len(replies')
    <3>1. i \in 1..Len(replies)
      BY <1>1, <1>3, <2>2
    <3> QED
      BY <1>3, <3>1 DEF TeamTypeOK
  <2> QED
    BY <2>1, <2>2
<1>5. Len(replies') <= MaxReplies
  BY <1>1, <1>3, TeamQueueAssumption
<1> QED
  BY <1>1, <1>3, <1>4, <1>5 DEF new

\* It is the latest, and the first of its second or as late as the one before it.
LEMMA OrderGrows ==
  ASSUME TeamTypeOK, InOrder, NEW sig \in Signals, Replies(sig), UNCHANGED second
  PROVE  InOrder'
<1> DEFINE n == Len(replies)
<1>1. /\ n \in Nat /\ DOMAIN replies = 1..n /\ DOMAIN replies' = 1..(n + 1)
      /\ \A i \in 1..n : replies'[i] = replies[i]
      /\ replies'[n + 1].at = second
  <2>1. Len(replies') = Len(replies) + 1
    BY RepliesGrow
  <2>2. /\ n \in Nat /\ DOMAIN replies = 1..n /\ DOMAIN replies' = 1..Len(replies')
        /\ \A i \in 1..n : replies'[i] = replies[i]
        /\ replies'[Len(replies')] = [sig |-> sig, at |-> second]
    BY RepliesGrow
  <2>3. [sig |-> sig, at |-> second].at = second
    OBVIOUS
  <2> QED
    BY <2>1, <2>2, <2>3
<1> HIDE DEF n
<1>2. /\ second \in Nat
      /\ \A i \in 1..n : replies[i].at \in Nat /\ replies[i].at <= second
  BY <1>1, Seconds
<1>3. ASSUME NEW i \in 1..n
      PROVE  /\ \A j \in 1..n : j <= i => replies[j].at <= replies[i].at
             /\ \E f \in 1..n :
                  /\ f <= i /\ replies[f].at = replies[i].at
                  /\ \A j \in 1..n : j < f => replies[j].at < replies[f].at
  <2>1. i \in DOMAIN replies
    BY <1>1, <1>3
  <2> QED
    BY <1>1, <2>1 DEF InOrder
<1>4. ASSUME NEW i \in 1..(n + 1)
      PROVE  \A j \in 1..(n + 1) : j <= i => replies'[j].at <= replies'[i].at
  <2> TAKE j \in 1..(n + 1)
  <2> HAVE j <= i
  <2>1. CASE i \in 1..n
    <3>1. j \in 1..n
      BY <1>1, <2>1
    <3> QED
      BY <1>1, <1>3, <2>1, <3>1
  <2>2. CASE i = n + 1 /\ j \in 1..n
    BY <1>1, <1>2, <2>2
  <2>3. CASE i = n + 1 /\ j = n + 1
    BY <1>1, <1>2, <2>3
  <2> QED
    BY <1>1, <2>1, <2>2, <2>3
<1>5. ASSUME NEW i \in 1..n
      PROVE  \E f \in 1..(n + 1) :
               /\ f <= i /\ replies'[f].at = replies'[i].at
               /\ \A j \in 1..(n + 1) : j < f => replies'[j].at < replies'[f].at
  <2>1. PICK f \in 1..n :
          /\ f <= i /\ replies[f].at = replies[i].at
          /\ \A j \in 1..n : j < f => replies[j].at < replies[f].at
    BY <1>3, <1>5
  <2>2. f \in 1..(n + 1) /\ (\A j \in 1..(n + 1) : j < f => j \in 1..n)
    BY <1>1
  <2> QED
    BY <1>1, <1>5, <2>1, <2>2
<1>6. \E f \in 1..(n + 1) :
        /\ f <= n + 1 /\ replies'[f].at = replies'[n + 1].at
        /\ \A j \in 1..(n + 1) : j < f => replies'[j].at < replies'[f].at
  <2>1. CASE n > 0 /\ replies[n].at = second
    <3>1. n \in 1..n
      BY <1>1, <2>1
    <3>2. PICK f \in 1..(n + 1) :
            /\ f <= n /\ replies'[f].at = replies'[n].at
            /\ \A j \in 1..(n + 1) : j < f => replies'[j].at < replies'[f].at
      BY <1>5, <3>1
    <3> QED
      BY <1>1, <2>1, <3>1, <3>2
  <2>2. CASE ~(n > 0 /\ replies[n].at = second)
    <3>1. ASSUME NEW j \in 1..n PROVE replies[j].at < second
      <4>1. n \in 1..n /\ replies[n].at # second
        BY <1>1, <2>2, <3>1
      <4>2. j <= n /\ replies[j].at <= replies[n].at
        BY <1>1, <1>3, <4>1
      <4> QED
        BY <1>2, <4>1, <4>2
    <3>2. \A j \in 1..(n + 1) : j < n + 1 => j \in 1..n
      BY <1>1
    <3>3. n + 1 \in 1..(n + 1)
      BY <1>1
    <3> QED
      BY <1>1, <3>1, <3>2, <3>3
  <2> QED
    BY <2>1, <2>2
<1>7. \A i \in 1..(n + 1) : i \in 1..n \/ i = n + 1
  BY <1>1
<1>8. ASSUME NEW i \in 1..(n + 1)
      PROVE  \E f \in 1..(n + 1) :
               /\ f <= i /\ replies'[f].at = replies'[i].at
               /\ \A j \in 1..(n + 1) : j < f => replies'[j].at < replies'[f].at
  <2>1. CASE i \in 1..n
    BY <1>5, <2>1
  <2>2. CASE i = n + 1
    BY <1>6, <2>2
  <2> QED
    BY <1>7, <2>1, <2>2
<1>9. DOMAIN replies' = 1..(n + 1)
  BY <1>1
<1> DEFINE Ordered(seconds) ==
             \A i \in seconds :
               /\ \A j \in seconds : j <= i => replies'[j].at <= replies'[i].at
               /\ \E f \in seconds :
                    /\ f <= i /\ replies'[f].at = replies'[i].at
                    /\ \A j \in seconds : j < f => replies'[j].at < replies'[f].at
<1>10. Ordered(1..(n + 1))
  BY <1>4, <1>8
<1>11. Ordered(DOMAIN replies') => InOrder'
  BY DEF InOrder
<1> HIDE DEF Ordered
<1> QED
  BY <1>9, <1>10, <1>11

\* A set of replies that holds every later one has a newest, as late as all others.
LEMMA NewestExists ==
  ASSUME TeamTypeOK, InOrder, NEW since \in Int,
         NEW some, some = {i \in DOMAIN replies : replies[i].at > since}, some # {}
  PROVE  /\ Newest(some) \in some
         /\ \A j \in some : replies[j].at <= replies[Newest(some)].at
<1> DEFINE n == Len(replies)
           P(i) == \A j \in some : \/ replies[j].at < replies[i].at
                                   \/ replies[j].at = replies[i].at /\ j >= i
<1>1. n \in Nat /\ DOMAIN replies = 1..n
  BY Seconds
<1> HIDE DEF n
<1>2. \A i \in 1..n : replies[i].at \in Nat
  BY <1>1, Seconds
<1>3. n \in some /\ \A j \in 1..n : replies[j].at <= replies[n].at
  <2>1. PICK k \in 1..n : replies[k].at > since
    BY <1>1
  <2>2. n \in 1..n
    BY <1>1, <2>1
  <2>3. \A j \in 1..n : j <= n => replies[j].at <= replies[n].at
    BY <1>1, <2>2 DEF InOrder
  <2>4. \A j \in 1..n : replies[j].at <= replies[n].at
    BY <1>1, <2>3
  <2>5. replies[n].at > since
    BY <1>2, <2>1, <2>2, <2>4
  <2> QED
    BY <1>1, <2>2, <2>4, <2>5
<1>4. PICK f \in 1..n :
        /\ replies[f].at = replies[n].at
        /\ \A j \in 1..n : j < f => replies[j].at < replies[f].at
  BY <1>1, <1>3 DEF InOrder
<1>5. f \in some
  BY <1>1, <1>3, <1>4
<1>6. P(f)
  <2> TAKE j \in some
  <2>1. j \in 1..n /\ replies[j].at \in Nat /\ replies[f].at \in Nat
        /\ replies[j].at <= replies[f].at
    BY <1>1, <1>2, <1>3, <1>4
  <2>2. CASE j < f
    BY <1>4, <2>1, <2>2
  <2>3. CASE j >= f
    BY <2>1, <2>3
  <2> QED
    BY <1>1, <2>1, <2>2, <2>3
<1>7. \E i \in some : P(i)
  BY <1>5, <1>6
<1>8. Newest(some) = CHOOSE i \in some : P(i)
  BY DEF Newest
<1> HIDE DEF P
<1>9. Newest(some) \in some /\ P(Newest(some))
  BY <1>7, <1>8
<1>10. \A j \in some : replies[j].at <= replies[Newest(some)].at
  <2> TAKE j \in some
  <2>1. replies[j].at \in Nat
    BY <1>1, <1>2
  <2>2. \/ replies[j].at < replies[Newest(some)].at
        \/ replies[j].at = replies[Newest(some)].at
    BY <1>9 DEF P
  <2>3. replies[Newest(some)].at \in Nat
    BY <1>1, <1>2, <1>9
  <2> QED
    BY <2>1, <2>2, <2>3
<1> QED
  BY <1>9, <1>10

LEMMA CommandsGrow ==
  ASSUME TeamTypeOK, NEW c \in Commands, Comment(c)
  PROVE  commands' \in Seq(Commands) /\ Len(commands') <= MaxCommands
<1>1. /\ Len(commands) \in Nat /\ Len(commands) < MaxCommands
      /\ commands' = Append(commands, c)
  BY DEF TeamTypeOK, Comment
<1>2. commands' \in Seq(Commands) /\ Len(commands') = Len(commands) + 1
  BY <1>1 DEF TeamTypeOK
<1> QED
  BY <1>1, <1>2, TeamQueueAssumption

\* A step of the team queue, or of time, writes one reply or none.
Said == \E sig \in Signals : Replies(sig) /\ UNCHANGED second

LEMMA TeamStep ==
  ASSUME TeamTypeOK, TeamNext \/ Tick(watchFrom)
  PROVE  TeamTypeOK' /\ (UNCHANGED replies \/ Said)
<1>0. Len(replies) \in Nat /\ Len(commands) \in Nat
  BY DEF TeamTypeOK
<1>1. ASSUME commands # <<>>, commands' = Tail(commands)
      PROVE  commands' \in Seq(Commands) /\ Len(commands') <= MaxCommands
  <2>1. Tail(commands) \in Seq(Commands) /\ Len(Tail(commands)) = Len(commands) - 1
    BY <1>1 DEF TeamTypeOK
  <2> QED
    BY <1>0, <1>1, <2>1, TeamQueueAssumption DEF TeamTypeOK
<1>2. ASSUME Said, UNCHANGED <<status, checks>>,
             place' \in {"out", "waiting", "batch"},
             commands' \in Seq(Commands), Len(commands') <= MaxCommands
      PROVE  TeamTypeOK'
  <2>1. PICK sig \in Signals : Replies(sig) /\ UNCHANGED second
    BY <1>2 DEF Said
  <2>2. /\ replies' \in Seq(Reply) /\ Len(replies') <= MaxReplies
        /\ \A i \in DOMAIN replies' : replies'[i].at <= second'
    BY <2>1, RepliesGrow
  <2> QED
    BY <1>2, <2>1, <2>2 DEF TeamTypeOK
<1>3. CASE BotReads
  <2>1. Head(commands) \in Commands
    BY <1>3 DEF BotReads, TeamTypeOK
  <2>2. commands' \in Seq(Commands) /\ Len(commands') <= MaxCommands
        /\ UNCHANGED <<status, checks, second>>
    BY <1>1, <1>3 DEF BotReads
  <2>3. CASE Head(commands) = "/queue"
    <3>1. /\ place' \in {"waiting", place}
          /\ \E sig \in Signals : Replies(sig)
      BY <1>3, <2>3 DEF BotReads, Signals
    <3>2. Said /\ place' \in {"out", "waiting", "batch"}
      BY <2>2, <3>1 DEF Said, TeamTypeOK
    <3> QED
      BY <1>2, <2>2, <3>2
  <2>4. CASE Head(commands) = "/dequeue"
    <3>1. place' = "out" /\ Replies("notQueued") /\ "notQueued" \in Signals
      BY <1>3, <2>4 DEF BotReads, Signals
    <3>2. Said /\ place' \in {"out", "waiting", "batch"}
      BY <2>2, <3>1 DEF Said
    <3> QED
      BY <1>2, <2>2, <3>2
  <2>5. CASE Head(commands) = "/status"
    <3> DEFINE sig == CASE place = "out" -> "notQueued"
                        [] place = "waiting" -> "queued"
                        [] place = "batch" -> "batch"
    <3>1. place' = place /\ Replies(sig)
      BY <1>3, <2>5 DEF BotReads
    <3>2. sig \in Signals
      BY DEF TeamTypeOK, Signals
    <3>3. Said /\ place' \in {"out", "waiting", "batch"}
      BY <2>2, <3>1, <3>2 DEF Said, TeamTypeOK
    <3> QED
      BY <1>2, <2>2, <3>3
  <2> QED
    BY <2>1, <2>3, <2>4, <2>5 DEF Commands
<1>4. CASE BotIgnores
  BY <1>0, <1>1, <1>4 DEF BotIgnores, TeamTypeOK
<1>5. CASE BatchStarts \/ BatchFails
  <2>1. /\ Said /\ place' \in {"out", "waiting", "batch"}
        /\ UNCHANGED <<status, checks, commands>>
    BY <1>5 DEF BatchStarts, BatchFails, Said, Signals
  <2> QED
    BY <1>2, <2>1 DEF TeamTypeOK
<1>6. CASE BatchMerges \/ ChecksChange \/ Closes
  <2>1. /\ UNCHANGED <<commands, second, replies>>
        /\ status' \in {status, "merged", "closed"} /\ place' \in {place, "out"}
        /\ checks' \in {"pending", "failed", "green"}
    BY <1>6 DEF BatchMerges, ChecksChange, Closes, Ends
  <2> QED
    BY <2>1 DEF TeamTypeOK
<1>7. CASE PersonDequeues
  <2>1. UNCHANGED <<status, checks, place, second, replies>> /\ Comment("/dequeue")
    BY <1>7 DEF PersonDequeues
  <2>2. commands' \in Seq(Commands) /\ Len(commands') <= MaxCommands
    BY <2>1, CommandsGrow DEF Commands
  <2> QED
    BY <2>1, <2>2 DEF TeamTypeOK
<1>8. CASE Tick(watchFrom)
  <2>1. UNCHANGED <<status, checks, place, commands, replies>>
        /\ second < MaxSecond /\ second' = second + 1
    BY <1>8 DEF Tick
  <2>2. second' \in 0..MaxSecond /\ \A i \in DOMAIN replies : replies[i].at <= second'
    <3>1. second \in Nat /\ \A i \in DOMAIN replies :
                               replies[i].at \in Nat /\ replies[i].at <= second
      BY Seconds
    <3> QED
      BY <2>1, <3>1, TeamQueueAssumption
  <2> QED
    BY <2>1, <2>2 DEF TeamTypeOK
<1>9. UNCHANGED replies \/ Said
  <2>1. CASE BotReads
    <3>1. Head(commands) \in Commands /\ UNCHANGED second
      BY <2>1 DEF BotReads, TeamTypeOK
    <3>2. CASE Head(commands) = "/queue"
      BY <2>1, <3>1, <3>2 DEF BotReads, Signals, Said
    <3>3. CASE Head(commands) = "/dequeue"
      BY <2>1, <3>1, <3>3 DEF BotReads, Signals, Said
    <3>4. CASE Head(commands) = "/status"
      BY <2>1, <3>1, <3>4 DEF BotReads, Signals, Said, TeamTypeOK
    <3> QED
      BY <3>1, <3>2, <3>3, <3>4 DEF Commands
  <2>2. CASE BotIgnores \/ BatchMerges \/ ChecksChange \/ Closes \/ PersonDequeues
    BY <2>2 DEF BotIgnores, BatchMerges, ChecksChange, Closes, Ends, PersonDequeues
  <2>3. CASE BatchStarts \/ BatchFails
    BY <2>3 DEF BatchStarts, BatchFails, Said, Signals
  <2>4. CASE Tick(watchFrom)
    BY <2>4 DEF Tick
  <2> QED
    BY <2>1, <2>2, <2>3, <2>4 DEF TeamNext, Bot
<1> QED
  BY <1>3, <1>4, <1>5, <1>6, <1>7, <1>8, <1>9 DEF TeamNext, Bot

-----------------------------------------------------------------------------
(* The run *)

\* What ItemTypeOK says of the run and its item; a run that watches has asked, and
\* what is not running has not.
RunInv ==
  /\ pc \in {"off", "start", "get", "checks", "post", "posting", "signals",
             "sleep", "done"}
  /\ asked \in BOOLEAN /\ ctxDone \in BOOLEAN
  /\ dequeuing \in BOOLEAN
  /\ watchFrom \in Int /\ told \in BOOLEAN
  /\ result \in {"none", "nil", "canceled", "checks", "error"}
  /\ phase \in {"queued", "active", "merged", "failed", "stopped"}
  /\ pc = "done" => result # "none"
  /\ pc = "signals" => asked
  /\ asked => pc # "off"

ItemInv == TeamTypeOK /\ InOrder /\ RunInv

LEMMA InvMeansType == ItemInv => ItemTypeOK
BY DEF ItemInv, TeamTypeOK, RunInv, ItemTypeOK

\* What the bot said before the second from which a run watches is not what it is
\* declined for: of a later second there is such a reply only if the run was told.
Watched ==
  asked => \A i \in DOMAIN replies :
             replies[i].sig \in Out /\ replies[i].at > watchFrom => told

\* What LatestSignal returns is the newest reply after since, if there is one.
LEMMA LatestSignalIs ==
  ASSUME TeamTypeOK, InOrder, NEW since \in Int
  PROVE  /\ LatestSignal(since).at \in Int
         /\ \A i \in DOMAIN replies :
              replies[i].at > since => replies[i].at <= LatestSignal(since).at
         /\ LatestSignal(since).sig # "none" =>
              \E i \in DOMAIN replies :
                replies[i].at > since /\ LatestSignal(since).sig = replies[i].sig
<1> DEFINE after == {i \in DOMAIN replies : replies[i].at > since}
<1>1. CASE after = {}
  BY <1>1 DEF LatestSignal
<1>2. CASE after # {}
  <2>1. LatestSignal(since) = replies[Newest(after)]
    BY <1>2 DEF LatestSignal
  <2>2. /\ Newest(after) \in after
        /\ \A j \in after : replies[j].at <= replies[Newest(after)].at
    BY <1>2, NewestExists
  <2>3. Newest(after) \in DOMAIN replies /\ replies[Newest(after)].at > since
    BY <2>2
  <2>4. replies[Newest(after)].at \in Int
    BY <2>3, Seconds
  <2> QED
    BY <2>1, <2>2, <2>3, <2>4
<1> QED
  BY <1>1, <1>2

\* A step that leaves the team queue's comments alone, or adds to them.
LEMMA SameTeam ==
  ASSUME ItemInv, UNCHANGED teamVars, RunInv'
  PROVE  ItemInv'
BY DEF ItemInv, TeamTypeOK, InOrder, teamVars

LEMMA MoreCommands ==
  ASSUME ItemInv, NEW c \in Commands, Comment(c),
         UNCHANGED <<status, checks, place, second, replies>>, RunInv'
  PROVE  ItemInv'
<1>1. commands' \in Seq(Commands) /\ Len(commands') <= MaxCommands
  BY CommandsGrow DEF ItemInv
<1> QED
  BY <1>1 DEF ItemInv, TeamTypeOK, InOrder

\* Run writes one comment and reads the rest.
LEMMA DriveStep ==
  ASSUME ItemInv, Drives(DelegateRun)
  PROVE  ItemInv'
<1>0. RunInv /\ DelegateRun /\ UNCHANGED <<phase, dequeuing, told>>
  BY DEF ItemInv, Drives
<1>1. ASSUME Begin PROVE ItemInv'
  <2>1. LatestSignal(Lookback).at \in Int /\ Lookback \in Int
    BY LatestSignalIs DEF ItemInv, Lookback
  <2>2. asked' \in BOOLEAN /\ watchFrom' \in Int
    BY <1>1, <2>1 DEF Begin, AlreadyQueued
  <2>3. pc' = "get" /\ UNCHANGED <<result, ctxDone>> /\ UNCHANGED teamVars
    BY <1>1 DEF Begin, Go
  <2>4. RunInv'
    BY <1>0, <2>2, <2>3 DEF RunInv
  <2> QED
    BY <2>3, <2>4, SameTeam
<1>2. ASSUME Get PROVE ItemInv'
  <2>1. RunInv'
    BY <1>0, <1>2 DEF RunInv, Get, NextCall, Go, Return
  <2> QED
    BY <1>2, <2>1, SameTeam DEF Get
<1>3. ASSUME ChecksCall \/ PostFails PROVE ItemInv'
  <2>1. RunInv'
    BY <1>0, <1>3 DEF RunInv, ChecksCall, PostFails, Go, Return
  <2> QED
    BY <1>3, <2>1, SameTeam DEF ChecksCall, PostFails
<1>4. ASSUME PostQueue PROVE ItemInv'
  <2>1. RunInv'
    BY <1>0, <1>4 DEF RunInv, PostQueue, Go
  <2>2. "/queue" \in Commands
    BY DEF Commands
  <2> QED
    BY <1>4, <2>1, <2>2, MoreCommands DEF PostQueue
<1>5. ASSUME PostReturns PROVE ItemInv'
  <2>1. \A skew \in Skews : FromNow(skew) \in Int
    BY DelegateAssumption, TeamQueueAssumption DEF FromNow, ItemInv, TeamTypeOK
  <2>2. watchFrom \in Int /\ asked \in BOOLEAN
    BY <1>0 DEF RunInv
  <2>3. asked' \in BOOLEAN /\ watchFrom' \in Int
    BY <1>5, <2>1, <2>2 DEF PostReturns
  <2>4. pc' = "sleep" /\ UNCHANGED <<result, ctxDone>> /\ UNCHANGED teamVars
    BY <1>5 DEF PostReturns, Go
  <2>5. RunInv'
    BY <1>0, <2>3, <2>4 DEF RunInv
  <2> QED
    BY <2>4, <2>5, SameTeam
<1>6. ASSUME Watch \/ Sleep PROVE ItemInv'
  <2>1. /\ UNCHANGED <<asked, watchFrom, ctxDone>> /\ UNCHANGED teamVars
        /\ \/ pc' \in {"get", "sleep"} /\ UNCHANGED result
           \/ pc' = "done" /\ result' \in {"error", "canceled"}
    <3>1. CASE Watch
      BY <3>1 DEF Watch, Go, Return
    <3>2. CASE Sleep
      BY <3>2 DEF Sleep, Go, Return
    <3> QED
      BY <1>6, <3>1, <3>2
  <2>2. RunInv'
    BY <1>0, <2>1 DEF RunInv
  <2> QED
    BY <2>1, <2>2, SameTeam
<1> QED
  BY <1>0, <1>1, <1>2, <1>3, <1>4, <1>5, <1>6 DEF DelegateRun

LEMMA ItemInvInit == ItemInit => ItemInv
<1> SUFFICES ASSUME ItemInit PROVE ItemInv
  OBVIOUS
<1>1. /\ commands = <<>> /\ replies = <<>> /\ Len(commands) = 0 /\ Len(replies) = 0
      /\ DOMAIN replies = {} /\ second = 0
  BY DEF ItemInit, TeamInit
<1>2. commands \in Seq(Commands) /\ replies \in Seq(Reply) /\ 0 \in 0..MaxSecond
  BY <1>1, TeamQueueAssumption
<1>3. TeamTypeOK /\ InOrder
  BY <1>1, <1>2, TeamQueueAssumption DEF ItemInit, TeamInit, TeamTypeOK, InOrder
<1>4. RunInv
  BY LookbackIsInt DEF ItemInit, RunInv
<1> QED
  BY <1>3, <1>4 DEF ItemInv

LEMMA ItemInvStep ==
  ASSUME ItemInv, [ItemNext]_itemVars
  PROVE  ItemInv'
<1>0. RunInv /\ TeamTypeOK /\ InOrder
  BY DEF ItemInv
<1>1. CASE Outside(TeamNext \/ Tick(watchFrom))
  <2>1. TeamNext \/ Tick(watchFrom)
    BY <1>1 DEF Outside
  <2>2. TeamTypeOK' /\ (UNCHANGED replies \/ Said)
    BY <1>0, <2>1, TeamStep
  <2>3. InOrder'
    <3>1. CASE UNCHANGED replies
      BY <1>0, <3>1 DEF InOrder
    <3>2. CASE Said
      BY <1>0, <3>2, OrderGrows DEF Said
    <3> QED
      BY <2>2, <3>1, <3>2
  <2>4. UNCHANGED <<pc, asked, watchFrom, ctxDone, result, phase, dequeuing>>
    BY <1>1 DEF Outside, delegateVars
  <2>5. told' \in BOOLEAN
    BY <1>0, <1>1 DEF Outside, RunInv
  <2>6. RunInv'
    BY <1>0, <2>4, <2>5 DEF RunInv
  <2> QED
    BY <2>2, <2>3, <2>6 DEF ItemInv
<1>2. CASE Drives(DelegateRun)
  BY <1>2, DriveStep
<1>3. CASE Claimed
  <2>1. RunInv'
    BY <1>0, <1>3, LookbackIsInt DEF RunInv, Claimed, NoRun
  <2> QED
    BY <1>3, <2>1, SameTeam DEF Claimed
<1>4. CASE Process
  <2>1. phase' \in {"stopped", "merged", "queued", "failed"}
    BY <1>4 DEF Process
  <2>2. RunInv'
    BY <1>0, <1>4, <2>1, LookbackIsInt DEF RunInv, Process, NoRun
  <2> QED
    BY <1>4, <2>2, SameTeam DEF Process
<1>5. CASE Remove \/ ReAdd
  <2>1. /\ UNCHANGED <<pc, asked, watchFrom, result, dequeuing, told>>
        /\ phase' \in {"stopped", "queued"} /\ ctxDone' \in BOOLEAN
        /\ UNCHANGED teamVars
    BY <1>0, <1>5 DEF RunInv, Remove, ReAdd, delegateVars
  <2>2. RunInv'
    BY <1>0, <2>1 DEF RunInv
  <2> QED
    BY <2>1, <2>2, SameTeam
<1>6. CASE Restart
  <2>1. phase' \in {"queued", phase} /\ UNCHANGED teamVars
    BY <1>6 DEF Restart
  <2>2. RunInv'
    BY <1>0, <1>6, <2>1, LookbackIsInt DEF RunInv, Restart, NoRun
  <2> QED
    BY <2>1, <2>2, SameTeam
<1>7. CASE DequeuePosts \/ AsksStatus
  <2>1. /\ UNCHANGED <<pc, asked, watchFrom, ctxDone, result, phase, told>>
        /\ dequeuing' \in {FALSE, dequeuing}
        /\ UNCHANGED <<status, checks, place, second, replies>>
    BY <1>7 DEF DequeuePosts, AsksStatus, delegateVars, teamVars
  <2>2. RunInv'
    <3>1. dequeuing' \in BOOLEAN
      BY <1>0, <2>1 DEF RunInv
    <3> QED
      BY <1>0, <2>1, <3>1 DEF RunInv
  <2>3. UNCHANGED teamVars \/ \E c \in Commands : Comment(c)
    BY <1>7 DEF DequeuePosts, AsksStatus, Commands
  <2> QED
    BY <2>1, <2>2, <2>3, SameTeam, MoreCommands
<1>8. CASE UNCHANGED itemVars
  <2>1. RunInv' /\ UNCHANGED teamVars
    BY <1>0, <1>8 DEF RunInv, itemVars, delegateVars
  <2> QED
    BY <2>1, SameTeam
<1> QED
  BY <1>1, <1>2, <1>3, <1>4, <1>5, <1>6, <1>7, <1>8 DEF ItemNext, Worker

LEMMA ItemInvariant == ItemSpec => []ItemInv
BY ItemInvInit, ItemInvStep, PTL DEF ItemSpec

-----------------------------------------------------------------------------
(* Old replies and clocks *)

\* A run begins to watch from the newest reply there is, or from the second that its
\* own clock shows, which no reply is ahead of.
LEMMA WatchedStep ==
  ASSUME Skews \subseteq Nat, ItemInv, ItemInv', Watched, [ItemNext]_itemVars
  PROVE  Watched'
<1>0. RunInv /\ RunInv' /\ TeamTypeOK /\ TeamTypeOK' /\ InOrder
  BY DEF ItemInv
<1>1. \A i \in DOMAIN replies :
        replies[i].at \in Nat /\ replies[i].at <= second /\ second \in Nat
  BY <1>0, Seconds
<1>2. ASSUME UNCHANGED <<replies, asked, watchFrom, told>> PROVE Watched'
  BY <1>2 DEF Watched
<1>3. ASSUME asked' = FALSE PROVE Watched'
  BY <1>3 DEF Watched
<1>4. CASE Outside(TeamNext \/ Tick(watchFrom))
  <2>1. UNCHANGED <<pc, asked, watchFrom>> /\ told' = (told \/ (pc # "off" /\ SaysOut))
    BY <1>4 DEF Outside, delegateVars
  <2>2. UNCHANGED replies \/ Said
    BY <1>0, <1>4, TeamStep DEF Outside
  <2>3. CASE UNCHANGED replies
    BY <2>1, <2>3 DEF Watched
  <2>4. CASE Said
    <3>1. PICK sig \in Signals : Replies(sig) /\ UNCHANGED second
      BY <2>4 DEF Said
    <3>2. /\ Len(replies') = Len(replies) + 1 /\ Len(replies) \in Nat
          /\ DOMAIN replies = 1..Len(replies) /\ DOMAIN replies' = 1..Len(replies')
          /\ \A i \in 1..Len(replies) : replies'[i] = replies[i]
      BY <1>0, <3>1, RepliesGrow
    <3>3. SUFFICES ASSUME asked, NEW i \in DOMAIN replies',
                          replies'[i].sig \in Out, replies'[i].at > watchFrom
                   PROVE  told'
      BY <2>1 DEF Watched
    <3>4. CASE i \in 1..Len(replies)
      BY <2>1, <3>2, <3>3, <3>4 DEF Watched
    <3>5. CASE i = Len(replies')
      <4>1. SaysOut
        BY <3>2, <3>3, <3>5 DEF SaysOut
      <4>2. pc # "off"
        BY <1>0, <3>3 DEF RunInv
      <4> QED
        BY <2>1, <4>1, <4>2
    <3> QED
      BY <3>2, <3>3, <3>4, <3>5
  <2> QED
    BY <2>2, <2>3, <2>4
<1>5. CASE Drives(DelegateRun)
  <2>1. DelegateRun /\ UNCHANGED told
    BY <1>5 DEF Drives
  <2>2. CASE Begin
    <3>1. UNCHANGED replies
      BY <2>2 DEF Begin, teamVars
    <3>2. SUFFICES ASSUME asked' PROVE Watched'
      BY DEF Watched
    <3>3. watchFrom' = LatestSignal(Lookback).at
      BY <2>2, <3>2 DEF Begin
    <3>4. \A i \in DOMAIN replies : replies[i].at <= LatestSignal(Lookback).at
      BY <1>0, <1>1, LatestSignalIs DEF Lookback
    <3>5. LatestSignal(Lookback).at \in Int
      BY <1>0, LatestSignalIs DEF Lookback
    <3>6. \A i \in DOMAIN replies : ~(replies[i].at > watchFrom')
      BY <1>1, <3>3, <3>4, <3>5
    <3> QED
      BY <3>1, <3>6 DEF Watched
  <2>3. CASE PostReturns
    <3>1. UNCHANGED replies
      BY <2>3 DEF PostReturns, teamVars
    <3>2. CASE UNCHANGED <<asked, watchFrom>>
      BY <1>2, <2>1, <3>1, <3>2
    <3>3. ASSUME NEW skew \in Skews, watchFrom' = FromNow(skew) PROVE Watched'
      <4>1. skew \in Nat
        BY <3>3
      <4>2. \A i \in DOMAIN replies : ~(replies[i].at > watchFrom')
        BY <1>1, <3>3, <4>1 DEF FromNow
      <4> QED
        BY <3>1, <4>2 DEF Watched
    <3> QED
      BY <2>3, <3>2, <3>3 DEF PostReturns
  <2>4. CASE Get \/ ChecksCall \/ PostQueue \/ PostFails \/ Watch \/ Sleep
    BY <1>2, <2>1, <2>4
       DEF Get, ChecksCall, PostQueue, PostFails, Watch, Sleep, teamVars
  <2> QED
    BY <2>1, <2>2, <2>3, <2>4 DEF DelegateRun
<1>6. CASE Claimed \/ Process \/ Restart
  BY <1>3, <1>6 DEF Claimed, Process, Restart, NoRun
<1>7. CASE DequeuePosts \/ AsksStatus \/ Remove \/ ReAdd \/ UNCHANGED itemVars
  BY <1>2, <1>7
     DEF DequeuePosts, AsksStatus, Remove, ReAdd, itemVars, delegateVars, teamVars
<1> QED
  BY <1>4, <1>5, <1>6, <1>7 DEF ItemNext, Worker

-----------------------------------------------------------------------------
\* Every variable keeps its type: no reply is stamped with a second that is still
\* to come, and Run has a result when it returned.
THEOREM ItemTypeCorrect == ItemSpec => []ItemTypeOK
BY ItemInvariant, InvMeansType, PTL

\* A run ends as rejected or dequeued only if the bot said so after the run began,
\* over any number of retries, removals, restarts and lost answers, and however many
\* replies carry the same second: unless the local clock is behind GitHub's.
THEOREM VerdictsAreFresh ==
  ASSUME Skews \subseteq Nat
  PROVE  ItemSpec => NoStaleVerdict
<1>1. ItemInit => Watched
  BY DEF ItemInit, Watched
<1>2. ItemInv /\ ItemInv' /\ Watched /\ [ItemNext]_itemVars => Watched'
  BY WatchedStep
<1>3. ASSUME ItemInv, Watched, Watch, pc' = "done" PROVE told
  <2>1. pc = "signals" /\ Declines(LatestSignal(watchFrom).sig)
    BY <1>3 DEF Watch, Go, Return
  <2>2. LatestSignal(watchFrom).sig \in Out /\ LatestSignal(watchFrom).sig # "none"
    BY <2>1 DEF Declines, Out
  <2>3. asked /\ watchFrom \in Int
    BY <1>3, <2>1 DEF ItemInv, RunInv
  <2>4. PICK i \in DOMAIN replies :
          replies[i].at > watchFrom /\ LatestSignal(watchFrom).sig = replies[i].sig
    BY <1>3, <2>2, <2>3, LatestSignalIs DEF ItemInv
  <2> QED
    BY <1>3, <2>2, <2>3, <2>4 DEF Watched
<1>4. ItemInv /\ Watched => [Watch /\ pc' = "done" => told]_itemVars
  BY <1>3
<1> QED
  BY <1>1, <1>2, <1>4, ItemInvariant, PTL DEF NoStaleVerdict, ItemSpec
=============================================================================
