------------------------- MODULE StatusProbeProofs -------------------------
(***************************************************************************)
(* Proofs about the status button, for every number of users, every length *)
(* of the waits and of the history: what is shown is saved and fresh, and  *)
(* an answer that is there is found.                                       *)
(***************************************************************************)
EXTENDS StatusProbe, SelectionProofs, FiniteSetTheorems, SequenceTheorems,
        TLAPS

Reply == [length : Reports, age : 0..Oldest]

\* What ProbeTypeOK says, part by part: the bot's side, ...
BotOK ==
  /\ length \in Lengths
  /\ unread \in 0..MaxUnread
  /\ replies \in Seq(Reply)
  /\ Len(replies) <= MaxReplies

\* ... the handlers', ...
HandlersOK ==
  /\ pc \in [Prober -> {"idle", "post", "posting", "sleep", "record", "save"}]
  /\ age \in [Prober -> 0..Oldest] /\ left \in [Prober -> 0..WaitFor]
  /\ budget \in [Prober -> 0..CtxTimeout]
  /\ found \in [Prober -> Reports]
  /\ during \in [Prober -> SUBSET Lengths]

\* ... the statistics', with ShownIsSaved.
StatsOK ==
  /\ history \in Seq(Lengths) /\ statsFile \in Seq(Lengths)
  /\ Len(history) <= MaxHistory /\ Len(statsFile) <= MaxHistory
  /\ \A p \in Prober : mu = p <=> pc[p] = "save"
  /\ lag \in BOOLEAN
  /\ ShownIsSaved

\* What a probe knows of time, and of the answers it may take: as old as it is,
\* its button was pressed; what came since reports a length that was true since.
Knows(p) ==
  /\ Probing(p) =>
       /\ length \in during[p]
       /\ age[p] = CtxTimeout - budget[p]
       /\ \A k \in DOMAIN replies :
            After(replies[k], p) /\ replies[k].length # NoLength =>
              replies[k].length \in during[p]
  /\ pc[p] = "record" => found[p] \in during[p]

KnowsInv == \A p \in Prober : Knows(p)

Inv == BotOK /\ HandlersOK /\ StatsOK /\ KnowsInv

LEMMA InvMeansType == Inv => ProbeTypeOK /\ ShownIsSaved
BY DEF Inv, BotOK, HandlersOK, StatsOK, ProbeTypeOK, Reply

LEMMA InitInv == ProbeInit => Inv
<1> SUFFICES ASSUME ProbeInit PROVE Inv
  OBVIOUS
<1> USE ProbeAssumption, StatsAssumption DEF ProbeInit, StatsInit
<1>1. BotOK
  <2>1. replies = <<>> /\ replies \in Seq(Reply) /\ Len(replies) = 0
    OBVIOUS
  <2> QED
    BY <2>1 DEF BotOK
<1>2. HandlersOK
  BY DEF HandlersOK, Reports, Oldest
<1>3. StatsOK
  <2>1. /\ history = <<>> /\ statsFile = <<>>
        /\ <<>> \in Seq(Lengths) /\ Len(<<>>) = 0
    OBVIOUS
  <2>2. \A p \in Prober : mu = p <=> pc[p] = "save"
    OBVIOUS
  <2>3. Len(history) <= MaxHistory /\ Len(statsFile) <= MaxHistory
    BY <2>1
  <2>4. lag \in BOOLEAN /\ ShownIsSaved
    BY <2>1 DEF ShownIsSaved
  <2> QED
    BY <2>1, <2>2, <2>3, <2>4 DEF StatsOK
<1>4. KnowsInv
  BY DEF KnowsInv, Knows, Probing
<1> QED
  BY <1>1, <1>2, <1>3, <1>4 DEF Inv

-----------------------------------------------------------------------------
(* Clocks *)

LEMMA MonusType ==
  ASSUME NEW n \in Nat, NEW a \in 0..n PROVE Monus(a, 1) \in 0..n
BY DEF Monus

\* A second later: a probe is a second older, up to the age at which its context
\* ends, which is when nothing is left of its budget.
LEMMA AgeAndBudget ==
  ASSUME NEW c \in Nat, NEW b \in 0..c
  PROVE  Min({(c - b) + 1, c}) = c - Monus(b, 1)
<1>1. ASSUME NEW x \in Nat, NEW y \in Nat
      PROVE  Min({x, y}) = IF x <= y THEN x ELSE y
  BY <1>1 DEF Min
<1>2. Min({(c - b) + 1, c}) = IF (c - b) + 1 <= c THEN (c - b) + 1 ELSE c
  BY <1>1
<1> QED
  BY <1>2 DEF Monus

\* What Tick keeps of the replies: each is one that was there, a second older.
LEMMA KeptReplies ==
  ASSUME BotOK
  PROVE  /\ Kept(Aged) \in Seq(Reply) /\ Len(Kept(Aged)) <= MaxReplies
         /\ \A j \in DOMAIN Kept(Aged) : \E k \in DOMAIN replies :
              /\ Kept(Aged)[j].length = replies[k].length
              /\ Kept(Aged)[j].age = replies[k].age + 1
<1> DEFINE Older == [length : Reports, age : Nat]
           K == {k \in DOMAIN Aged : Aged[k].age < Oldest}
<1>0. CtxTimeout \in Nat /\ MaxReplies \in Nat
  BY ProbeAssumption
<1>1. /\ DOMAIN replies = 1..Len(replies) /\ Len(replies) \in Nat
      /\ \A k \in DOMAIN replies : replies[k] \in Reply
  BY DEF BotOK
<1>2. /\ DOMAIN Aged = DOMAIN replies
      /\ \A k \in DOMAIN replies :
           /\ Aged[k] \in Older
           /\ Aged[k].length = replies[k].length
           /\ Aged[k].age = replies[k].age + 1
  BY <1>0, <1>1 DEF Aged, Reply, Oldest
<1>3. Aged \in Seq(Older) /\ Len(Aged) = Len(replies)
  <2>1. Aged = [k \in 1..Len(replies) |-> Aged[k]]
    BY <1>1, <1>2 DEF Aged
  <2> QED
    BY <1>1, <1>2, <2>1
<1>4. K \in SUBSET DOMAIN Aged
  OBVIOUS
<1> HIDE DEF Older
<1>5. /\ Filter(Aged, K) \in Seq(Older)
      /\ \A j \in DOMAIN Filter(Aged, K) : \E k \in K : Filter(Aged, K)[j] = Aged[k]
  BY <1>3, <1>4, FilterType
<1>6. Len(Filter(Aged, K)) \in Nat /\ Len(Filter(Aged, K)) <= Len(Aged)
  BY <1>3, <1>4, FilterLength
<1>7. Kept(Aged) = Filter(Aged, K)
  BY DEF Kept
<1>8. \A k \in K : Aged[k] \in Reply
  BY <1>0, <1>2 DEF Older, Reply, Oldest
<1>9. \A j \in DOMAIN Kept(Aged) : \E k \in K : Kept(Aged)[j] = Aged[k]
  BY <1>5, <1>7
<1>10. Kept(Aged) \in Seq(Reply)
  <2>1. Kept(Aged) \in Seq(Older) /\ \A j \in DOMAIN Kept(Aged) : Kept(Aged)[j] \in Reply
    BY <1>5, <1>7, <1>8, <1>9
  <2> HIDE DEF K
  <2> QED
    BY <2>1
<1>11. Len(Kept(Aged)) <= MaxReplies
  BY <1>0, <1>1, <1>3, <1>6, <1>7 DEF BotOK
<1> QED
  BY <1>2, <1>9, <1>10, <1>11

\* The reply that Probe takes is one of those listed, and new; if it takes none,
\* none is new.
LEMMA NewReply ==
  ASSUME BotOK, NEW p \in Prober
  PROVE  /\ NewReplies(p) # <<>> =>
              \E k \in DOMAIN replies :
                After(replies[k], p) /\ Head(NewReplies(p)) = replies[k]
         /\ NewReplies(p) = <<>> => \A k \in DOMAIN replies : ~After(replies[k], p)
<1> DEFINE K == {k \in DOMAIN replies : After(replies[k], p)}
<1>1. replies \in Seq(Reply) /\ K \in SUBSET DOMAIN replies
  BY DEF BotOK
<1>2. NewReplies(p) = Filter(replies, K)
  BY DEF NewReplies
<1>3. ASSUME NEW f, f = Filter(replies, K), f # <<>>
      PROVE  Head(f) = f[1] /\ 1 \in DOMAIN f
  <2>1. f \in Seq(Reply)
    BY <1>1, <1>3, FilterType
  <2> QED
    BY <1>3, <2>1
<1>4. \A j \in DOMAIN Filter(replies, K) : \E k \in K : Filter(replies, K)[j] = replies[k]
  BY <1>1, FilterType
<1>5. Filter(replies, K) = <<>> <=> K = {}
  BY <1>1, FilterLength
<1> QED
  BY <1>2, <1>3, <1>4, <1>5

-----------------------------------------------------------------------------
(* Every step keeps the types *)

\* The steps of a handler that touch neither the statistics nor the bot.
Quiet(p) ==
  \/ Ask(p) \/ PostReturns(p) \/ PostFails(p)
  \/ Found(p) \/ NotFound(p) \/ Interrupted(p)

LEMMA QuietLeaves ==
  ASSUME NEW p \in Prober, Quiet(p)
  PROVE  UNCHANGED <<statsVars, bot>>
BY DEF Quiet, Ask, PostReturns, PostFails, Found, NotFound, Interrupted, Fails

LEMMA BotStep ==
  ASSUME BotOK, ProbeNext
  PROVE  BotOK'
<1>0. MaxUnread \in Nat /\ MaxReplies \in Nat
  BY ProbeAssumption
<1>1. CASE LengthChanges
  BY <1>1 DEF LengthChanges, BotOK
<1>2. CASE BotAnswers
  <2>1. PICK n \in {length, NoLength} : replies' = Append(replies, [length |-> n, age |-> 0])
    BY <1>2 DEF BotAnswers
  <2>2. [length |-> n, age |-> 0] \in Reply
    BY ProbeAssumption DEF BotOK, Reply, Reports, Oldest
  <2>3. /\ Len(replies) \in Nat /\ Len(replies) < MaxReplies
        /\ unread' \in 0..MaxUnread /\ length' = length
    BY <1>0, <1>2 DEF BotAnswers, BotOK
  <2>4. replies' \in Seq(Reply) /\ Len(replies') = Len(replies) + 1
    BY <2>1, <2>2 DEF BotOK
  <2> QED
    BY <1>0, <2>3, <2>4 DEF BotOK
<1>3. CASE Tick
  BY <1>3, KeptReplies DEF Tick, BotOK
<1>4. ASSUME NEW p \in Prober, Handler(p) PROVE BotOK'
  <2>1. CASE Post(p)
    BY <1>0, <2>1 DEF Post, BotOK
  <2>2. CASE Quiet(p) \/ RecordAdds(p) \/ RecordSaves(p)
    <3>1. UNCHANGED bot
      BY <2>2, QuietLeaves DEF RecordAdds, RecordSaves
    <3> QED
      BY <3>1 DEF bot, BotOK
  <2> QED
    BY <1>4, <2>1, <2>2 DEF Handler, Quiet
<1>5. CASE Restart
  BY <1>5 DEF Restart, bot, BotOK
<1> QED
  BY <1>1, <1>2, <1>3, <1>4, <1>5 DEF ProbeNext

LEMMA HandlersStep ==
  ASSUME BotOK, HandlersOK, ProbeNext
  PROVE  HandlersOK'
<1> USE DEF Go, At
<1>0. /\ WaitFor \in Nat /\ CtxTimeout \in Nat /\ 0 \in 0..Oldest
      /\ 0 \in 0..WaitFor /\ 0 \in 0..CtxTimeout /\ WaitFor \in 0..WaitFor
      /\ CtxTimeout \in 0..CtxTimeout
      /\ NoLength \in Reports
  BY ProbeAssumption DEF Oldest, Reports
<1>1. CASE LengthChanges
  BY <1>1 DEF LengthChanges, HandlersOK, clocks
<1>2. CASE BotAnswers
  BY <1>2 DEF BotAnswers, HandlersOK, clocks
<1>3. CASE Tick
  <2>1. ASSUME NEW x \in 0..Oldest PROVE Min({x + 1, Oldest}) \in 0..Oldest
    <3>1. x + 1 \in Nat /\ Oldest \in Nat
      BY <1>0 DEF Oldest
    <3> QED
      BY <3>1 DEF Min
  <2>2. age' \in [Prober -> 0..Oldest]
    BY <1>0, <1>3, <2>1 DEF Tick, HandlersOK
  <2>3. left' \in [Prober -> 0..WaitFor] /\ budget' \in [Prober -> 0..CtxTimeout]
    BY <1>0, <1>3, MonusType DEF Tick, HandlersOK
  <2> QED
    BY <1>3, <2>2, <2>3 DEF Tick, HandlersOK
<1>4. ASSUME NEW p \in Prober, Handler(p) PROVE HandlersOK'
  <2>1. CASE Ask(p)
    BY <1>0, <2>1 DEF Ask, HandlersOK, BotOK
  <2>2. CASE Post(p)
    BY <2>2 DEF Post, HandlersOK, clocks
  <2>3. CASE PostReturns(p)
    BY <1>0, <2>3 DEF PostReturns, AgeAfterPost, HandlersOK
  <2>4. ASSUME Fails(p) PROVE HandlersOK'
    BY <1>0, <2>4 DEF Fails, ProbeReturns, HandlersOK
  <2>5. CASE PostFails(p) \/ NotFound(p) \/ Interrupted(p)
    BY <2>4, <2>5 DEF PostFails, NotFound, Interrupted
  <2>6. CASE Found(p)
    <3>1. PICK k \in DOMAIN replies : Head(NewReplies(p)) = replies[k]
      BY <2>6, NewReply DEF Found
    <3>2. Head(NewReplies(p)).length \in Reports
      <4>1. replies[k] \in Reply
        BY <3>1 DEF BotOK
      <4> QED
        BY <3>1, <4>1 DEF Reply
    <3>3. CASE Fails(p)
      BY <2>4, <3>3
    <3>4. CASE ~Fails(p)
      <4>1. /\ pc' = [pc EXCEPT ![p] = "record"]
            /\ found' = [found EXCEPT ![p] = Head(NewReplies(p)).length]
            /\ ProbeReturns(p)
            /\ UNCHANGED during
        BY <2>6, <3>4 DEF Found
      <4> QED
        BY <1>0, <3>2, <4>1 DEF ProbeReturns, HandlersOK
    <3> QED
      BY <3>3, <3>4
  <2>7. CASE RecordAdds(p) \/ RecordSaves(p)
    BY <1>0, <2>7 DEF RecordAdds, RecordSaves, HandlersOK, clocks
  <2> QED
    BY <1>4, <2>1, <2>2, <2>3, <2>5, <2>6, <2>7 DEF Handler
<1>5. CASE Restart
  BY <1>0, <1>5 DEF Restart, HandlersOK
<1> QED
  BY <1>1, <1>2, <1>3, <1>4, <1>5 DEF ProbeNext

\* The statistics: a sample is added under the mutex, within the cap, and saved
\* before the mutex is free again.
LEMMA TrimKeeps ==
  ASSUME NEW s \in Seq(Lengths), Len(s) <= MaxHistory, NEW n \in Lengths,
         NEW all, all = Append(s, n), NEW t,
         t = IF Len(all) > MaxHistory THEN Trim(all) ELSE all
  PROVE  t \in Seq(Lengths) /\ Len(t) <= MaxHistory
<1>1. all \in Seq(Lengths) /\ Len(all) = Len(s) + 1 /\ Len(s) \in Nat
  OBVIOUS
<1>2. MaxHistory \in Nat /\ MaxHistory > 0
  BY StatsAssumption
<1>3. CASE Len(all) > MaxHistory
  <2>1. Len(all) = MaxHistory + 1
    BY <1>1, <1>2, <1>3
  <2>2. t = SubSeq(all, 2, MaxHistory + 1)
    BY <1>2, <1>3, <2>1 DEF Trim
  <2>3. \A i \in 2..(MaxHistory + 1) : all[i] \in Lengths
    BY <1>1, <1>2, <2>1
  <2>4. SubSeq(all, 2, MaxHistory + 1) \in Seq(Lengths)
        /\ Len(SubSeq(all, 2, MaxHistory + 1)) = MaxHistory
    <3>1. ASSUME NEW a \in Int, NEW b \in Int, a <= b, NEW u,
                 \A i \in a..b : u[i] \in Lengths
          PROVE  SubSeq(u, a, b) \in Seq(Lengths) /\ Len(SubSeq(u, a, b)) = b - a + 1
      BY <3>1, SubSeqProperties
    <3>2. 2 \in Int /\ MaxHistory + 1 \in Int /\ 2 <= MaxHistory + 1
          /\ (MaxHistory + 1) - 2 + 1 = MaxHistory
      BY <1>2
    <3> QED
      BY <2>3, <3>1, <3>2
  <2>5. t \in Seq(Lengths) /\ Len(t) = MaxHistory
    BY <2>2, <2>4, Zenon
  <2> QED
    BY <1>2, <2>5
<1> QED
  BY <1>1, <1>2, <1>3

LEMMA StatsStep ==
  ASSUME BotOK, HandlersOK, StatsOK, KnowsInv, ProbeNext
  PROVE  StatsOK'
<1> USE DEF Go, At
<1>1. ASSUME UNCHANGED statsVars, NEW p \in Prober,
             pc[p] # "save", \E call : pc' = [pc EXCEPT ![p] = call] /\ call # "save"
      PROVE  StatsOK'
  BY <1>1 DEF statsVars, StatsOK, HandlersOK, ShownIsSaved, Readable
<1>2. CASE LengthChanges \/ BotAnswers \/ Tick
  <2>1. UNCHANGED <<statsVars, pc>>
    BY <1>2 DEF LengthChanges, BotAnswers, Tick
  <2> QED
    BY <2>1 DEF statsVars, StatsOK, ShownIsSaved, Readable
<1>3. ASSUME NEW p \in Prober, Handler(p) PROVE StatsOK'
  <2>1. CASE Quiet(p) \/ Post(p)
    <3>1. UNCHANGED statsVars
      BY <2>1, QuietLeaves DEF Post
    <3>2. pc[p] # "save" /\ \E call : pc' = [pc EXCEPT ![p] = call] /\ call # "save"
      BY <2>1 DEF Quiet, Ask, Post, PostReturns, PostFails, Found, NotFound,
                  Interrupted, Fails
    <3> QED
      BY <1>1, <3>1, <3>2
  <2>2. CASE RecordAdds(p)
    <3>1. pc[p] = "record" /\ AddSample(p, found[p]) /\ pc' = [pc EXCEPT ![p] = "save"]
      BY <2>2 DEF RecordAdds
    <3>2. found[p] \in Lengths
      BY <3>1 DEF KnowsInv, Knows, HandlersOK
    <3>3. history' \in Seq(Lengths) /\ Len(history') <= MaxHistory
      BY <3>1, <3>2, TrimKeeps DEF AddSample, StatsOK
    <3>4. mu = "free" /\ mu' = p /\ UNCHANGED <<statsFile, lag>>
      BY <3>1 DEF AddSample, Holds
    <3>5. \A q \in Prober : mu' = q <=> pc'[q] = "save"
      BY <3>1, <3>4, ProbeAssumption DEF StatsOK, HandlersOK
    <3>6. mu' # "free"
      BY <3>4, ProbeAssumption
    <3> QED
      BY <3>3, <3>4, <3>5, <3>6 DEF StatsOK, ShownIsSaved, Readable
  <2>3. CASE RecordSaves(p)
    <3>1. pc[p] = "save" /\ SaveStats /\ pc' = [pc EXCEPT ![p] = "idle"]
      BY <2>3 DEF RecordSaves
    <3>2. mu = p /\ mu' = "free" /\ history' = history /\ lag' \in BOOLEAN
      BY <3>1 DEF SaveStats, StatsOK
    <3>3. \A q \in Prober : mu' = q <=> pc'[q] = "save"
      BY <3>1, <3>2, ProbeAssumption DEF StatsOK, HandlersOK
    <3>4. statsFile' \in {history, statsFile} /\ (lag' \/ statsFile' = history')
      BY <3>1, <3>2 DEF SaveStats
    <3> QED
      BY <3>2, <3>3, <3>4 DEF StatsOK, ShownIsSaved
  <2> QED
    BY <1>3, <2>1, <2>2, <2>3 DEF Handler, Quiet
<1>4. CASE Restart
  <2>1. LoadStats /\ pc' = [q \in Prober |-> "idle"]
    BY <1>4 DEF Restart
  <2>2. \A q \in Prober : mu' = q <=> pc'[q] = "save"
    BY <2>1, ProbeAssumption DEF LoadStats
  <2> QED
    BY <2>1, <2>2 DEF LoadStats, StatsOK, ShownIsSaved
<1> QED
  BY <1>2, <1>3, <1>4 DEF ProbeNext

-----------------------------------------------------------------------------
(* What a probe knows *)

LEMMA KnowsStep ==
  ASSUME BotOK, HandlersOK, KnowsInv, ProbeNext
  PROVE  KnowsInv'
<1> SUFFICES ASSUME NEW q \in Prober PROVE Knows(q)'
  BY DEF KnowsInv
<1> USE DEF Go, At
<1>0. /\ Knows(q) /\ CtxTimeout \in Nat
      /\ age[q] \in 0..CtxTimeout /\ budget[q] \in 0..CtxTimeout
      /\ during[q] \in SUBSET Lengths /\ length \in Lengths
      /\ \A k \in DOMAIN replies : replies[k] \in Reply
      /\ replies \in Seq(Reply)
  BY ProbeAssumption DEF KnowsInv, HandlersOK, BotOK, Oldest
<1>1. CASE LengthChanges
  <2>1. PICK n \in Lengths : length' = n /\ UNCHANGED <<replies, pc, age, budget, found>>
        /\ during' = [p \in Prober |->
                        IF pc[p] \in {"idle", "save"} THEN {} ELSE during[p] \cup {n}]
    BY <1>1 DEF LengthChanges, clocks
  <2>2. CASE pc[q] \in {"idle", "save"}
    BY <2>1, <2>2 DEF Knows, Probing
  <2>3. CASE pc[q] \notin {"idle", "save"}
    <3>1. during'[q] = during[q] \cup {n}
      BY <2>1, <2>3
    <3> QED
      BY <1>0, <2>1, <3>1 DEF Knows, Probing, After
  <2> QED
    BY <2>2, <2>3
<1>2. CASE BotAnswers
  <2>1. PICK n \in {length, NoLength} : replies' = Append(replies, [length |-> n, age |-> 0])
    BY <1>2 DEF BotAnswers
  <2>2. UNCHANGED <<length, pc, age, budget, found, during>>
    BY <1>2 DEF BotAnswers, clocks
  <2>3. \A k \in DOMAIN replies' :
          \/ replies'[k] = [length |-> n, age |-> 0]
          \/ k \in DOMAIN replies /\ replies'[k] = replies[k]
    BY <1>0, <2>1
  <2>4. ASSUME Probing(q), NEW k \in DOMAIN replies', replies'[k].age < age[q],
               replies'[k].length # NoLength
        PROVE  replies'[k].length \in during[q]
    <3>1. CASE replies'[k] = [length |-> n, age |-> 0]
      BY <1>0, <2>1, <2>4, <3>1 DEF Knows
    <3>2. CASE k \in DOMAIN replies /\ replies'[k] = replies[k]
      BY <1>0, <2>4, <3>2 DEF Knows, After
    <3> QED
      BY <2>3, <3>1, <3>2
  <2> QED
    BY <1>0, <2>2, <2>4 DEF Knows, Probing, After
<1>3. CASE Tick
  <2>1. /\ replies' = Kept(Aged) /\ UNCHANGED <<length, pc, found, during>>
        /\ Probing(q) => age'[q] = Min({age[q] + 1, Oldest})
        /\ budget'[q] = Monus(budget[q], 1)
    BY <1>3 DEF Tick
  <2>2. ASSUME Probing(q) PROVE age'[q] = CtxTimeout - budget'[q]
    BY <1>0, <2>1, <2>2, AgeAndBudget DEF Knows, Oldest
  <2>3. ASSUME Probing(q), NEW j \in DOMAIN replies', replies'[j].age < age'[q],
               replies'[j].length # NoLength
        PROVE  replies'[j].length \in during[q]
    <3>1. PICK k \in DOMAIN replies :
            replies'[j].length = replies[k].length /\ replies'[j].age = replies[k].age + 1
      BY <2>1, <2>3, KeptReplies
    <3>2. replies[k].age \in Nat /\ age'[q] <= age[q] + 1
      <4>1. age[q] + 1 \in Nat /\ Oldest \in Nat /\ replies[k].age \in Nat
        BY <1>0, <3>1 DEF Oldest, Reply
      <4>2. Min({age[q] + 1, Oldest}) <= age[q] + 1
        BY <4>1 DEF Min
      <4> QED
        BY <2>1, <2>3, <4>1, <4>2
    <3>3. age'[q] \in Nat
      <4>1. budget'[q] \in 0..CtxTimeout
        BY <1>0, <2>1, MonusType
      <4> QED
        BY <1>0, <2>2, <2>3, <4>1
    <3>4. After(replies[k], q)
      BY <1>0, <2>3, <3>1, <3>2, <3>3 DEF After
    <3> QED
      BY <1>0, <2>3, <3>1, <3>4 DEF Knows
  <2>4. (\A k \in DOMAIN replies :
            After(replies[k], q) /\ replies[k].length # NoLength =>
              replies[k].length \in during[q])'
        \/ ~Probing(q)
    BY <2>1, <2>3 DEF After
  <2> QED
    BY <1>0, <2>1, <2>2, <2>4 DEF Knows, Probing
<1>4. ASSUME NEW p \in Prober, Handler(p), p # q PROVE Knows(q)'
  <2>1. UNCHANGED <<length, replies>> /\ pc'[q] = pc[q] /\ age'[q] = age[q]
        /\ budget'[q] = budget[q] /\ found'[q] = found[q] /\ during'[q] = during[q]
    BY <1>4 DEF Handler, Ask, Post, PostReturns, PostFails, Found, NotFound, Interrupted,
                RecordAdds, RecordSaves, Fails, ProbeReturns, HandlersOK, bot, clocks
  <2> QED
    BY <1>0, <2>1 DEF Knows, Probing, After
<1>5. ASSUME Handler(q) PROVE Knows(q)'
  <2>1. CASE Ask(q)
    <3>1. /\ pc'[q] = "post" /\ age'[q] = 0 /\ budget'[q] = CtxTimeout
          /\ during'[q] = {length} /\ UNCHANGED <<length, replies>>
      BY <2>1 DEF Ask, HandlersOK, bot
    <3> QED
      BY <1>0, <3>1 DEF Knows, Probing, After, Reply
  <2>2. CASE Post(q) \/ PostReturns(q)
    <3>1. /\ pc[q] \in {"post", "posting"} /\ pc'[q] \in {"posting", "sleep"}
          /\ age'[q] = age[q] /\ budget'[q] = budget[q] /\ during'[q] = during[q]
          /\ UNCHANGED <<length, replies>>
      BY <2>2 DEF Post, PostReturns, AgeAfterPost, HandlersOK, bot, clocks
    <3> QED
      BY <1>0, <3>1 DEF Knows, Probing, After
  <2>3. ASSUME Fails(q) PROVE Knows(q)'
    <3>1. pc'[q] = "idle"
      BY <2>3 DEF Fails, HandlersOK
    <3> QED
      BY <3>1 DEF Knows, Probing
  <2>4. CASE Found(q) /\ ~Fails(q)
    <3>1. PICK k \in DOMAIN replies :
            After(replies[k], q) /\ Head(NewReplies(q)) = replies[k]
      BY <2>4, NewReply DEF Found
    <3>2. /\ pc[q] = "sleep" /\ Head(NewReplies(q)).length # NoLength
          /\ pc'[q] = "record" /\ found'[q] = Head(NewReplies(q)).length
          /\ during'[q] = during[q]
      BY <2>4 DEF Found, HandlersOK
    <3> QED
      BY <1>0, <3>1, <3>2 DEF Knows, Probing
  <2>5. CASE RecordAdds(q) \/ RecordSaves(q)
    <3>1. pc'[q] \in {"save", "idle"}
      BY <2>5 DEF RecordAdds, RecordSaves, HandlersOK
    <3> QED
      BY <3>1 DEF Knows, Probing
  <2> QED
    BY <1>5, <2>1, <2>2, <2>3, <2>4, <2>5 DEF Handler, PostFails, NotFound, Interrupted
<1>6. CASE Restart
  <2>1. pc'[q] = "idle"
    BY <1>6 DEF Restart
  <2> QED
    BY <2>1 DEF Knows, Probing
<1> QED
  BY <1>1, <1>2, <1>3, <1>4, <1>5, <1>6 DEF ProbeNext

LEMMA Stutter == Inv /\ UNCHANGED probeVars => Inv'
BY DEF Inv, BotOK, HandlersOK, StatsOK, ShownIsSaved, Readable, KnowsInv, Knows,
       Probing, After, probeVars, statsVars, bot, clocks

LEMMA Invariance == ProbeSpec => []Inv
<1>1. Inv /\ [ProbeNext]_probeVars => Inv'
  BY BotStep, HandlersStep, StatsStep, KnowsStep, Stutter DEF Inv
<1> QED
  BY <1>1, InitInv, PTL DEF ProbeSpec

-----------------------------------------------------------------------------
(* What the button and the page show *)

\* Every variable keeps its type; history and file keep to the cap, and the mutex
\* is held by who is saving.
THEOREM ProbeTypeCorrect == ProbeSpec => []ProbeTypeOK
BY Invariance, InvMeansType, PTL

\* What GET /api/queuestats shows is in the file, or the last write failed.
THEOREM ShownSurvives == ProbeSpec => []ShownIsSaved
BY Invariance, InvMeansType, PTL

\* A length that is recorded was true at some moment since the user asked.
THEOREM RecordedIsFresh == ProbeSpec => ProbeIsFresh
<1>1. Inv => [\A p \in Prober : RecordAdds(p) => found[p] \in during[p]]_probeVars
  BY DEF Inv, KnowsInv, Knows, RecordAdds, At
<1> QED
  BY <1>1, Invariance, PTL DEF ProbeIsFresh

\* Probe gives up only if no answer is there from after the second in which the
\* user asked.
THEOREM AnswersAreFound == ProbeSpec => AnswerIsFound
<1> DEFINE Heard(p) ==
      LET elapsed == CtxTimeout - budget[p]
      IN  NotFound(p) => \A k \in DOMAIN replies : replies[k].age >= elapsed
<1>1. ASSUME Inv, NEW p \in Prober PROVE Heard(p)
  <2>1. SUFFICES ASSUME NotFound(p), NEW k \in DOMAIN replies
                 PROVE  replies[k].age >= CtxTimeout - budget[p]
    OBVIOUS
  <2>2. ~After(replies[k], p) /\ age[p] = CtxTimeout - budget[p]
    BY <1>1, <2>1, NewReply DEF NotFound, At, Inv, KnowsInv, Knows, Probing
  <2>3. replies[k] \in Reply /\ age[p] \in 0..Oldest
    BY <1>1, <2>1 DEF Inv, BotOK, HandlersOK
  <2>4. replies[k].age \in Nat /\ age[p] \in Nat
    BY <2>3, ProbeAssumption DEF Reply, Oldest
  <2> QED
    BY <2>2, <2>4 DEF After
<1> HIDE DEF Heard
<1>2. Inv => [\A p \in Prober : Heard(p)]_probeVars
  BY <1>1
<1> QED
  BY <1>2, Invariance, PTL DEF AnswerIsFound, Heard
=============================================================================
