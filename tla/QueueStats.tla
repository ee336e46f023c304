----------------------------- MODULE QueueStats -----------------------------
(***************************************************************************)
(* queuestats.Collector (internal/queuestats/collector.go): the history of *)
(* the team queue's length, capped, and saved under its mutex whenever a   *)
(* sample is added.                                                        *)
(***************************************************************************)
EXTENDS SequencesExt, Naturals

CONSTANTS
  MaxHistory,  \* maxHistory
  StatsFaults  \* may a write of the file fail?

ASSUME StatsAssumption == MaxHistory \in Nat \ {0} /\ StatsFaults \in BOOLEAN

VARIABLES
  history,    \* c.history
  statsFile,  \* the file: it is renamed into place, so it is always whole
  mu,         \* who holds c.mu ("free": nobody)
  lag         \* history: has the last write failed?

statsVars == <<history, statsFile, mu, lag>>

\* c.history[len(c.history)-maxHistory:].  Mutant of Trim: one sample too many
\* is kept.
TrimLate(s) == IF Len(s) > MaxHistory + 1 THEN Tail(s) ELSE s

Trim(s) == SubSeq(s, Len(s) - MaxHistory + 1, Len(s))

\* The mutex between Append and save.  Mutant of Holds: it is given up in between.
HoldsNot(who) == "free"

Holds(who) == who

\* Record: the sample is added ...
AddSample(who, waiting) ==
  /\ mu = "free"
  /\ mu' = Holds(who)
  /\ LET all == Append(history, waiting)
     IN  history' = IF Len(all) > MaxHistory THEN Trim(all) ELSE all
  /\ UNCHANGED <<statsFile, lag>>

\* ... and saved, or a failure is logged.
SaveStats ==
  /\ \/ statsFile' = history /\ lag' = FALSE
     \/ StatsFaults /\ lag' = TRUE /\ UNCHANGED statsFile
  /\ mu' = "free"
  /\ UNCHANGED history

\* When History gets the mutex: a page may be shown the history.
Readable == mu = "free"

\* Load, into a new process.
LoadStats ==
  /\ history' = statsFile /\ mu' = "free" /\ lag' = FALSE
  /\ UNCHANGED statsFile

StatsInit == history = <<>> /\ statsFile = <<>> /\ mu = "free" /\ lag = FALSE
=============================================================================
