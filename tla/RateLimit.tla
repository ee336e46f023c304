------------------------------ MODULE RateLimit ------------------------------
(***************************************************************************)
(* One request through rateLimitTransport (internal/ghclient/              *)
(* ratelimit.go): the base transport sends it, a rate-limited answer is    *)
(* waited out and the request sent again, at most Retries times.  GitHub   *)
(* imposes limits when it likes, executes a request or not, and may be     *)
(* silent; meanwhile the context may be cancelled, and the whole exchange  *)
(* of a GraphQL request times out (client.go).  Time is a number of ticks  *)
(* left of whatever runs down.                                             *)
(***************************************************************************)
EXTENDS Naturals

CONSTANTS
  MaxWait,     \* t.maxWait, in ticks
  Retries,     \* t.retries
  Grace,       \* the minute that the GraphQL client's timeout adds to MaxWait
  LongestWait, \* bound: how long a limit of GitHub's lasts
  Ahead        \* how far the local clock may be ahead of GitHub's

ASSUME RateLimitAssumption ==
  /\ MaxWait \in Nat /\ Retries \in Nat /\ LongestWait \in Nat
  /\ Grace \in Nat \ {0}
  /\ Ahead \subseteq Nat

VARIABLES
  kind,       \* the request's body: "none", "rewindable", or "once"
  bounded,    \* does the http.Client have a Timeout?
  ahead,      \* how far the local clock is ahead
  pc,         \* "send": in the base transport; "wait": in t.wait; "done"
  attempt,    \* attempt
  body,       \* is the body still to be read?
  timer,      \* what is left of the wait
  exchange,   \* what is left of the client's timeout
  cancelled,  \* has the caller cancelled the request's context?
  result,     \* what RoundTrip returned ("none": it has not)
  window,     \* GitHub: how much longer it limits us (0: not at all)
  imposed,    \* history: the limits that GitHub has imposed since the request
              \* was made, counted up to one more than Retries
  long,       \* history: was one longer than MaxWait?
  executed,   \* history: how often GitHub has executed the request
  waited      \* history: ticks spent in t.wait, counted up to one
              \* more than Patience

\* The longest that one request may wait.
Patience == Retries * MaxWait

request == <<kind, bounded, ahead>>
github  == <<window, imposed, long>>
rateVars == <<kind, bounded, ahead, pc, attempt, body, timer, exchange, cancelled,
              result, window, imposed, long, executed, waited>>

\* The request's context is done.  Mutant of CtxDone: the client has no Timeout.
OnlyCancelled == cancelled

CtxDone == cancelled \/ (bounded /\ exchange = 0)

-----------------------------------------------------------------------------
(* GitHub *)

\* The wait that a limited answer asks for: Retry-After counts seconds, the reset
\* of the primary limit is a time on GitHub's clock, compared with the local one.
Monus(a, b) == IF a > b THEN a - b ELSE 0
Delays == {window, Monus(window, ahead)}

\* A limit is imposed, or a new one after the old.
Impose ==
  /\ window = 0
  /\ \E w \in 1..LongestWait :
       /\ window' = w
       /\ long' = (long \/ w > MaxWait)
  /\ imposed' = IF imposed > Retries THEN imposed ELSE imposed + 1
  /\ UNCHANGED <<request, pc, attempt, body, timer, exchange, cancelled, result,
                 executed, waited>>

-----------------------------------------------------------------------------
(* RoundTrip *)

Return(r) ==
  /\ pc' = "done" /\ result' = r
  /\ timer' = 0
  /\ UNCHANGED attempt

\* An error of the base transport is returned.  Mutant of Lost: it is tried again.
LostRetried == pc' = "wait" /\ timer' = 0 /\ UNCHANGED <<attempt, result>>

Lost == Return("error")

\* GitHub reads the body and executes the request; its answer, whatever the
\* status, is no rate limit and is returned, or is lost.
Executed ==
  /\ pc = "send" /\ window = 0
  /\ executed' = executed + 1
  /\ body' = FALSE
  /\ \/ Return("answer")
     \/ Lost
  /\ UNCHANGED <<request, exchange, cancelled, github, waited>>

\* The request does not get there, or is refused for another reason.
Failed ==
  /\ pc = "send"
  /\ body' \in {body, FALSE}
  /\ \/ Return("answer")
     \/ Lost
  /\ UNCHANGED <<request, exchange, cancelled, github, executed, waited>>

\* Is this one waited out?  Mutants of Waits: it waits one time more, or less.
OneMore(delay) == delay <= MaxWait /\ attempt <= Retries
OneLess(delay) == delay <= MaxWait /\ attempt + 1 < Retries

Waits(delay) == delay <= MaxWait /\ attempt < Retries

\* A body must be rewindable to be sent again.
Replayable == kind \in {"none", "rewindable"}

\* req.Body = body, a new reader.  Mutant of Rewound: the old one is kept.
NotRewound == FALSE

Rewound == kind = "rewindable"

\* GitHub reports a limit and executes nothing.
Limited ==
  /\ pc = "send" /\ window > 0
  /\ \E delay \in Delays :
       IF Waits(delay) /\ Replayable
       THEN /\ pc' = "wait" /\ timer' = delay
            /\ body' = Rewound
            /\ UNCHANGED <<attempt, result>>
       ELSE /\ Return("limited")
            /\ body' = FALSE
  /\ UNCHANGED <<request, exchange, cancelled, github, executed, waited>>

\* attempt++
NextAttempt == attempt + 1

\* The timer of waitFor fires: the next turn of the loop.
Again ==
  /\ pc = "wait" /\ timer = 0
  /\ pc' = "send"
  /\ attempt' = NextAttempt
  /\ UNCHANGED <<request, body, timer, exchange, cancelled, result, github,
                 executed, waited>>

\* The context ends the wait, or the base transport gives up.
Canceled ==
  /\ CtxDone
  /\ pc \in {"send", "wait"}
  /\ Return("canceled")
  /\ UNCHANGED <<request, body, exchange, cancelled, github, executed, waited>>

-----------------------------------------------------------------------------
(* The rest of the world *)

Cancel ==
  /\ pc # "done" /\ ~cancelled
  /\ cancelled' = TRUE
  /\ UNCHANGED <<request, pc, attempt, body, timer, exchange, result, github,
                 executed, waited>>

\* Time passes; the timer of a wait that is over fires at once.
Tick ==
  /\ pc # "done"
  /\ pc = "wait" => timer > 0
  /\ timer' = Monus(timer, 1)
  /\ waited' = IF pc = "wait" /\ waited <= Patience THEN waited + 1 ELSE waited
  /\ exchange' = Monus(exchange, 1)
  /\ window' = Monus(window, 1)
  /\ UNCHANGED <<request, pc, attempt, body, cancelled, result, imposed, long,
                 executed>>

\* The Timeout of the GraphQL client, over all attempts and waits.
Timeout == MaxWait + Grace

RateInit ==
  /\ kind \in {"none", "rewindable", "once"}
  /\ bounded \in BOOLEAN /\ ahead \in Ahead
  /\ pc = "send" /\ attempt = 0 /\ body = (kind # "none") /\ timer = 0
  /\ exchange = Timeout /\ cancelled = FALSE /\ result = "none"
  /\ \E w \in 0..LongestWait :
       /\ window = w /\ long = (w > MaxWait)
       /\ imposed = IF w > 0 THEN 1 ELSE 0
  /\ executed = 0 /\ waited = 0

RoundTrip == Executed \/ Failed \/ Limited \/ Again \/ Canceled

RateNext == RoundTrip \/ Impose \/ Cancel \/ Tick

RateSpec == RateInit /\ [][RateNext]_rateVars

\* Timers run down, the loop goes on, and a context that is done ends whatever
\* waits for it.  GitHub need not answer.
RateFairSpec ==
  RateSpec /\ WF_rateVars(Tick) /\ WF_rateVars(Again) /\ WF_rateVars(Canceled)

-----------------------------------------------------------------------------
\* Every variable keeps its type; no request waits for limits longer than Retries
\* times MaxWait, and no single wait is longer than MaxWait.
RateTypeOK ==
  /\ kind \in {"none", "rewindable", "once"}
  /\ bounded \in BOOLEAN /\ ahead \in Ahead
  /\ pc \in {"send", "wait", "done"}
  /\ attempt \in 0..Retries /\ body \in BOOLEAN
  /\ timer \in 0..MaxWait /\ exchange \in 0..Timeout
  /\ cancelled \in BOOLEAN
  /\ result \in {"none", "answer", "limited", "error", "canceled"}
  /\ result = "none" <=> pc # "done"
  /\ window \in 0..LongestWait /\ imposed \in 0..(Retries + 1) /\ long \in BOOLEAN
  /\ executed \in Nat /\ waited \in 0..Patience

\* A request that is reported as rate limited did nothing, so that the runner may
\* poll and ask again; and nothing is ever executed twice, whatever was resent.
LimitedDidNothing == executed <= 1 /\ (result = "limited" => executed = 0)

\* A request that is sent again carries its whole body again.
BodyIsResent == [][Executed => body \/ kind = "none"]_rateVars

\* A temporary limit does not bubble up (ratelimit.go:22-24): with clocks that
\* agree, only a limit longer than MaxWait, or one more limit than Retries, is
\* reported for a request that can be sent again.
LimitIsRidden ==
  result = "limited" /\ kind # "once" /\ ahead = 0 => long \/ imposed > Retries

\* A cancelled request ends, and so does one of a client with a Timeout, although
\* GitHub is silent or limits it again and again (client.go:65-67).
ContextEnds == (cancelled \/ bounded) ~> pc = "done"
=============================================================================
