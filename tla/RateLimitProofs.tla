--------------------------- MODULE RateLimitProofs ---------------------------
(***************************************************************************)
(* Theorems about RateLimit, for every MaxWait, number of Retries, length  *)
(* of GitHub's limits and difference of the clocks.                        *)
(***************************************************************************)
EXTENDS RateLimit, TLAPS

\* The ticks that a attempts may have waited; named, because the provers know
\* only sums.
Allowed(a) == a * MaxWait

\* A request waits only between two attempts, and what it has waited, with what is
\* left of the wait, is paid for by its attempts.
WaitsPaid ==
  /\ pc # "wait" => timer = 0
  /\ pc = "send" => waited <= Allowed(attempt)
  /\ pc = "wait" => /\ attempt + 1 <= Retries
                    /\ waited + timer <= Allowed(attempt + 1)

\* GitHub executes a request in the attempt that ends it.
ExecutedLast == pc # "done" => executed = 0

\* With clocks that agree, every attempt has met a limit of its own, and a limit
\* that outlasts its wait is a new one.
LimitsCounted ==
  /\ window > MaxWait => long
  /\ ahead = 0 =>
       /\ pc = "send" => attempt <= imposed /\ (window > 0 => attempt < imposed)
       /\ pc = "wait" => attempt < imposed /\ (window > timer => attempt + 1 < imposed)

\* There is a body to be read in every attempt of a request that has one.
BodyReady == pc # "done" => body \/ kind = "none"

IInv ==
  /\ RateTypeOK
  /\ WaitsPaid
  /\ LimitedDidNothing /\ ExecutedLast
  /\ LimitIsRidden /\ LimitsCounted
  /\ BodyReady

-----------------------------------------------------------------------------
\* Allowed grows by MaxWait with every attempt, and Retries of them are the bound.
LEMMA AllowedGrows ==
  /\ Allowed(0) = 0
  /\ \A a \in Nat : Allowed(a) \in Nat /\ Allowed(a + 1) = Allowed(a) + MaxWait
  /\ \A a \in Nat : a <= Retries => Allowed(a) <= Patience
  /\ Patience \in Nat
<1> USE DEF Allowed, Patience
<1>1. Allowed(0) = 0
  BY RateLimitAssumption
<1>2. ASSUME NEW a \in Nat
      PROVE  Allowed(a) \in Nat /\ Allowed(a + 1) = Allowed(a) + MaxWait
  BY RateLimitAssumption
<1>3. ASSUME NEW a \in Nat, a <= Retries
      PROVE  Allowed(a) <= Patience
  BY <1>3, RateLimitAssumption
<1>4. Patience \in Nat
  BY RateLimitAssumption
<1> QED
  BY <1>1, <1>2, <1>3, <1>4

\* A limited answer asks for a wait that is a number, and that is all of the
\* limit if the clocks agree (rateLimitWait).
LEMMA DelayIsWindow ==
  ASSUME RateTypeOK, NEW delay \in Delays
  PROVE  delay \in Nat /\ (ahead = 0 => delay = window)
BY RateLimitAssumption DEF RateTypeOK, Delays, Monus

\* The initial states satisfy the invariant.
LEMMA InitIInv == RateInit => IInv
<1> SUFFICES ASSUME RateInit PROVE IInv
  OBVIOUS
<1> USE RateLimitAssumption
<1>1. RateTypeOK
  <2>1. /\ kind \in {"none", "rewindable", "once"} /\ bounded \in BOOLEAN
        /\ ahead \in Ahead /\ exchange = Timeout /\ result = "none"
        /\ pc = "send" /\ attempt = 0 /\ timer = 0 /\ executed = 0 /\ waited = 0
    BY DEF RateInit
  <2>2. body \in BOOLEAN /\ cancelled \in BOOLEAN
    BY Zenon DEF RateInit
  <2>5. long \in BOOLEAN
    <3>1. \A w \in 0..LongestWait : (w > MaxWait) \in BOOLEAN
      OBVIOUS
    <3> QED
      BY Zenon, <3>1 DEF RateInit
  <2>3. window \in 0..LongestWait /\ imposed \in 0..1
    BY DEF RateInit
  <2>4. Timeout \in Nat /\ 0 \in 0..Retries
    BY DEF Timeout
  <2> QED
    BY <2>1, <2>2, <2>3, <2>4, <2>5, AllowedGrows DEF RateTypeOK
<1>2. WaitsPaid
  BY AllowedGrows DEF RateInit, WaitsPaid
<1>3. LimitedDidNothing /\ ExecutedLast /\ LimitIsRidden
  BY DEF RateInit, LimitedDidNothing, ExecutedLast, LimitIsRidden
<1>4. BodyReady
  BY Zenon DEF RateInit, BodyReady
<1>5. LimitsCounted
  <2>1. PICK w \in 0..LongestWait :
          window = w /\ long = (w > MaxWait) /\ imposed = IF w > 0 THEN 1 ELSE 0
    BY Zenon DEF RateInit
  <2>2. window > MaxWait => long
    BY Zenon, <2>1
  <2>3. pc = "send" /\ attempt = 0
    BY DEF RateInit
  <2> QED
    BY <2>1, <2>2, <2>3 DEF LimitsCounted
<1> QED
  BY <1>1, <1>2, <1>3, <1>4, <1>5 DEF IInv

\* Types and waits are preserved together: that waited stays within its bound
\* needs that it is paid for.
LEMMA TypeStep ==
  ASSUME RateTypeOK, WaitsPaid, [RateNext]_rateVars
  PROVE  RateTypeOK' /\ WaitsPaid'
<1> USE RateLimitAssumption, AllowedGrows
<1> USE DEF RateTypeOK, WaitsPaid, request, github
<1>1. CASE Executed
  <2>1. /\ pc' = "done" /\ timer' = 0 /\ attempt' = attempt
        /\ result' = "answer" \/ result' = "error"
        /\ UNCHANGED <<kind, bounded, ahead, exchange, cancelled, window, imposed,
                        long, waited>>
    BY <1>1 DEF Executed, Return, Lost
  <2>2. executed' \in Nat /\ body' \in BOOLEAN
    <3>1. executed' = executed + 1 /\ body' = FALSE
      BY <1>1 DEF Executed
    <3>2. executed \in Nat
      OBVIOUS
    <3>3. executed' \in Nat
      BY <3>1, <3>2
    <3>4. body' \in BOOLEAN
      BY <3>1
    <3> QED
      BY <3>3, <3>4
  <2> QED
    BY <2>1, <2>2
<1>2. CASE Failed
  BY <1>2 DEF Failed, Return, Lost
<1>3. CASE Limited
  <2>1. PICK delay \in Delays :
          IF Waits(delay) /\ Replayable
          THEN /\ pc' = "wait" /\ timer' = delay
               /\ body' = Rewound
               /\ UNCHANGED <<attempt, result>>
          ELSE /\ Return("limited")
               /\ body' = FALSE
    BY <1>3 DEF Limited
  <2>2. delay \in Nat
    BY DelayIsWindow
  <2>3. CASE Waits(delay) /\ Replayable
    BY <1>3, <2>1, <2>2, <2>3 DEF Limited, Waits, Rewound
  <2>4. CASE ~(Waits(delay) /\ Replayable)
    BY <1>3, <2>1, <2>4 DEF Limited, Return
  <2> QED
    BY <2>3, <2>4
<1>4. CASE Again
  BY <1>4 DEF Again, NextAttempt
<1>5. CASE Canceled
  BY <1>5 DEF Canceled, Return
<1>6. CASE Impose
  BY <1>6 DEF Impose
<1>7. CASE Cancel
  BY <1>7 DEF Cancel
<1>8. CASE Tick
  BY <1>8 DEF Tick, Monus, Timeout
<1>9. CASE UNCHANGED rateVars
  BY <1>9 DEF rateVars
<1> QED
  BY <1>1, <1>2, <1>3, <1>4, <1>5, <1>6, <1>7, <1>8, <1>9 DEF RateNext, RoundTrip

\* A request is executed in the attempt that ends it, and a limited one was not.
LEMMA ExecutedStep ==
  ASSUME RateTypeOK, LimitedDidNothing, ExecutedLast, [RateNext]_rateVars
  PROVE  LimitedDidNothing' /\ ExecutedLast'
<1> USE DEF LimitedDidNothing, ExecutedLast, request, github
<1>1. CASE Executed
  BY <1>1 DEF Executed, Return, Lost
<1>2. CASE Failed
  BY <1>2 DEF Failed, Return, Lost
<1>3. CASE Limited
  <2>1. pc # "done" /\ executed' = executed
    BY <1>3 DEF Limited
  <2> QED
    BY <2>1
<1>4. CASE Again \/ Canceled
  BY <1>4 DEF Again, Canceled, Return
<1>5. CASE Impose \/ Cancel \/ Tick \/ UNCHANGED rateVars
  BY <1>5 DEF Impose, Cancel, Tick, rateVars
<1> QED
  BY <1>1, <1>2, <1>3, <1>4, <1>5 DEF RateNext, RoundTrip

\* Every attempt meets a limit of its own: what is left of one when its wait is
\* over, if anything, was imposed during the wait.
LEMMA LimitsStep ==
  ASSUME RateTypeOK, WaitsPaid, LimitsCounted, LimitIsRidden, [RateNext]_rateVars
  PROVE  LimitsCounted' /\ LimitIsRidden'
<1> USE RateLimitAssumption
<1> USE DEF RateTypeOK, WaitsPaid, LimitsCounted, LimitIsRidden, request, github
<1>1. CASE Executed
  BY <1>1 DEF Executed, Return, Lost
<1>2. CASE Failed
  BY <1>2 DEF Failed, Return, Lost
<1>3. CASE Limited
  <2>1. PICK delay \in Delays :
          IF Waits(delay) /\ Replayable
          THEN /\ pc' = "wait" /\ timer' = delay
               /\ body' = Rewound
               /\ UNCHANGED <<attempt, result>>
          ELSE /\ Return("limited")
               /\ body' = FALSE
    BY <1>3 DEF Limited
  <2>2. delay \in Nat /\ (ahead = 0 => delay = window)
    BY DelayIsWindow
  <2>3. pc = "send" /\ window > 0 /\ UNCHANGED <<kind, ahead, window, imposed, long>>
    BY <1>3 DEF Limited
  <2>4. CASE Waits(delay) /\ Replayable
    <3>1. pc' = "wait" /\ timer' = delay /\ attempt' = attempt /\ result' = result
      BY <2>1, <2>4
    <3> QED
      BY <2>2, <2>3, <3>1
  <2>5. CASE ~(Waits(delay) /\ Replayable)
    <3>1. pc' = "done" /\ result' = "limited" /\ attempt' = attempt
      BY <2>1, <2>5 DEF Return
    <3>2. kind = "once" \/ delay > MaxWait \/ attempt = Retries
      BY <2>2, <2>5 DEF Waits, Replayable
    <3> QED
      BY <2>2, <2>3, <3>1, <3>2
  <2> QED
    BY <2>4, <2>5
<1>4. CASE Again
  BY <1>4 DEF Again, NextAttempt
<1>5. CASE Canceled
  BY <1>5 DEF Canceled, Return
<1>6. CASE Impose
  <2>1. PICK w \in 1..LongestWait : window' = w /\ long' = (long \/ w > MaxWait)
    BY Zenon, <1>6 DEF Impose
  <2>2. (window' > MaxWait => long') /\ (long => long')
    BY Zenon, <2>1
  <2>3. /\ imposed' = IF imposed > Retries THEN imposed ELSE imposed + 1
        /\ window = 0
        /\ UNCHANGED <<kind, ahead, pc, attempt, timer, result>>
    BY <1>6 DEF Impose
  <2> QED
    BY <2>2, <2>3
<1>7. CASE Cancel
  BY <1>7 DEF Cancel
<1>8. CASE Tick
  BY <1>8 DEF Tick, Monus
<1>9. CASE UNCHANGED rateVars
  BY <1>9 DEF rateVars
<1> QED
  BY <1>1, <1>2, <1>3, <1>4, <1>5, <1>6, <1>7, <1>8, <1>9 DEF RateNext, RoundTrip

\* A request that is sent again has a new body.
LEMMA BodyStep ==
  ASSUME RateTypeOK, BodyReady, [RateNext]_rateVars
  PROVE  BodyReady'
<1> USE DEF BodyReady, request, github
<1>1. CASE Executed \/ Failed
  BY <1>1 DEF Executed, Failed, Return, Lost
<1>2. CASE Limited
  <2>1. PICK delay \in Delays :
          IF Waits(delay) /\ Replayable
          THEN /\ pc' = "wait" /\ timer' = delay
               /\ body' = Rewound
               /\ UNCHANGED <<attempt, result>>
          ELSE /\ Return("limited")
               /\ body' = FALSE
    BY <1>2 DEF Limited
  <2>2. kind' = kind
    BY <1>2 DEF Limited
  <2> QED
    BY Zenon, <2>1, <2>2 DEF Replayable, Rewound, Return
<1>3. CASE Again \/ Canceled
  BY <1>3 DEF Again, Canceled, Return
<1>4. CASE Impose \/ Cancel \/ Tick \/ UNCHANGED rateVars
  BY <1>4 DEF Impose, Cancel, Tick, rateVars
<1> QED
  BY <1>1, <1>2, <1>3, <1>4 DEF RateNext, RoundTrip

-----------------------------------------------------------------------------
\* The invariant holds of every request.
LEMMA Invariant == RateSpec => []IInv
<1>1. IInv /\ [RateNext]_rateVars => IInv'
  BY TypeStep, ExecutedStep, LimitsStep, BodyStep DEF IInv
<1> QED
  BY InitIInv, <1>1, PTL DEF RateSpec

\* Types, and with them the bounds on one wait and on all waits of a request
\* (rateLimitTransport: maxWait, retries).
THEOREM WaitsAreBounded == RateSpec => []RateTypeOK
<1>1. IInv => RateTypeOK
  BY DEF IInv
<1> QED
  BY Invariant, <1>1, PTL

\* No request is executed twice, and one that is reported as limited not at all.
THEOREM NothingTwice == RateSpec => []LimitedDidNothing
<1>1. IInv => LimitedDidNothing
  BY DEF IInv
<1> QED
  BY Invariant, <1>1, PTL

\* If the clocks agree, a limit is reported only if it was too long to be waited
\* out, or one more than the retries.
THEOREM TemporaryLimitsRidden == RateSpec => []LimitIsRidden
<1>1. IInv => LimitIsRidden
  BY DEF IInv
<1> QED
  BY Invariant, <1>1, PTL

\* Every request that GitHub executes has its whole body, however often it was
\* sent before.
THEOREM BodyIsWhole == RateSpec => BodyIsResent
<1>1. IInv => [Executed => body \/ kind = "none"]_rateVars
  BY DEF IInv, BodyReady, Executed
<1> QED
  BY Invariant, <1>1, PTL DEF BodyIsResent
=============================================================================
