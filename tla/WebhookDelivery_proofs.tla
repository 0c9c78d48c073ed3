------------------------- MODULE WebhookDelivery_proofs -------------------------
(***************************************************************************)
(* Proofs about WebhookDelivery, for every set of deliveries, endpoints,    *)
(* relays and workers, every table of tiers and any number of redeliveries, *)
(* rolled-back passes, switches and replays.                                *)
(***************************************************************************)
EXTENDS WebhookDelivery, TLAPS

\* What a worker holds once it has fetched a job.
LEMMA WorkerRecords ==
  ASSUME TypeOK, NEW w \in Worker, worker[w].pc # "idle"
  PROVE  /\ worker[w].job \in Job
         /\ worker[w].pc \in {"posting", "posted"} => worker[w].attempt \in Attempts
         /\ worker[w].pc = "posted" => worker[w].ok \in BOOLEAN
<1>1. worker[w] \in WorkerState
  BY DEF TypeOK
<1>2. worker[w] # Idle
  BY DEF Idle
<1> QED
  BY <1>1, <1>2 DEF WorkerState

\* recordAttemptOutcome keeps the types of the row.
LEMMA OutcomeTypes ==
  ASSUME TypeOK, NEW d \in Delivery, NEW a \in Attempts, NEW ok \in BOOLEAN,
         RecordOutcome(d, a, ok)
  PROVE  /\ state' \in [Delivery -> {"pending", "delivered", "dead"}]
         /\ attempt' \in [Delivery -> Attempts]
         /\ wait' \in [Delivery -> Nat]
         /\ dispatched' \in [Delivery -> BOOLEAN]
         /\ letters' \in [Delivery -> Nat]
<1> USE DEF TypeOK, Attempts
<1>1. CASE UNCHANGED rowVars
  BY <1>1 DEF rowVars
<1>2. CASE Settle(d, "delivered") /\ UNCHANGED letters
  BY <1>2 DEF Settle
<1>3. CASE attempt[d] < MaxAttempts /\ Reschedule(d)
  BY <1>3, TierAssumption DEF Reschedule
<1>4. CASE /\ Settle(d, "dead")
           /\ letters' = IF d \in Synthetic THEN letters ELSE [letters EXCEPT ![d] = @ + 1]
  BY <1>4 DEF Settle
<1> QED
  BY <1>1, <1>2, <1>3, <1>4 DEF RecordOutcome, RecordFailure

\* Every variable has its type in every reachable state.
THEOREM TypeCorrect == Spec => []TypeOK
<1>1. Init => TypeOK
  BY TierAssumption DEF Init, TypeOK, Attempts, WorkerState, Key
<1>2. TypeOK /\ [Next]_vars => TypeOK'
  <2> SUFFICES ASSUME TypeOK, [Next]_vars PROVE TypeOK'
    OBVIOUS
  <2> USE DEF TypeOK, rowVars, endpointVars, relayVars, brokerVars, boundVars
  <2>1. ASSUME NEW r \in Relay, ClaimDue(r) PROVE TypeOK'
    BY <2>1 DEF ClaimDue
  <2>2. ASSUME NEW r \in Relay, NEW d \in Delivery, PublishJob(r, d) PROVE TypeOK'
    <3>1. [seq |-> seq, delivery |-> d, attempt |-> attempt[d], tries |-> 0] \in Job
      BY DEF Job
    <3>2. MsgId(d) \in Key
      BY DEF MsgId, Key
    <3>3. window' \in [Key -> Nat]
      BY <2>2, <3>2, TierAssumption DEF PublishJob
    <3>4. jobs' \in SUBSET Job /\ seq' \in Nat
      BY <2>2, <3>1 DEF PublishJob
    <3> QED
      BY <2>2, <3>3, <3>4 DEF PublishJob
  <2>3. ASSUME NEW r \in Relay, MarkDispatched(r) PROVE TypeOK'
    BY <2>3 DEF MarkDispatched
  <2>4. ASSUME NEW r \in Relay, PassRollsBack(r) PROVE TypeOK'
    BY <2>4 DEF PassRollsBack
  <2>5. ASSUME NEW w \in Worker, NEW j \in jobs, Fetch(w, j) PROVE TypeOK'
    <3>1. j \in Job /\ [j EXCEPT !.tries = @ + 1] \in Job
      BY DEF Job
    <3>2. [pc |-> "fetched", job |-> j] \in WorkerState
      BY <3>1 DEF WorkerState
    <3> QED
      BY <2>5, <3>1, <3>2 DEF Fetch, dispatcherFrame
  <2>6. ASSUME NEW w \in Worker, FetchMaterial(w) PROVE TypeOK'
    <3>1. worker[w].job \in Job
      BY <2>6, WorkerRecords DEF FetchMaterial
    <3>2. MaterialAttempt(worker[w].job) \in Attempts
      BY <3>1 DEF MaterialAttempt, Job
    <3>3. worker' \in [Worker -> WorkerState]
      BY <2>6, <3>1, <3>2 DEF FetchMaterial, WorkerState
    <3> QED
      BY <2>6, <3>3 DEF FetchMaterial, dispatcherFrame
  <2>7. ASSUME NEW w \in Worker, Post(w) PROVE TypeOK'
    <3>1. worker[w].job \in Job /\ worker[w].attempt \in Attempts
      BY <2>7, WorkerRecords DEF Post
    <3>2. worker' \in [Worker -> WorkerState]
      BY <2>7, <3>1 DEF Post, WorkerState
    <3> QED
      BY <2>7, <3>2 DEF Post, dispatcherFrame
  <2>8. ASSUME NEW w \in Worker, Report(w) PROVE TypeOK'
    <3>1. worker[w].job \in Job /\ worker[w].attempt \in Attempts /\ worker[w].ok \in BOOLEAN
      BY <2>8, WorkerRecords DEF Report
    <3>2. worker[w].job.delivery \in Delivery
      BY <3>1 DEF Job
    <3>3. worker' \in [Worker -> WorkerState]
      BY <2>8, <3>1 DEF Report, WorkerState
    <3> QED
      BY <2>8, <3>1, <3>2, <3>3, OutcomeTypes DEF Report, dispatcherFrame
  <2>9. ASSUME NEW w \in Worker, Acknowledge(w) PROVE TypeOK'
    BY <2>9 DEF Acknowledge, dispatcherFrame, WorkerState
  <2>10. ASSUME NEW w \in Worker, Abandon(w) PROVE TypeOK'
    BY <2>10 DEF Abandon, dispatcherFrame, WorkerState
  <2>11. ASSUME NEW p \in Endpoint, SetEnabled(p) PROVE TypeOK'
    BY <2>11 DEF SetEnabled, customerFrame
  <2>12. ASSUME NEW p \in Endpoint, DeleteEndpoint(p) PROVE TypeOK'
    BY <2>12 DEF DeleteEndpoint, customerFrame
  <2>13. ASSUME NEW d \in Delivery, ReplayDeadLetter(d) PROVE TypeOK'
    BY <2>13, TierAssumption DEF ReplayDeadLetter, customerFrame, Attempts
  <2>14. ASSUME Tick PROVE TypeOK'
    BY <2>14 DEF Tick
  <2>15. CASE UNCHANGED vars
    BY <2>15 DEF vars
  <2> QED
    BY <2>1, <2>2, <2>3, <2>4, <2>5, <2>6, <2>7, <2>8, <2>9, <2>10, <2>11, <2>12, <2>13,
       <2>14, <2>15 DEF Next, RelayStep, WorkerStep, FreshFetch
<1> QED
  BY <1>1, <1>2, PTL DEF Spec

(***************************************************************************)
(* What moves a row.  Only a report and a replay change state, attempt or   *)
(* letters; everything else the relays, the broker and the dispatchers do   *)
(* leaves the three alone.                                                  *)
(***************************************************************************)
Life == <<state, attempt, letters>>

Reported(d) ==
  /\ state[d] = "pending"
  /\ \/ Settle(d, "delivered") /\ UNCHANGED letters
     \/ RecordFailure(d)

Replayed(d) ==
  /\ letters[d] > 0
  /\ state' = [state EXCEPT ![d] = "pending"]
  /\ attempt' = [attempt EXCEPT ![d] = 1]
  /\ UNCHANGED letters
  /\ replays' = replays + 1

LEMMA OnlyReportsAndReplays ==
  ASSUME TypeOK, [Next]_vars
  PROVE  \/ (\E d \in Delivery : Reported(d)) /\ UNCHANGED replays
         \/ \E d \in Delivery : Replayed(d)
         \/ UNCHANGED <<Life, replays>>
<1> USE DEF Life, rowVars, endpointVars, relayVars, brokerVars, boundVars, dispatcherFrame,
            customerFrame
<1>1. ASSUME NEW r \in Relay, ClaimDue(r) PROVE UNCHANGED <<Life, replays>>
  BY <1>1 DEF ClaimDue
<1>2. ASSUME NEW r \in Relay, NEW d \in Delivery, PublishJob(r, d)
      PROVE  UNCHANGED <<Life, replays>>
  BY <1>2 DEF PublishJob
<1>3. ASSUME NEW r \in Relay, MarkDispatched(r) PROVE UNCHANGED <<Life, replays>>
  BY <1>3 DEF MarkDispatched
<1>4. ASSUME NEW r \in Relay, PassRollsBack(r) PROVE UNCHANGED <<Life, replays>>
  BY <1>4 DEF PassRollsBack
<1>5. ASSUME NEW w \in Worker, NEW j \in jobs, Fetch(w, j) PROVE UNCHANGED <<Life, replays>>
  BY <1>5 DEF Fetch
<1>6. ASSUME NEW w \in Worker, FetchMaterial(w) \/ Post(w) \/ Acknowledge(w) \/ Abandon(w)
      PROVE  UNCHANGED <<Life, replays>>
  BY <1>6 DEF FetchMaterial, Post, Acknowledge, Abandon
<1>7. ASSUME NEW w \in Worker, Report(w)
      PROVE  UNCHANGED replays /\ ((\E d \in Delivery : Reported(d)) \/ UNCHANGED Life)
  <2> DEFINE d == worker[w].job.delivery
  <2>1. d \in Delivery
    BY <1>7, WorkerRecords DEF Report, Job
  <2>2. RecordOutcome(d, worker[w].attempt, worker[w].ok) /\ UNCHANGED replays
    BY <1>7 DEF Report
  <2>3. CASE Stale(d, worker[w].attempt)
    BY <2>2, <2>3 DEF RecordOutcome
  <2>4. CASE ~Stale(d, worker[w].attempt)
    <3>1. state[d] = "pending"
      BY <2>4 DEF Stale
    <3>2. (Settle(d, "delivered") /\ UNCHANGED letters) \/ RecordFailure(d)
      BY <2>2, <2>4 DEF RecordOutcome
    <3> QED
      BY <2>1, <2>2, <3>1, <3>2 DEF Reported
  <2> QED
    BY <2>3, <2>4
<1>8. ASSUME NEW p \in Endpoint, SetEnabled(p) \/ DeleteEndpoint(p)
      PROVE  UNCHANGED <<Life, replays>>
  BY <1>8 DEF SetEnabled, DeleteEndpoint
<1>9. ASSUME NEW d \in Delivery, ReplayDeadLetter(d) PROVE Replayed(d)
  BY <1>9 DEF ReplayDeadLetter, Replayed
<1>10. ASSUME Tick PROVE UNCHANGED <<Life, replays>>
  BY <1>10 DEF Tick
<1>11. CASE UNCHANGED vars
  BY <1>11 DEF vars
<1> QED
  BY <1>1, <1>2, <1>3, <1>4, <1>5, <1>6, <1>7, <1>8, <1>9, <1>10, <1>11
  DEF Next, RelayStep, WorkerStep, FreshFetch

(***************************************************************************)
(* The dead letters.  A row that is still pending has used up the letter of *)
(* each of its earlier lives on a replay, so the letter it may yet write is *)
(* the first one not paid for; a second report of its last attempt finds it *)
(* settled.                                                                 *)
(***************************************************************************)
LettersPaid ==
  \A d \in Delivery : state[d] = "pending" => letters[d] <= replays

LettersInv == DeadLettersMatch /\ LettersPaid

LEMMA LettersInitially == Init => LettersInv
BY DEF Init, LettersInv, DeadLettersMatch, LettersPaid

LEMMA LettersPreserved ==
  ASSUME TypeOK, LettersInv, [Next]_vars
  PROVE  LettersInv'
<1> USE DEF TypeOK, LettersInv, DeadLettersMatch, LettersPaid
<1>1. ASSUME NEW d \in Delivery, Reported(d), UNCHANGED replays PROVE LettersInv'
  <2>1. CASE Settle(d, "delivered") /\ UNCHANGED letters
    BY <1>1, <2>1 DEF Settle
  <2>2. CASE d \notin Synthetic /\ Reschedule(d)
    BY <1>1, <2>2 DEF Reschedule
  <2>3. CASE d \notin Synthetic /\ Settle(d, "dead") /\ letters' = [letters EXCEPT ![d] = @ + 1]
    BY <1>1, <2>3 DEF Settle, Reported
  <2>4. CASE d \in Synthetic /\ Settle(d, "dead") /\ letters' = letters
    BY <1>1, <2>4 DEF Settle
  <2> QED
    BY <1>1, <2>1, <2>2, <2>3, <2>4 DEF Reported, RecordFailure
<1>2. ASSUME NEW d \in Delivery, Replayed(d) PROVE LettersInv'
  BY <1>2 DEF Replayed
<1>3. CASE UNCHANGED <<Life, replays>>
  BY <1>3 DEF Life
<1> QED
  BY <1>1, <1>2, <1>3, OnlyReportsAndReplays

\* One dead letter for every life of a real delivery that ran out of attempts, and
\* none for a test event, however often the last attempt is reported
\* (Repository.recordAttemptOutcome).
THEOREM OneLetterPerLife == Spec => []DeadLettersMatch
<1>1. TypeOK /\ LettersInv /\ [Next]_vars => LettersInv'
  BY LettersPreserved
<1> QED
  BY TypeCorrect, LettersInitially, <1>1, PTL DEF Spec, LettersInv

\* The pipeline implements the lifecycle of a delivery row: every step of a relay, of
\* the broker or of a dispatcher is a step of the lifecycle or none.
THEOREM RefinesLifecycle == Spec => ImplementsLifecycle
<1>1. Init => Lifecycle!LifecycleInit
  BY DEF Init, Lifecycle!LifecycleInit
<1>2. TypeOK /\ [Next]_vars => [Lifecycle!LifecycleNext]_(Lifecycle!lifecycleVars)
  <2> SUFFICES ASSUME TypeOK, [Next]_vars
               PROVE  [Lifecycle!LifecycleNext]_(Lifecycle!lifecycleVars)
    OBVIOUS
  <2>1. ASSUME NEW d \in Delivery, Reported(d)
        PROVE  \/ Lifecycle!Succeed(d) \/ Lifecycle!NextTier(d) \/ Lifecycle!Exhaust(d)
               \/ Lifecycle!FailTest(d)
    <3> USE DEF Settle
    <3>1. CASE Settle(d, "delivered") /\ UNCHANGED letters
      BY <2>1, <3>1 DEF Reported, Lifecycle!Succeed
    <3>2. CASE d \notin Synthetic /\ attempt[d] < MaxAttempts /\ Reschedule(d)
      BY <2>1, <3>2 DEF Reported, Reschedule, Lifecycle!NextTier
    <3>3. CASE /\ d \notin Synthetic /\ ~(attempt[d] < MaxAttempts) /\ Settle(d, "dead")
               /\ letters' = [letters EXCEPT ![d] = @ + 1]
      <4>1. attempt[d] = MaxAttempts
        BY <3>3, TierAssumption DEF TypeOK, Attempts
      <4> QED
        BY <2>1, <3>3, <4>1 DEF Reported, Lifecycle!Exhaust
    <3>4. CASE d \in Synthetic /\ Settle(d, "dead") /\ letters' = letters
      BY <2>1, <3>4 DEF Reported, Lifecycle!FailTest
    <3> QED
      BY <2>1, <3>1, <3>2, <3>3, <3>4 DEF Reported, RecordFailure
  <2>2. ASSUME NEW d \in Delivery, Replayed(d) PROVE Lifecycle!Replay(d)
    BY <2>2 DEF Replayed, Lifecycle!Replay
  <2>3. CASE UNCHANGED Life
    BY <2>3 DEF Life, Lifecycle!lifecycleVars
  <2> QED
    BY <2>1, <2>2, <2>3, OnlyReportsAndReplays DEF Lifecycle!LifecycleNext
<1> QED
  BY <1>1, <1>2, TypeCorrect, PTL DEF Spec, ImplementsLifecycle, Lifecycle!LifecycleSpec
===============================================================================
