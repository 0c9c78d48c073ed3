---------------------------- MODULE WebhookDelivery ----------------------------
(***************************************************************************)
(* One webhook delivery from the row expansion wrote to its settlement: the *)
(* api's delivery relay publishes a thin job when the row is due, a         *)
(* dispatcher fetches the material, POSTs, reports the outcome and only     *)
(* then acknowledges, and the api moves the row along the retry tiers.      *)
(*                                                                          *)
(* Time is counted down: wait[d] is what is left until next_attempt_at and  *)
(* window[k] what is left of the broker's duplicate window for msgID k.     *)
(***************************************************************************)
EXTENDS Naturals, FiniteSets

CONSTANTS Delivery,         \* rows of webhook_deliveries
          Synthetic,        \* the test events among them
          Endpoint,
          EndpointOf,       \* EndpointOf[d]: the endpoint d is sent to
          Relay,            \* delivery relays (api instances)
          Worker,           \* endpoint queues being worked by dispatchers
          MaxAttempts,      \* MAX_ATTEMPTS
          Tier,             \* RETRY_TIERS_MS, in ticks
          DuplicateWindow,  \* the broker's duplicate window, in ticks
          MaxDeliver,       \* MAX_DELIVER, times the broker hands a job out
          MaxTrouble        \* bound: redeliveries, rolled-back relay passes, switches of an
                            \* endpoint and operator replays, together

ASSUME DeliveryAssumption ==
  /\ Synthetic \subseteq Delivery
  /\ EndpointOf \in [Delivery -> Endpoint]
ASSUME TierAssumption ==
  /\ MaxAttempts \in Nat \ {0}
  /\ Tier \in [1..MaxAttempts -> Nat]
  /\ DuplicateWindow \in Nat
ASSUME BoundAssumption ==
  /\ MaxDeliver \in Nat \ {0}
  /\ MaxTrouble \in Nat

VARIABLES
  state,        \* state[d]
  attempt,      \* attempt[d], index into the tiers
  wait,         \* wait[d], ticks until next_attempt_at
  dispatched,   \* dispatched[d], whether dispatched_at is set
  letters,      \* letters[d], dead-letter records d has left behind
  enabled,      \* enabled[p]
  deleted,      \* deleted[p], whether deleted_at is set
  todo, done,   \* per relay: rows locked by its pass, unpublished and published
  jobs,         \* unacknowledged messages of the DELIVERIES stream
  seq,          \* next stream sequence
  window,       \* window[<<d, a>>], ticks the broker still remembers msgID "d:a"
  worker,       \* what each worker is doing
  redeliveries, relayFaults, switches, replays

rowVars == <<state, attempt, wait, dispatched, letters>>
endpointVars == <<enabled, deleted>>
relayVars == <<todo, done>>
brokerVars == <<jobs, seq, window>>
boundVars == <<redeliveries, relayFaults, switches, replays>>
vars == <<rowVars, endpointVars, relayVars, brokerVars, worker, boundVars>>

Attempts == 1..MaxAttempts
Key == Delivery \X Attempts
\* A message of the stream: the job, and how often it has been handed out.
Job == [seq : Nat, delivery : Delivery, attempt : Attempts, tries : Nat]

\* A worker holds the job it fetched, then the attempt the material named, then
\* whether the endpoint answered 2xx.
Idle == [pc |-> "idle"]
WorkerState ==
  {Idle}
  \cup [pc : {"fetched", "handled"}, job : Job]
  \cup [pc : {"posting"}, job : Job, attempt : Attempts]
  \cup [pc : {"posted"}, job : Job, attempt : Attempts, ok : BOOLEAN]

TypeOK ==
  /\ state \in [Delivery -> {"pending", "delivered", "dead"}]
  /\ attempt \in [Delivery -> Attempts]
  /\ wait \in [Delivery -> Nat]
  /\ dispatched \in [Delivery -> BOOLEAN]
  /\ letters \in [Delivery -> Nat]
  /\ enabled \in [Endpoint -> BOOLEAN]
  /\ deleted \in [Endpoint -> BOOLEAN]
  /\ todo \in [Relay -> SUBSET Delivery]
  /\ done \in [Relay -> SUBSET Delivery]
  /\ jobs \in SUBSET Job
  /\ seq \in Nat
  /\ window \in [Key -> Nat]
  /\ worker \in [Worker -> WorkerState]
  /\ redeliveries \in Nat
  /\ relayFaults \in Nat
  /\ switches \in Nat
  /\ replays \in Nat

\* Expansion and createTestDelivery insert a row at tier 1, due at once.
Init ==
  /\ state = [d \in Delivery |-> "pending"]
  /\ attempt = [d \in Delivery |-> 1]
  /\ wait = [d \in Delivery |-> 0]
  /\ dispatched = [d \in Delivery |-> FALSE]
  /\ letters = [d \in Delivery |-> 0]
  /\ enabled = [p \in Endpoint |-> TRUE]
  /\ deleted = [p \in Endpoint |-> FALSE]
  /\ todo = [r \in Relay |-> {}]
  /\ done = [r \in Relay |-> {}]
  /\ jobs = {}
  /\ seq = 0
  /\ window = [k \in Key |-> 0]
  /\ worker = [w \in Worker |-> Idle]
  /\ redeliveries = 0
  /\ relayFaults = 0
  /\ switches = 0
  /\ replays = 0

-------------------------------------------------------------------------------
(***************************************************************************)
(* The delivery relay.  Its pass is one transaction holding row locks.      *)
(***************************************************************************)
TroubleLeft == redeliveries + relayFaults + switches + replays < MaxTrouble

Held(r) == todo[r] \cup done[r]
Locked(d) == \E r \in Relay : d \in Held(r)

Due(d) ==
  /\ state[d] = "pending"
  /\ ~dispatched[d]
  /\ wait[d] = 0

ClaimDue(r) ==
  /\ Held(r) = {}
  /\ {d \in Delivery : Due(d) /\ ~Locked(d)} # {}
  /\ todo' = [todo EXCEPT ![r] = {d \in Delivery : Due(d) /\ ~Locked(d)}]
  /\ UNCHANGED <<rowVars, endpointVars, done, brokerVars, worker, boundVars>>

\* The msgID is the delivery id AND the attempt; inside the duplicate window the
\* broker reports success and stores nothing.
MsgId(d) == <<d, attempt[d]>>

PublishJob(r, d) ==
  /\ d \in todo[r]
  /\ IF window[MsgId(d)] > 0
     THEN UNCHANGED brokerVars
     ELSE /\ jobs' = jobs \cup {[seq |-> seq, delivery |-> d, attempt |-> attempt[d], tries |-> 0]}
          /\ seq' = seq + 1
          /\ window' = [window EXCEPT ![MsgId(d)] = DuplicateWindow]
  /\ todo' = [todo EXCEPT ![r] = @ \ {d}]
  /\ done' = [done EXCEPT ![r] = @ \cup {d}]
  /\ UNCHANGED <<rowVars, endpointVars, worker, boundVars>>

MarkDispatched(r) ==
  /\ todo[r] = {}
  /\ done[r] # {}
  /\ dispatched' = [d \in Delivery |-> dispatched[d] \/ d \in done[r]]
  /\ done' = [done EXCEPT ![r] = {}]
  /\ UNCHANGED <<state, attempt, wait, letters, endpointVars, todo, brokerVars,
                 worker, boundVars>>

\* A publish that throws or a process that dies: the transaction rolls back,
\* the marks of the `finally` block included, and the locks go with it.
PassRollsBack(r) ==
  /\ TroubleLeft
  /\ Held(r) # {}
  /\ todo' = [todo EXCEPT ![r] = {}]
  /\ done' = [done EXCEPT ![r] = {}]
  /\ relayFaults' = relayFaults + 1
  /\ UNCHANGED <<rowVars, endpointVars, brokerVars, worker,
                 redeliveries, switches, replays>>

-------------------------------------------------------------------------------
(***************************************************************************)
(* The dispatcher: material, POST, report, acknowledge, in that order.      *)
(***************************************************************************)
dispatcherFrame == <<endpointVars, relayVars, relayFaults, switches, replays>>

HeldJob(j) == \E w \in Worker : worker[w].pc # "idle" /\ worker[w].job.seq = j.seq

\* The broker hands out a job nobody holds, or one whose holder outlived ack_wait;
\* after MAX_DELIVER times it keeps the message and offers it to nobody.
Fetch(w, j) ==
  /\ worker[w].pc = "idle"
  /\ j \in jobs
  /\ j.tries < MaxDeliver
  /\ IF HeldJob(j)
     THEN /\ TroubleLeft
          /\ redeliveries' = redeliveries + 1
     ELSE UNCHANGED redeliveries
  /\ jobs' = (jobs \ {j}) \cup {[j EXCEPT !.tries = @ + 1]}
  /\ worker' = [worker EXCEPT ![w] = [pc |-> "fetched", job |-> j]]
  /\ UNCHANGED <<rowVars, dispatcherFrame, seq, window>>

Sendable(d) ==
  /\ ~deleted[EndpointOf[d]]
  /\ enabled[EndpointOf[d]] \/ d \in Synthetic

\* The attempt the dispatcher will report: the row's, read with the material,
\* and not the one the job was published for.
MaterialAttempt(j) == attempt[j.delivery]

FetchMaterial(w) ==
  /\ worker[w].pc = "fetched"
  /\ LET j == worker[w].job
     IN worker' = [worker EXCEPT ![w] =
          IF Sendable(j.delivery)
          THEN [pc |-> "posting", job |-> j, attempt |-> MaterialAttempt(j)]
          ELSE [pc |-> "handled", job |-> j]]
  /\ UNCHANGED <<rowVars, dispatcherFrame, brokerVars, redeliveries>>

Post(w) ==
  /\ worker[w].pc = "posting"
  /\ \E ok \in BOOLEAN :
       worker' = [worker EXCEPT ![w] =
         [pc |-> "posted", job |-> worker[w].job, attempt |-> worker[w].attempt, ok |-> ok]]
  /\ UNCHANGED <<rowVars, dispatcherFrame, brokerVars, redeliveries>>

(***************************************************************************)
(* recordAttemptOutcome: one transaction under the row's lock.              *)
(***************************************************************************)
\* Wrong: compares attempts and forgets that the row may be settled.
Stale_AttemptOnly(d, a) == attempt[d] # a

Stale(d, a) == state[d] # "pending" \/ attempt[d] # a

Settle(d, s) ==
  /\ state' = [state EXCEPT ![d] = s]
  /\ dispatched' = [dispatched EXCEPT ![d] = FALSE]
  /\ UNCHANGED <<attempt, wait>>

\* Wrong: leaves dispatched_at set, so that the relay never sees the row again.
Reschedule_KeepsMark(d) ==
  /\ attempt' = [attempt EXCEPT ![d] = @ + 1]
  /\ wait' = [wait EXCEPT ![d] = Tier[attempt[d] + 1]]
  /\ UNCHANGED <<state, letters, dispatched>>

Reschedule(d) ==
  /\ attempt' = [attempt EXCEPT ![d] = @ + 1]
  /\ wait' = [wait EXCEPT ![d] = Tier[attempt[d] + 1]]
  /\ dispatched' = [dispatched EXCEPT ![d] = FALSE]
  /\ UNCHANGED <<state, letters>>

RecordFailure(d) ==
  IF d \notin Synthetic /\ attempt[d] < MaxAttempts
  THEN Reschedule(d)
  ELSE /\ Settle(d, "dead")
       /\ letters' = IF d \in Synthetic THEN letters ELSE [letters EXCEPT ![d] = @ + 1]

\* Wrong: records a 2xx before it looks at the row.
RecordOutcome_SuccessFirst(d, a, ok) ==
  IF ok THEN Settle(d, "delivered") /\ UNCHANGED letters
  ELSE IF Stale(d, a) THEN UNCHANGED rowVars
  ELSE RecordFailure(d)

RecordOutcome(d, a, ok) ==
  IF Stale(d, a) THEN UNCHANGED rowVars
  ELSE IF ok THEN Settle(d, "delivered") /\ UNCHANGED letters
  ELSE RecordFailure(d)

Report(w) ==
  /\ worker[w].pc = "posted"
  /\ ~Locked(worker[w].job.delivery)
  /\ RecordOutcome(worker[w].job.delivery, worker[w].attempt, worker[w].ok)
  /\ worker' = [worker EXCEPT ![w] = [pc |-> "handled", job |-> worker[w].job]]
  /\ UNCHANGED <<dispatcherFrame, brokerVars, redeliveries>>

Acknowledge(w) ==
  /\ worker[w].pc = "handled"
  /\ jobs' = {j \in jobs : j.seq # worker[w].job.seq}
  /\ worker' = [worker EXCEPT ![w] = Idle]
  /\ UNCHANGED <<rowVars, dispatcherFrame, seq, window, redeliveries>>

\* The dispatcher dies, or cannot reach the api, anywhere before the ack; the
\* job stays unacknowledged and the broker hands it out again.
Abandon(w) ==
  /\ worker[w].pc # "idle"
  /\ TroubleLeft
  /\ redeliveries' = redeliveries + 1
  /\ worker' = [worker EXCEPT ![w] = Idle]
  /\ UNCHANGED <<rowVars, dispatcherFrame, brokerVars>>

-------------------------------------------------------------------------------
(***************************************************************************)
(* The customer, the operator and the clock.                                *)
(***************************************************************************)
customerFrame == <<relayVars, brokerVars, worker, redeliveries, relayFaults>>

\* setEndpointEnabled, or the platform's own disablement.
SetEnabled(p) ==
  /\ TroubleLeft
  /\ ~deleted[p]
  /\ enabled' = [enabled EXCEPT ![p] = ~@]
  /\ switches' = switches + 1
  /\ UNCHANGED <<rowVars, deleted, customerFrame, replays>>

DeleteEndpoint(p) ==
  /\ TroubleLeft
  /\ ~deleted[p]
  /\ deleted' = [deleted EXCEPT ![p] = TRUE]
  /\ switches' = switches + 1
  /\ UNCHANGED <<rowVars, enabled, customerFrame, replays>>

\* replayDeadLetter resets the row whatever its state: only the dead-letter
\* record is looked up.
ReplayDeadLetter(d) ==
  /\ TroubleLeft
  /\ letters[d] > 0
  /\ ~Locked(d)
  /\ state' = [state EXCEPT ![d] = "pending"]
  /\ attempt' = [attempt EXCEPT ![d] = 1]
  /\ wait' = [wait EXCEPT ![d] = 0]
  /\ dispatched' = [dispatched EXCEPT ![d] = FALSE]
  /\ replays' = replays + 1
  /\ UNCHANGED <<letters, endpointVars, customerFrame, switches>>

Tick ==
  /\ (\E d \in Delivery : wait[d] > 0) \/ (\E k \in Key : window[k] > 0)
  /\ wait' = [d \in Delivery |-> IF wait[d] > 0 THEN wait[d] - 1 ELSE 0]
  /\ window' = [k \in Key |-> IF window[k] > 0 THEN window[k] - 1 ELSE 0]
  /\ UNCHANGED <<state, attempt, dispatched, letters, endpointVars, relayVars, jobs, seq,
                 worker, boundVars>>

-------------------------------------------------------------------------------
RelayStep(r) == ClaimDue(r) \/ (\E d \in Delivery : PublishJob(r, d)) \/ MarkDispatched(r)

FreshFetch(w) == \E j \in jobs : ~HeldJob(j) /\ Fetch(w, j)

WorkerStep(w) ==
  FreshFetch(w) \/ FetchMaterial(w) \/ Post(w) \/ Report(w) \/ Acknowledge(w)

Next ==
  \/ \E r \in Relay : RelayStep(r) \/ PassRollsBack(r)
  \/ \E w \in Worker : WorkerStep(w) \/ Abandon(w)
  \/ \E w \in Worker, j \in jobs : Fetch(w, j)
  \/ \E p \in Endpoint : SetEnabled(p) \/ DeleteEndpoint(p)
  \/ \E d \in Delivery : ReplayDeadLetter(d)
  \/ Tick

Spec == Init /\ [][Next]_vars

\* Both loops poll for ever, the broker redelivers, and time passes.
FairSpec ==
  /\ Spec
  /\ \A r \in Relay : WF_vars(RelayStep(r))
  /\ \A w \in Worker : WF_vars(WorkerStep(w))
  /\ WF_vars(Tick)

-------------------------------------------------------------------------------
\* A real delivery that ran out of attempts left a dead letter, and a test event
\* never did; every further letter was paid for by a replay, so two reports of
\* the last attempt write one.
DeadLettersMatch ==
  \A d \in Delivery :
    /\ state[d] = "dead" /\ d \notin Synthetic => letters[d] > 0
    /\ letters[d] <= (IF d \in Synthetic THEN 0 ELSE 1 + replays)

\* An endpoint switched off under a job, and a replay inside the duplicate window, may
\* leave a marked row without a job: nobody will ever attempt it again.
Undisturbed == switches = 0 /\ replays = 0

\* recordAttemptOutcome's header: the schedule must not advance twice for one
\* attempt, so a redelivered job must not run the next tier before it is due.
TierNotCutShort ==
  [][\A d \in Delivery : attempt'[d] = attempt[d] + 1 => wait[d] = 0]_vars

Settled(d) == state[d] # "pending"

\* Every delivery is settled in the end: it is delivered or it is dead, through every
\* rolled-back pass and every redelivered job.
EverySettles ==
  [](Undisturbed) => \A d \in Delivery : []<>Settled(d)

\* Whatever the relays, the broker and the dispatchers repeat, lose or reorder, a
\* row only ever moves the way the lifecycle allows.
Lifecycle == INSTANCE DeliveryLifecycle
ImplementsLifecycle == Lifecycle!LifecycleSpec
===============================================================================
