----------------------------- MODULE EndpointHealth -----------------------------
(* When the platform switches a failing webhook endpoint off, and the mail about  *)
(* it: applyFailureRun, disableEndpoint, sweepDisabledEndpoints, setEndpointEnabled *)
(* and drainDisableNotifications in db/repository.ts, webhooks/disable.ts and     *)
(* notifications/notification-relay.ts.                                           *)
(*                                                                                *)
(* One endpoint: rows of different endpoints never wait for each other here.  A   *)
(* report is the transaction of recordAttemptOutcome; what it does to the delivery *)
(* is WebhookDelivery's.  A tick is long against a transaction, so none is open   *)
(* while the clock moves and now(), which is a transaction's start, is the clock. *)
EXTENDS Naturals, FiniteSets

CONSTANTS
  Report,        \* reported outcomes, one transaction each
  AttemptOf,     \* the delivery and attempt a report is about
  Instance,      \* api processes, each with the sweep in its delivery relay
  Relay,         \* processes that run the notification relay
  MinAttempts,   \* DISABLE_MIN_ATTEMPTS
  Hour,          \* DISABLE_AFTER_MS, in ticks
  Never, Nobody, \* NULL
  MaxClock,      \* bound on the clock
  MaxSwitches,   \* times the customer switches the endpoint
  MaxTrouble     \* lost transactions, mails that throw and crashed relays, together

ASSUME PoliciesAssumption == MinAttempts \in Nat \ {0} /\ Hour \in Nat
ASSUME ReportsAssumption ==
  /\ Report \subseteq DOMAIN AttemptOf
  /\ Report \cap Instance = {} /\ Nobody \notin Report \cup Instance /\ Never \notin Nat
ASSUME BoundAssumption == MaxClock \in Nat /\ MaxSwitches \in Nat /\ MaxTrouble \in Nat

VARIABLES
  clock,
  enabled, deleted,     \* the endpoint's switch and deleted_at
  disabledAt,           \* disabled_at, Never while the platform has not disabled it
  run,                  \* failure_run_started_at and failure_run_attempts
  lock,                 \* the transaction that holds the endpoint's row
  recorded,             \* attempts whose outcome has been recorded
  pc,                   \* where each report and each sweep is
  seen,                 \* the run it read
  streak,               \* failures recorded since the last success or switching on,
                        \* the first one's time and which streak it is
  notices,              \* webhook_disable_notifications, by the streak they tell of
  delivered,            \* those with delivered_at set
  claimed,              \* rows a relay has locked
  handled, thrown,      \* of them, those it is done with and those whose mail threw
  told,                 \* rows that were really mailed, once or more
  unaddressed,          \* rows for which there was nobody to mail
  switches, trouble

endpointVars == <<enabled, deleted, disabledAt, run, streak, notices>>
reportVars == <<recorded, seen>>
relayVars == <<delivered, claimed, handled, thrown, told, unaddressed>>
boundVars == <<switches, trouble>>
vars == <<clock, endpointVars, lock, pc, reportVars, relayVars, boundVars>>

Healthy == [since |-> Never, attempts |-> 0]
Run == [since : Nat \cup {Never}, attempts : Nat]

TypeOK ==
  /\ clock \in 0..MaxClock /\ enabled \in BOOLEAN /\ deleted \in BOOLEAN
  /\ disabledAt \in Nat \cup {Never} /\ run \in Run
  /\ lock \in Report \cup Instance \cup {Nobody}
  /\ recorded \subseteq {AttemptOf[r] : r \in Report}
  /\ pc \in [Report \cup Instance -> {"new", "holds", "done"}]
  /\ seen \in [Report -> Run]
  /\ streak \in [since : Nat \cup {Never}, attempts : Nat, no : Nat]
  /\ notices \subseteq Nat \X Nat /\ delivered \subseteq notices
  /\ claimed \in [Relay -> SUBSET notices] /\ handled \in [Relay -> SUBSET notices]
  /\ thrown \in [Relay -> SUBSET notices]
  /\ told \subseteq notices /\ unaddressed \subseteq notices
  /\ switches \in 0..MaxSwitches /\ trouble \in 0..MaxTrouble

Init ==
  /\ clock = 0 /\ enabled = TRUE /\ deleted = FALSE /\ disabledAt = Never
  /\ run = Healthy /\ lock = Nobody /\ recorded = {}
  /\ pc = [p \in Report \cup Instance |-> "new"]
  /\ seen = [r \in Report |-> Healthy]
  /\ streak = [since |-> Never, attempts |-> 0, no |-> 0]
  /\ notices = {} /\ delivered = {}
  /\ claimed = [q \in Relay |-> {}] /\ handled = [q \in Relay |-> {}]
  /\ thrown = [q \in Relay |-> {}] /\ told = {} /\ unaddressed = {}
  /\ switches = 0 /\ trouble = 0

--------------------------------------------------------------------------------
Goto(p, label) == pc' = [pc EXCEPT ![p] = label]
Free == lock = Nobody

\* The observer's count: what was really recorded.
OneMore ==
  [since |-> IF streak.attempts = 0 THEN clock ELSE streak.since,
   attempts |-> streak.attempts + 1, no |-> streak.no]
Ended == [since |-> Never, attempts |-> 0, no |-> streak.no + 1]

\* Wrong: either of the two is enough.
ShouldDisable_Either(r) == r.attempts >= MinAttempts \/ clock - r.since > Hour

\* shouldDisable: enough failures, over more than an hour.
ShouldDisable(r) == r.attempts >= MinAttempts /\ clock - r.since > Hour

\* UPDATE ... SET enabled = false WHERE ... AND enabled = true; only a row it hit
\* owes a notification.  n is the streak, kept with it.
DisableEndpoint(n) ==
  IF enabled
    THEN /\ enabled' = FALSE /\ disabledAt' = clock
         /\ notices' = notices \cup {<<n, Cardinality(notices)>>}
    ELSE UNCHANGED <<enabled, disabledAt, notices>>

--------------------------------------------------------------------------------
(* Reports *)

\* The delivery's row comes first: a report that repeats one recorded already ends here.
RepeatedReport(r) ==
  /\ pc[r] = "new" /\ AttemptOf[r] \in recorded
  /\ Goto(r, "done")
  /\ UNCHANGED <<clock, endpointVars, lock, reportVars, relayVars, boundVars>>

\* Wrong: the endpoint is read without FOR UPDATE.
LockEndpoint_PlainRead(r) ==
  /\ pc[r] = "new" /\ AttemptOf[r] \notin recorded
  /\ seen' = [seen EXCEPT ![r] = run]
  /\ Goto(r, "holds")
  /\ UNCHANGED <<clock, endpointVars, lock, recorded, relayVars, boundVars>>

\* SELECT ... FROM webhook_endpoints ... FOR UPDATE; deleted or not, the row is there.
LockEndpoint(r) ==
  /\ pc[r] = "new" /\ AttemptOf[r] \notin recorded /\ Free
  /\ lock' = r
  /\ seen' = [seen EXCEPT ![r] = run]
  /\ Goto(r, "holds")
  /\ UNCHANGED <<clock, endpointVars, recorded, relayVars, boundVars>>

\* Any success ends the run.
RecordSuccess(r) ==
  /\ run' = Healthy /\ streak' = Ended
  /\ UNCHANGED <<enabled, deleted, disabledAt, notices>>

Extended(r) ==
  [since |-> IF r.since = Never THEN clock ELSE r.since, attempts |-> r.attempts + 1]

RecordFailure(r) ==
  LET longer == Extended(seen[r]) IN
  /\ run' = longer /\ streak' = OneMore
  /\ IF ShouldDisable(longer)
       THEN DisableEndpoint(streak.no)
       ELSE UNCHANGED <<enabled, disabledAt, notices>>
  /\ UNCHANGED deleted

\* The run, the disablement, its notification and the delivery commit together.
CommitReport(r) ==
  /\ pc[r] = "holds"
  /\ RecordFailure(r) \/ RecordSuccess(r)
  /\ seen' = [seen EXCEPT ![r] = Healthy]
  /\ recorded' = recorded \cup {AttemptOf[r]}
  /\ lock' = IF lock = r THEN Nobody ELSE lock
  /\ Goto(r, "done")
  /\ UNCHANGED <<clock, relayVars, boundVars>>

\* The transaction is lost; the dispatcher reports again.
RollBack(r) ==
  /\ pc[r] = "holds" /\ trouble < MaxTrouble
  /\ trouble' = trouble + 1
  /\ lock' = IF lock = r THEN Nobody ELSE lock
  /\ seen' = [seen EXCEPT ![r] = Healthy]
  /\ Goto(r, "new")
  /\ UNCHANGED <<clock, endpointVars, recorded, relayVars, switches>>

--------------------------------------------------------------------------------
(* The sweep, on the delivery relay's loop *)

\* Wrong: the sweep asks for one failure more than the report does.
LongFailing_Strict == enabled /\ ~deleted /\ run.attempts > MinAttempts /\ clock - run.since > Hour

LongFailing == enabled /\ ~deleted /\ run.since # Never /\ ShouldDisable(run)

\* Wrong: the candidates are read without FOR UPDATE.
SweepFinds_PlainRead(i) ==
  /\ pc[i] = "new" /\ LongFailing
  /\ Goto(i, "holds")
  /\ UNCHANGED <<clock, endpointVars, lock, reportVars, relayVars, boundVars>>

\* ... FOR UPDATE OF e SKIP LOCKED
SweepFinds(i) ==
  /\ pc[i] = "new" /\ LongFailing /\ Free
  /\ lock' = i
  /\ Goto(i, "holds")
  /\ UNCHANGED <<clock, endpointVars, reportVars, relayVars, boundVars>>

SweepDisables(i) ==
  /\ pc[i] = "holds"
  /\ DisableEndpoint(streak.no)
  /\ lock' = IF lock = i THEN Nobody ELSE lock
  /\ Goto(i, "new")
  /\ UNCHANGED <<clock, deleted, run, streak, reportVars, relayVars, boundVars>>

--------------------------------------------------------------------------------
(* The customer: single UPDATEs, which wait for the row *)

\* All four columns in one statement, on an endpoint that is on too.
SwitchOn ==
  /\ Free /\ ~deleted /\ switches < MaxSwitches
  /\ enabled' = TRUE /\ run' = Healthy /\ disabledAt' = Never
  /\ streak' = Ended
  /\ switches' = switches + 1
  /\ UNCHANGED <<clock, deleted, notices, lock, pc, reportVars, relayVars, trouble>>

\* The run is kept.
SwitchOff ==
  /\ Free /\ ~deleted /\ enabled /\ switches < MaxSwitches
  /\ enabled' = FALSE
  /\ switches' = switches + 1
  /\ UNCHANGED <<clock, deleted, disabledAt, run, streak, notices, lock, pc, reportVars, relayVars, trouble>>

\* Soft: deleted_at is set and the row stays.
DeleteEndpoint ==
  /\ Free /\ ~deleted /\ switches < MaxSwitches
  /\ deleted' = TRUE
  /\ switches' = switches + 1
  /\ UNCHANGED <<clock, enabled, disabledAt, run, streak, notices, lock, pc, reportVars, relayVars, trouble>>

--------------------------------------------------------------------------------
(* The notification relay *)

Held == UNION {claimed[q] : q \in Relay}

Owed == (notices \ delivered) \ Held

Claim(q) ==
  /\ claimed[q] = {} /\ Owed # {}
  /\ claimed' = [claimed EXCEPT ![q] = Owed]
  /\ UNCHANGED <<clock, endpointVars, lock, pc, reportVars, delivered, handled, thrown, told, unaddressed, boundVars>>

Unsent(q) == claimed[q] \ (handled[q] \cup thrown[q])

\* deliver: to every member of the organisation who has an address, and where there
\* is none the row is done with all the same.  Which it is may differ from one time to
\* the next: people join and leave.
Mail(q) ==
  /\ \E n \in Unsent(q) :
       /\ handled' = [handled EXCEPT ![q] = @ \cup {n}]
       /\ \/ told' = told \cup {n} /\ UNCHANGED unaddressed
          \/ unaddressed' = unaddressed \cup {n} /\ UNCHANGED told
  /\ UNCHANGED <<clock, endpointVars, lock, pc, reportVars, delivered, claimed, thrown, boundVars>>

\* The row is left for a later pass, the others of the batch go on.
MailThrows(q) ==
  /\ trouble < MaxTrouble /\ trouble' = trouble + 1
  /\ \E n \in Unsent(q) : thrown' = [thrown EXCEPT ![q] = @ \cup {n}]
  /\ UNCHANGED <<clock, endpointVars, lock, pc, reportVars, delivered, claimed, handled, told, unaddressed, switches>>

\* Wrong: the whole batch is marked.
Settled_Batch(q) == claimed[q]

Settled(q) == handled[q]

Released(q) ==
  /\ claimed' = [claimed EXCEPT ![q] = {}]
  /\ handled' = [handled EXCEPT ![q] = {}] /\ thrown' = [thrown EXCEPT ![q] = {}]

\* One UPDATE marks what was handled; the commit releases the rows.
CommitPass(q) ==
  /\ claimed[q] # {} /\ Unsent(q) = {}
  /\ delivered' = delivered \cup Settled(q)
  /\ Released(q)
  /\ UNCHANGED <<clock, endpointVars, lock, pc, reportVars, told, unaddressed, boundVars>>

RelayCrashes(q) ==
  /\ claimed[q] # {} /\ trouble < MaxTrouble
  /\ trouble' = trouble + 1
  /\ Released(q)
  /\ UNCHANGED <<clock, endpointVars, lock, pc, reportVars, delivered, told, unaddressed, switches>>

--------------------------------------------------------------------------------
Tick ==
  /\ clock < MaxClock
  /\ \A p \in Report \cup Instance : pc[p] \in {"new", "done"}
  /\ clock' = clock + 1
  /\ UNCHANGED <<endpointVars, lock, pc, reportVars, relayVars, boundVars>>

SweepStep(i) == SweepFinds(i) \/ SweepDisables(i)
RelayStep(q) == Claim(q) \/ Mail(q) \/ CommitPass(q)

Next ==
  \/ Tick
  \/ \E r \in Report : RepeatedReport(r) \/ LockEndpoint(r) \/ CommitReport(r) \/ RollBack(r)
  \/ \E i \in Instance : SweepStep(i)
  \/ SwitchOn \/ SwitchOff \/ DeleteEndpoint
  \/ \E q \in Relay : RelayStep(q) \/ MailThrows(q) \/ RelayCrashes(q)

Spec == Init /\ [][Next]_vars

\* An opened transaction ends, the sweep and the relay are loops that always come
\* round again.  Nobody owes a report, and the customer nothing at all.
FairSpec ==
  /\ Spec
  /\ \A r \in Report : WF_vars(CommitReport(r))
  /\ \A i \in Instance : WF_vars(SweepStep(i))
  /\ \A q \in Relay : WF_vars(RelayStep(q))

--------------------------------------------------------------------------------
(* Properties *)

\* No failure is lost from the run and none outlives the success or the switching
\* on that ended it: the row's run is what was really recorded, whatever reports
\* overlap (the FOR UPDATE of applyFailureRun).
RunIsTheStreak == run = [since |-> streak.since, attempts |-> streak.attempts]

\* A run of failures owes one mail, although a report and the sweeps of several
\* processes may all find it long enough (AND enabled = true in disableEndpoint).
OncePerRun == \A m, n \in notices : m[1] = n[1] => m = n

\* The platform switches off only an endpoint that was on and that has failed often
\* enough for more than an hour without a success in between, at that moment.
DisabledForCause ==
  [][disabledAt' # disabledAt /\ disabledAt' # Never =>
       enabled /\ streak'.attempts >= MinAttempts /\ clock - streak'.since > Hour]_vars

\* The platform's fingerprint, by which a customer tells its disablement from a
\* pause of their own, is there while it is off for that and never on an endpoint
\* that is on; whoever finds it there is owed a mail of it.
FingerprintIsOwed ==
  disabledAt # Never => ~enabled /\ \E n \in notices : n[1] <= streak.no

\* A run that has gone on long enough ends by itself, although no outcome is ever
\* recorded again (the sweep is the second trigger for that).
LongRun ==
  enabled /\ ~deleted /\ streak.attempts >= MinAttempts /\ clock - streak.since > Hour

LongRunsEnd == LongRun ~> ~LongRun

\* Every disablement is mailed in the end, past throws and crashes of the relay, unless
\* the relay has found nobody in the organisation whom it could mail.
DisablesAreMailed == notices # told \cup unaddressed ~> notices = told \cup unaddressed
================================================================================
