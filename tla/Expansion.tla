------------------------------- MODULE Expansion -------------------------------
(***************************************************************************)
(* One event becomes one webhook delivery per live endpoint.  A dispatcher  *)
(* hands the event to the api; the api claims it in the consumed_events     *)
(* ledger inside a transaction, and inside that transaction's callback      *)
(* reads the endpoints and inserts the delivery rows.  The callback is      *)
(* handed the pool and not the transaction, so both of its statements run   *)
(* on a connection of their own and commit at once.                         *)
(*                                                                          *)
(* A worker is one such call: a dispatcher's fetched message together with  *)
(* the request it became.                                                   *)
(***************************************************************************)
EXTENDS Naturals, FiniteSets

CONSTANTS Event,
          Endpoint,         \* endpoints subscribed to the events' type
          Worker,
          PoolSize,         \* connections of the api's pg pool
          MaxDeliver,       \* MAX_DELIVER
          MaxRedeliveries,  \* bound: messages handed out again
          MaxCrashes,       \* bound: transactions lost with their process
          MaxSwitches       \* bound: endpoints enabled, disabled or deleted

ASSUME PoolAssumption == PoolSize \in Nat \ {0} /\ MaxDeliver \in Nat \ {0}
ASSUME BoundAssumption ==
  MaxRedeliveries \in Nat /\ MaxCrashes \in Nat /\ MaxSwitches \in Nat

VARIABLES
  ledger,    \* ledger[e]: "free", "open" (inserted, not committed) or "claimed"
  rows,      \* <<e, p>>: delivery rows
  live,      \* endpoints enabled and not deleted
  touched,   \* history: endpoints that were ever switched
  pc, event, \* per worker: where its call is, and for which event
  matching,  \* matching[w]: the endpoints it read
  tries,     \* tries[e]: times the broker has handed e out
  acked,
  redeliveries, crashes, switches

dbVars == <<ledger, rows>>
endpointVars == <<live, touched>>
brokerVars == <<tries, acked>>
boundVars == <<redeliveries, crashes, switches>>
vars == <<dbVars, endpointVars, pc, event, matching, brokerVars, boundVars>>

LedgerState == {"free", "open", "claimed"}
InTransaction == {"begun", "claimed", "read", "inserted"}
Pcs == {"idle", "queued", "answered"} \cup InTransaction

TypeOK ==
  /\ ledger \in [Event -> LedgerState]
  /\ rows \in SUBSET (Event \X Endpoint)
  /\ live \in SUBSET Endpoint /\ touched \in SUBSET Endpoint
  /\ pc \in [Worker -> Pcs]
  /\ event \in [Worker -> Event]
  /\ matching \in [Worker -> SUBSET Endpoint]
  /\ tries \in [Event -> 0..MaxDeliver]
  /\ acked \in SUBSET Event
  /\ redeliveries \in 0..MaxRedeliveries
  /\ crashes \in 0..MaxCrashes
  /\ switches \in 0..MaxSwitches

Init ==
  /\ ledger = [e \in Event |-> "free"]
  /\ rows = {}
  /\ live \in SUBSET Endpoint
  /\ touched = {}
  /\ pc = [w \in Worker |-> "idle"]
  /\ event \in {[w \in Worker |-> e] : e \in Event}
  /\ matching = [w \in Worker |-> {}]
  /\ tries = [e \in Event |-> 0]
  /\ acked = {}
  /\ redeliveries = 0 /\ crashes = 0 /\ switches = 0

-------------------------------------------------------------------------------
Working(w, e) == pc[w] # "idle" /\ event[w] = e
Wanted(e) == \A w \in Worker : ~Working(w, e)
FreeConnection == Cardinality({w \in Worker : pc[w] \in InTransaction}) < PoolSize

Goto(w, label) == pc' = [pc EXCEPT ![w] = label]

\* The broker hands a message out for the first time, or again because it was not
\* acknowledged in time; a call may still be running for it.
Fetch(w, e) ==
  /\ pc[w] = "idle"
  /\ e \notin acked
  /\ tries[e] < MaxDeliver
  /\ IF Wanted(e) THEN UNCHANGED redeliveries
     ELSE redeliveries < MaxRedeliveries /\ redeliveries' = redeliveries + 1
  /\ tries' = [tries EXCEPT ![e] = @ + 1]
  /\ event' = [event EXCEPT ![w] = e]
  /\ Goto(w, "queued")
  /\ UNCHANGED <<dbVars, endpointVars, matching, acked, crashes, switches>>

Begin(w) ==
  /\ pc[w] = "queued"
  /\ FreeConnection
  /\ Goto(w, "begun")
  /\ UNCHANGED <<dbVars, endpointVars, event, matching, brokerVars, boundVars>>

claimFrame == <<rows, endpointVars, event, matching, brokerVars, boundVars>>

\* Wrong: an uncommitted claim already makes the event a duplicate.
Claim_OpenIsDuplicate(w) ==
  /\ pc[w] = "begun"
  /\ IF ledger[event[w]] = "free"
     THEN ledger' = [ledger EXCEPT ![event[w]] = "open"] /\ Goto(w, "claimed")
     ELSE Goto(w, "answered") /\ UNCHANGED ledger
  /\ UNCHANGED claimFrame

\* Wrong: the claim commits before its effect has run.
Claim_CommitsFirst(w) ==
  /\ pc[w] = "begun"
  /\ IF ledger[event[w]] = "free"
     THEN ledger' = [ledger EXCEPT ![event[w]] = "claimed"] /\ Goto(w, "claimed")
     ELSE Goto(w, "answered") /\ UNCHANGED ledger
  /\ UNCHANGED claimFrame

\* Wrong: a duplicate is dropped instead of acknowledged.
Claim_DuplicateDropped(w) ==
  /\ pc[w] = "begun"
  /\ \/ /\ ledger[event[w]] = "free"
        /\ ledger' = [ledger EXCEPT ![event[w]] = "open"]
        /\ Goto(w, "claimed")
     \/ /\ ledger[event[w]] = "claimed"
        /\ Goto(w, "idle")
        /\ UNCHANGED ledger
  /\ UNCHANGED claimFrame

\* INSERT ... ON CONFLICT DO NOTHING: it waits for another transaction's open row,
\* loses to a committed one, and otherwise holds the claim.
Claim(w) ==
  /\ pc[w] = "begun"
  /\ \/ /\ ledger[event[w]] = "free"
        /\ ledger' = [ledger EXCEPT ![event[w]] = "open"]
        /\ Goto(w, "claimed")
     \/ /\ ledger[event[w]] = "claimed"
        /\ Goto(w, "answered")
        /\ UNCHANGED ledger
  /\ UNCHANGED claimFrame

ReadEndpoints(w) ==
  /\ pc[w] = "claimed"
  /\ FreeConnection
  /\ matching' = [matching EXCEPT ![w] = live]
  /\ Goto(w, IF live = {} THEN "inserted" ELSE "read")
  /\ UNCHANGED <<dbVars, endpointVars, event, brokerVars, boundVars>>

NewRows(w) == {event[w]} \X matching[w]

\* One multi-row INSERT under UNIQUE (event_id, endpoint_id), committed at once.
InsertRows(w) ==
  /\ pc[w] = "read"
  /\ FreeConnection
  /\ NewRows(w) \cap rows = {}
  /\ rows' = rows \cup NewRows(w)
  /\ Goto(w, "inserted")
  /\ UNCHANGED <<ledger, endpointVars, event, matching, brokerVars, boundVars>>

\* The UNIQUE constraint refuses the statement, the effect throws, the claim rolls
\* back and the call answers 500: nothing is acknowledged.
InsertConflicts(w) ==
  /\ pc[w] = "read"
  /\ FreeConnection
  /\ NewRows(w) \cap rows # {}
  /\ ledger' = [ledger EXCEPT ![event[w]] = "free"]
  /\ Goto(w, "idle")
  /\ UNCHANGED <<rows, endpointVars, event, matching, brokerVars, boundVars>>

CommitClaim(w) ==
  /\ pc[w] = "inserted"
  /\ ledger' = [ledger EXCEPT ![event[w]] = "claimed"]
  /\ Goto(w, "answered")
  /\ UNCHANGED <<rows, endpointVars, event, matching, brokerVars, boundVars>>

Acknowledge(w) ==
  /\ pc[w] = "answered"
  /\ acked' = acked \cup {event[w]}
  /\ Goto(w, "idle")
  /\ UNCHANGED <<dbVars, endpointVars, event, matching, tries, boundVars>>

\* The api dies, or its session does: the open claim goes, the rows stay.
Crash(w) ==
  /\ crashes < MaxCrashes
  /\ pc[w] \in InTransaction
  /\ crashes' = crashes + 1
  /\ ledger' = IF pc[w] = "begun" THEN ledger ELSE [ledger EXCEPT ![event[w]] = "free"]
  /\ Goto(w, "idle")
  /\ UNCHANGED <<rows, endpointVars, event, matching, brokerVars, redeliveries, switches>>

\* The dispatcher dies, or its acknowledgement is lost.
LoseAnswer(w) ==
  /\ redeliveries < MaxRedeliveries
  /\ pc[w] = "answered"
  /\ redeliveries' = redeliveries + 1
  /\ Goto(w, "idle")
  /\ UNCHANGED <<dbVars, endpointVars, event, matching, brokerVars, crashes, switches>>

SwitchEndpoint(p) ==
  /\ switches < MaxSwitches
  /\ live' = IF p \in live THEN live \ {p} ELSE live \cup {p}
  /\ touched' = touched \cup {p}
  /\ switches' = switches + 1
  /\ UNCHANGED <<dbVars, pc, event, matching, brokerVars, redeliveries, crashes>>

CallStep(w) ==
  \/ Begin(w) \/ Claim(w) \/ ReadEndpoints(w) \/ InsertRows(w) \/ InsertConflicts(w)
  \/ CommitClaim(w) \/ Acknowledge(w)

FreshFetch(w) == \E e \in Event : Wanted(e) /\ Fetch(w, e)

Next ==
  \/ \E w \in Worker : CallStep(w) \/ Crash(w) \/ LoseAnswer(w)
  \/ \E w \in Worker, e \in Event : Fetch(w, e)
  \/ \E p \in Endpoint : SwitchEndpoint(p)

Spec == Init /\ [][Next]_vars

\* The dispatcher polls for ever and the api runs what it is given.
FairSpec == Spec /\ \A w \in Worker : WF_vars(CallStep(w)) /\ WF_vars(FreshFetch(w))

-------------------------------------------------------------------------------
\* An event leaves the stream only once its claim has committed: a second delivery
\* that overlaps the first waits for it and never waves the event through on the
\* strength of a claim that may still roll back.
AckedMeansClaimed == \A e \in acked : ledger[e] = "claimed"

\* A claimed event has a delivery for every endpoint that was live all along,
\* however often it was handed out and whatever crashed: a claim without its rows
\* would be waved through as a duplicate for ever after.
ClaimedReachesEveryone ==
  \A e \in Event : ledger[e] = "claimed" =>
    \A p \in live \ touched : <<e, p>> \in rows

\* As long as no transaction is lost with its process, every event is expanded and
\* acknowledged in the end, whatever is redelivered or overlaps.
EveryEventHandled == [](crashes = 0) => \A e \in Event : <>(e \in acked)

\* What the headers of expandEventToDeliveries and of the dispatcher's expand.ts
\* say: the claim and the rows commit together or not at all.
RowsCommitWithTheClaim ==
  \A e \in Event :
    (ledger[e] = "free" /\ Wanted(e)) => \A p \in Endpoint : <<e, p>> \notin rows
===============================================================================
