--------------------------- MODULE Expansion_proofs ----------------------------
(***************************************************************************)
(* Proofs about Expansion, for every set of events, endpoints and workers,  *)
(* every size of the pool and any number of redeliveries, crashes and       *)
(* switched endpoints.                                                      *)
(***************************************************************************)
EXTENDS Expansion, TLAPS

\* Every variable has its type in every reachable state.
THEOREM TypeCorrect == Spec => []TypeOK
<1>1. Init => TypeOK
  BY PoolAssumption, BoundAssumption DEF Init, TypeOK, LedgerState, Pcs
<1>2. TypeOK /\ [Next]_vars => TypeOK'
  <2> SUFFICES ASSUME TypeOK, [Next]_vars PROVE TypeOK'
    OBVIOUS
  <2> USE DEF TypeOK, LedgerState, Pcs, InTransaction, Goto, dbVars, endpointVars,
              brokerVars, boundVars
  <2>1. ASSUME NEW w \in Worker, NEW e \in Event, Fetch(w, e) PROVE TypeOK'
    BY <2>1, PoolAssumption, BoundAssumption DEF Fetch
  <2>2. ASSUME NEW w \in Worker, Begin(w) PROVE TypeOK'
    BY <2>2 DEF Begin
  <2>3. ASSUME NEW w \in Worker, Claim(w) PROVE TypeOK'
    BY <2>3 DEF Claim, claimFrame
  <2>4. ASSUME NEW w \in Worker, ReadEndpoints(w) PROVE TypeOK'
    BY <2>4 DEF ReadEndpoints
  <2>5. ASSUME NEW w \in Worker, InsertRows(w) PROVE TypeOK'
    <3>1. NewRows(w) \in SUBSET (Event \X Endpoint)
      BY DEF NewRows
    <3> QED
      BY <2>5, <3>1 DEF InsertRows
  <2>6. ASSUME NEW w \in Worker, InsertConflicts(w) PROVE TypeOK'
    BY <2>6 DEF InsertConflicts
  <2>7. ASSUME NEW w \in Worker, CommitClaim(w) PROVE TypeOK'
    BY <2>7 DEF CommitClaim
  <2>8. ASSUME NEW w \in Worker, Acknowledge(w) PROVE TypeOK'
    BY <2>8 DEF Acknowledge
  <2>9. ASSUME NEW w \in Worker, Crash(w) PROVE TypeOK'
    BY <2>9, BoundAssumption DEF Crash
  <2>10. ASSUME NEW w \in Worker, LoseAnswer(w) PROVE TypeOK'
    BY <2>10, BoundAssumption DEF LoseAnswer
  <2>11. ASSUME NEW p \in Endpoint, SwitchEndpoint(p) PROVE TypeOK'
    BY <2>11, BoundAssumption DEF SwitchEndpoint
  <2>12. CASE UNCHANGED vars
    BY <2>12 DEF vars
  <2> QED
    BY <2>1, <2>2, <2>3, <2>4, <2>5, <2>6, <2>7, <2>8, <2>9, <2>10, <2>11, <2>12
    DEF Next, CallStep
<1> QED
  BY <1>1, <1>2, PTL DEF Spec

(***************************************************************************)
(* The claim as a lock.  Between its claim and its commit a worker holds    *)
(* the open ledger row of its event, alone; and an answer was given only    *)
(* about a claim that has committed, which nothing takes back.              *)
(***************************************************************************)
Holding == {"claimed", "read", "inserted"}

HolderIsOpen == \A w \in Worker : pc[w] \in Holding => ledger[event[w]] = "open"
OneHolder ==
  \A v, w \in Worker :
    v # w /\ pc[v] \in Holding /\ pc[w] \in Holding => event[v] # event[w]
AnsweredIsClaimed == \A w \in Worker : pc[w] = "answered" => ledger[event[w]] = "claimed"

ClaimInv == HolderIsOpen /\ OneHolder /\ AnsweredIsClaimed /\ AckedMeansClaimed

LEMMA ClaimInitially == Init => ClaimInv
BY DEF Init, ClaimInv, HolderIsOpen, OneHolder, AnsweredIsClaimed, AckedMeansClaimed, Holding

\* A claim is made on a free row, only its holder commits it or gives it up, and a
\* claimed row is never changed.
LEMMA ClaimPreserved ==
  ASSUME TypeOK, ClaimInv, [Next]_vars
  PROVE  ClaimInv'
<1> USE DEF TypeOK, LedgerState, ClaimInv, HolderIsOpen, OneHolder, AnsweredIsClaimed,
            AckedMeansClaimed, Holding, Goto, dbVars, endpointVars, brokerVars, boundVars
<1>1. ASSUME NEW w \in Worker, NEW e \in Event, Fetch(w, e) PROVE ClaimInv'
  BY <1>1 DEF Fetch
<1>2. ASSUME NEW w \in Worker, Begin(w) PROVE ClaimInv'
  BY <1>2 DEF Begin
<1>3. ASSUME NEW w \in Worker, Claim(w) PROVE ClaimInv'
  BY <1>3 DEF Claim, claimFrame
<1>4. ASSUME NEW w \in Worker, ReadEndpoints(w) PROVE ClaimInv'
  BY <1>4 DEF ReadEndpoints
<1>5. ASSUME NEW w \in Worker, InsertRows(w) PROVE ClaimInv'
  BY <1>5 DEF InsertRows
<1>6. ASSUME NEW w \in Worker, InsertConflicts(w) PROVE ClaimInv'
  BY <1>6 DEF InsertConflicts
<1>7. ASSUME NEW w \in Worker, CommitClaim(w) PROVE ClaimInv'
  BY <1>7 DEF CommitClaim
<1>8. ASSUME NEW w \in Worker, Acknowledge(w) PROVE ClaimInv'
  BY <1>8 DEF Acknowledge
<1>9. ASSUME NEW w \in Worker, Crash(w) PROVE ClaimInv'
  BY <1>9 DEF Crash, InTransaction
<1>10. ASSUME NEW w \in Worker, LoseAnswer(w) PROVE ClaimInv'
  BY <1>10 DEF LoseAnswer
<1>11. ASSUME NEW p \in Endpoint, SwitchEndpoint(p) PROVE ClaimInv'
  BY <1>11 DEF SwitchEndpoint
<1>12. CASE UNCHANGED vars
  BY <1>12 DEF vars
<1> QED
  BY <1>1, <1>2, <1>3, <1>4, <1>5, <1>6, <1>7, <1>8, <1>9, <1>10, <1>11, <1>12
  DEF Next, CallStep

(***************************************************************************)
(* The rows.  A worker that has read the endpoints has every endpoint that  *)
(* nobody has switched since the start, one that has inserted has their     *)
(* rows, and rows are never taken away, though their transaction may be.    *)
(***************************************************************************)
ReadIsComplete == \A w \in Worker : pc[w] = "read" => live \ touched \subseteq matching[w]
InsertedIsComplete ==
  \A w \in Worker : pc[w] = "inserted" =>
    \A p \in live \ touched : <<event[w], p>> \in rows

RowsInv == ReadIsComplete /\ InsertedIsComplete /\ ClaimedReachesEveryone

LEMMA RowsInitially == Init => RowsInv
BY DEF Init, RowsInv, ReadIsComplete, InsertedIsComplete, ClaimedReachesEveryone

\* An endpoint that was switched once is not promised anything any more.
LEMMA SteadyShrinks ==
  ASSUME TypeOK, NEW p \in Endpoint, SwitchEndpoint(p)
  PROVE  live' \ touched' \subseteq live \ touched
BY DEF SwitchEndpoint, TypeOK

LEMMA RowsPreserved ==
  ASSUME TypeOK, ClaimInv, RowsInv, [Next]_vars
  PROVE  RowsInv'
<1> USE DEF TypeOK, LedgerState, RowsInv, ReadIsComplete, InsertedIsComplete,
            ClaimedReachesEveryone, Goto, dbVars, endpointVars, brokerVars, boundVars
<1>1. ASSUME NEW w \in Worker, NEW e \in Event, Fetch(w, e) PROVE RowsInv'
  BY <1>1 DEF Fetch
<1>2. ASSUME NEW w \in Worker, Begin(w) PROVE RowsInv'
  BY <1>2 DEF Begin
<1>3. ASSUME NEW w \in Worker, Claim(w) PROVE RowsInv'
  BY <1>3 DEF Claim, claimFrame
<1>4. ASSUME NEW w \in Worker, ReadEndpoints(w) PROVE RowsInv'
  BY <1>4 DEF ReadEndpoints
<1>5. ASSUME NEW w \in Worker, InsertRows(w) PROVE RowsInv'
  <2>1. \A p \in live \ touched : <<event[w], p>> \in rows'
    BY <1>5 DEF InsertRows, NewRows
  <2> QED
    BY <1>5, <2>1 DEF InsertRows
<1>6. ASSUME NEW w \in Worker, InsertConflicts(w) PROVE RowsInv'
  BY <1>6 DEF InsertConflicts
<1>7. ASSUME NEW w \in Worker, CommitClaim(w) PROVE RowsInv'
  BY <1>7 DEF CommitClaim
<1>8. ASSUME NEW w \in Worker, Acknowledge(w) PROVE RowsInv'
  BY <1>8 DEF Acknowledge
<1>9. ASSUME NEW w \in Worker, Crash(w) PROVE RowsInv'
  BY <1>9 DEF Crash
<1>10. ASSUME NEW w \in Worker, LoseAnswer(w) PROVE RowsInv'
  BY <1>10 DEF LoseAnswer
<1>11. ASSUME NEW p \in Endpoint, SwitchEndpoint(p) PROVE RowsInv'
  BY <1>11, SteadyShrinks DEF SwitchEndpoint
<1>12. CASE UNCHANGED vars
  BY <1>12 DEF vars
<1> QED
  BY <1>1, <1>2, <1>3, <1>4, <1>5, <1>6, <1>7, <1>8, <1>9, <1>10, <1>11, <1>12
  DEF Next, CallStep

\* An event leaves the stream only once its claim has committed, however many
\* calls overlap on it and whatever crashes (Repository.claimEvent).
THEOREM AcknowledgedIsClaimed == Spec => []AckedMeansClaimed
<1>1. TypeOK /\ ClaimInv /\ [Next]_vars => ClaimInv'
  BY ClaimPreserved
<1> QED
  BY TypeCorrect, ClaimInitially, <1>1, PTL DEF Spec, ClaimInv

\* Two calls never hold the claim of one event at once: the second waits in its
\* INSERT until the first has committed or rolled back.
THEOREM OneClaimAtATime == Spec => []OneHolder
<1>1. TypeOK /\ ClaimInv /\ [Next]_vars => ClaimInv'
  BY ClaimPreserved
<1> QED
  BY TypeCorrect, ClaimInitially, <1>1, PTL DEF Spec, ClaimInv

\* A claimed event has its row for every endpoint that was live all along
\* (Repository.expandEventToDeliveries).
THEOREM NoEndpointIsForgotten == Spec => []ClaimedReachesEveryone
<1>1. TypeOK /\ ClaimInv /\ [Next]_vars => ClaimInv'
  BY ClaimPreserved
<1>2. TypeOK /\ ClaimInv /\ RowsInv /\ [Next]_vars => RowsInv'
  BY RowsPreserved
<1> QED
  BY TypeCorrect, ClaimInitially, RowsInitially, <1>1, <1>2, PTL DEF Spec, RowsInv
===============================================================================
