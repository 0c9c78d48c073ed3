---------------------------- MODULE Streams_proofs ----------------------------
(***************************************************************************)
(* Proofs about what puts events on a stream and what takes records off one *)
(* and what is billed from reports. Outbox: for every set of events and     *)
(* relays, every batch size and any number of failures and crashes.         *)
(* AnalyticsIngest: for every set of records and tables, every finite set   *)
(* of ingesters and any number of troubles. ConnectionMetering: for any     *)
(* number of connections and periods, every finite set of overlapping       *)
(* reports and any number of mishaps.                                       *)
(***************************************************************************)
EXTENDS Outbox, AnalyticsIngest, ConnectionMetering, FiniteSetTheorems, TLAPS

--------------------------------------------------------------------------------
(* Outbox *)

(***************************************************************************)
(* The inductive invariant.  A relay's hold on a row is a database lock, so *)
(* a held row is still pending and has one holder; and a row leaves a hold  *)
(* towards "published" only through done[r], whose members the broker has.  *)
(***************************************************************************)
HeldArePending == \A r \in Relay : \A e \in Held(r) : row[e] = "pending"
\* A pass publishes each of its rows once.
TodoOrDone == \A r \in Relay : todo[r] \cap done[r] = {}

DoneInStream == \A r \in Relay : \A e \in done[r] : copies[e] > 0
WindowInStream == \A e \in window : copies[e] > 0

\* Before its first accepted publish of a pass, an event has a copy only for each
\* pass that failed.
UnpublishedPaid ==
  \A e \in Event :
    row[e] # "published" /\ (\A r \in Relay : e \notin done[r])
      => copies[e] <= failures + crashes

IInv ==
  /\ TypeOK
  /\ HeldArePending
  /\ HeldByOneRelay
  /\ TodoOrDone
  /\ DoneInStream
  /\ WindowInStream
  /\ MarkedImpliesInStream
  /\ OnlyCommittedInStream
  /\ UnpublishedPaid
  /\ CopiesPaidByFailures

\* Every variable has its type in every reachable state.
THEOREM TypeCorrect == Spec => []TypeOK
<1>1. Init => TypeOK
  BY DEF Init, TypeOK, RowState
<1>2. TypeOK /\ [Next]_vars => TypeOK'
  <2> SUFFICES ASSUME TypeOK, [Next]_vars PROVE TypeOK'
    OBVIOUS
  <2> USE DEF TypeOK, RowState
  <2>1. ASSUME NEW e \in Event, BeginWrite(e) PROVE TypeOK'
    BY <2>1 DEF BeginWrite, relayVars
  <2>2. ASSUME NEW e \in Event, CommitWrite(e) PROVE TypeOK'
    BY <2>2 DEF CommitWrite, relayVars
  <2>3. ASSUME NEW e \in Event, AbortWrite(e) PROVE TypeOK'
    BY <2>3 DEF AbortWrite, relayVars
  <2>4. ASSUME NEW e \in Event, WindowExpires(e) PROVE TypeOK'
    BY <2>4 DEF WindowExpires, writerVars
  <2>5. ASSUME NEW r \in Relay, Claim(r) PROVE TypeOK'
    <3>1. Oldest(Claimable, BatchSize) \subseteq Event
      BY DEF Oldest, Claimable
    <3> QED
      BY <2>5, <3>1 DEF Claim, writerVars
  <2>6. ASSUME NEW r \in Relay, NEW e \in Event, Publish(r, e) PROVE TypeOK'
    BY <2>6 DEF Publish, NextToPublish, Accept, writerVars
  <2>7. ASSUME NEW r \in Relay, NEW e \in Event, PublishThrows(r, e) PROVE TypeOK'
    BY <2>7 DEF PublishThrows, NextToPublish, Accept, RowsAfterThrow
  <2>8. ASSUME NEW r \in Relay, MarkPublished(r) PROVE TypeOK'
    BY <2>8 DEF MarkPublished
  <2>9. ASSUME NEW r \in Relay, Crash(r) PROVE TypeOK'
    BY <2>9 DEF Crash, writerVars
  <2>10. CASE UNCHANGED vars
    BY <2>10 DEF vars
  <2> QED
    BY <2>1, <2>2, <2>3, <2>4, <2>5, <2>6, <2>7, <2>8, <2>9, <2>10 DEF Next, RelayStep
<1> QED
  BY <1>1, <1>2, PTL DEF Spec

\* The locks: a row is held by one relay at most, and only while it is pending.
LockInv == HeldArePending /\ HeldByOneRelay /\ TodoOrDone

LEMMA LocksInitially == Init => LockInv
  BY DEF Init, LockInv, HeldArePending, HeldByOneRelay, TodoOrDone, Held

\* A claim takes rows nobody holds, and the marks of a pass touch only its own.
LEMMA LocksPreserved ==
  ASSUME TypeOK, LockInv, [Next]_vars
  PROVE  LockInv'
<1> USE DEF TypeOK, RowState, LockInv, HeldArePending, HeldByOneRelay, TodoOrDone, Held
<1>1. ASSUME NEW e \in Event, BeginWrite(e) PROVE LockInv'
  BY <1>1 DEF BeginWrite, relayVars
<1>2. ASSUME NEW e \in Event, CommitWrite(e) PROVE LockInv'
  BY <1>2 DEF CommitWrite, relayVars
<1>3. ASSUME NEW e \in Event, AbortWrite(e) PROVE LockInv'
  BY <1>3 DEF AbortWrite, relayVars
<1>4. ASSUME NEW e \in Event, WindowExpires(e) PROVE LockInv'
  BY <1>4 DEF WindowExpires, writerVars
<1>5. ASSUME NEW r \in Relay, Claim(r) PROVE LockInv'
  <2>1. Oldest(Claimable, BatchSize) \subseteq Claimable
    BY DEF Oldest
  <2>2. \A e \in Oldest(Claimable, BatchSize) :
          e \in Event /\ row[e] = "pending" /\ \A s \in Relay : e \notin todo[s] \cup done[s]
    BY <2>1 DEF Claimable
  <2>3. /\ todo' = [todo EXCEPT ![r] = Oldest(Claimable, BatchSize)]
        /\ done' = done /\ row' = row /\ done[r] = {}
    BY <1>5 DEF Claim, writerVars
  <2> HIDE DEF RowState
  <2>4. HeldArePending'
    BY <2>2, <2>3
  <2>5. HeldByOneRelay'
    BY <2>2, <2>3
  <2>6. TodoOrDone'
    BY <2>3
  <2> QED
    BY <2>4, <2>5, <2>6
<1>6. ASSUME NEW r \in Relay, NEW e \in Event, Publish(r, e)
      PROVE  LockInv'
  BY <1>6 DEF Publish, NextToPublish, writerVars
<1>7. ASSUME NEW r \in Relay, NEW e \in Event, PublishThrows(r, e)
      PROVE  LockInv'
  BY <1>7 DEF PublishThrows, RowsAfterThrow
<1>8. ASSUME NEW r \in Relay, MarkPublished(r) PROVE LockInv'
  BY <1>8 DEF MarkPublished
<1>9. ASSUME NEW r \in Relay, Crash(r) PROVE LockInv'
  BY <1>9 DEF Crash, writerVars
<1>10. CASE UNCHANGED vars
  BY <1>10 DEF vars
<1> QED
  BY <1>1, <1>2, <1>3, <1>4, <1>5, <1>6, <1>7, <1>8, <1>9, <1>10 DEF Next, RelayStep

\* What the broker holds: everything published, done or still in the duplicate
\* window has a copy, and nothing that did not commit has one.
StreamInv ==
  /\ DoneInStream
  /\ WindowInStream
  /\ MarkedImpliesInStream
  /\ OnlyCommittedInStream

\* A relay publishes only rows it holds, hence only pending ones, hence only
\* committed ones; and it marks only what it published.
LEMMA StreamPreserved ==
  ASSUME TypeOK, LockInv, StreamInv, [Next]_vars
  PROVE  StreamInv'
<1> USE DEF TypeOK, RowState, LockInv, StreamInv, DoneInStream, WindowInStream,
            MarkedImpliesInStream, OnlyCommittedInStream, InStream, Committed
<1>1. ASSUME NEW e \in Event, BeginWrite(e) PROVE StreamInv'
  BY <1>1 DEF BeginWrite, relayVars
<1>2. ASSUME NEW e \in Event, CommitWrite(e) PROVE StreamInv'
  BY <1>2 DEF CommitWrite, relayVars
<1>3. ASSUME NEW e \in Event, AbortWrite(e) PROVE StreamInv'
  BY <1>3 DEF AbortWrite, relayVars
<1>4. ASSUME NEW e \in Event, WindowExpires(e) PROVE StreamInv'
  BY <1>4 DEF WindowExpires, writerVars
<1>5. ASSUME NEW r \in Relay, Claim(r) PROVE StreamInv'
  BY <1>5 DEF Claim, writerVars
<1>6. ASSUME NEW r \in Relay, NEW e \in Event, Publish(r, e) PROVE StreamInv'
  <2>1. e \in todo[r] /\ row[e] = "pending"
    BY <1>6 DEF Publish, NextToPublish, HeldArePending, Held
  <2>2. /\ \A f \in Event : copies[f] > 0 => copies'[f] > 0
        /\ copies'[e] > 0
        /\ \A f \in Event : f # e => copies'[f] = copies[f]
        /\ window' = window \cup {e}
    BY <1>6 DEF Publish, Accept
  <2>3. row' = row /\ done' = [done EXCEPT ![r] = @ \cup {e}]
    BY <1>6 DEF Publish, writerVars
  <2> QED
    BY <2>1, <2>2, <2>3
<1>7. ASSUME NEW r \in Relay, NEW e \in Event, PublishThrows(r, e) PROVE StreamInv'
  <2>1. e \in todo[r] /\ row[e] = "pending"
    BY <1>7 DEF PublishThrows, NextToPublish, HeldArePending, Held
  <2>2. /\ \A f \in Event : copies[f] > 0 => copies'[f] > 0
        /\ \A f \in Event : f # e => copies'[f] = copies[f]
        /\ window' = window \/ (window' = window \cup {e} /\ copies'[e] > 0)
    BY <1>7 DEF PublishThrows, Accept
  <2>3. row' = row /\ done' = [done EXCEPT ![r] = {}]
    BY <1>7 DEF PublishThrows, RowsAfterThrow
  <2> QED
    BY <2>1, <2>2, <2>3
<1>8. ASSUME NEW r \in Relay, MarkPublished(r) PROVE StreamInv'
  <2>1. \A f \in done[r] : row[f] = "pending" /\ copies[f] > 0
    BY DEF HeldArePending, Held
  <2> QED
    BY <1>8, <2>1 DEF MarkPublished
<1>9. ASSUME NEW r \in Relay, Crash(r) PROVE StreamInv'
  BY <1>9 DEF Crash, writerVars
<1>10. CASE UNCHANGED vars
  BY <1>10 DEF vars
<1> QED
  BY <1>1, <1>2, <1>3, <1>4, <1>5, <1>6, <1>7, <1>8, <1>9, <1>10 DEF Next, RelayStep

\* What a copy cost: an event that is neither marked nor published by the pass in
\* progress has at most one copy for each failure so far.
PaidInv == UnpublishedPaid /\ CopiesPaidByFailures

\* Claiming is what keeps the account: the next publish of an event is the first
\* of its pass, and a pass that ends without a failure ends in a mark.
LEMMA PaidPreserved ==
  ASSUME TypeOK, LockInv, PaidInv, [Next]_vars
  PROVE  PaidInv'
<1> USE DEF TypeOK, RowState, LockInv, PaidInv, UnpublishedPaid, CopiesPaidByFailures
<1>1. ASSUME NEW e \in Event, BeginWrite(e) PROVE PaidInv'
  BY <1>1 DEF BeginWrite, relayVars
<1>2. ASSUME NEW e \in Event, CommitWrite(e) PROVE PaidInv'
  BY <1>2 DEF CommitWrite, relayVars
<1>3. ASSUME NEW e \in Event, AbortWrite(e) PROVE PaidInv'
  BY <1>3 DEF AbortWrite, relayVars
<1>4. ASSUME NEW e \in Event, WindowExpires(e) PROVE PaidInv'
  BY <1>4 DEF WindowExpires, writerVars
<1>5. ASSUME NEW r \in Relay, Claim(r) PROVE PaidInv'
  BY <1>5 DEF Claim, writerVars
<1>6. ASSUME NEW r \in Relay, NEW e \in Event, Publish(r, e) PROVE PaidInv'
  <2>1. row[e] # "published" /\ \A s \in Relay : e \notin done[s]
    BY <1>6 DEF Publish, NextToPublish, HeldArePending, HeldByOneRelay, TodoOrDone, Held
  <2>2. copies[e] <= failures + crashes
    BY <2>1
  <2>3. /\ copies'[e] <= copies[e] + 1
        /\ \A f \in Event : f # e => copies'[f] = copies[f]
        /\ copies' \in [Event -> Nat]
    BY <1>6 DEF Publish, Accept
  <2>4. /\ row' = row /\ failures' = failures /\ crashes' = crashes
        /\ done' = [done EXCEPT ![r] = @ \cup {e}]
    BY <1>6 DEF Publish, writerVars
  <2> QED
    BY <2>2, <2>3, <2>4
<1>7. ASSUME NEW r \in Relay, NEW e \in Event, PublishThrows(r, e) PROVE PaidInv'
  <2>1. row[e] # "published" /\ \A s \in Relay : e \notin done[s]
    BY <1>7 DEF PublishThrows, NextToPublish, HeldArePending, HeldByOneRelay, TodoOrDone, Held
  <2>2. copies[e] <= failures + crashes
    BY <2>1
  <2>3. /\ copies'[e] <= copies[e] + 1
        /\ \A f \in Event : f # e => copies'[f] = copies[f]
        /\ copies' \in [Event -> Nat]
    BY <1>7 DEF PublishThrows, Accept
  <2>4. row' = row /\ failures' = failures + 1 /\ crashes' = crashes
    BY <1>7 DEF PublishThrows, RowsAfterThrow
  <2>5. \A f \in Event : copies'[f] <= 1 + (failures + crashes)
    BY <2>2, <2>3
  <2> QED
    BY <2>4, <2>5, <2>3
<1>8. ASSUME NEW r \in Relay, MarkPublished(r) PROVE PaidInv'
  BY <1>8 DEF MarkPublished
<1>9. ASSUME NEW r \in Relay, Crash(r) PROVE PaidInv'
  <2>1. copies' = copies /\ row' = row /\ failures' = failures /\ crashes' = crashes + 1
    BY <1>9 DEF Crash, writerVars
  <2> QED
    BY <2>1
<1>10. CASE UNCHANGED vars
  BY <1>10 DEF vars
<1> QED
  BY <1>1, <1>2, <1>3, <1>4, <1>5, <1>6, <1>7, <1>8, <1>9, <1>10 DEF Next, RelayStep

\* The inductive invariant holds in every reachable state.
THEOREM InvariantHolds == Spec => []IInv
<1>1. Init => IInv
  <2> SUFFICES ASSUME Init PROVE IInv
    OBVIOUS
  <2>1. TypeOK
    BY DEF Init, TypeOK, RowState
  <2>2. LockInv
    BY LocksInitially
  <2>3. StreamInv
    BY DEF Init, StreamInv, DoneInStream, WindowInStream, MarkedImpliesInStream,
           OnlyCommittedInStream, InStream, Committed
  <2>4. PaidInv
    BY DEF Init, PaidInv, UnpublishedPaid, CopiesPaidByFailures
  <2> QED
    BY <2>1, <2>2, <2>3, <2>4 DEF IInv, LockInv, StreamInv, PaidInv
<1>2. IInv /\ TypeOK' /\ [Next]_vars => IInv'
  <2> SUFFICES ASSUME IInv, TypeOK', [Next]_vars PROVE IInv'
    OBVIOUS
  <2>1. TypeOK /\ LockInv /\ StreamInv /\ PaidInv
    BY DEF IInv, LockInv, StreamInv, PaidInv
  <2>2. LockInv'
    BY <2>1, LocksPreserved
  <2>3. StreamInv'
    BY <2>1, StreamPreserved
  <2>4. PaidInv'
    BY <2>1, PaidPreserved
  <2> QED
    BY <2>2, <2>3, <2>4 DEF IInv, LockInv, StreamInv, PaidInv
<1> QED
  BY <1>1, <1>2, TypeCorrect, PTL DEF Spec

\* Publish then mark, never the reverse: no crash, failure or competing relay
\* ever leaves a row marked whose event the broker does not have.
THEOREM NothingMarkedIsLost == Spec => []MarkedImpliesInStream
<1>1. IInv => MarkedImpliesInStream
  BY DEF IInv
<1> QED
  BY <1>1, InvariantHolds, PTL

\* A write that rolls back leaves nothing in the stream.
THEOREM NothingUncommittedEscapes == Spec => []OnlyCommittedInStream
<1>1. IInv => OnlyCommittedInStream
  BY DEF IInv
<1> QED
  BY <1>1, InvariantHolds, PTL

\* Any number of relays may run: they never hold the same row.
THEOREM RelaysDoNotCollide == Spec => []HeldByOneRelay
<1>1. IInv => HeldByOneRelay
  BY DEF IInv
<1> QED
  BY <1>1, InvariantHolds, PTL

\* Duplicates are bounded by failures, whatever the number of relays and however
\* soon the broker forgets a msgID.
THEOREM DuplicatesArePaid == Spec => []CopiesPaidByFailures
<1>1. IInv => CopiesPaidByFailures
  BY DEF IInv
<1> QED
  BY <1>1, InvariantHolds, PTL

\* The outbox implements the safety part of the event spine.
THEOREM ImplementsSpine == Spec => SpineSafety
<1>1. Init => Spine!SpineInit
  BY DEF Init, Spine!SpineInit, Committed, InStream
<1>2. TypeOK /\ HeldArePending /\ [Next]_vars => [Spine!SpineNext]_(Spine!spineVars)
  <2> SUFFICES ASSUME TypeOK, HeldArePending, [Next]_vars
               PROVE  [Spine!SpineNext]_(Spine!spineVars)
    OBVIOUS
  <2> USE DEF TypeOK, RowState, Committed, InStream, Spine!spineVars
  <2>1. ASSUME NEW e \in Event, BeginWrite(e) PROVE UNCHANGED Spine!spineVars
    BY <2>1 DEF BeginWrite, relayVars
  <2>2. ASSUME NEW e \in Event, CommitWrite(e) PROVE Spine!CommitWrite(e)
    BY <2>2 DEF CommitWrite, relayVars, Spine!CommitWrite
  <2>3. ASSUME NEW e \in Event, AbortWrite(e) PROVE UNCHANGED Spine!spineVars
    BY <2>3 DEF AbortWrite, relayVars
  <2>4. ASSUME NEW e \in Event, WindowExpires(e) PROVE UNCHANGED Spine!spineVars
    BY <2>4 DEF WindowExpires, writerVars
  <2>5. ASSUME NEW r \in Relay, Claim(r) PROVE UNCHANGED Spine!spineVars
    BY <2>5 DEF Claim, writerVars
  <2>6. ASSUME NEW r \in Relay, NEW e \in Event, Publish(r, e)
        PROVE  Spine!DeliverEvent(e) \/ UNCHANGED Spine!spineVars
    <3>1. row[e] = "pending" /\ row' = row
      BY <2>6 DEF Publish, NextToPublish, HeldArePending, Held, writerVars
    <3>2. \/ copies' = copies
          \/ copies' = [copies EXCEPT ![e] = @ + 1]
      BY <2>6 DEF Publish, Accept
    <3> QED
      BY <3>1, <3>2 DEF Spine!DeliverEvent
  <2>7. ASSUME NEW r \in Relay, NEW e \in Event, PublishThrows(r, e)
        PROVE  Spine!DeliverEvent(e) \/ UNCHANGED Spine!spineVars
    <3>1. row[e] = "pending" /\ row' = row
      BY <2>7 DEF PublishThrows, NextToPublish, HeldArePending, Held, RowsAfterThrow
    <3>2. \/ copies' = copies
          \/ copies' = [copies EXCEPT ![e] = @ + 1]
      BY <2>7 DEF PublishThrows, Accept
    <3> QED
      BY <3>1, <3>2 DEF Spine!DeliverEvent
  <2>8. ASSUME NEW r \in Relay, MarkPublished(r) PROVE UNCHANGED Spine!spineVars
    BY <2>8 DEF MarkPublished, HeldArePending, Held
  <2>9. ASSUME NEW r \in Relay, Crash(r) PROVE UNCHANGED Spine!spineVars
    BY <2>9 DEF Crash, writerVars
  <2>10. CASE UNCHANGED vars
    BY <2>10 DEF vars
  <2> QED
    BY <2>1, <2>2, <2>3, <2>4, <2>5, <2>6, <2>7, <2>8, <2>9, <2>10
       DEF Next, RelayStep, Spine!SpineNext
<1>3. IInv => TypeOK /\ HeldArePending
  BY DEF IInv
<1> QED
  BY <1>1, <1>2, <1>3, InvariantHolds, PTL DEF Spec, SpineSafety, Spine!SpineSafety

--------------------------------------------------------------------------------
(* AnalyticsIngest *)

\* The ingesters that may still insert a record's row for the batch in their hands.
Inserters(r) == {i \in Ingester : r \in batch[i] /\ table[i] <= TableOf[r]}

\* Without the bounds of the counters, which follow.
ShapeInv ==
  /\ place \in [Record -> {"new", "stream", "acked", "terminated"}]
  /\ batch \in [Ingester -> SUBSET (Record \ (Malformed \cup Unclaimed))]
  /\ table \in [Ingester -> 0..Tables + 1]
  /\ inserts \in [Record -> Nat] /\ failed \in 0..MaxTrouble
  /\ \A i \in Ingester : table[i] = 0 => batch[i] = {}

\* Every row that was inserted, and every one that still may be, is paid for: one is
\* free, and each other one by a trouble.
PaidRowsInv == \A r \in Record : inserts[r] + Cardinality(Inserters(r)) <= failed + 1

\* A record on the stream, or not yet there, that is in nobody's hands is paid for
\* already: the next batch is free.
WaitingInv ==
  \A r \in Record :
    place[r] \in {"new", "stream"} /\ (\A i \in Ingester : r \notin batch[i]) =>
      inserts[r] <= failed

\* What is past its table in somebody's hands is in the table, and so is what was
\* acknowledged.
PastInv == \A i \in Ingester : \A r \in batch[i] : table[i] > TableOf[r] => inserts[r] > 0
AckedInv == \A r \in Record : place[r] = "acked" => inserts[r] > 0

IngestInv == ShapeInv /\ PaidRowsInv /\ WaitingInv /\ PastInv /\ AckedInv

\* The ingesters with a record in their hands can be counted.
LEMMA InsertersNumber ==
  \A r \in Record : IsFiniteSet(Inserters(r)) /\ Cardinality(Inserters(r)) \in Nat
<1> TAKE r \in Record
<1>1. IsFiniteSet(Inserters(r))
  BY IngestAssumption, FS_Subset DEF Inserters
<1> QED
  BY <1>1, FS_CardinalityType

LEMMA InsertersFall ==
  ASSUME NEW r \in Record, Inserters(r)' \subseteq Inserters(r)
  PROVE  Cardinality(Inserters(r)') <= Cardinality(Inserters(r)) /\ Cardinality(Inserters(r)') \in Nat
<1>1. IsFiniteSet(Inserters(r))
  BY InsertersNumber
<1> QED
  BY <1>1, FS_Subset, FS_CardinalityType

LEMMA OneInserterLess ==
  ASSUME NEW r \in Record, NEW i \in Inserters(r), Inserters(r)' \subseteq Inserters(r) \ {i}
  PROVE  /\ Cardinality(Inserters(r)') + 1 <= Cardinality(Inserters(r))
         /\ Cardinality(Inserters(r)') \in Nat
<1>1. IsFiniteSet(Inserters(r))
  BY InsertersNumber
<1>2. /\ IsFiniteSet(Inserters(r) \ {i})
      /\ Cardinality(Inserters(r) \ {i}) = Cardinality(Inserters(r)) - 1
  BY <1>1, FS_RemoveElement
<1>3. Cardinality(Inserters(r)') <= Cardinality(Inserters(r) \ {i}) /\ IsFiniteSet(Inserters(r)')
  BY <1>2, FS_Subset
<1> QED
  BY <1>1, <1>2, <1>3, FS_CardinalityType

\* Every action keeps the types, and a batch holds only records that were claimed.
LEMMA ShapePreserved == ShapeInv /\ [IngestNext]_ingestVars => ShapeInv'
<1> SUFFICES ASSUME ShapeInv, [IngestNext]_ingestVars PROVE ShapeInv'
  OBVIOUS
<1> USE IngestAssumption DEF ShapeInv
<1>1. ASSUME NEW r \in Record, PublishRecord(r) PROVE ShapeInv'
  BY <1>1 DEF PublishRecord
<1>2. ASSUME NEW i \in Ingester, NEW fetched \in SUBSET OnStream, FetchBatch(i, fetched)
      PROVE  ShapeInv'
  <2>1. fetched \subseteq Record
    BY DEF OnStream
  <2>2. Claimed(fetched) \subseteq Record \ (Malformed \cup Unclaimed)
    BY <2>1 DEF Claimed
  <2>3. failed' \in 0..MaxTrouble
    BY <1>2 DEF FetchBatch, Fails
  <2> QED
    BY <1>2, <2>2, <2>3 DEF FetchBatch
<1>3. ASSUME NEW i \in Ingester, InsertTable(i) PROVE ShapeInv'
  <2>1. Inserted(i) \in [Record -> Nat]
    BY DEF Inserted
  <2> QED
    BY <1>3, <2>1 DEF InsertTable, Inserting
<1>4. ASSUME NEW i \in Ingester, InsertThrows(i) PROVE ShapeInv'
  <2>1. Inserted(i) \in [Record -> Nat]
    BY DEF Inserted
  <2> QED
    BY <1>4, <2>1 DEF InsertThrows, Abandon, Fails
<1>5. ASSUME NEW i \in Ingester, AckBatch(i) PROVE ShapeInv'
  <2>1. place' \in [Record -> {"new", "stream", "acked", "terminated"}] /\ failed' \in 0..MaxTrouble
    BY <1>5 DEF AckBatch, Fails
  <2> QED
    BY <1>5, <2>1 DEF AckBatch
<1>6. ASSUME NEW i \in Ingester, IngesterDies(i) PROVE ShapeInv'
  BY <1>6 DEF IngesterDies, Abandon, Fails
<1>7. CASE UNCHANGED ingestVars
  BY <1>7 DEF ingestVars
<1> QED
  BY <1>1, <1>2, <1>3, <1>4, <1>5, <1>6, <1>7 DEF IngestNext, Work

\* A batch that is abandoned after some of its inserts, and one that is handed out again,
\* is paid for by the trouble it met, whoever has its records then.
LEMMA CountsPreserved ==
  ShapeInv /\ ShapeInv' /\ PaidRowsInv /\ WaitingInv /\ [IngestNext]_ingestVars
    => PaidRowsInv' /\ WaitingInv'
<1> SUFFICES ASSUME ShapeInv, ShapeInv', PaidRowsInv, WaitingInv, [IngestNext]_ingestVars
             PROVE  PaidRowsInv' /\ WaitingInv'
  OBVIOUS
<1>1. ASSUME NEW r \in Record, PublishRecord(r) PROVE PaidRowsInv' /\ WaitingInv'
  <2>1. \A q \in Record : Inserters(q)' = Inserters(q)
    BY <1>1 DEF PublishRecord, Inserters
  <2> QED
    BY <1>1, <2>1 DEF PublishRecord, PaidRowsInv, WaitingInv, ShapeInv
<1>2. ASSUME NEW i \in Ingester, NEW fetched \in SUBSET OnStream, FetchBatch(i, fetched)
      PROVE  PaidRowsInv' /\ WaitingInv'
  <2>1. /\ table[i] = 0 /\ batch[i] = {} /\ UNCHANGED inserts
        /\ batch' = [batch EXCEPT ![i] = Claimed(fetched)]
        /\ table' = [table EXCEPT ![i] = IF Claimed(fetched) = {} THEN 0 ELSE 1]
        /\ failed' \in {failed, failed + 1}
        /\ (fetched \cap InHand # {} => failed' = failed + 1)
    BY <1>2 DEF FetchBatch, ShapeInv, Fails
  <2>2. Claimed(fetched) \subseteq fetched /\ fetched \subseteq Record
    BY DEF Claimed, OnStream
  <2>3. ASSUME NEW r \in Record
        PROVE  inserts'[r] + Cardinality(Inserters(r)') <= failed' + 1
    <3>1. inserts[r] + Cardinality(Inserters(r)) <= failed + 1
      BY DEF PaidRowsInv
    <3>2. /\ Cardinality(Inserters(r)) \in Nat /\ inserts[r] \in Nat /\ failed \in Nat
          /\ IsFiniteSet(Inserters(r))
      BY InsertersNumber DEF ShapeInv
    <3>3. CASE r \notin Claimed(fetched)
      <4>1. Inserters(r)' \subseteq Inserters(r)
        BY <2>1, <3>3 DEF Inserters, ShapeInv
      <4> QED
        BY <2>1, <3>1, <3>2, <4>1, InsertersFall
    <3>4. CASE r \in Claimed(fetched)
      <4>1. Inserters(r)' \subseteq Inserters(r) \cup {i}
        BY <2>1 DEF Inserters, ShapeInv
      <4>0. i \notin Inserters(r)
        BY <2>1 DEF Inserters
      <4>2. /\ IsFiniteSet(Inserters(r) \cup {i})
            /\ Cardinality(Inserters(r) \cup {i}) = Cardinality(Inserters(r)) + 1
        BY <3>2, <4>0, FS_AddElement
      <4>3. /\ Cardinality(Inserters(r)') <= Cardinality(Inserters(r) \cup {i})
            /\ Cardinality(Inserters(r)') \in Nat /\ Cardinality(Inserters(r) \cup {i}) \in Nat
        BY <4>1, <4>2, FS_Subset, FS_CardinalityType
      <4>4. CASE failed' = failed + 1
        BY <2>1, <3>1, <3>2, <4>2, <4>3, <4>4
      <4>5. CASE fetched \cap InHand = {} /\ failed' = failed
        <5>1. \A j \in Ingester : r \notin batch[j]
          BY <2>2, <3>4, <4>5 DEF InHand
        <5>2. place[r] = "stream"
          BY <2>2, <3>4 DEF OnStream
        <5>3. inserts[r] <= failed
          BY <5>1, <5>2 DEF WaitingInv
        <5>4. Inserters(r) = {}
          BY <5>1 DEF Inserters
        <5>5. Cardinality(Inserters(r)) = 0
          BY <5>4, FS_EmptySet
        <5> QED
          BY <2>1, <3>2, <4>2, <4>3, <4>5, <5>3, <5>5
      <4> QED
        BY <2>1, <4>4, <4>5
    <3> QED
      BY <3>3, <3>4
  <2>4. ASSUME NEW r \in Record, place'[r] \in {"new", "stream"},
               \A j \in Ingester : r \notin batch'[j]
        PROVE  inserts'[r] <= failed'
    <3>1. place[r] \in {"new", "stream"}
      BY <1>2, <2>4 DEF FetchBatch, ShapeInv
    <3>2. \A j \in Ingester : r \notin batch[j]
      BY <2>1, <2>4 DEF ShapeInv
    <3> QED
      BY <2>1, <3>1, <3>2 DEF WaitingInv, ShapeInv
  <2> QED
    BY <2>3, <2>4 DEF PaidRowsInv, WaitingInv
<1>3. ASSUME NEW i \in Ingester, InsertTable(i) PROVE PaidRowsInv' /\ WaitingInv'
  <2>1. /\ table[i] \in 1..Tables /\ UNCHANGED <<place, batch, failed>>
        /\ table' = [table EXCEPT ![i] = @ + 1] /\ inserts' = Inserted(i)
    BY <1>3 DEF InsertTable, Inserting
  <2>2. ASSUME NEW r \in Record
        PROVE  inserts'[r] + Cardinality(Inserters(r)') <= failed' + 1
    <3>1. inserts[r] + Cardinality(Inserters(r)) <= failed + 1
      BY DEF PaidRowsInv
    <3>2. Cardinality(Inserters(r)) \in Nat /\ inserts[r] \in Nat /\ failed \in Nat
      BY InsertersNumber DEF ShapeInv
    <3>3. Inserters(r)' \subseteq Inserters(r)
      <4> SUFFICES ASSUME NEW j \in Ingester, j \in Inserters(r)' PROVE j \in Inserters(r)
        BY DEF Inserters
      <4>1. TableOf[r] \in Nat /\ table[j] \in Nat /\ table[i] \in Nat
        BY IngestAssumption DEF ShapeInv
      <4>2. r \in batch[j] /\ table'[j] <= TableOf[r] /\ table'[j] >= table[j]
        BY <2>1, <4>1 DEF Inserters, ShapeInv
      <4> QED
        BY <2>1, <4>1, <4>2 DEF Inserters
    <3>4. CASE r \in RowsFor(i)
      <4>1. i \in Inserters(r) /\ i \notin Inserters(r)'
        BY <2>1, <3>4, IngestAssumption DEF RowsFor, Inserters, ShapeInv
      <4>2. inserts'[r] = inserts[r] + 1
        BY <2>1, <3>4 DEF Inserted
      <4> QED
        BY <2>1, <3>1, <3>2, <3>3, <4>1, <4>2, OneInserterLess
    <3>5. CASE r \notin RowsFor(i)
      <4>1. inserts'[r] = inserts[r]
        BY <2>1, <3>5 DEF Inserted
      <4> QED
        BY <2>1, <3>1, <3>2, <3>3, <4>1, InsertersFall
    <3> QED
      BY <3>4, <3>5
  <2>3. ASSUME NEW r \in Record, place'[r] \in {"new", "stream"},
               \A j \in Ingester : r \notin batch'[j]
        PROVE  inserts'[r] <= failed'
    <3>1. inserts[r] <= failed
      BY <2>1, <2>3 DEF WaitingInv
    <3>2. inserts'[r] = inserts[r]
      BY <2>1, <2>3 DEF Inserted, RowsFor
    <3> QED
      BY <2>1, <3>1, <3>2
  <2> QED
    BY <2>2, <2>3 DEF PaidRowsInv, WaitingInv
<1>4. ASSUME NEW i \in Ingester, Abandon(i),
             inserts' = inserts \/ (table[i] \in 1..Tables /\ inserts' = Inserted(i))
      PROVE  PaidRowsInv' /\ WaitingInv'
  <2>1. /\ failed' = failed + 1 /\ batch' = [batch EXCEPT ![i] = {}]
        /\ table' = [table EXCEPT ![i] = 0]
    BY <1>4 DEF Abandon, Fails
  <2>2. ASSUME NEW r \in Record
        PROVE  inserts'[r] + Cardinality(Inserters(r)') <= failed + 1
    <3>1. inserts[r] + Cardinality(Inserters(r)) <= failed + 1
      BY DEF PaidRowsInv
    <3>2. Cardinality(Inserters(r)) \in Nat /\ inserts[r] \in Nat /\ failed \in Nat
      BY InsertersNumber DEF ShapeInv
    <3>3. Inserters(r)' \subseteq Inserters(r) \ {i}
      BY <2>1 DEF Inserters, ShapeInv
    <3>4. CASE inserts'[r] = inserts[r]
      BY <3>1, <3>2, <3>3, <3>4, InsertersFall
    <3>5. CASE inserts' = Inserted(i) /\ r \in RowsFor(i)
      <4>1. i \in Inserters(r)
        BY <3>5, IngestAssumption DEF RowsFor, Inserters, ShapeInv
      <4>2. inserts'[r] = inserts[r] + 1
        BY <3>5 DEF Inserted
      <4> QED
        BY <3>1, <3>2, <3>3, <4>1, <4>2, OneInserterLess
    <3> QED
      BY <1>4, <3>4, <3>5 DEF Inserted
  <2>3. \A r \in Record : Cardinality(Inserters(r)') \in Nat /\ inserts'[r] \in Nat /\ failed \in Nat
    <3> TAKE r \in Record
    <3>1. Inserters(r)' \subseteq Inserters(r)
      BY <2>1 DEF Inserters, ShapeInv
    <3> QED
      BY <3>1, InsertersFall DEF ShapeInv
  <2>4. \A r \in Record : /\ inserts'[r] <= failed'
                          /\ inserts'[r] + Cardinality(Inserters(r)') <= failed' + 1
    BY <2>1, <2>2, <2>3
  <2> QED
    BY <2>4 DEF PaidRowsInv, WaitingInv
<1>5. ASSUME NEW i \in Ingester, AckBatch(i) PROVE PaidRowsInv' /\ WaitingInv'
  <2>1. PICK missed \in SUBSET batch[i] :
          /\ IF missed = {} THEN UNCHANGED failed ELSE Fails
          /\ place' = [r \in Record |-> IF r \in batch[i] \ missed THEN "acked" ELSE place[r]]
    BY <1>5 DEF AckBatch
  <2>2. /\ UNCHANGED inserts /\ batch' = [batch EXCEPT ![i] = {}]
        /\ table' = [table EXCEPT ![i] = 0] /\ failed' \in {failed, failed + 1}
        /\ (missed # {} => failed' = failed + 1)
    BY <1>5, <2>1 DEF AckBatch, Fails
  <2>3. ASSUME NEW r \in Record
        PROVE  /\ inserts'[r] + Cardinality(Inserters(r)') <= failed + 1
               /\ Cardinality(Inserters(r)') \in Nat
    <3>1. inserts[r] + Cardinality(Inserters(r)) <= failed + 1
      BY DEF PaidRowsInv
    <3>2. Cardinality(Inserters(r)) \in Nat /\ inserts[r] \in Nat /\ failed \in Nat
      BY InsertersNumber DEF ShapeInv
    <3>3. Inserters(r)' \subseteq Inserters(r)
      BY <2>2 DEF Inserters, ShapeInv
    <3> QED
      BY <2>2, <3>1, <3>2, <3>3, InsertersFall
  <2>4. ASSUME NEW r \in Record, place'[r] \in {"new", "stream"},
               \A j \in Ingester : r \notin batch'[j]
        PROVE  inserts'[r] <= failed'
    <3>1. inserts[r] \in Nat /\ failed \in Nat
      BY DEF ShapeInv
    <3>2. place[r] \in {"new", "stream"} /\ r \notin batch[i] \ missed
      BY <2>1, <2>4
    <3>3. CASE missed # {}
      BY <2>2, <2>3, <3>1, <3>3
    <3>4. CASE missed = {}
      <4>1. \A j \in Ingester : r \notin batch[j]
        BY <2>2, <2>4, <3>2, <3>4 DEF ShapeInv
      <4> QED
        BY <2>2, <3>1, <3>2, <4>1 DEF WaitingInv
    <3> QED
      BY <3>3, <3>4
  <2> QED
    BY <2>2, <2>3, <2>4 DEF PaidRowsInv, WaitingInv, ShapeInv
<1>6. CASE UNCHANGED ingestVars
  <2>1. \A q \in Record : Inserters(q)' = Inserters(q)
    BY <1>6 DEF ingestVars, Inserters
  <2> QED
    BY <1>6, <2>1 DEF ingestVars, PaidRowsInv, WaitingInv
<1> QED
  BY <1>1, <1>2, <1>3, <1>4, <1>5, <1>6
     DEF IngestNext, Work, InsertThrows, IngesterDies, Inserting

\* A batch goes from table to table, and is acknowledged after the last: what it leaves
\* behind has been inserted.
LEMMA StoredPreserved ==
  ShapeInv /\ PastInv /\ AckedInv /\ [IngestNext]_ingestVars => PastInv' /\ AckedInv'
<1> SUFFICES ASSUME ShapeInv, PastInv, AckedInv, [IngestNext]_ingestVars PROVE PastInv' /\ AckedInv'
  OBVIOUS
<1> USE DEF PastInv, AckedInv, ShapeInv
<1>1. ASSUME NEW r \in Record, PublishRecord(r) PROVE PastInv' /\ AckedInv'
  BY <1>1 DEF PublishRecord
<1>2. ASSUME NEW i \in Ingester, NEW fetched \in SUBSET OnStream, FetchBatch(i, fetched)
      PROVE  PastInv' /\ AckedInv'
  <2>1. \A r \in Claimed(fetched) : TableOf[r] >= 1
    BY IngestAssumption DEF Claimed, OnStream
  <2>2. ASSUME NEW j \in Ingester, NEW r \in batch'[j], table'[j] > TableOf[r]
        PROVE  inserts'[r] > 0
    <3>1. CASE j = i
      <4>1. r \in Claimed(fetched) /\ table'[i] = 1
        BY <1>2, <2>2, <3>1 DEF FetchBatch
      <4>2. TableOf[r] \in Nat
        BY <4>1, IngestAssumption DEF Claimed, OnStream
      <4> QED
        BY <2>1, <2>2, <3>1, <4>1, <4>2
    <3>2. CASE j # i
      BY <1>2, <2>2, <3>2 DEF FetchBatch
    <3> QED
      BY <3>1, <3>2
  <2>3. AckedInv'
    BY <1>2 DEF FetchBatch
  <2> QED
    BY <2>2, <2>3
<1>3. ASSUME NEW i \in Ingester, InsertTable(i) PROVE PastInv' /\ AckedInv'
  <2>1. /\ table[i] \in 1..Tables /\ UNCHANGED <<place, batch, failed>>
        /\ table' = [table EXCEPT ![i] = @ + 1]
        /\ \A r \in Record : inserts'[r] = IF r \in RowsFor(i) THEN inserts[r] + 1 ELSE inserts[r]
    BY <1>3 DEF InsertTable, Inserting, Inserted
  <2>2. ASSUME NEW j \in Ingester, NEW r \in batch'[j], table'[j] > TableOf[r]
        PROVE  inserts'[r] > 0
    <3>1. r \in batch[j] /\ r \in Record /\ TableOf[r] \in Nat /\ inserts[r] \in Nat
      BY <2>1, IngestAssumption
    <3>2. CASE table[j] > TableOf[r]
      BY <2>1, <3>1, <3>2
    <3>3. CASE ~(table[j] > TableOf[r])
      <4>1. j = i /\ TableOf[r] = table[i]
        BY <2>1, <2>2, <3>1, <3>3
      <4> QED
        BY <2>1, <3>1, <4>1 DEF RowsFor
    <3> QED
      BY <3>2, <3>3
  <2>3. AckedInv'
    BY <2>1
  <2> QED
    BY <2>2, <2>3
<1>4. ASSUME NEW i \in Ingester, Abandon(i), inserts' \in {inserts, Inserted(i)}
      PROVE  PastInv' /\ AckedInv'
  <2>1. \A r \in Record : inserts[r] > 0 => inserts'[r] > 0
    BY <1>4 DEF Inserted
  <2> QED
    BY <1>4, <2>1 DEF Abandon
<1>5. ASSUME NEW i \in Ingester, AckBatch(i) PROVE PastInv' /\ AckedInv'
  <2>1. \A r \in batch[i] : inserts[r] > 0
    <3> TAKE r \in batch[i]
    <3>1. r \in Record /\ TableOf[r] \in 0..Tables /\ table[i] = Tables + 1
      BY <1>5, IngestAssumption DEF AckBatch
    <3>2. table[i] > TableOf[r]
      BY <3>1, IngestAssumption
    <3> QED
      BY <3>2
  <2>2. AckedInv'
    BY <1>5, <2>1 DEF AckBatch
  <2>3. PastInv'
    BY <1>5 DEF AckBatch
  <2> QED
    BY <2>2, <2>3
<1>6. CASE UNCHANGED ingestVars
  BY <1>6 DEF ingestVars
<1> QED
  BY <1>1, <1>2, <1>3, <1>4, <1>5, <1>6 DEF IngestNext, Work, InsertThrows, IngesterDies

\* The inductive invariant of the ingester holds in every reachable state.
THEOREM IngestInvariant == IngestSpec => []IngestInv
<1>1. IngestInit => IngestInv
  <2> SUFFICES ASSUME IngestInit PROVE IngestInv
    OBVIOUS
  <2>1. \A r \in Record : Inserters(r) = {}
    BY DEF IngestInit, Inserters
  <2>2. PaidRowsInv
    BY <2>1, FS_EmptySet DEF PaidRowsInv, IngestInit
  <2> QED
    BY <2>2, IngestAssumption DEF IngestInit, IngestInv, ShapeInv, WaitingInv, PastInv, AckedInv
<1>2. IngestInv /\ [IngestNext]_ingestVars => IngestInv'
  BY ShapePreserved, CountsPreserved, StoredPreserved DEF IngestInv
<1> QED
  BY <1>1, <1>2, PTL DEF IngestSpec

\* Every variable of the ingester has its type in every reachable state; for the number
\* of inserts that is PaidRowsInv.
THEOREM IngestTypeCorrect == IngestSpec => []IngestTypeOK
<1>1. IngestInv => IngestTypeOK
  <2> SUFFICES ASSUME IngestInv PROVE IngestTypeOK
    OBVIOUS
  <2>1. ASSUME NEW r \in Record PROVE inserts[r] \in 0..1 + MaxTrouble
    BY InsertersNumber, IngestAssumption DEF IngestInv, ShapeInv, PaidRowsInv
  <2> QED
    BY <2>1 DEF IngestInv, ShapeInv, IngestTypeOK
<1> QED
  BY <1>1, IngestInvariant, PTL

\* insert, then ack: a record that has left the stream is in its table, and a rollup
\* counts it once more at most for each batch that was abandoned or handed out again,
\* whatever the number of ingesters.
THEOREM AckedRecordsAreCounted == IngestSpec => []AckedIsCounted
<1>1. IngestInv => AckedIsCounted
  <2> SUFFICES ASSUME IngestInv, NEW r \in Record
               PROVE  /\ place[r] = "acked" => Final(r) = 1
                      /\ RolledUp(r) <= Final(r) + failed
    BY DEF AckedIsCounted
  <2>1. inserts[r] \in Nat /\ failed \in Nat /\ (place[r] = "acked" => inserts[r] > 0)
    BY DEF IngestInv, ShapeInv, AckedInv
  <2>2. inserts[r] <= failed + 1
    BY <2>1, InsertersNumber DEF IngestInv, PaidRowsInv
  <2> QED
    BY <2>1, <2>2 DEF Final, RolledUp
<1> QED
  BY <1>1, IngestInvariant, PTL

--------------------------------------------------------------------------------
(* ConnectionMetering *)

(***************************************************************************)
(* What a transaction may rely on.                                          *)
(***************************************************************************)
MeterShape ==
  /\ pc \in [Report -> {"idle", "answered"} \cup InTransaction]
  /\ toCredit \in [Report -> Seq([key : Key, minutes : Nat])]
  /\ already \in [Report -> Nat]
  /\ wrote \in [Report -> [Key -> Nat]]
  /\ credit \in [Report -> [Period -> Nat]]
  /\ recorded \in [Key -> Nat] /\ rollup \in [Period -> Nat]
  /\ rowLock \in [Key -> Report \cup {Nobody}]
  /\ \A r \in Report : pc[r] \in {"writing", "adding"} => toCredit[r] # <<>>

\* What has been written is locked, and nothing is written and nothing added outside a
\* transaction.
WritesAreLocked ==
  \A r \in Report, k \in Key :
    wrote[r][k] # 0 => rowLock[k] = r /\ pc[r] \in InTransaction
EndsClean == \A r \in Report : pc[r] \notin InTransaction => credit[r] = NoCredit

\* The figure that was read is what the transaction sees, under its lock, unless there
\* was nothing to read.
ReadsAreCurrent ==
  \A r \in Report :
    pc[r] = "writing" =>
      IF already[r] = 0 THEN wrote[r][Now(r).key] = 0
      ELSE already[r] = Sees(r, Now(r).key) /\ rowLock[Now(r).key] = r

ReadInv == WritesAreLocked /\ EndsClean /\ ReadsAreCurrent

(***************************************************************************)
(* The minutes a transaction has added to those on record, each connection's *)
(* counted from 1, are what it has added to the period or is about to add.  *)
(* A period is clean if no two first reports for it have overlapped.        *)
(***************************************************************************)
Clean(p) == \A c \in Connection : <<c, p>> \notin overlapped
Added(r, p) ==
  {x \in Connection \X Nat :
     /\ wrote[r][<<x[1], p>>] # 0
     /\ recorded[<<x[1], p>>] < x[2] /\ x[2] <= wrote[r][<<x[1], p>>]}
Pending(r, p) ==
  IF pc[r] = "adding" /\ Now(r).key[2] = p THEN CreditFor(Now(r).minutes, already[r]) ELSE 0

NeverLower ==
  \A r \in Report, k \in Key :
    wrote[r][k] # 0 /\ k \notin overlapped => recorded[k] <= wrote[r][k]
CreditIsAdded ==
  \A r \in Report, p \in Period :
    Clean(p) => /\ IsFiniteSet(Added(r, p))
                /\ credit[r][p] + Pending(r, p) = Cardinality(Added(r, p))
BillInv == \A p \in Period : Clean(p) => IsFiniteSet(OnRecord(p)) /\ rollup[p] = Recorded(p)

CreditInv == NeverLower /\ CreditIsAdded /\ BillInv

\* Max of two numbers.
LEMMA LargerOfTwo ==
  ASSUME NEW m \in Int, NEW n \in Int
  PROVE  Max({m, n}) = IF m > n THEN m ELSE n
BY DEF Max

\* The difference that is credited and the figure that is stored.
LEMMA CreditFigures ==
  ASSUME NEW reported \in Nat, NEW credited \in Nat
  PROVE  /\ CreditFor(reported, credited) = IF reported > credited THEN reported - credited ELSE 0
         /\ HighWaterMark(reported, credited) = IF reported > credited THEN reported ELSE credited
         /\ CreditFor(reported, credited) \in Nat /\ HighWaterMark(reported, credited) \in Nat
BY LargerOfTwo DEF CreditFor, HighWaterMark

\* The next entry and the others.
LEMMA HeadAndTail ==
  ASSUME NEW S, NEW s \in Seq(S), s # <<>>
  PROVE  Head(s) \in S /\ Tail(s) \in Seq(S)
OBVIOUS

\* An entry under way.
LEMMA EntryParts ==
  ASSUME MeterShape, NEW r \in Report, toCredit[r] # <<>>
  PROVE  /\ Now(r).key \in Key /\ Now(r).minutes \in Nat
         /\ Now(r).key[1] \in Connection /\ Now(r).key[2] \in Period
         /\ Now(r).key = <<Now(r).key[1], Now(r).key[2]>>
         /\ Tail(toCredit[r]) \in Seq([key : Key, minutes : Nat])
<1>1. toCredit[r] \in Seq([key : Key, minutes : Nat])
  BY DEF MeterShape
<1>2. Now(r) \in [key : Key, minutes : Nat] /\ Tail(toCredit[r]) \in Seq([key : Key, minutes : Nat])
  BY <1>1, HeadAndTail DEF Now
<1> QED
  BY <1>2 DEF Key

\* A step that no transaction takes.
TransactionsRest == UNCHANGED <<pc, workVars, storeVars, lockVars, overlapped>>

\* What a step does to the transactions: the gateway's own steps and the clock leave them
\* alone, and a deadlock that is broken and a transaction that is lost roll back.
LEMMA MeterStep ==
  ASSUME [MeterNext]_meterVars
  PROVE  \/ \E r \in Report : SendReport(r) \/ AnswerArrives(r) \/ LoseAnswer(r) \/ RollBack(r)
         \/ \E r \in Report : ReadEntry(r) \/ WriteEntry(r) \/ AddToPeriod(r) \/ CommitReport(r)
         \/ TransactionsRest
<1>1. ASSUME NEW c \in Connection, Open(c) PROVE TransactionsRest
  BY <1>1 DEF Open, TransactionsRest
<1>2. ASSUME NEW c \in ToSet(registry), Close(c)
      PROVE  TransactionsRest
  BY <1>2 DEF Close, TransactionsRest
<1>3. CASE PassMinute \/ GatewayDies
  BY <1>3 DEF PassMinute, GatewayDies, TransactionsRest
<1>4. CASE UNCHANGED meterVars
  BY <1>4 DEF meterVars, TransactionsRest
<1> QED
  BY <1>1, <1>2, <1>3, <1>4 DEF MeterNext, ApiStep, BreakDeadlock, LoseTransaction

(***************************************************************************)
(* Types.                                                                   *)
(***************************************************************************)
\* A transaction that ends leaves nothing behind.
LEMMA EndKeepsShape ==
  ASSUME MeterShape, NEW r \in Report, EndTransaction(r)
  PROVE  /\ toCredit' \in [Report -> Seq([key : Key, minutes : Nat])]
         /\ already' \in [Report -> Nat] /\ wrote' \in [Report -> [Key -> Nat]]
         /\ credit' \in [Report -> [Period -> Nat]]
         /\ rowLock' \in [Key -> Report \cup {Nobody}]
<1>1. NoWrites \in [Key -> Nat] /\ NoCredit \in [Period -> Nat]
  BY DEF NoWrites, NoCredit
<1>2. <<>> \in Seq([key : Key, minutes : Nat])
  OBVIOUS
<1> QED
  BY <1>1, <1>2 DEF EndTransaction, MeterShape

\* The next entry.
LEMMA AdvanceKeepsShape ==
  ASSUME MeterShape, NEW r \in Report, toCredit[r] # <<>>, Advance(r)
  PROVE  /\ pc' \in [Report -> {"idle", "answered"} \cup InTransaction]
         /\ toCredit' \in [Report -> Seq([key : Key, minutes : Nat])]
         /\ already' \in [Report -> Nat]
         /\ \A q \in Report : pc'[q] \in {"writing", "adding"} => toCredit'[q] # <<>>
<1>1. Tail(toCredit[r]) \in Seq([key : Key, minutes : Nat])
  BY EntryParts
<1> QED
  BY <1>1 DEF Advance, Goto, MeterShape, InTransaction

\* Types, for whatever reports the schema takes.
LEMMA MeterShapePreserved == MeterShape /\ [MeterNext]_meterVars => MeterShape'
<1> SUFFICES ASSUME MeterShape, [MeterNext]_meterVars PROVE MeterShape'
  OBVIOUS
<1>1. ASSUME NEW r \in Report, SendReport(r) PROVE MeterShape'
  BY <1>1 DEF SendReport, NextSlot, Request, Parses, MeterShape, InTransaction,
     gatewayVars, storeVars, lockVars
<1>2. ASSUME NEW r \in Report, AnswerArrives(r) \/ LoseAnswer(r) PROVE MeterShape'
  BY <1>2 DEF AnswerArrives, LoseAnswer, MeterShape, gatewayVars, workVars, storeVars, lockVars
<1>3. ASSUME NEW r \in Report, ReadEntry(r) PROVE MeterShape'
  <2>1. Now(r).key \in Key
    BY <1>3, EntryParts DEF ReadEntry
  <2>2. Sees(r, Now(r).key) \in Nat
    BY <2>1 DEF Sees, MeterShape
  <2> QED
    BY <1>3, <2>1, <2>2 DEF ReadEntry, Goto, MeterShape, InTransaction, storeVars
<1>4. ASSUME NEW r \in Report, WriteEntry(r) PROVE MeterShape'
  <2> DEFINE k == Now(r).key
             h == HighWaterMark(Now(r).minutes, already[r])
  <2>0. toCredit[r] # <<>>
    BY <1>4 DEF WriteEntry, MeterShape
  <2>1. k \in Key /\ h \in Nat /\ Tail(toCredit[r]) \in Seq([key : Key, minutes : Nat])
    BY <2>0, EntryParts, CreditFigures DEF MeterShape
  <2>2. wrote' = [wrote EXCEPT ![r][k] = h] /\ rowLock' = [rowLock EXCEPT ![k] = r]
    BY <1>4 DEF WriteEntry
  <2> HIDE DEF h, k
  <2>3. wrote' \in [Report -> [Key -> Nat]] /\ rowLock' \in [Key -> Report \cup {Nobody}]
    BY <2>1, <2>2 DEF MeterShape
  <2>4. CASE Advance(r)
    BY <1>4, <2>1, <2>3, <2>4, AdvanceKeepsShape DEF WriteEntry, MeterShape, storeVars
  <2>5. CASE Goto(r, "adding") /\ UNCHANGED <<toCredit, already>>
    BY <1>4, <2>0, <2>3, <2>5 DEF WriteEntry, Goto, MeterShape, InTransaction, storeVars
  <2> QED
    BY <1>4, <2>4, <2>5 DEF WriteEntry
<1>5. ASSUME NEW r \in Report, AddToPeriod(r) PROVE MeterShape'
  <2> DEFINE p == Now(r).key[2]
             n == CreditFor(Now(r).minutes, already[r])
  <2>0. toCredit[r] # <<>>
    BY <1>5 DEF AddToPeriod, MeterShape
  <2>1. p \in Period /\ n \in Nat /\ Tail(toCredit[r]) \in Seq([key : Key, minutes : Nat])
    BY <2>0, EntryParts, CreditFigures DEF MeterShape
  <2>2. credit' = [credit EXCEPT ![r][p] = @ + n]
    BY <1>5 DEF AddToPeriod
  <2> HIDE DEF n, p
  <2>3. credit' \in [Report -> [Period -> Nat]]
    BY <2>1, <2>2 DEF MeterShape
  <2> QED
    BY <1>5, <2>1, <2>3, AdvanceKeepsShape DEF AddToPeriod, MeterShape, storeVars
<1>6. ASSUME NEW r \in Report, CommitReport(r) PROVE MeterShape'
  <2>1. recorded' \in [Key -> Nat]
    BY <1>6 DEF CommitReport, MeterShape
  <2>2. rollup' \in [Period -> Nat]
    BY <1>6 DEF CommitReport, MeterShape
  <2>3. pc' \in [Report -> {"idle", "answered"} \cup InTransaction]
    BY <1>6 DEF CommitReport, Goto, MeterShape
  <2>4. \A q \in Report : pc'[q] \in {"writing", "adding"} => toCredit'[q] # <<>>
    BY <1>6 DEF CommitReport, Goto, EndTransaction, MeterShape
  <2> QED
    BY <1>6, <2>1, <2>2, <2>3, <2>4, EndKeepsShape DEF CommitReport, MeterShape
<1>7. ASSUME NEW r \in Report, RollBack(r) PROVE MeterShape'
  <2>1. pc' \in [Report -> {"idle", "answered"} \cup InTransaction]
    BY <1>7 DEF RollBack, Goto, MeterShape
  <2>2. \A q \in Report : pc'[q] \in {"writing", "adding"} => toCredit'[q] # <<>>
    BY <1>7 DEF RollBack, Goto, EndTransaction, MeterShape
  <2> QED
    BY <1>7, <2>1, <2>2, EndKeepsShape DEF RollBack, MeterShape, storeVars
<1>8. ASSUME TransactionsRest PROVE MeterShape'
  BY <1>8 DEF TransactionsRest, MeterShape, workVars, storeVars, lockVars
<1>9. \/ \E r \in Report : SendReport(r) \/ AnswerArrives(r) \/ LoseAnswer(r) \/ RollBack(r)
      \/ \E r \in Report : ReadEntry(r) \/ WriteEntry(r) \/ AddToPeriod(r) \/ CommitReport(r)
      \/ TransactionsRest
  BY MeterStep
<1> QED
  BY <1>1, <1>2, <1>3, <1>4, <1>5, <1>6, <1>7, <1>8, <1>9

(***************************************************************************)
(* Locks.                                                                   *)
(***************************************************************************)
\* A transaction that ends gives back its own locks, and has written nothing then.
LEMMA EndKeepsLocks ==
  ASSUME MeterShape, ReadInv, NEW r \in Report, EndTransaction(r), NEW label, Goto(r, label),
         label \notin InTransaction,
         \A k \in Key : wrote[r][k] = 0 => recorded'[k] = recorded[k]
  PROVE  ReadInv'
<1>1. /\ wrote' = [wrote EXCEPT ![r] = NoWrites] /\ credit' = [credit EXCEPT ![r] = NoCredit]
      /\ pc' = [pc EXCEPT ![r] = label] /\ already' = [already EXCEPT ![r] = 0]
      /\ toCredit' = [toCredit EXCEPT ![r] = <<>>]
      /\ \A k \in Key : rowLock'[k] = IF rowLock[k] = r THEN Nobody ELSE rowLock[k]
  BY DEF EndTransaction, Goto
<1>2. WritesAreLocked'
  BY <1>1 DEF ReadInv, WritesAreLocked, MeterShape, NoWrites, InTransaction
<1>3. EndsClean'
  BY <1>1 DEF ReadInv, EndsClean, MeterShape, InTransaction, NoCredit
<1>4. ASSUME NEW q \in Report, pc'[q] = "writing"
      PROVE  IF already'[q] = 0 THEN wrote'[q][(Now(q).key)'] = 0
             ELSE already'[q] = Sees(q, Now(q).key)' /\ rowLock'[(Now(q).key)'] = q
  <2>1. q # r /\ pc[q] = "writing" /\ already'[q] = already[q] /\ wrote'[q] = wrote[q]
    BY <1>1, <1>4 DEF MeterShape, InTransaction
  <2>2. Now(q)' = Now(q) /\ Now(q).key \in Key
    BY <1>1, <2>1, EntryParts DEF Now, MeterShape
  <2>3. CASE already[q] = 0
    BY <2>1, <2>2, <2>3 DEF ReadInv, ReadsAreCurrent
  <2>4. CASE already[q] # 0
    <3>1. already[q] = Sees(q, Now(q).key) /\ rowLock[Now(q).key] = q
      BY <2>1, <2>4 DEF ReadInv, ReadsAreCurrent
    <3>2. wrote[r][Now(q).key] = 0
      BY <2>1, <2>2, <3>1 DEF ReadInv, WritesAreLocked
    <3>3. recorded'[Now(q).key] = recorded[Now(q).key]
      BY <2>2, <3>2
    <3> QED
      BY <1>1, <2>1, <2>2, <2>4, <3>1, <3>3 DEF Sees
  <2> QED
    BY <2>3, <2>4
<1>5. ReadsAreCurrent'
  BY <1>4 DEF ReadsAreCurrent
<1> QED
  BY <1>2, <1>3, <1>5 DEF ReadInv

\* The locks keep what was read current until it is written.
LEMMA ReadsPreserved == MeterShape /\ ReadInv /\ [MeterNext]_meterVars => ReadInv'
<1> SUFFICES ASSUME MeterShape, ReadInv, [MeterNext]_meterVars PROVE ReadInv'
  OBVIOUS
<1> USE MeterAssumption
<1>1. ASSUME NEW r \in Report, SendReport(r) PROVE ReadInv'
  <2>1. /\ pc[r] = "idle" /\ pc' = [pc EXCEPT ![r] = "reading"]
        /\ UNCHANGED <<already, wrote, credit, recorded, rowLock>>
        /\ \A q \in Report : q # r => toCredit'[q] = toCredit[q]
    BY <1>1 DEF SendReport, NextSlot, Request, MeterShape, storeVars, lockVars
  <2>2. WritesAreLocked'
    BY <2>1 DEF ReadInv, WritesAreLocked, MeterShape, InTransaction
  <2>3. EndsClean'
    BY <2>1 DEF ReadInv, EndsClean, MeterShape, InTransaction, NoCredit
  <2>4. ReadsAreCurrent'
    <3> SUFFICES ASSUME NEW q \in Report, pc'[q] = "writing"
                 PROVE  (IF already[q] = 0 THEN wrote[q][Now(q).key] = 0
                         ELSE already[q] = Sees(q, Now(q).key) /\ rowLock[Now(q).key] = q)'
      BY DEF ReadsAreCurrent
    <3>1. q # r /\ pc[q] = "writing"
      BY <2>1 DEF MeterShape
    <3>2. Now(q)' = Now(q)
      BY <2>1, <3>1 DEF Now
    <3> QED
      BY <2>1, <3>1, <3>2 DEF ReadInv, ReadsAreCurrent, Sees
  <2> QED
    BY <2>2, <2>3, <2>4 DEF ReadInv
<1>2. ASSUME NEW r \in Report, AnswerArrives(r) \/ LoseAnswer(r) PROVE ReadInv'
  <2>1. /\ pc[r] = "answered" /\ pc' = [pc EXCEPT ![r] = "idle"]
        /\ UNCHANGED <<toCredit, already, wrote, credit, recorded, rowLock>>
    BY <1>2 DEF AnswerArrives, LoseAnswer, workVars, storeVars, lockVars
  <2>2. WritesAreLocked'
    BY <2>1 DEF ReadInv, WritesAreLocked, MeterShape, InTransaction
  <2>3. EndsClean'
    BY <2>1 DEF ReadInv, EndsClean, MeterShape, InTransaction, NoCredit
  <2>4. ReadsAreCurrent'
    BY <2>1 DEF ReadInv, ReadsAreCurrent, MeterShape, Now, Sees
  <2> QED
    BY <2>2, <2>3, <2>4 DEF ReadInv
<1>3. ASSUME NEW r \in Report, ReadEntry(r) PROVE ReadInv'
  <2> DEFINE k == Now(r).key
  <2>1. /\ k \in Key /\ pc[r] = "reading" /\ already' = [already EXCEPT ![r] = Sees(r, k)]
        /\ pc' = [pc EXCEPT ![r] = "writing"]
        /\ UNCHANGED <<toCredit, wrote, credit, recorded>>
        /\ \/ Sees(r, k) = 0 /\ rowLock' = rowLock
           \/ Sees(r, k) # 0 /\ rowLock[k] \in {Nobody, r} /\ rowLock' = [rowLock EXCEPT ![k] = r]
    BY <1>3, EntryParts DEF ReadEntry, Goto, storeVars, RowFree
  <2>2. /\ \A q \in Report : Now(q)' = Now(q)
        /\ \A q \in Report : \A j : Sees(q, j)' = Sees(q, j)
    BY <2>1 DEF Now, Sees
  <2> HIDE DEF k
  <2>3. WritesAreLocked'
    <3> SUFFICES ASSUME NEW q \in Report, NEW j \in Key, wrote[q][j] # 0
                 PROVE  rowLock'[j] = q /\ pc'[q] \in InTransaction
      BY <2>1 DEF WritesAreLocked
    <3>1. rowLock[j] = q /\ pc[q] \in InTransaction
      BY DEF ReadInv, WritesAreLocked
    <3>2. rowLock'[j] = q
      BY <2>1, <3>1 DEF MeterShape
    <3> QED
      BY <2>1, <3>1, <3>2 DEF MeterShape, InTransaction
  <2>4. EndsClean'
    BY <2>1 DEF ReadInv, EndsClean, MeterShape, InTransaction, NoCredit
  <2>5. ASSUME NEW q \in Report, pc'[q] = "writing"
        PROVE  IF already'[q] = 0 THEN wrote'[q][(Now(q).key)'] = 0
               ELSE already'[q] = Sees(q, Now(q).key)' /\ rowLock'[(Now(q).key)'] = q
    <3>1. CASE q = r
      <4>1. already'[r] = Sees(r, k) /\ k = Now(r).key
        BY <2>1 DEF MeterShape, k
      <4>2. Sees(r, k) = 0 => wrote[r][k] = 0
        BY DEF Sees
      <4>3. Sees(r, k) # 0 => rowLock'[k] = r
        BY <2>1 DEF MeterShape
      <4> QED
        BY <2>1, <2>2, <3>1, <4>1, <4>2, <4>3
    <3>2. CASE q # r
      <4>1. pc[q] = "writing" /\ already'[q] = already[q]
        BY <2>1, <2>5, <3>2 DEF MeterShape
      <4>2. rowLock[Now(q).key] = q => rowLock'[Now(q).key] = q
        BY <2>1, <3>2, EntryParts, <4>1 DEF MeterShape
      <4> QED
        BY <2>1, <2>2, <4>1, <4>2 DEF ReadInv, ReadsAreCurrent
    <3> QED
      BY <3>1, <3>2
  <2> QED
    BY <2>3, <2>4, <2>5 DEF ReadInv, ReadsAreCurrent
<1>4. ASSUME NEW r \in Report, WriteEntry(r) PROVE ReadInv'
  <2> DEFINE k == Now(r).key
             h == HighWaterMark(Now(r).minutes, already[r])
  <2>1. /\ k \in Key /\ pc[r] = "writing" /\ rowLock[k] \in {Nobody, r}
        /\ rowLock' = [rowLock EXCEPT ![k] = r] /\ wrote' = [wrote EXCEPT ![r][k] = h]
        /\ UNCHANGED <<credit, recorded>>
        /\ \A q \in Report : q # r => /\ pc'[q] = pc[q] /\ already'[q] = already[q]
                                      /\ toCredit'[q] = toCredit[q]
        /\ pc'[r] \in {"reading", "adding"}
    BY <1>4, EntryParts DEF WriteEntry, Advance, Goto, storeVars, RowFree, MeterShape
  <2>2. \A q \in Report : q # r => wrote'[q] = wrote[q]
    BY <2>1 DEF MeterShape
  <2>3. \A j \in Key : j # k => wrote'[r][j] = wrote[r][j]
    BY <2>1 DEF MeterShape
  <2> HIDE DEF k, h
  <2>4. WritesAreLocked'
    <3> SUFFICES ASSUME NEW q \in Report, NEW j \in Key, wrote'[q][j] # 0
                 PROVE  rowLock'[j] = q /\ pc'[q] \in InTransaction
      BY DEF WritesAreLocked
    <3>1. pc'[r] \in InTransaction /\ rowLock'[k] = r
      BY <2>1 DEF MeterShape, InTransaction
    <3>2. CASE q = r /\ j = k
      BY <3>1, <3>2
    <3>3. CASE q = r /\ j # k
      <4>1. wrote[q][j] # 0
        BY <2>3, <3>3
      <4>2. rowLock[j] = q
        BY <4>1 DEF ReadInv, WritesAreLocked
      <4> QED
        BY <2>1, <3>1, <3>3, <4>2 DEF MeterShape
    <3>4. CASE q # r
      <4>1. wrote[q][j] # 0
        BY <2>2, <3>4
      <4>2. rowLock[j] = q /\ pc[q] \in InTransaction
        BY <4>1 DEF ReadInv, WritesAreLocked
      <4>3. j # k
        BY <2>1, <3>4, <4>2
      <4> QED
        BY <2>1, <3>4, <4>2, <4>3 DEF MeterShape
    <3> QED
      BY <3>2, <3>3, <3>4
  <2>5. EndsClean'
    BY <2>1 DEF ReadInv, EndsClean, MeterShape, InTransaction, NoCredit
  <2>6. ASSUME NEW q \in Report, pc'[q] = "writing"
        PROVE  IF already'[q] = 0 THEN wrote'[q][(Now(q).key)'] = 0
               ELSE already'[q] = Sees(q, Now(q).key)' /\ rowLock'[(Now(q).key)'] = q
    <3>1. q # r /\ pc[q] = "writing" /\ Now(q)' = Now(q)
      BY <2>1, <2>6 DEF Now
    <3>2. rowLock[Now(q).key] = q => rowLock'[Now(q).key] = q
      BY <2>1, <3>1, EntryParts DEF MeterShape
    <3> QED
      BY <2>1, <2>2, <3>1, <3>2 DEF ReadInv, ReadsAreCurrent, Sees
  <2> QED
    BY <2>4, <2>5, <2>6 DEF ReadInv, ReadsAreCurrent
<1>5. ASSUME NEW r \in Report, AddToPeriod(r) PROVE ReadInv'
  <2>1. /\ pc[r] = "adding" /\ UNCHANGED <<wrote, recorded, rowLock>>
        /\ \A q \in Report : q # r => /\ pc'[q] = pc[q] /\ already'[q] = already[q]
                                      /\ toCredit'[q] = toCredit[q] /\ credit'[q] = credit[q]
        /\ pc'[r] = "reading"
    BY <1>5 DEF AddToPeriod, Advance, Goto, storeVars, MeterShape
  <2>2. \A q \in Report : q # r => Now(q)' = Now(q)
    BY <2>1 DEF Now
  <2>3. WritesAreLocked' /\ EndsClean'
    BY <2>1 DEF ReadInv, WritesAreLocked, EndsClean, InTransaction, NoCredit
  <2>4. ReadsAreCurrent'
    BY <2>1, <2>2 DEF ReadInv, ReadsAreCurrent, Sees
  <2> QED
    BY <2>3, <2>4 DEF ReadInv
<1>6. ASSUME NEW r \in Report, CommitReport(r) PROVE ReadInv'
  <2>1. \A k \in Key : wrote[r][k] = 0 => recorded'[k] = recorded[k]
    BY <1>6 DEF CommitReport
  <2> QED
    BY <1>6, <2>1, EndKeepsLocks DEF CommitReport, InTransaction
<1>7. ASSUME NEW r \in Report, RollBack(r) PROVE ReadInv'
  BY <1>7, EndKeepsLocks DEF RollBack, storeVars, InTransaction
<1>8. ASSUME TransactionsRest PROVE ReadInv'
  BY <1>8 DEF TransactionsRest, workVars, storeVars, lockVars, ReadInv, WritesAreLocked, EndsClean,
     ReadsAreCurrent, Now, Sees, NoCredit
<1> QED
  BY <1>1, <1>2, <1>3, <1>4, <1>5, <1>6, <1>7, <1>8, MeterStep

(***************************************************************************)
(* The account.                                                             *)
(***************************************************************************)
\* A row of minutes.
LEMMA RowOfMinutes ==
  ASSUME NEW c, NEW a \in Nat, NEW b \in Nat, a <= b
  PROVE  /\ IsFiniteSet({c} \X ((a + 1)..b))
         /\ Cardinality({c} \X ((a + 1)..b)) = b - a
<1>1. IsFiniteSet((a + 1)..b) /\ Cardinality((a + 1)..b) = b - a
  <2>1. a + 1 \in Int /\ b \in Int
    OBVIOUS
  <2>2. /\ IsFiniteSet((a + 1)..b)
        /\ Cardinality((a + 1)..b) = IF a + 1 > b THEN 0 ELSE b - (a + 1) + 1
    BY ONLY <2>1, FS_Interval
  <2> QED
    BY <2>2
<1>2. IsFiniteSet({c}) /\ Cardinality({c}) = 1
  BY FS_Singleton
<1>3. /\ IsFiniteSet({c} \X ((a + 1)..b))
      /\ Cardinality({c} \X ((a + 1)..b)) = Cardinality({c}) * Cardinality((a + 1)..b)
  BY <1>1, <1>2, FS_Product
<1> QED
  BY <1>1, <1>2, <1>3

\* What is on record.
LEMMA OnRecordIs ==
  ASSUME NEW on \in [Key -> Nat], NEW p \in Period
  PROVE  \A x : x \in UNION {{c} \X (1..on[<<c, p>>]) : c \in Connection} <=>
           x \in Connection \X Nat /\ 1 <= x[2] /\ x[2] <= on[<<x[1], p>>]
<1> DEFINE minutes == UNION {{c} \X (1..on[<<c, p>>]) : c \in Connection}
<1>1. \A c \in Connection : on[<<c, p>>] \in Nat
  BY DEF Key
<1>2. ASSUME NEW x, x \in minutes
      PROVE  x \in Connection \X Nat /\ 1 <= x[2] /\ x[2] <= on[<<x[1], p>>]
  <2>1. PICK c \in Connection : x \in {c} \X (1..on[<<c, p>>])
    BY <1>2
  <2>2. x[1] = c /\ x[2] \in 1..on[<<c, p>>] /\ x = <<x[1], x[2]>>
    BY <2>1
  <2>3. x[2] \in Nat
    BY <1>1, <2>2
  <2> QED
    BY <1>1, <2>2, <2>3
<1>3. ASSUME NEW x \in Connection \X Nat, 1 <= x[2], x[2] <= on[<<x[1], p>>]
      PROVE  x \in minutes
  <2>1. x[1] \in Connection /\ x = <<x[1], x[2]>> /\ x[2] \in 1..on[<<x[1], p>>]
    BY <1>1, <1>3
  <2>2. x \in {x[1]} \X (1..on[<<x[1], p>>])
    BY <2>1
  <2> QED
    BY <2>1, <2>2
<1> HIDE DEF minutes
<1>4. \A x : x \in minutes <=>
        x \in Connection \X Nat /\ 1 <= x[2] /\ x[2] <= on[<<x[1], p>>]
  BY <1>2, <1>3
<1> QED
  BY <1>4 DEF minutes

\* The figure that is stored: unless first reports have overlapped, it is computed from
\* what the transaction sees.
LEMMA WriteFigures ==
  ASSUME MeterAssumption, MeterShape, ReadInv, NeverLower, NEW r \in Report, WriteEntry(r),
         Now(r).key \notin overlapped',
         NEW k, k = Now(r).key, NEW base, base = already[r], NEW h, h = wrote'[r][k]
  PROVE  /\ h \in Nat /\ base \in Nat /\ base <= h
         /\ CreditFor(Now(r).minutes, already[r]) = h - base
         /\ recorded[k] \in Nat /\ wrote[r][k] \in Nat /\ recorded[k] <= base
         /\ wrote[r][k] # 0 => wrote[r][k] = base
         /\ wrote[r][k] = 0 => recorded[k] = base
<1>1. toCredit[r] # <<>> /\ pc[r] = "writing"
  BY DEF WriteEntry, MeterShape
<1>2. k \in Key /\ Now(r).minutes \in Nat /\ already[r] \in Nat
  BY <1>1, EntryParts DEF MeterShape
<1>3. wrote' = [wrote EXCEPT ![r][k] = HighWaterMark(Now(r).minutes, already[r])]
  BY DEF WriteEntry
<1>4. h = HighWaterMark(Now(r).minutes, already[r])
  BY <1>2, <1>3 DEF MeterShape
<1>5. LET reported == Now(r).minutes
          credited == already[r]
      IN /\ CreditFor(reported, credited) = IF reported > credited THEN reported - credited ELSE 0
         /\ HighWaterMark(reported, credited) = IF reported > credited THEN reported ELSE credited
  BY ONLY <1>2, CreditFigures
<1>6. /\ h \in Nat /\ base \in Nat /\ base <= h
      /\ CreditFor(Now(r).minutes, already[r]) = h - base
  BY <1>2, <1>4, <1>5
<1>7. recorded[k] \in Nat /\ wrote[r][k] \in Nat
  BY <1>2 DEF MeterShape
<1>8. k \notin overlapped /\ (base = 0 => recorded[k] = 0)
  BY <1>7 DEF WriteEntry
<1>9. base = Sees(r, k)
  BY <1>1, <1>8 DEF ReadInv, ReadsAreCurrent, Sees
<1> QED
  BY <1>2, <1>6, <1>7, <1>8, <1>9 DEF NeverLower, Sees

\* A figure that is stored adds to what the transaction has added what it credits.
LEMMA WriteAdds ==
  ASSUME MeterAssumption, MeterShape, ReadInv, CreditInv, NEW r \in Report, WriteEntry(r),
         NEW p \in Period, Clean(p)', Now(r).key[2] = p
  PROVE  /\ IsFiniteSet(Added(r, p)')
         /\ Cardinality(Added(r, p)')
            = Cardinality(Added(r, p)) + CreditFor(Now(r).minutes, already[r])
<1> DEFINE k == Now(r).key
           c == k[1]
           h == wrote'[r][k]
           base == already[r]
           added == {c} \X ((base + 1)..h)
<1>1. toCredit[r] # <<>> /\ pc[r] = "writing"
  BY DEF WriteEntry, MeterShape
<1>2. k \in Key /\ c \in Connection /\ k = <<c, p>>
  BY <1>1, EntryParts
<1>3. recorded' = recorded
  BY DEF WriteEntry, storeVars
<1>4. k \notin overlapped'
  BY <1>2 DEF Clean
<1>7. /\ h \in Nat /\ base \in Nat /\ base <= h
      /\ CreditFor(Now(r).minutes, already[r]) = h - base
      /\ recorded[k] \in Nat /\ wrote[r][k] \in Nat /\ recorded[k] <= base
      /\ wrote[r][k] # 0 => wrote[r][k] = base
      /\ wrote[r][k] = 0 => recorded[k] = base
  BY <1>4, WriteFigures DEF CreditInv
<1>8. Clean(p)
  BY DEF WriteEntry, Clean
<1>9. \A d \in Connection : d # c => wrote'[r][<<d, p>>] = wrote[r][<<d, p>>]
  <2>1. wrote' = [wrote EXCEPT ![r][k] = HighWaterMark(Now(r).minutes, already[r])]
    BY DEF WriteEntry
  <2>2. \A j \in Key : j # k => wrote'[r][j] = wrote[r][j]
    BY <2>1 DEF MeterShape
  <2>3. \A d \in Connection : d # c => <<d, p>> \in Key /\ <<d, p>> # k
    BY <1>2 DEF Key
  <2> HIDE DEF k, c
  <2> QED
    BY <2>2, <2>3
<1> HIDE DEF k, c, h, base
<1>91. wrote'[r][k] = h
  BY DEF h
<1>10. Added(r, p)' = Added(r, p) \cup added
  <2>1. ASSUME NEW x \in Connection \X Nat
        PROVE  x \in Added(r, p)' <=> x \in Added(r, p) \/ x \in added
    <3>1. x[1] \in Connection /\ x[2] \in Nat /\ x = <<x[1], x[2]>>
      OBVIOUS
    <3>2. x \in added <=> x[1] = c /\ base < x[2] /\ x[2] <= h
      BY <1>2, <1>7, <3>1
    <3>3. x \in Added(r, p) <=> /\ wrote[r][<<x[1], p>>] # 0
                               /\ recorded[<<x[1], p>>] < x[2] /\ x[2] <= wrote[r][<<x[1], p>>]
      BY DEF Added
    <3>4. x \in Added(r, p)' <=> /\ wrote'[r][<<x[1], p>>] # 0
                                /\ recorded[<<x[1], p>>] < x[2] /\ x[2] <= wrote'[r][<<x[1], p>>]
      BY <1>3 DEF Added
    <3>5. CASE x[1] # c
      BY <1>9, <3>1, <3>2, <3>3, <3>4, <3>5
    <3>6. CASE x[1] = c
      BY <1>2, <1>7, <1>91, <3>1, <3>2, <3>3, <3>4, <3>6
    <3> QED
      BY <3>5, <3>6
  <2>2. Added(r, p) \subseteq Connection \X Nat /\ Added(r, p)' \subseteq Connection \X Nat
    BY DEF Added
  <2>3. added \subseteq Connection \X Nat
    BY <1>2, <1>7
  <2> HIDE DEF added
  <2> QED
    BY <2>1, <2>2, <2>3
<1>11. Added(r, p) \cap added = {}
  <2> SUFFICES ASSUME NEW x \in Added(r, p), x \in added PROVE FALSE
    OBVIOUS
  <2>1. x[1] = c /\ x[2] \in (base + 1)..h /\ x[2] \in Nat
    BY <1>2, <1>7 DEF Added
  <2>2. wrote[r][k] # 0 /\ x[2] <= wrote[r][k]
    BY <1>2, <2>1 DEF Added
  <2> QED
    BY <1>2, <1>7, <2>1, <2>2
<1>12. IsFiniteSet(added) /\ Cardinality(added) = h - base
  <2> base \in Nat /\ h \in Nat /\ base <= h
    BY <1>7
  <2> QED
    BY RowOfMinutes
<1>13. IsFiniteSet(Added(r, p))
  BY <1>8 DEF CreditInv, CreditIsAdded
<1> HIDE DEF added
<1>14. /\ IsFiniteSet(Added(r, p) \cup added)
       /\ Cardinality(Added(r, p) \cup added) = Cardinality(Added(r, p)) + Cardinality(added)
  <2>1. IsFiniteSet(Added(r, p) \cap added) /\ Cardinality(Added(r, p) \cap added) = 0
    BY <1>11, FS_EmptySet
  <2>2. Cardinality(Added(r, p)) \in Nat /\ Cardinality(added) \in Nat
    BY <1>12, <1>13, FS_CardinalityType
  <2>3. /\ IsFiniteSet(Added(r, p) \cup added)
        /\ Cardinality(Added(r, p) \cup added)
           = Cardinality(Added(r, p)) + Cardinality(added) - Cardinality(Added(r, p) \cap added)
    BY <1>12, <1>13, FS_Union
  <2> QED
    BY <2>1, <2>2, <2>3
<1> QED
  BY <1>7, <1>10, <1>12, <1>14

\* What one transaction does to its own entries leaves the account of the others alone.
LEMMA OthersKeepAccounts ==
  ASSUME MeterShape, CreditInv, NEW r \in Report, NEW q \in Report, NEW p \in Period, Clean(p),
         pc'[q] = pc[q], toCredit'[q] = toCredit[q], already'[q] = already[q],
         wrote'[q] = wrote[q], credit'[q] = credit[q],
         \A k \in Key : wrote[q][k] # 0 => recorded'[k] = recorded[k]
  PROVE  /\ IsFiniteSet(Added(q, p)')
         /\ credit'[q][p] + Pending(q, p)' = Cardinality(Added(q, p)')
<1>1. Pending(q, p)' = Pending(q, p)
  BY DEF Pending, Now
<1>2. Added(q, p)' = Added(q, p)
  <2>1. \A x \in Connection \X Nat : <<x[1], p>> \in Key
    BY DEF Key
  <2>2. \A x \in Connection \X Nat : x \in Added(q, p)' <=> x \in Added(q, p)
    BY <2>1 DEF Added
  <2> QED
    BY <2>2 DEF Added
<1> QED
  BY <1>1, <1>2 DEF CreditInv, CreditIsAdded

\* Nothing of a transaction is left: it has added nothing.
LEMMA NothingAdded ==
  ASSUME NEW r \in Report, NEW p \in Period, wrote'[r] = NoWrites, credit'[r] = NoCredit,
         pc'[r] # "adding"
  PROVE  /\ IsFiniteSet(Added(r, p)')
         /\ credit'[r][p] + Pending(r, p)' = Cardinality(Added(r, p)')
<1>1. Added(r, p)' = {}
  BY DEF Added, NoWrites, Key
<1>2. Cardinality({}) = 0 /\ IsFiniteSet({})
  BY FS_EmptySet
<1> QED
  BY <1>1, <1>2 DEF Pending, NoCredit

\* What a transaction has written is on record when it commits, and billed.
LEMMA CommitBills ==
  ASSUME MeterShape, MeterShape', ReadInv, CreditInv, NEW r \in Report, CommitReport(r),
         NEW p \in Period, Clean(p)
  PROVE  IsFiniteSet(OnRecord(p)') /\ rollup'[p] = Recorded(p)'
<1>1. /\ rollup'[p] = rollup[p] + credit[r][p]
      /\ \A k \in Key : recorded'[k] = IF wrote[r][k] = 0 THEN recorded[k] ELSE wrote[r][k]
      /\ pc[r] = "reading"
  BY DEF CommitReport
<1>2. /\ IsFiniteSet(OnRecord(p)) /\ rollup[p] = Cardinality(OnRecord(p))
      /\ IsFiniteSet(Added(r, p)) /\ credit[r][p] = Cardinality(Added(r, p))
  <2>1. Pending(r, p) = 0 /\ credit[r][p] \in Nat
    BY <1>1 DEF Pending, MeterShape
  <2> QED
    BY <2>1 DEF CreditInv, CreditIsAdded, BillInv, Recorded
<1>3. \A x \in Connection \X Nat :
        LET k == <<x[1], p>> IN
        /\ k \in Key /\ recorded[k] \in Nat /\ wrote[r][k] \in Nat
        /\ wrote[r][k] # 0 => recorded[k] <= wrote[r][k]
  BY DEF Key, MeterShape, CreditInv, NeverLower, Clean
<1>4. OnRecord(p)' = OnRecord(p) \cup Added(r, p)
  <2> recorded \in [Key -> Nat] /\ recorded' \in [Key -> Nat]
    BY DEF MeterShape
  <2>1. \A x : x \in OnRecord(p)' <=>
          x \in Connection \X Nat /\ 1 <= x[2] /\ x[2] <= recorded'[<<x[1], p>>]
    BY OnRecordIs DEF OnRecord
  <2>2. \A x : x \in OnRecord(p) <=>
          x \in Connection \X Nat /\ 1 <= x[2] /\ x[2] <= recorded[<<x[1], p>>]
    BY OnRecordIs DEF OnRecord
  <2>3. \A x : x \in Added(r, p) <=>
          /\ x \in Connection \X Nat /\ wrote[r][<<x[1], p>>] # 0
          /\ recorded[<<x[1], p>>] < x[2] /\ x[2] <= wrote[r][<<x[1], p>>]
    BY DEF Added
  <2>4. ASSUME NEW x \in Connection \X Nat
        PROVE  x \in OnRecord(p)' <=> x \in OnRecord(p) \/ x \in Added(r, p)
    <3>1. x[2] \in Nat /\ recorded'[<<x[1], p>>]
                          = IF wrote[r][<<x[1], p>>] = 0 THEN recorded[<<x[1], p>>]
                            ELSE wrote[r][<<x[1], p>>]
      BY <1>1, <1>3
    <3> QED
      BY <1>3, <2>1, <2>2, <2>3, <3>1
  <2> QED
    BY <2>1, <2>2, <2>3, <2>4
<1>5. OnRecord(p) \cap Added(r, p) = {}
  <2> SUFFICES ASSUME NEW x \in OnRecord(p), x \in Added(r, p) PROVE FALSE
    OBVIOUS
  <2> recorded \in [Key -> Nat]
    BY DEF MeterShape
  <2>1. x \in Connection \X Nat /\ x[2] <= recorded[<<x[1], p>>]
    BY OnRecordIs DEF OnRecord
  <2>2. recorded[<<x[1], p>>] < x[2]
    BY DEF Added
  <2> QED
    BY <1>3, <2>1, <2>2
<1>6. /\ IsFiniteSet(OnRecord(p) \cup Added(r, p))
      /\ Cardinality(OnRecord(p) \cup Added(r, p))
         = Cardinality(OnRecord(p)) + Cardinality(Added(r, p))
           - Cardinality(OnRecord(p) \cap Added(r, p))
  BY <1>2, FS_Union
<1>7. /\ Cardinality(OnRecord(p) \cap Added(r, p)) = 0
      /\ Cardinality(OnRecord(p)) \in Nat /\ Cardinality(Added(r, p)) \in Nat
  BY <1>2, <1>5, FS_EmptySet, FS_CardinalityType
<1> QED
  BY <1>1, <1>2, <1>4, <1>6, <1>7 DEF Recorded

\* Each statement keeps the account: a read changes nothing of it, a write adds what will
\* be credited, the period is credited what was pending, and a commit bills what it added.
LEMMA CreditPreserved ==
  MeterShape /\ MeterShape' /\ ReadInv /\ CreditInv /\ [MeterNext]_meterVars => CreditInv'
<1> SUFFICES ASSUME MeterShape, MeterShape', ReadInv, CreditInv, [MeterNext]_meterVars
             PROVE  CreditInv'
  OBVIOUS
<1>1. ASSUME NEW r \in Report, UNCHANGED <<wrote, credit, recorded, rollup, overlapped>>,
             pc[r] # "adding", pc'[r] # "adding",
             \A q \in Report : q # r => /\ pc'[q] = pc[q] /\ toCredit'[q] = toCredit[q]
                                       /\ already'[q] = already[q]
      PROVE  CreditInv'
  <2>1. \A q \in Report, p \in Period : Added(q, p)' = Added(q, p)
    BY <1>1 DEF Added
  <2>2. \A q \in Report, p \in Period : Pending(q, p)' = Pending(q, p)
    BY <1>1 DEF Pending, Now
  <2>3. \A p \in Period : /\ Clean(p)' = Clean(p) /\ OnRecord(p)' = OnRecord(p)
                           /\ Recorded(p)' = Recorded(p)
    BY <1>1 DEF Clean, OnRecord, Recorded
  <2>4. CreditIsAdded'
    BY <1>1, <2>1, <2>2, <2>3 DEF CreditInv, CreditIsAdded
  <2>5. BillInv' /\ NeverLower'
    BY <1>1, <2>3 DEF CreditInv, BillInv, NeverLower
  <2> QED
    BY <2>4, <2>5 DEF CreditInv
<1>2. ASSUME NEW r \in Report, SendReport(r) PROVE CreditInv'
  <2>1. /\ pc[r] # "adding" /\ pc'[r] # "adding"
        /\ UNCHANGED <<wrote, credit, recorded, rollup, overlapped>>
        /\ \A q \in Report : q # r => /\ pc'[q] = pc[q] /\ toCredit'[q] = toCredit[q]
                                      /\ already'[q] = already[q]
    BY <1>2 DEF SendReport, NextSlot, Request, MeterShape, storeVars
  <2> QED
    BY <1>1, <2>1
<1>3. ASSUME NEW r \in Report, AnswerArrives(r) \/ LoseAnswer(r) PROVE CreditInv'
  <2>1. /\ pc[r] # "adding" /\ pc'[r] # "adding"
        /\ UNCHANGED <<wrote, credit, recorded, rollup, overlapped>>
        /\ \A q \in Report : q # r => /\ pc'[q] = pc[q] /\ toCredit'[q] = toCredit[q]
                                      /\ already'[q] = already[q]
    BY <1>3 DEF AnswerArrives, LoseAnswer, MeterShape, storeVars, workVars
  <2> QED
    BY <1>1, <2>1
<1>4. ASSUME NEW r \in Report, ReadEntry(r) PROVE CreditInv'
  <2>1. /\ pc[r] # "adding" /\ pc'[r] # "adding"
        /\ UNCHANGED <<wrote, credit, recorded, rollup, overlapped>>
        /\ \A q \in Report : q # r => /\ pc'[q] = pc[q] /\ toCredit'[q] = toCredit[q]
                                      /\ already'[q] = already[q]
    BY <1>4 DEF ReadEntry, Goto, MeterShape, storeVars
  <2> QED
    BY <1>1, <2>1
<1>5. ASSUME NEW r \in Report, WriteEntry(r) PROVE CreditInv'
  <2> DEFINE k == Now(r).key
  <2>1. /\ toCredit[r] # <<>> /\ pc[r] = "writing" /\ k \in Key /\ k[1] \in Connection
        /\ k = <<k[1], k[2]>> /\ k[2] \in Period
    <3>1. toCredit[r] # <<>> /\ pc[r] = "writing"
      BY <1>5 DEF WriteEntry, MeterShape
    <3> QED
      BY <3>1, EntryParts
  <2>2. /\ UNCHANGED <<credit, recorded, rollup>> /\ overlapped \subseteq overlapped'
        /\ \A q \in Report : q # r => /\ pc'[q] = pc[q] /\ toCredit'[q] = toCredit[q]
                                      /\ already'[q] = already[q] /\ wrote'[q] = wrote[q]
        /\ \A j \in Key : j # k => wrote'[r][j] = wrote[r][j]
    <3>1. UNCHANGED <<credit, recorded, rollup>> /\ overlapped \subseteq overlapped'
      BY <1>5 DEF WriteEntry, storeVars
    <3>2. wrote' = [wrote EXCEPT ![r][k] = HighWaterMark(Now(r).minutes, already[r])]
      BY <1>5 DEF WriteEntry
    <3>3. /\ \A q \in Report : q # r => wrote'[q] = wrote[q]
          /\ \A j \in Key : j # k => wrote'[r][j] = wrote[r][j]
      BY <2>1, <3>2 DEF MeterShape
    <3>4. \A q \in Report : q # r => /\ pc'[q] = pc[q] /\ toCredit'[q] = toCredit[q]
                                     /\ already'[q] = already[q]
      <4>1. \/ Advance(r)
            \/ Goto(r, "adding") /\ UNCHANGED <<toCredit, already>>
        BY <1>5 DEF WriteEntry
      <4> QED
        BY <4>1 DEF Advance, Goto, MeterShape
    <3> QED
      BY <3>1, <3>3, <3>4
  <2>3. \A p \in Period : Clean(p)' => Clean(p)
    BY <2>2 DEF Clean
  <2>4. \/ pc'[r] = "reading" /\ CreditFor(Now(r).minutes, already[r]) = 0
        \/ pc'[r] = "adding" /\ toCredit' = toCredit /\ already' = already
    BY <1>5 DEF WriteEntry, Advance, Goto, MeterShape
  <2>5. k \notin overlapped' => recorded[k] <= wrote'[r][k]
    BY <1>5, WriteFigures, MeterAssumption DEF CreditInv
  <2>6. NeverLower'
    <3> SUFFICES ASSUME NEW q \in Report, NEW j \in Key, wrote'[q][j] # 0, j \notin overlapped'
                 PROVE  recorded[j] <= wrote'[q][j]
      BY <2>2 DEF NeverLower
    <3>1. CASE q = r /\ j = k
      BY <2>5, <3>1
    <3>2. CASE ~(q = r /\ j = k)
      <4>1. wrote'[q][j] = wrote[q][j] /\ j \notin overlapped
        BY <2>2, <3>2
      <4> QED
        BY <4>1 DEF CreditInv, NeverLower
    <3> QED
      BY <3>1, <3>2
  <2>7. ASSUME NEW q \in Report, NEW p \in Period, Clean(p)'
        PROVE  /\ IsFiniteSet(Added(q, p)')
               /\ credit'[q][p] + Pending(q, p)' = Cardinality(Added(q, p)')
    <3>1. CASE q # r
      BY <2>2, <2>3, <2>7, <3>1, OthersKeepAccounts
    <3>2. CASE q = r /\ p # k[2]
      <4>1. Added(r, p)' = Added(r, p)
        <5>1. \A x \in Connection \X Nat : <<x[1], p>> \in Key /\ <<x[1], p>> # k
          BY <2>1, <3>2 DEF Key
        <5> QED
          BY <2>2, <5>1 DEF Added
      <4>2. Pending(r, p) = 0 /\ Pending(r, p)' = 0
        BY <2>1, <2>4, <3>2 DEF Pending, Now
      <4> QED
        BY <2>2, <2>3, <2>7, <3>2, <4>1, <4>2 DEF CreditInv, CreditIsAdded
    <3>3. CASE q = r /\ p = k[2]
      <4>1. /\ IsFiniteSet(Added(r, p)')
            /\ Cardinality(Added(r, p)')
               = Cardinality(Added(r, p)) + CreditFor(Now(r).minutes, already[r])
        BY <1>5, <2>7, <3>3, WriteAdds, MeterAssumption
      <4>2. Pending(r, p) = 0 /\ Pending(r, p)' = CreditFor(Now(r).minutes, already[r])
        BY <2>1, <2>4, <3>3 DEF Pending, Now
      <4>3. credit[r][p] + 0 = Cardinality(Added(r, p)) /\ credit[r][p] \in Nat
        BY <2>3, <2>7, <4>2 DEF CreditInv, CreditIsAdded, MeterShape
      <4>4. credit'[r][p] = credit[r][p]
        BY <2>2
      <4> QED
        BY <3>3, <4>1, <4>2, <4>3, <4>4
    <3> QED
      BY <3>1, <3>2, <3>3
  <2>8. \A p \in Period : OnRecord(p)' = OnRecord(p) /\ Recorded(p)' = Recorded(p)
    BY <2>2 DEF OnRecord, Recorded
  <2>9. BillInv'
    BY <2>2, <2>3, <2>8 DEF CreditInv, BillInv
  <2> QED
    BY <2>6, <2>7, <2>9 DEF CreditInv, CreditIsAdded
<1>6. ASSUME NEW r \in Report, AddToPeriod(r) PROVE CreditInv'
  <2> DEFINE k == Now(r).key
             n == CreditFor(Now(r).minutes, already[r])
  <2>1. /\ toCredit[r] # <<>> /\ pc[r] = "adding" /\ k[2] \in Period
        /\ Now(r).minutes \in Nat /\ already[r] \in Nat
    <3>1. toCredit[r] # <<>> /\ pc[r] = "adding"
      BY <1>6 DEF AddToPeriod, MeterShape
    <3> QED
      BY <3>1, EntryParts DEF MeterShape
  <2>2. /\ UNCHANGED <<wrote, recorded, rollup, overlapped>> /\ pc'[r] = "reading"
        /\ \A q \in Report : q # r => /\ pc'[q] = pc[q] /\ toCredit'[q] = toCredit[q]
                                      /\ already'[q] = already[q] /\ credit'[q] = credit[q]
        /\ \A p \in Period : credit'[r][p] = IF p = k[2] THEN credit[r][p] + n ELSE credit[r][p]
    BY <1>6 DEF AddToPeriod, Advance, Goto, MeterShape, storeVars
  <2>3. \A p \in Period : /\ Clean(p)' = Clean(p) /\ OnRecord(p)' = OnRecord(p)
                           /\ Recorded(p)' = Recorded(p)
    BY <2>2 DEF Clean, OnRecord, Recorded
  <2>4. ASSUME NEW q \in Report, NEW p \in Period, Clean(p)
        PROVE  /\ IsFiniteSet(Added(q, p)')
               /\ credit'[q][p] + Pending(q, p)' = Cardinality(Added(q, p)')
    <3>1. CASE q # r
      BY <2>2, <2>4, <3>1, OthersKeepAccounts
    <3>2. CASE q = r
      <4>1. Added(r, p)' = Added(r, p)
        BY <2>2 DEF Added
      <4>2. Pending(r, p)' = 0 /\ Pending(r, p) = IF p = k[2] THEN n ELSE 0
        BY <2>1, <2>2 DEF Pending
      <4>3. IsFiniteSet(Added(r, p)) /\ credit[r][p] + Pending(r, p) = Cardinality(Added(r, p))
        BY <2>4 DEF CreditInv, CreditIsAdded
      <4>4. credit[r][p] \in Nat /\ credit'[r][p] \in Nat
        BY DEF MeterShape
      <4> HIDE DEF n
      <4> QED
        BY <2>2, <3>2, <4>1, <4>2, <4>3, <4>4
    <3> QED
      BY <3>1, <3>2
  <2>5. NeverLower' /\ BillInv'
    BY <2>2, <2>3 DEF CreditInv, NeverLower, BillInv
  <2> QED
    BY <2>3, <2>4, <2>5 DEF CreditInv, CreditIsAdded
<1>7. ASSUME NEW r \in Report, NEW label, EndTransaction(r), Goto(r, label), label # "adding",
             UNCHANGED overlapped,
             \A q \in Report, j \in Key : q # r /\ wrote[q][j] # 0 => recorded'[j] = recorded[j]
      PROVE  NeverLower' /\ CreditIsAdded'
  <2>1. /\ wrote'[r] = NoWrites /\ credit'[r] = NoCredit /\ pc'[r] = label
        /\ \A q \in Report : q # r => /\ pc'[q] = pc[q] /\ toCredit'[q] = toCredit[q]
                                      /\ already'[q] = already[q] /\ credit'[q] = credit[q]
                                      /\ wrote'[q] = wrote[q]
    BY <1>7 DEF EndTransaction, Goto, MeterShape
  <2>2. NeverLower'
    BY <1>7, <2>1 DEF CreditInv, NeverLower, NoWrites
  <2>3. ASSUME NEW q \in Report, NEW p \in Period, Clean(p)
        PROVE  /\ IsFiniteSet(Added(q, p)')
               /\ credit'[q][p] + Pending(q, p)' = Cardinality(Added(q, p)')
    <3>1. CASE q # r
      BY <1>7, <2>1, <2>3, <3>1, OthersKeepAccounts
    <3>2. CASE q = r
      BY <1>7, <2>1, <3>2, NothingAdded
    <3> QED
      BY <3>1, <3>2
  <2>4. \A p \in Period : Clean(p)' = Clean(p)
    BY <1>7 DEF Clean
  <2> QED
    BY <2>2, <2>3, <2>4 DEF CreditIsAdded
<1>8. ASSUME NEW r \in Report, CommitReport(r) PROVE CreditInv'
  <2>1. \A q \in Report, j \in Key : q # r /\ wrote[q][j] # 0 => recorded'[j] = recorded[j]
    <3> SUFFICES ASSUME NEW q \in Report, NEW j \in Key, q # r, wrote[q][j] # 0
                 PROVE  recorded'[j] = recorded[j]
      OBVIOUS
    <3>1. wrote[r][j] = 0
      BY DEF ReadInv, WritesAreLocked
    <3> QED
      BY <1>8, <3>1 DEF CommitReport
  <2>2. NeverLower' /\ CreditIsAdded'
    BY <1>7, <1>8, <2>1 DEF CommitReport
  <2>3. \A p \in Period : Clean(p)' = Clean(p)
    BY <1>8 DEF Clean, CommitReport
  <2>4. BillInv'
    BY <1>8, <2>3, CommitBills DEF BillInv
  <2> QED
    BY <2>2, <2>4 DEF CreditInv
<1>9. ASSUME NEW r \in Report, RollBack(r) PROVE CreditInv'
  <2>1. NeverLower' /\ CreditIsAdded'
    BY <1>7, <1>9 DEF RollBack, storeVars
  <2>2. BillInv'
    BY <1>9 DEF CreditInv, BillInv, Clean, OnRecord, Recorded, RollBack, storeVars
  <2> QED
    BY <2>1, <2>2 DEF CreditInv
<1>10. ASSUME TransactionsRest PROVE CreditInv'
  <2>1. /\ UNCHANGED <<pc, toCredit, already, wrote, credit, recorded, rollup, overlapped>>
    BY <1>10 DEF TransactionsRest, workVars, storeVars
  <2>2. \A q \in Report, p \in Period : Added(q, p)' = Added(q, p) /\ Pending(q, p)' = Pending(q, p)
    BY <2>1 DEF Added, Pending, Now
  <2>3. \A p \in Period : /\ Clean(p)' = Clean(p) /\ OnRecord(p)' = OnRecord(p)
                           /\ Recorded(p)' = Recorded(p)
    BY <2>1 DEF Clean, OnRecord, Recorded
  <2>4. CreditIsAdded'
    BY <2>1, <2>2, <2>3 DEF CreditInv, CreditIsAdded
  <2>5. BillInv' /\ NeverLower'
    BY <2>1, <2>3 DEF CreditInv, BillInv, NeverLower
  <2> QED
    BY <2>4, <2>5 DEF CreditInv
<1> QED
  BY <1>2, <1>3, <1>4, <1>5, <1>6, <1>8, <1>9, <1>10, MeterStep

\* The bill is what is on record: of any period in which no two first reports of a
\* connection have overlapped, whatever the reports, however many at once, in whichever
\* order their transactions run, and whichever are lost.  And whatever threshold the bill
\* has reached was noticed by the report that reached it.
THEOREM BillsRight == MeterSpec => []BillsAreRight
<1>1. MeterInit => MeterShape /\ ReadInv /\ CreditInv
  <2> SUFFICES ASSUME MeterInit PROVE MeterShape /\ ReadInv /\ CreditInv
    OBVIOUS
  <2>1. MeterShape
    BY DEF MeterInit, MeterShape, NoWrites, NoCredit, InTransaction
  <2>2. ReadInv
    BY DEF MeterInit, ReadInv, WritesAreLocked, EndsClean, ReadsAreCurrent, NoWrites
  <2>3. NeverLower
    BY DEF MeterInit, NeverLower, NoWrites
  <2>4. \A r \in Report, p \in Period : Added(r, p) = {} /\ Pending(r, p) = 0 /\ credit[r][p] = 0
    BY DEF MeterInit, Added, Pending, NoWrites, NoCredit, Key
  <2>5. \A p \in Period : OnRecord(p) = {} /\ rollup[p] = 0
    <3> SUFFICES ASSUME NEW p \in Period PROVE OnRecord(p) = {} /\ rollup[p] = 0
      OBVIOUS
    <3>1. \A c \in Connection : recorded[<<c, p>>] = 0
      BY DEF MeterInit, Key
    <3> recorded \in [Key -> Nat]
      BY <2>1 DEF MeterShape
    <3>2. \A x : x \in OnRecord(p) =>
            x \in Connection \X Nat /\ 1 <= x[2] /\ x[2] <= recorded[<<x[1], p>>]
      BY OnRecordIs DEF OnRecord
    <3>3. \A x : x \in OnRecord(p) => x[2] \in Nat /\ 1 <= x[2] /\ x[2] <= 0
      <4> SUFFICES ASSUME NEW x, x \in OnRecord(p)
                   PROVE  x[2] \in Nat /\ 1 <= x[2] /\ x[2] <= 0
        OBVIOUS
      <4>1. x \in Connection \X Nat /\ 1 <= x[2] /\ x[2] <= recorded[<<x[1], p>>]
        BY <3>2
      <4>2. x[1] \in Connection /\ x[2] \in Nat
        BY <4>1
      <4> QED
        BY <3>1, <4>1, <4>2
    <3>4. OnRecord(p) = {}
      BY <3>3
    <3> QED
      BY <3>4 DEF MeterInit
  <2>6. IsFiniteSet({}) /\ Cardinality({}) = 0
    BY FS_EmptySet
  <2> QED
    <3>1. CreditIsAdded
      BY <2>4, <2>6 DEF CreditIsAdded
    <3>2. BillInv
      BY <2>5, <2>6 DEF BillInv, Recorded
    <3> QED
      BY <2>1, <2>2, <2>3, <3>1, <3>2 DEF CreditInv
<1>2. MeterInit => ThresholdsNoticed
  BY MeterAssumption DEF MeterInit, ThresholdsNoticed
<1>3. MeterShape /\ ThresholdsNoticed /\ [MeterNext]_meterVars => ThresholdsNoticed'
  <2> SUFFICES ASSUME MeterShape, ThresholdsNoticed, [MeterNext]_meterVars PROVE ThresholdsNoticed'
    OBVIOUS
  <2>1. CASE UNCHANGED <<rollup, noticed>>
    BY <2>1 DEF ThresholdsNoticed
  <2>2. ASSUME NEW r \in Report, CommitReport(r) PROVE ThresholdsNoticed'
    <3> SUFFICES ASSUME NEW p \in Period, NEW t \in Threshold, rollup'[p] >= t
                 PROVE  <<p, t>> \in noticed'
      BY DEF ThresholdsNoticed
    <3>1. rollup[p] \in Nat /\ t \in Nat
      BY MeterAssumption DEF MeterShape
    <3>2. CASE rollup[p] >= t
      BY <2>2, <3>2 DEF ThresholdsNoticed, CommitReport
    <3>3. CASE rollup[p] < t
      BY <2>2, <3>3 DEF CommitReport, Crossed
    <3> QED
      BY <3>1, <3>2, <3>3
  <2>3. (\E r \in Report : CommitReport(r)) \/ UNCHANGED <<rollup, noticed>>
    BY MeterStep DEF TransactionsRest, SendReport, NextSlot, Request, AnswerArrives, LoseAnswer,
       RollBack, ReadEntry, WriteEntry, AddToPeriod, storeVars
  <2> QED
    BY <2>1, <2>2, <2>3
<1>4. CreditInv => BilledOnce
  BY DEF CreditInv, BillInv, BilledOnce, Clean
<1> QED
  BY <1>1, <1>2, <1>3, <1>4, MeterShapePreserved, ReadsPreserved, CreditPreserved, PTL
  DEF MeterSpec, BillsAreRight
================================================================================
