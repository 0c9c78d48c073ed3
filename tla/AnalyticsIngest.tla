----------------------------- MODULE AnalyticsIngest -----------------------------
(* The analytics stream on its way into ClickHouse: ingestOnce in the ingester's    *)
(* ingest.ts and its loop in main.ts, clickhouse.ts, and the publishers that put    *)
(* their records on the stream.  A batch is inserted table by table and only then   *)
(* acknowledged.  The tables replace a row that arrives again; the views that feed  *)
(* the daily rollups see every insert.                                              *)
EXTENDS Naturals, FiniteSets

CONSTANTS
  Record,
  Tables,        \* tables, in the order ingestOnce inserts them
  TableOf,       \* the table of a record that is shaped
  Malformed,     \* records that do not parse
  Unclaimed,     \* records of a type the ingester does not know
  Refused,       \* records that parse and the table refuses
  Ingester,      \* more than one only while a deployment is replaced
  BatchRows,
  MaxTrouble     \* inserts that throw, acknowledgements lost or late, crashes: together

ASSUME IngestAssumption ==
  /\ Tables \in Nat /\ MaxTrouble \in Nat /\ IsFiniteSet(Ingester)
  /\ TableOf \in [Record -> 0..Tables]
  /\ \A r \in Record \ (Malformed \cup Unclaimed) : TableOf[r] # 0

VARIABLES
  place,         \* "new", "stream", "acked" or "terminated"
  batch,         \* the rows in an ingester's hands
  table,         \* the table it is at: 0 idle, Tables + 1 acknowledging
  inserts,       \* times a record's row was inserted
  failed         \* troubles so far

ingestVars == <<place, batch, table, inserts, failed>>

IngestInit ==
  /\ place = [r \in Record |-> "new"]
  /\ batch = [i \in Ingester |-> {}] /\ table = [i \in Ingester |-> 0]
  /\ inserts = [r \in Record |-> 0] /\ failed = 0

IngestTypeOK ==
  /\ place \in [Record -> {"new", "stream", "acked", "terminated"}]
  /\ batch \in [Ingester -> SUBSET Record] /\ table \in [Ingester -> 0..Tables + 1]
  /\ inserts \in [Record -> 0..1 + MaxTrouble] /\ failed \in 0..MaxTrouble

--------------------------------------------------------------------------------
Fails == failed < MaxTrouble /\ failed' = failed + 1

\* Repetitions within the broker's window are one record; a publish that fails is
\* logged and its record stays new.
PublishRecord(r) ==
  /\ place[r] = "new"
  /\ place' = [place EXCEPT ![r] = "stream"]
  /\ UNCHANGED <<batch, table, inserts, failed>>

OnStream == {r \in Record : place[r] = "stream"}
InHand == UNION {batch[i] : i \in Ingester}

\* Wrong: what does not parse is left for another time.
Terminated_None(fetched) == {}

\* term() for what does not parse; the same bytes would not parse the next time.
Terminated(fetched) == fetched \cap Malformed

Claimed(fetched) == fetched \ (Malformed \cup Unclaimed)

\* One fetch: anything that is not acknowledged, and what another ingester still
\* holds only when its ack_wait has run out.  A record nobody claims is left alone.
FetchBatch(i, fetched) ==
  /\ table[i] = 0 /\ fetched # {} /\ Cardinality(fetched) <= BatchRows
  /\ IF fetched \cap InHand = {} THEN UNCHANGED failed ELSE Fails
  /\ place' = [r \in Record |-> IF r \in Terminated(fetched) THEN "terminated" ELSE place[r]]
  /\ batch' = [batch EXCEPT ![i] = Claimed(fetched)]
  /\ table' = [table EXCEPT ![i] = IF Claimed(fetched) = {} THEN 0 ELSE 1]
  /\ UNCHANGED inserts

RowsFor(i) == {r \in batch[i] : TableOf[r] = table[i]}
Inserting(i) == table[i] \in 1..Tables
Inserted(i) == [r \in Record |-> IF r \in RowsFor(i) THEN inserts[r] + 1 ELSE inserts[r]]

\* One INSERT with all of a table's rows; no statement when there are none.
InsertTable(i) ==
  /\ Inserting(i) /\ RowsFor(i) \cap Refused = {}
  /\ inserts' = Inserted(i)
  /\ table' = [table EXCEPT ![i] = @ + 1]
  /\ UNCHANGED <<place, batch, failed>>

\* The loop forgets the batch and starts over: the broker hands its records out again.
Abandon(i) ==
  /\ Fails
  /\ batch' = [batch EXCEPT ![i] = {}] /\ table' = [table EXCEPT ![i] = 0]
  /\ UNCHANGED place

\* Wrong: a failed insert is logged and the batch goes on.
InsertThrows_Logged(i) ==
  /\ Inserting(i) /\ RowsFor(i) # {} /\ Fails
  /\ table' = [table EXCEPT ![i] = @ + 1]
  /\ UNCHANGED <<place, batch, inserts>>

\* The store refuses a row or cannot be reached, or stores them and the answer is lost.
InsertThrows(i) ==
  /\ Inserting(i) /\ RowsFor(i) # {}
  /\ inserts' \in IF RowsFor(i) \cap Refused = {} THEN {inserts, Inserted(i)} ELSE {inserts}
  /\ Abandon(i)

\* One acknowledgement after another, none of them waited for; some may be lost.
AckBatch(i) ==
  /\ table[i] = Tables + 1
  /\ \E lost \in SUBSET batch[i] :
       /\ IF lost = {} THEN UNCHANGED failed ELSE Fails
       /\ place' = [r \in Record |-> IF r \in batch[i] \ lost THEN "acked" ELSE place[r]]
  /\ batch' = [batch EXCEPT ![i] = {}] /\ table' = [table EXCEPT ![i] = 0]
  /\ UNCHANGED inserts

IngesterDies(i) == table[i] # 0 /\ UNCHANGED inserts /\ Abandon(i)

Fetches(r) == \E i \in Ingester, more \in SUBSET OnStream : r \in OnStream /\ FetchBatch(i, more \cup {r})
Work(i) == InsertTable(i) \/ AckBatch(i)

IngestNext ==
  \/ \E r \in Record : PublishRecord(r)
  \/ \E i \in Ingester, fetched \in SUBSET OnStream : FetchBatch(i, fetched)
  \/ \E i \in Ingester : Work(i) \/ InsertThrows(i) \/ IngesterDies(i)

IngestSpec == IngestInit /\ [][IngestNext]_ingestVars

--------------------------------------------------------------------------------
(* What is read *)

\* count() ... FINAL: rows with one sorting key are one row.
Final(r) == IF inserts[r] > 0 THEN 1 ELSE 0

\* The views are triggers on insert, and the rollups are summed.
RolledUp(r) == inserts[r]

\* What left the stream is in its table, and a rollup counts it once, and once more
\* for every batch that was abandoned or handed out again at most.
AckedIsCounted ==
  \A r \in Record :
    /\ place[r] = "acked" => Final(r) = 1
    /\ RolledUp(r) <= Final(r) + failed

\* Every record that can be shaped and stored gets into its table and off the stream,
\* and one that does not parse off the stream, while the table refuses nothing: a
\* refused row takes its whole batch along, again and again.
EveryRecordLands ==
  [](\A r \in Refused : place[r] = "new") =>
    \A r \in Record \ (Refused \cup Unclaimed) :
      place[r] = "stream" ~> place[r] \in {"acked", "terminated"}

\* ingest.ts, of a batch that is inserted again: safe because the tables are replacing.
\* The rollups are not.
RollupIsExact == \A r \in Record : RolledUp(r) <= 1
================================================================================
