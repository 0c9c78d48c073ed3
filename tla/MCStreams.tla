------------------------------- MODULE MCStreams -------------------------------
(* Onto a stream and off one: the relays that fill EVENTS from the outbox, and the  *)
(* ingester that empties ANALYTICS into ClickHouse.  They share the broker and      *)
(* nothing in it, so each is explored in full with the other one at rest.           *)
EXTENDS Outbox, AnalyticsIngest, TLC

VARIABLE half
allVars == <<vars, ingestVars, half>>

CONSTANTS a1, a2, a3, bad, odd
MCTableOf == a1 :> 1 @@ a2 :> 2 @@ a3 :> 2 @@ bad :> 0 @@ odd :> 0

MCInit == Init /\ IngestInit /\ half \in {"outbox", "ingest"}

AtOutbox(A) == half = "outbox" /\ A /\ UNCHANGED <<ingestVars, half>>
AtIngest(A) == half = "ingest" /\ A /\ UNCHANGED <<vars, half>>

MCNext == AtOutbox(Next) \/ AtIngest(IngestNext)

\* The fairness of Outbox; the ingester polls for ever, and the broker hands out every
\* record that waits on the stream again and again.
MCSpec ==
  /\ MCInit /\ [][MCNext]_allVars
  /\ \A r \in Relay : WF_allVars(AtOutbox(RelayStep(r)))
  /\ \A i \in Ingester : WF_allVars(AtIngest(Work(i)))
  /\ \A a \in Record \ (Refused \cup Unclaimed) : SF_allVars(AtIngest(Fetches(a)))
================================================================================
