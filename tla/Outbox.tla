-------------------------------- MODULE Outbox --------------------------------
(***************************************************************************)
(* The transactional outbox: writers commit an event row with the write it  *)
(* describes, and any number of relays drain the rows to the broker.        *)
(*                                                                          *)
(* A relay's pass is one database transaction: claim the oldest unpublished *)
(* rows nobody else holds (FOR UPDATE SKIP LOCKED), publish them one at a   *)
(* time, mark the published ones, commit.  A publish that throws still runs *)
(* the marking UPDATE in the `finally` block, and then leaves the           *)
(* transaction callback, so the transaction rolls back and takes the marks  *)
(* with it.                                                                 *)
(***************************************************************************)
EXTENDS Naturals, FiniteSets

CONSTANTS Event,        \* envelope ids
          Relay,        \* api instances running a relay loop
          BatchSize,    \* BATCH_SIZE, rows claimed by one pass
          MaxFailures,  \* bound: publishes that throw
          MaxCrashes    \* bound: relay processes lost in mid pass

ASSUME BatchSizeAssumption == BatchSize \in Nat \ {0}
ASSUME BoundAssumption == MaxFailures \in Nat /\ MaxCrashes \in Nat

VARIABLES
  row,       \* row[e]: "none", "open" (written, not committed), "pending",
             \* "published", or "aborted" (its transaction rolled back)
  stamp,     \* stamp[e]: created_at, the START of the writing transaction
  clock,     \* the next created_at
  todo,      \* todo[r]: rows r has locked and not yet published in this pass
  done,      \* done[r]: rows r has locked and published in this pass
  copies,    \* copies[e]: how many times the stream holds e
  window,    \* msgIDs inside the broker's duplicate window
  failures,  \* publishes that have thrown so far
  crashes    \* relay processes lost so far

vars == <<row, stamp, clock, todo, done, copies, window, failures, crashes>>

RowState == {"none", "open", "pending", "published", "aborted"}

TypeOK ==
  /\ row \in [Event -> RowState]
  /\ stamp \in [Event -> Nat]
  /\ clock \in Nat
  /\ todo \in [Relay -> SUBSET Event]
  /\ done \in [Relay -> SUBSET Event]
  /\ copies \in [Event -> Nat]
  /\ window \in SUBSET Event
  /\ failures \in Nat
  /\ crashes \in Nat

Init ==
  /\ row = [e \in Event |-> "none"]
  /\ stamp = [e \in Event |-> 0]
  /\ clock = 0
  /\ todo = [r \in Relay |-> {}]
  /\ done = [r \in Relay |-> {}]
  /\ copies = [e \in Event |-> 0]
  /\ window = {}
  /\ failures = 0
  /\ crashes = 0

(***************************************************************************)
(* Writers.  created_at defaults to now(), which Postgres fixes when the    *)
(* transaction starts, so a row can become visible after younger ones.      *)
(***************************************************************************)
writerVars == <<row, stamp, clock>>
relayVars == <<todo, done, copies, window, failures, crashes>>

BeginWrite(e) ==
  /\ row[e] = "none"
  /\ row' = [row EXCEPT ![e] = "open"]
  /\ stamp' = [stamp EXCEPT ![e] = clock]
  /\ clock' = clock + 1
  /\ UNCHANGED relayVars

CommitWrite(e) ==
  /\ row[e] = "open"
  /\ row' = [row EXCEPT ![e] = "pending"]
  /\ UNCHANGED <<stamp, clock, relayVars>>

AbortWrite(e) ==
  /\ row[e] = "open"
  /\ row' = [row EXCEPT ![e] = "aborted"]
  /\ UNCHANGED <<stamp, clock, relayVars>>

(***************************************************************************)
(* One relay pass.                                                          *)
(***************************************************************************)
Held(r) == todo[r] \cup done[r]

\* Wrong: reads on from the youngest published row, as from a cursor.
Claimable_Cursor ==
  {e \in Event :
    /\ row[e] = "pending"
    /\ \A r \in Relay : e \notin Held(r)
    /\ \A f \in Event : row[f] = "published" => stamp[f] < stamp[e]}

\* WHERE published_at IS NULL ... FOR UPDATE SKIP LOCKED
Claimable == {e \in Event : row[e] = "pending" /\ \A r \in Relay : e \notin Held(r)}

\* ORDER BY created_at ... LIMIT n
Oldest(S, n) ==
  {e \in S : Cardinality({f \in S : stamp[f] < stamp[e]}) < n}

Claim(r) ==
  /\ Held(r) = {}
  /\ Claimable # {}
  /\ todo' = [todo EXCEPT ![r] = Oldest(Claimable, BatchSize)]
  /\ UNCHANGED <<writerVars, done, copies, window, failures, crashes>>

\* The broker stores a message unless its msgID is still in the duplicate window.
Accept(e) ==
  /\ copies' = IF e \in window THEN copies ELSE [copies EXCEPT ![e] = @ + 1]
  /\ window' = window \cup {e}

NextToPublish(r, e) ==
  /\ e \in todo[r]
  /\ \A f \in todo[r] : stamp[e] <= stamp[f]

Publish(r, e) ==
  /\ NextToPublish(r, e)
  /\ Accept(e)
  /\ todo' = [todo EXCEPT ![r] = @ \ {e}]
  /\ done' = [done EXCEPT ![r] = @ \cup {e}]
  /\ UNCHANGED <<writerVars, failures, crashes>>

\* What the transaction leaves behind when the publisher throws: the UPDATE of
\* the `finally` block is rolled back with everything else.
RowsAfterThrow(r) == row

\* The publisher throws.  The broker may have stored the message all the same
\* (the acknowledgement was lost).
PublishThrows(r, e) ==
  /\ failures < MaxFailures
  /\ NextToPublish(r, e)
  /\ \/ Accept(e)
     \/ UNCHANGED <<copies, window>>
  /\ row' = RowsAfterThrow(r)
  /\ todo' = [todo EXCEPT ![r] = {}]
  /\ done' = [done EXCEPT ![r] = {}]
  /\ failures' = failures + 1
  /\ UNCHANGED <<stamp, clock, crashes>>

MarkPublished(r) ==
  /\ todo[r] = {}
  /\ done[r] # {}
  /\ row' = [e \in Event |-> IF e \in done[r] THEN "published" ELSE row[e]]
  /\ done' = [done EXCEPT ![r] = {}]
  /\ UNCHANGED <<stamp, clock, todo, copies, window, failures, crashes>>

\* The process dies, or loses its database session, anywhere in the pass.
Crash(r) ==
  /\ crashes < MaxCrashes
  /\ Held(r) # {}
  /\ todo' = [todo EXCEPT ![r] = {}]
  /\ done' = [done EXCEPT ![r] = {}]
  /\ crashes' = crashes + 1
  /\ UNCHANGED <<writerVars, copies, window, failures>>

\* The broker forgets a msgID when its duplicate window has passed.
WindowExpires(e) ==
  /\ e \in window
  /\ window' = window \ {e}
  /\ UNCHANGED <<writerVars, todo, done, copies, failures, crashes>>

RelayStep(r) == Claim(r) \/ (\E e \in Event : Publish(r, e)) \/ MarkPublished(r)

Next ==
  \/ \E e \in Event : BeginWrite(e) \/ CommitWrite(e) \/ AbortWrite(e) \/ WindowExpires(e)
  \/ \E r \in Relay : RelayStep(r) \/ Crash(r)
  \/ \E r \in Relay, e \in Event : PublishThrows(r, e)

Spec == Init /\ [][Next]_vars

\* The loop in createRelay never exits while running: after every pass, failed
\* or not, it tries again.
FairSpec == Spec /\ \A r \in Relay : WF_vars(RelayStep(r))

-------------------------------------------------------------------------------
Committed == {e \in Event : row[e] \in {"pending", "published"}}
InStream == {e \in Event : copies[e] > 0}

\* A row is marked only after the broker accepted its event (publish then mark,
\* never the reverse): a crash can repeat an event and cannot lose one.
MarkedImpliesInStream == \A e \in Event : row[e] = "published" => copies[e] > 0

\* Only committed writes reach the stream: a rolled-back transaction leaves no
\* event behind, whatever the relays do at the same moment.
OnlyCommittedInStream == InStream \subseteq Committed

\* Two relays never hold the same row (SKIP LOCKED).
HeldByOneRelay ==
  \A r, s \in Relay : r # s => Held(r) \cap Held(s) = {}

\* A second copy of an event costs a failure: competing relays alone publish
\* every row exactly once, and n failures make at most n extra copies.
CopiesPaidByFailures ==
  \A e \in Event : copies[e] <= 1 + failures + crashes

\* The outbox implements the event spine: whatever the relays repeat, drop or
\* lose, an event commits once and then enters the stream, in that order; and,
\* with the relays running, it always does enter.
Spine == INSTANCE EventSpine WITH committed <- Committed, delivered <- InStream
SpineSafety == Spine!SpineSafety
SpineSpec == Spine!SpineSpec
===============================================================================
