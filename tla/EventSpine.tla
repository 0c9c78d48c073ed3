------------------------------ MODULE EventSpine ------------------------------
(***************************************************************************)
(* What the outbox promises the rest of the platform, with the table, the   *)
(* relays and the broker hidden: an event exists from the moment the write  *)
(* it describes commits, and from then on it reaches the stream at least    *)
(* once.  Nothing else ever reaches the stream.                             *)
(***************************************************************************)
CONSTANT Event

VARIABLES committed,  \* events whose write has committed
          delivered   \* events the stream holds at least one copy of

spineVars == <<committed, delivered>>

SpineInit ==
  /\ committed = {}
  /\ delivered = {}

CommitWrite(e) ==
  /\ e \notin committed
  /\ committed' = committed \cup {e}
  /\ UNCHANGED delivered

DeliverEvent(e) ==
  /\ e \in committed \ delivered
  /\ delivered' = delivered \cup {e}
  /\ UNCHANGED committed

SpineNext == \E e \in Event : CommitWrite(e) \/ DeliverEvent(e)

SpineSafety == SpineInit /\ [][SpineNext]_spineVars

SpineSpec ==
  /\ SpineSafety
  /\ \A e \in Event : WF_spineVars(DeliverEvent(e))
===============================================================================
