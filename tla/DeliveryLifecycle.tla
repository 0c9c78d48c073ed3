--------------------------- MODULE DeliveryLifecycle ---------------------------
(***************************************************************************)
(* What the platform promises of one webhook delivery row, with the relay,  *)
(* the broker and the dispatchers hidden: an attempt that fails moves it to *)
(* the next tier, the last one kills it and leaves one dead letter, a 2xx   *)
(* settles it, and only an operator's replay wakes a settled row.           *)
(***************************************************************************)
EXTENDS Naturals

CONSTANTS Delivery, Synthetic, MaxAttempts

VARIABLES state, attempt, letters

lifecycleVars == <<state, attempt, letters>>

LifecycleInit ==
  /\ state = [d \in Delivery |-> "pending"]
  /\ attempt = [d \in Delivery |-> 1]
  /\ letters = [d \in Delivery |-> 0]

Succeed(d) ==
  /\ state[d] = "pending"
  /\ state' = [state EXCEPT ![d] = "delivered"]
  /\ UNCHANGED <<attempt, letters>>

NextTier(d) ==
  /\ state[d] = "pending"
  /\ d \notin Synthetic
  /\ attempt[d] < MaxAttempts
  /\ attempt' = [attempt EXCEPT ![d] = @ + 1]
  /\ UNCHANGED <<state, letters>>

Exhaust(d) ==
  /\ state[d] = "pending"
  /\ d \notin Synthetic
  /\ attempt[d] = MaxAttempts
  /\ state' = [state EXCEPT ![d] = "dead"]
  /\ letters' = [letters EXCEPT ![d] = @ + 1]
  /\ UNCHANGED attempt

FailTest(d) ==
  /\ state[d] = "pending"
  /\ d \in Synthetic
  /\ state' = [state EXCEPT ![d] = "dead"]
  /\ UNCHANGED <<attempt, letters>>

Replay(d) ==
  /\ letters[d] > 0
  /\ state' = [state EXCEPT ![d] = "pending"]
  /\ attempt' = [attempt EXCEPT ![d] = 1]
  /\ UNCHANGED letters

LifecycleNext ==
  \E d \in Delivery :
    Succeed(d) \/ NextTier(d) \/ Exhaust(d) \/ FailTest(d) \/ Replay(d)

LifecycleSpec == LifecycleInit /\ [][LifecycleNext]_lifecycleVars
===============================================================================
