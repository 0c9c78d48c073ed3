--------------------------- MODULE MCWebhookDelivery ---------------------------
(* Small instances of WebhookDelivery for TLC: one endpoint, two or three tiers. *)
EXTENDS WebhookDelivery, Sequences

CONSTANTS p

MCEndpointOf == [d \in Delivery |-> p]
MCTier == SubSeq(<<0, 1, 3>>, 1, MaxAttempts)
===============================================================================
