---------------------------- MODULE MCGatewaySockets ----------------------------
(* A socket that opens asks for a place among its user's connections and tells    *)
(* presence; one that closes gives the place back and tells presence.  The two    *)
(* use keys of their own and neither reads the other's, so each is explored in    *)
(* full with the other one at rest, instead of in every combination.              *)
EXTENDS ConnectionSlots, GatewayPresence, TLC

VARIABLE half
allVars == <<socketVars, presenceVars, half>>

CONSTANTS g1, g2, c1, c2, c3
MCOn == c1 :> g1 @@ c2 :> g2 @@ c3 :> g1

MCInit == SlotsInit /\ PresenceInit /\ half \in {"places", "presence"}

AtPlaces(A) == half = "places" /\ A /\ UNCHANGED <<presenceVars, half>>
AtPresence(A) == half = "presence" /\ A /\ UNCHANGED <<socketVars, half>>

\* To the places one connection is as good as another, and none has to open: they are
\* numbered as they come.
InOrder ==
  /\ conn[c2] # "new" => conn[c1] # "new"
  /\ conn[c3] # "new" => conn[c2] # "new"

MCNext == AtPlaces(SlotsNext /\ InOrder') \/ AtPresence(PresenceNext)

\* The fairness of both modules.
MCSpec ==
  /\ MCInit /\ [][MCNext]_allVars
  /\ \A c \in Connection : WF_allVars(AtPlaces(Answer(c))) /\ WF_allVars(AtPlaces(Serve(c)))
  /\ WF_allVars(AtPlaces(Tick)) /\ WF_allVars(AtPlaces(GoUp))
  /\ \A c \in Visit :
       WF_allVars(AtPresence(Arrive(c))) /\ WF_allVars(AtPresence(Pin(c)))
  /\ \A i \in Instance :
       /\ WF_allVars(AtPresence(Check(i)))
       /\ WF_allVars(AtPresence(KeepAlive(i)))
  /\ WF_allVars(AtPresence(PresenceTick))
================================================================================
