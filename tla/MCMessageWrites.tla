---------------------------- MODULE MCMessageWrites ----------------------------
(* What an api request may do, and what it writes.  Messages: one private channel, *)
(* a user who sends the same message twice and edits, a bot, and the tenant, who   *)
(* deletes.  Users: one external id and three requests at a time.  Rates: logins   *)
(* that fail, and calls and messages of one environment.  They share no row and no *)
(* key, so each is explored in full with the others at rest.                       *)
EXTENDS MessageWrites, UserRecords, RateLimits

CONSTANTS u, b, c, s1, s2, s3, k, MaxCounted

MCUserOf == [r \in Request |-> CASE r = s3 -> b
                            [] r \in Delete -> Application
                            [] OTHER -> u]
MCChannelOf == [s \in Send |-> c]
MCKeyOf == [s \in Send |-> IF s \in {s1, s2} THEN k ELSE NoKey]

VARIABLE part
allVars == <<vars, userVars, ratesVars, part>>

MCInit ==
  /\ Init /\ UsersInit /\ RatesInit
  /\ part \in {"messages", "users", "logins", "requests"}

AtMessages(A) == part = "messages" /\ A /\ UNCHANGED <<userVars, ratesVars, part>>
AtUsers(A) == part = "users" /\ A /\ UNCHANGED <<vars, ratesVars, part>>
AtLogins(A) ==
  /\ part = "logins" /\ A /\ UNCHANGED <<vars, userVars, part>>
  /\ \A q \in Slot : request'[q].todo \in {<<>>, <<"auth">>}
AtRequests(A) ==
  /\ part = "requests" /\ A /\ UNCHANGED <<vars, userVars, part>>
  /\ begun' <= MaxCounted /\ \A q \in Slot : request'[q].todo # <<"auth">>

MCNext ==
  AtMessages(Next) \/ AtUsers(UsersNext) \/ AtLogins(RatesNext) \/ AtRequests(RatesNext)

MCSpec == MCInit /\ [][MCNext]_allVars

\* The store answers or fails, Redis comes back, and keys with an expiry expire.
KeysSpec ==
  /\ MCSpec
  /\ \A q \in Slot : WF_allVars(AtRequests(RequestStep(q)))
  /\ WF_allVars(AtRequests(GoUp))
  /\ \A p \in Process : WF_allVars(AtRequests(AsksAgain(p)))
  /\ \A key \in Counter : WF_allVars(AtRequests(KeyExpires(key)))
================================================================================
