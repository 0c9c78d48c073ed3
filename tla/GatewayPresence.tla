---------------------------- MODULE GatewayPresence ----------------------------
(* Who is online: gateway/src/presence.ts, and its calls from the open and the    *)
(* close of a socket in session.ts.                                               *)
(*                                                                                *)
(* One user and one channel of theirs.  A tick is the refresh interval; a request *)
(* to Redis is answered, or fails, within it.  One that fails is logged and taken *)
(* for null (failable); it may have been executed all the same, which is told     *)
(* from an answer only where the answer is looked at.  Timers of different        *)
(* instances are not in step: what happens between two ticks may happen in any    *)
(* order.                                                                         *)
EXTENDS Naturals

CONSTANTS
  Instance, Visit,  \* gateways, and the connections the user opens
  On,               \* the gateway a connection is on
  Ttl, Grace,       \* ticks the key lives, and that a departure waits
  MaxTrouble        \* processes that die, keys that vanish, requests that fail, together

\* The key outlives a refresh that is missed (DEFAULT_TTL_MS, DEFAULT_REFRESH_MS), and a
\* departure waits as long at least.
ASSUME PresenceAssumption ==
  /\ On \in [Visit -> Instance] /\ MaxTrouble \in Nat
  /\ Ttl \in Nat /\ Ttl >= 2 /\ Grace \in Nat /\ Grace >= 2

VARIABLES
  key, marker,  \* ticks that presence:{user} and presence:offline:{user} still have
  visit,        \* a connection's life
  held,         \* instances that refresh the key
  refresh,      \* where an instance's refresh is
  arrival,      \* where connected() is
  departure,    \* connections whose disconnected() has not pinned the key yet
  timer,        \* ticks an instance's pending check still waits
  check,        \* where an instance's check is
  said,         \* what watchers heard last
  steady,       \* history: open connections whose instance has refreshed the key for
                \* them and has not found it gone since
  missed,       \* history: refreshes of an instance that have failed in a row
  cut,          \* history: since the last departure a request of a check has failed, or
                \* an instance has gone that was to make a check
  trouble

presenceKeys == <<key, marker>>
taskVars == <<refresh, arrival, departure, timer, check>>
pastVars == <<steady, missed, cut>>
presenceVars == <<presenceKeys, visit, held, taskVars, said, pastVars, trouble>>

Off == Grace + 1

PresenceTypeOK ==
  /\ key \in 0..Ttl + Grace /\ marker \in 0..Ttl
  /\ visit \in [Visit -> {"new", "open", "closed"}]
  /\ held \subseteq Instance
  /\ refresh \in [Instance -> {"idle", "due", "absent", "clear"}]
  /\ arrival \in [Visit -> {"idle", "elect", "clear", "publish"}]
  /\ departure \subseteq Visit
  /\ timer \in [Instance -> 0..Off]
  /\ check \in [Instance -> {"idle", "exists", "elect", "publish"}]
  /\ said \in {"online", "offline"}
  /\ steady \subseteq Visit /\ missed \in [Instance -> Nat] /\ cut \in BOOLEAN
  /\ trouble \in 0..MaxTrouble

PresenceInit ==
  /\ key = 0 /\ marker = 0
  /\ visit = [c \in Visit |-> "new"] /\ held = {}
  /\ refresh = [i \in Instance |-> "idle"] /\ arrival = [c \in Visit |-> "idle"]
  /\ departure = {}
  /\ timer = [i \in Instance |-> Off] /\ check = [i \in Instance |-> "idle"]
  /\ said = "offline" /\ steady = {}
  /\ missed = [i \in Instance |-> 0] /\ cut = FALSE /\ trouble = 0

OpenVisits == {c \in Visit : visit[c] = "open"}
OpenOn(i) == {c \in OpenVisits : On[c] = i}

Trouble == trouble < MaxTrouble /\ trouble' = trouble + 1

--------------------------------------------------------------------------------
(* connected *)

Connect(c) ==
  /\ visit[c] = "new"
  /\ visit' = [visit EXCEPT ![c] = "open"]
  /\ held' = held \cup {On[c]}
  /\ arrival' = [arrival EXCEPT ![c] = "elect"]
  /\ UNCHANGED <<presenceKeys, refresh, departure, timer, check, said, pastVars, trouble>>

\* SET .. NX: whoever finds the key absent speaks.
ElectOnline(c) ==
  /\ arrival[c] = "elect"
  /\ key' = IF key = 0 THEN Ttl ELSE key
  /\ arrival' = [arrival EXCEPT ![c] = IF key = 0 THEN "clear" ELSE "idle"]
  /\ UNCHANGED <<marker, visit, held, refresh, departure, timer, check, said, pastVars, trouble>>

ClearMarker(c) ==
  /\ arrival[c] = "clear"
  /\ marker' = 0
  /\ arrival' = [arrival EXCEPT ![c] = "publish"]
  /\ UNCHANGED <<key, visit, held, refresh, departure, timer, check, said, pastVars, trouble>>

PublishOnline(c) ==
  /\ arrival[c] = "publish"
  /\ said' = "online"
  /\ arrival' = [arrival EXCEPT ![c] = "idle"]
  /\ UNCHANGED <<presenceKeys, visit, held, refresh, departure, timer, check, pastVars, trouble>>

\* The election is lost by it, executed or not; the other two requests are passed over.
ArriveFails(c) ==
  /\ Trouble /\ arrival[c] # "idle"
  /\ key' \in IF arrival[c] = "elect" /\ key = 0 THEN {0, Ttl} ELSE {key}
  /\ arrival' = [arrival EXCEPT ![c] = IF @ = "clear" THEN "publish" ELSE "idle"]
  /\ UNCHANGED <<marker, visit, held, refresh, departure, timer, check, said, pastVars>>

--------------------------------------------------------------------------------
(* disconnected *)

\* Wrong: told for every connection that closes.
IsLast_Always(c) == TRUE

IsLast(c) == OpenOn(On[c]) \subseteq {c}

Disconnect(c) ==
  /\ visit[c] = "open"
  /\ visit' = [visit EXCEPT ![c] = "closed"]
  /\ held' = IF IsLast(c) THEN held \ {On[c]} ELSE held
  /\ departure' = IF IsLast(c) THEN departure \cup {c} ELSE departure
  /\ steady' = steady \ {c}
  /\ UNCHANGED <<presenceKeys, refresh, arrival, timer, check, said, missed, cut, trouble>>

\* Wrong: the check is due at the instant the key expires.
CheckDelay_NoMargin == Grace - 1

\* The margin puts the check behind the tick at which the key expires.
CheckDelay == Grace

\* A check is armed, in place of one that is pending.
Arm(c) ==
  /\ timer' = [timer EXCEPT ![On[c]] = CheckDelay]
  /\ departure' = departure \ {c}
  /\ cut' = FALSE
  /\ UNCHANGED <<marker, visit, held, refresh, arrival, check, said, steady, missed>>

\* The key is pinned (XX) before that.
Pin(c) ==
  /\ c \in departure
  /\ key' = IF key = 0 THEN 0 ELSE Grace
  /\ Arm(c) /\ UNCHANGED trouble

PinFails(c) == c \in departure /\ Trouble /\ Arm(c) /\ UNCHANGED key

Fire(i) ==
  /\ timer[i] = 0 /\ check[i] = "idle"
  /\ timer' = [timer EXCEPT ![i] = Off]
  /\ check' = [check EXCEPT ![i] = "exists"]
  /\ UNCHANGED <<presenceKeys, visit, held, refresh, arrival, departure, said, pastVars, trouble>>

AskExists(i) ==
  /\ check[i] = "exists"
  /\ check' = [check EXCEPT ![i] = IF key = 0 THEN "elect" ELSE "idle"]
  /\ UNCHANGED <<presenceKeys, visit, held, refresh, arrival, departure, timer, said,
                 pastVars, trouble>>

\* SET .. NX on the marker.
Wins == marker = 0

ElectOffline(i) ==
  /\ check[i] = "elect"
  /\ marker' = IF Wins THEN Ttl ELSE marker
  /\ check' = [check EXCEPT ![i] = IF Wins THEN "publish" ELSE "idle"]
  /\ UNCHANGED <<key, visit, held, refresh, arrival, departure, timer, said, pastVars, trouble>>

PublishOffline(i) ==
  /\ check[i] = "publish"
  /\ said' = "offline"
  /\ check' = [check EXCEPT ![i] = "idle"]
  /\ UNCHANGED <<presenceKeys, visit, held, refresh, arrival, departure, timer, pastVars, trouble>>

\* The check is over and is not repeated: null from EXISTS is read as a connection that
\* is still open somewhere, null from the election as its loss, whether it was or not.
CheckFails(i) ==
  /\ Trouble /\ check[i] # "idle"
  /\ marker' \in IF check[i] = "elect" /\ Wins THEN {0, Ttl} ELSE {marker}
  /\ check' = [check EXCEPT ![i] = "idle"]
  /\ cut' = TRUE
  /\ UNCHANGED <<key, visit, held, refresh, arrival, departure, timer, said, steady, missed>>

--------------------------------------------------------------------------------
(* The refresh, and time *)

\* SET .. XX for a user the instance holds.
Refresh(i) ==
  /\ refresh[i] = "due"
  /\ \/ /\ i \in held /\ key # 0
        /\ key' = Ttl
        /\ steady' = steady \cup OpenOn(i) /\ missed' = [missed EXCEPT ![i] = 0]
        /\ refresh' = [refresh EXCEPT ![i] = "idle"]
     \/ /\ i \in held /\ key = 0
        /\ steady' = steady \ OpenOn(i)
        /\ refresh' = [refresh EXCEPT ![i] = "absent"]
        /\ UNCHANGED <<key, missed>>
     \/ /\ i \notin held
        /\ refresh' = [refresh EXCEPT ![i] = "idle"]
        /\ UNCHANGED <<key, steady, missed>>
  /\ UNCHANGED <<marker, visit, held, arrival, departure, timer, check, said, cut, trouble>>

\* null again: the instance takes the key for gone.
RefreshFails(i) ==
  /\ Trouble /\ refresh[i] = "due" /\ i \in held
  /\ key' \in IF key = 0 THEN {0} ELSE {key, Ttl}
  /\ refresh' = [refresh EXCEPT ![i] = "absent"]
  /\ missed' = [missed EXCEPT ![i] = @ + 1]
  /\ UNCHANGED <<marker, visit, held, arrival, departure, timer, check, said, steady, cut>>

\* The key was gone: it is put back, and nothing is published.
PutBack(i) ==
  /\ refresh[i] = "absent"
  /\ key' = IF key = 0 THEN Ttl ELSE key
  /\ refresh' = [refresh EXCEPT ![i] = "clear"]
  /\ UNCHANGED <<marker, visit, held, arrival, departure, timer, check, said, pastVars, trouble>>

PutBackClears(i) ==
  /\ refresh[i] = "clear"
  /\ marker' = 0
  /\ refresh' = [refresh EXCEPT ![i] = "idle"]
  /\ UNCHANGED <<key, visit, held, arrival, departure, timer, check, said, pastVars, trouble>>

\* The two requests are one try: after the first has failed there is no second.
PutBackFails(i) ==
  /\ Trouble /\ refresh[i] \in {"absent", "clear"}
  /\ key' \in IF refresh[i] = "absent" /\ key = 0 THEN {0, Ttl} ELSE {key}
  /\ refresh' = [refresh EXCEPT ![i] = "idle"]
  /\ UNCHANGED <<marker, visit, held, arrival, departure, timer, check, said, pastVars>>

Less(n) == IF n = 0 THEN 0 ELSE n - 1

AtRest ==
  /\ \A i \in Instance : refresh[i] = "idle" /\ timer[i] # 0 /\ check[i] = "idle"
  /\ \A c \in Visit : arrival[c] = "idle"
  /\ departure = {}

PresenceTick ==
  /\ AtRest
  /\ key' = Less(key) /\ marker' = Less(marker)
  /\ timer' = [i \in Instance |-> IF timer[i] = Off THEN Off ELSE timer[i] - 1]
  /\ refresh' = [i \in Instance |-> IF i \in held THEN "due" ELSE "idle"]
  /\ UNCHANGED <<visit, held, arrival, departure, check, said, pastVars, trouble>>

OwesCheck(i) ==
  OpenOn(i) # {} \/ timer[i] # Off \/ check[i] # "idle" \/ \E c \in departure : On[c] = i

\* A process dies, or drains: its connections close, its timers and checks are gone.
InstanceGone(i) ==
  /\ Trouble
  /\ visit' = [c \in Visit |-> IF c \in OpenOn(i) THEN "closed" ELSE visit[c]]
  /\ held' = held \ {i} /\ steady' = steady \ OpenOn(i)
  /\ refresh' = [refresh EXCEPT ![i] = "idle"]
  /\ arrival' = [c \in Visit |-> IF On[c] = i THEN "idle" ELSE arrival[c]]
  /\ departure' = {c \in departure : On[c] # i}
  /\ timer' = [timer EXCEPT ![i] = Off] /\ check' = [check EXCEPT ![i] = "idle"]
  /\ missed' = [missed EXCEPT ![i] = 0] /\ cut' = (cut \/ OwesCheck(i))
  /\ UNCHANGED <<presenceKeys, said>>

\* Redis restarts empty.
KeysVanish ==
  /\ Trouble
  /\ key' = 0 /\ marker' = 0 /\ steady' = {}
  /\ UNCHANGED <<visit, held, taskVars, said, missed, cut>>

--------------------------------------------------------------------------------
Arrive(c) == ElectOnline(c) \/ ClearMarker(c) \/ PublishOnline(c)
Check(i) == Fire(i) \/ AskExists(i) \/ ElectOffline(i) \/ PublishOffline(i)
KeepAlive(i) == Refresh(i) \/ PutBack(i) \/ PutBackClears(i)

PresenceNext ==
  \/ \E c \in Visit : Connect(c) \/ Arrive(c) \/ Disconnect(c) \/ Pin(c)
  \/ \E c \in Visit : ArriveFails(c) \/ PinFails(c)
  \/ \E i \in Instance : Check(i) \/ KeepAlive(i)
  \/ \E i \in Instance : CheckFails(i) \/ RefreshFails(i) \/ PutBackFails(i) \/ InstanceGone(i)
  \/ PresenceTick \/ KeysVanish

PresenceSpec == PresenceInit /\ [][PresenceNext]_presenceVars

\* Timers fire, and requests are answered or fail.
PresenceFairSpec ==
  /\ PresenceSpec
  /\ \A c \in Visit : WF_presenceVars(Arrive(c)) /\ WF_presenceVars(Pin(c))
  /\ \A i \in Instance : WF_presenceVars(Check(i)) /\ WF_presenceVars(KeepAlive(i))
  /\ WF_presenceVars(PresenceTick)

--------------------------------------------------------------------------------
(* Properties *)

\* What a refresh or a pin gives the key.
Shortest == IF Grace < Ttl THEN Grace ELSE Ttl

\* No check finds a user absent while a connection is open that has been refreshed: the
\* departure of another one, on any instance, does not take the key away from it, nor
\* do refreshes that fail, unless they are too many in a row.
SteadyIsOnline ==
  [][(\E i \in Instance : check[i] = "exists" /\ check'[i] = "elect") =>
       \A c \in steady : missed[On[c]] > Shortest - 2]_presenceVars

\* A user who has gone is heard to be offline, or comes back, whatever requests and keys
\* were lost before, unless the check itself is cut off: then they stay online.
Gone == OpenVisits = {} /\ said = "online"
GoneIsHeard == Gone ~> ~Gone \/ cut

\* What presence.ts says of its check: that the key is absent is that nobody still holds
\* a connection.  A user who stays connected is then heard to be online.
Stays == OpenVisits # {} /\ said = "offline"
ConnectedIsHeard == Stays ~> ~Stays \/ trouble > 0
================================================================================
