---------------------------- MODULE ConnectionSlots ----------------------------
(* The cap on a user's connections: connections.ts, and the claim, the renewal    *)
(* timer and the close handler of gateway/src/session.ts.                         *)
(*                                                                                *)
(* One user.  A place is a Redis key that holds a connection's id and expires; a  *)
(* tick is the renewal's interval, and what a gateway asks Redis is answered, or  *)
(* fails, within it.  A request that fails for the gateway may have been executed: *)
(* with a renewal or a release that makes no difference, with a walk it does.  A  *)
(* tombstone means that a place is free.                                          *)
EXTENDS Naturals, FiniteSets

CONSTANTS
  Connection,
  Places,      \* MAX_CONNECTIONS_PER_USER
  Bound,       \* ticks a key lives
  MaxOutages,  \* times Redis cannot be reached, or an answer of it is lost
  Free

ASSUME SlotsAssumption ==
  Places \in Nat \ {0} /\ Bound \in Nat \ {0} /\ MaxOutages \in Nat /\ Free \notin Connection

VARIABLES
  holder,  \* the connection id under a place's key
  left,    \* ticks until the key expires
  conn,    \* a connection's life
  place,   \* the place it believes it holds; 0 when it is not counted
  walk,    \* the place its walk tries next; 0 when it is not walking
  won,     \* the place a walk has won at Redis, its answer on the way
  unheard, \* history: the places it has won and never heard of, until they expire
  due,     \* connections whose renewal timer has fired
  since,   \* ticks since Redis last confirmed its place
  up, outages

keyVars == <<holder, left>>
walkVars == <<walk, won, unheard>>
socketVars == <<keyVars, conn, place, walkVars, due, since, up, outages>>

Place == 1..Places

SlotsTypeOK ==
  /\ holder \in [Place -> Connection \cup {Free}] /\ left \in [Place -> 0..Bound]
  /\ conn \in [Connection -> {"new", "claiming", "open", "refused", "closed"}]
  /\ place \in [Connection -> 0..Places] /\ walk \in [Connection -> 0..Places + 1]
  /\ won \in [Connection -> 0..Places] /\ unheard \in [Connection -> SUBSET Place]
  /\ due \subseteq Connection /\ since \in [Connection -> 0..Bound]
  /\ up \in BOOLEAN /\ outages \in 0..MaxOutages

SlotsInit ==
  /\ holder = [s \in Place |-> Free] /\ left = [s \in Place |-> 0]
  /\ conn = [c \in Connection |-> "new"] /\ place = [c \in Connection |-> 0]
  /\ walk = [c \in Connection |-> 0] /\ won = [c \in Connection |-> 0]
  /\ unheard = [c \in Connection |-> {}]
  /\ due = {} /\ since = [c \in Connection |-> Bound]
  /\ up = TRUE /\ outages = 0

--------------------------------------------------------------------------------
(* A walk over the places *)

Resting(c) == walk[c] = 0 /\ won[c] = 0

\* SET .. IFEQ under the connection's own id, or SET .. NX: the key lives anew.
Write(s, c) ==
  /\ holder' = [holder EXCEPT ![s] = c]
  /\ left' = [left EXCEPT ![s] = Bound]
  /\ since' = [since EXCEPT ![c] = 0]

\* The upgrade is authenticated; the place is claimed before the handshake.
Open(c) ==
  /\ conn[c] = "new"
  /\ conn' = [conn EXCEPT ![c] = "claiming"]
  /\ walk' = [walk EXCEPT ![c] = 1]
  /\ UNCHANGED <<keyVars, place, won, unheard, due, since, up, outages>>

TakePlace(c) ==
  /\ up /\ walk[c] \in Place /\ holder[walk[c]] = Free
  /\ Write(walk[c], c)
  /\ won' = [won EXCEPT ![c] = walk[c]]
  /\ walk' = [walk EXCEPT ![c] = 0]
  /\ UNCHANGED <<conn, place, unheard, due, up, outages>>

SkipPlace(c) ==
  /\ up /\ walk[c] \in Place /\ holder[walk[c]] # Free
  /\ walk' = [walk EXCEPT ![c] = @ + 1]
  /\ UNCHANGED <<keyVars, conn, place, won, unheard, due, since, up, outages>>

\* "unenforced": the connection is accepted, or goes on, all the same.  One that is
\* accepted so has no place and gets no renewal timer.
WalkFails(c) ==
  /\ ~up /\ walk[c] # 0
  /\ walk' = [walk EXCEPT ![c] = 0]
  /\ conn' = [conn EXCEPT ![c] = IF @ = "claiming" THEN "open" ELSE @]
  /\ UNCHANGED <<keyVars, place, won, unheard, due, since, up, outages>>

\* The gateway hears "claimed" or "reclaimed": also after the socket has closed.
HearPlace(c) ==
  /\ won[c] # 0
  /\ conn' = [conn EXCEPT ![c] = IF @ = "claiming" THEN "open" ELSE @]
  /\ place' = [place EXCEPT ![c] = won[c]]
  /\ won' = [won EXCEPT ![c] = 0]
  /\ UNCHANGED <<keyVars, walk, unheard, due, since, up, outages>>

\* The answer is lost, and that is "unenforced" again: the connection goes on without a
\* place, or with the one it had, and the place it has won stays under its id.
LosePlace(c) ==
  /\ won[c] # 0
  /\ \/ ~up /\ UNCHANGED outages
     \/ up /\ outages < MaxOutages /\ outages' = outages + 1
  /\ conn' = [conn EXCEPT ![c] = IF @ = "claiming" THEN "open" ELSE @]
  /\ unheard' = [unheard EXCEPT ![c] = @ \cup {won[c]}]
  /\ won' = [won EXCEPT ![c] = 0]
  /\ since' = [since EXCEPT ![c] = Bound]
  /\ UNCHANGED <<keyVars, place, walk, due, up>>

\* "full": refused with 4004, or closed with it, without a place to release.
HearFull(c) ==
  /\ walk[c] = Places + 1
  /\ conn' = [conn EXCEPT ![c] = IF @ = "claiming" THEN "refused" ELSE "closed"]
  /\ place' = [place EXCEPT ![c] = 0]
  /\ walk' = [walk EXCEPT ![c] = 0]
  /\ due' = due \ {c}
  /\ UNCHANGED <<keyVars, won, unheard, since, up, outages>>

--------------------------------------------------------------------------------
(* Renewal, release, time *)

\* Wrong: with XX, which asks only whether there is a key.
Owned_XX(c) == holder[place[c]] # Free

\* IFEQ: the key still holds this connection's id.
Owned(c) == holder[place[c]] = c

Renew(c) ==
  /\ c \in due /\ up /\ Owned(c)
  /\ Write(place[c], c)
  /\ due' = due \ {c}
  /\ UNCHANGED <<conn, place, walkVars, up, outages>>

\* The place is gone or somebody else's: one more walk.
RenewRefused(c) ==
  /\ c \in due /\ up /\ ~Owned(c)
  /\ walk' = [walk EXCEPT ![c] = 1]
  /\ due' = due \ {c}
  /\ UNCHANGED <<keyVars, conn, place, won, unheard, since, up, outages>>

RenewFails(c) ==
  /\ c \in due /\ ~up
  /\ due' = due \ {c}
  /\ UNCHANGED <<keyVars, conn, place, walkVars, since, up, outages>>

\* Wrong: DEL, without a look at whose key it is.
Released_Del(c) == IF place[c] # 0 /\ up THEN {place[c]} ELSE {}

Released(c) == {s \in Place : s = place[c] /\ holder[s] = c /\ up}

\* Wrong: the close handler leaves the timer running.
TimerGone_Runs(c) == conn[c] = "new"

TimerGone(c) == conn[c] # "open"

\* The close handler; a walk under way goes on.
Close(c) ==
  /\ conn[c] = "open"
  /\ conn' = [conn EXCEPT ![c] = "closed"]
  /\ holder' = [s \in Place |-> IF s \in Released(c) THEN Free ELSE holder[s]]
  /\ left' = [s \in Place |-> IF s \in Released(c) THEN 0 ELSE left[s]]
  /\ due' = due \ {c} /\ since' = [since EXCEPT ![c] = Bound]
  /\ UNCHANGED <<place, walkVars, up, outages>>

\* The process dies, or the client goes while its place is being claimed.
Die(c) ==
  /\ conn[c] \in {"claiming", "open"}
  /\ conn' = [conn EXCEPT ![c] = "closed"]
  /\ place' = [place EXCEPT ![c] = 0]
  /\ walk' = [walk EXCEPT ![c] = 0] /\ won' = [won EXCEPT ![c] = 0]
  /\ due' = due \ {c} /\ since' = [since EXCEPT ![c] = Bound]
  /\ UNCHANGED <<keyVars, unheard, up, outages>>

\* Timers fire at every tick, and have been served before the next.
Tick ==
  /\ due = {} /\ \A c \in Connection : Resting(c)
  /\ left' = [s \in Place |-> IF left[s] = 0 THEN 0 ELSE left[s] - 1]
  /\ holder' = [s \in Place |-> IF left[s] <= 1 THEN Free ELSE holder[s]]
  /\ since' = [c \in Connection |-> IF since[c] = Bound THEN Bound ELSE since[c] + 1]
  /\ due' = {c \in Connection : ~TimerGone(c) /\ place[c] # 0}
  /\ unheard' = [c \in Connection |-> {s \in unheard[c] : holder'[s] = c}]
  /\ UNCHANGED <<conn, place, walk, won, up, outages>>

GoDown ==
  /\ up /\ outages < MaxOutages
  /\ up' = FALSE /\ outages' = outages + 1
  /\ UNCHANGED <<keyVars, conn, place, walkVars, due, since>>

\* Redis keeps its keys, or has lost them.
GoUp ==
  /\ ~up /\ up' = TRUE
  /\ \/ UNCHANGED <<keyVars, since>>
     \/ /\ holder' = [s \in Place |-> Free] /\ left' = [s \in Place |-> 0]
        /\ since' = [c \in Connection |-> Bound]
  /\ UNCHANGED <<conn, place, walkVars, due, outages>>

--------------------------------------------------------------------------------
Answer(c) ==
  TakePlace(c) \/ SkipPlace(c) \/ WalkFails(c) \/ HearPlace(c) \/ LosePlace(c) \/ HearFull(c)
Serve(c) == Renew(c) \/ RenewRefused(c) \/ RenewFails(c)

SlotsNext ==
  \/ \E c \in Connection : Open(c) \/ Answer(c) \/ Serve(c) \/ Close(c) \/ Die(c)
  \/ Tick \/ GoDown \/ GoUp

SlotsSpec == SlotsInit /\ [][SlotsNext]_socketVars

\* Requests are answered, timers fire and Redis comes back; nobody has to open or close.
SlotsFairSpec ==
  /\ SlotsSpec
  /\ \A c \in Connection : WF_socketVars(Answer(c)) /\ WF_socketVars(Serve(c))
  /\ WF_socketVars(Tick) /\ WF_socketVars(GoUp)

--------------------------------------------------------------------------------
(* Properties *)

\* Whoever Redis has confirmed within the bound still has the place: no walk, renewal or
\* release of another connection takes it, however late.  And a connection takes no more
\* than that: what else is under its id was won by a walk whose answer was lost.
NoPlaceIsTaken ==
  /\ \A c \in Connection :
       conn[c] = "open" /\ place[c] # 0 /\ Resting(c) /\ since[c] < Bound =>
         holder[place[c]] = c /\ left[place[c]] = Bound - since[c]
  /\ \A c \in Connection, s \in Place :
       conn[c] \in {"claiming", "open"} /\ holder[s] = c => s \in {place[c], won[c]} \cup unheard[c]

\* The connections that believe they have a place and renew it.
Counted == {c \in Connection : conn[c] = "open" /\ place[c] # 0}

\* Redis comes back, having lost the places or after they have expired, and other
\* connections have taken them: in the end every connection that counts on a place has
\* one of its own and keeps it, so that there are no more of these than places.
CountedHavePlaces == <>[](\A c \in Counted : holder[place[c]] = c)

\* The places of connections that are gone, and those that a connection has without
\* knowing, come back, whoever did or did not release them.
Stray(c, s) ==
  holder[s] = c /\ (conn[c] = "closed" \/ (s \in unheard[c] /\ place[c] # s))
NoStrays == \A c \in Connection, s \in Place : ~Stray(c, s)
PlacesComeBack == ~NoStrays ~> NoStrays

\* What the code does not keep.  The cap, in the end, for the connections that were
\* accepted "unenforced" too: nothing counts or closes them.
CapIsRestored ==
  LET open == {c \in Connection : conn[c] = "open"}
  IN Cardinality(open) > Places ~> Cardinality(open) <= Places

\* session.ts:944: "a connection occupies exactly one place for its lifetime".
ExactlyOnePlace ==
  \A c \in Connection :
    conn[c] = "open" /\ Resting(c) /\ up => Cardinality({s \in Place : holder[s] = c}) = 1

\* A connection is told that there is no place only when others have them all.
FullIsOthers ==
  \A c \in Connection : walk[c] = Places + 1 => \A s \in Place : holder[s] # c
================================================================================
