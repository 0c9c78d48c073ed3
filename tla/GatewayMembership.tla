--------------------------- MODULE GatewayMembership ---------------------------
(***************************************************************************)
(* How a change of membership reaches the open connections of one gateway   *)
(* instance.  The api commits the change and then publishes it, at most     *)
(* once, on the channel's subject, the user's, or both; the instance hears  *)
(* only the subjects it is subscribed to; and every connection re-reads its *)
(* own channels from the api on a timer and applies the difference.         *)
(*                                                                          *)
(* A channel's four subjects (messages, presence, membership, typing) are   *)
(* always subscribed and released together, by reference counts that move   *)
(* together, and appear as one.  The user's own subject is subscribed while *)
(* the user has a connection here; the time its SUBSCRIBE takes belongs to  *)
(* the "looked" phase.  A connection is opened once: a user who comes back  *)
(* is another connection.                                                   *)
(***************************************************************************)
EXTENDS Naturals, FiniteSets

CONSTANTS User,
          Channel,
          Connection,
          UserOf,       \* UserOf[k]: who opened k
          MaxChanges,   \* bound: memberships added or removed
          MaxBans,      \* bound: bans
          MaxFaults     \* bound: publishes never made and SUBSCRIBEs that fail

ASSUME UserAssumption == UserOf \in [Connection -> User] /\ IsFiniteSet(Connection)
ASSUME ChangesAssumption ==
  MaxChanges \in Nat /\ MaxBans \in Nat /\ MaxFaults \in Nat

VARIABLES
  member,       \* the members table: <<u, c>>
  banned,       \* users with banned_at set
  news,         \* changes committed and still to be published, one entry per subject
  pc,           \* pc[k]: "new", "looked" (session answered), "open" or "closed"
  held,         \* held[k]: channelIds
  count,        \* count[c]: the fabric's reference count
  subject,      \* subject[c] at the fabric: "off", "pending" or "on"
  waiting,      \* <<k, c>>: additions whose SUBSCRIBE is being awaited
  rereading,    \* connections whose re-read has been answered and not applied
  truth,        \* truth[k]: what it was answered
  changes, bans, losses, failures

storeVars == <<member, banned>>
fabricVars == <<count, subject, waiting>>
rereadVars == <<rereading, truth>>
boundVars == <<changes, bans, losses, failures>>
membershipVars == <<storeVars, news, pc, held, fabricVars, rereadVars, boundVars>>

SubjectState == {"off", "pending", "on"}

Change == [user : User, channels : {{c} : c \in Channel} \cup {Channel},
           kind : {"added", "removed"}, via : {"channel", "user"}]

MembershipTypeOK ==
  /\ member \in SUBSET (User \X Channel)
  /\ banned \in SUBSET User
  /\ news \in SUBSET Change
  /\ pc \in [Connection -> {"new", "looked", "open", "closed"}]
  /\ held \in [Connection -> SUBSET Channel]
  /\ count \in [Channel -> Nat]
  /\ subject \in [Channel -> SubjectState]
  /\ waiting \in SUBSET (Connection \X Channel)
  /\ \A w \in waiting : subject[w[2]] = "pending"
  /\ rereading \in SUBSET Connection
  /\ truth \in [Connection -> SUBSET Channel]
  /\ changes \in 0..MaxChanges /\ bans \in 0..MaxBans
  /\ losses \in 0..MaxFaults /\ failures \in 0..MaxFaults

MembershipInit ==
  /\ member \in SUBSET (User \X Channel)
  /\ banned = {}
  /\ news = {}
  /\ pc = [k \in Connection |-> "new"]
  /\ held = [k \in Connection |-> {}]
  /\ count = [c \in Channel |-> 0]
  /\ subject = [c \in Channel |-> "off"]
  /\ waiting = {}
  /\ rereading = {}
  /\ truth = [k \in Connection |-> {}]
  /\ changes = 0 /\ bans = 0 /\ losses = 0 /\ failures = 0

ChannelsOf(u) == {c \in Channel : <<u, c>> \in member}
OpenOf(u) == {k \in Connection : pc[k] = "open" /\ UserOf[k] = u}

-------------------------------------------------------------------------------
(***************************************************************************)
(* The api: commit, then publish.  An addition goes out on the channel's    *)
(* subject and on the user's, a removal on the channel's, a ban on the      *)
(* user's, and an unban on none.                                            *)
(***************************************************************************)
gatewayVars == <<pc, held, fabricVars, rereadVars>>

AddMember(u, c) ==
  /\ changes < MaxChanges
  /\ <<u, c>> \notin member
  /\ member' = member \cup {<<u, c>>}
  /\ news' = news \cup [user : {u}, channels : {{c}}, kind : {"added"}, via : {"channel", "user"}]
  /\ changes' = changes + 1
  /\ UNCHANGED <<banned, gatewayVars, bans, losses, failures>>

RemoveMember(u, c) ==
  /\ changes < MaxChanges
  /\ <<u, c>> \in member
  /\ member' = member \ {<<u, c>>}
  /\ news' = news \cup [user : {u}, channels : {{c}}, kind : {"removed"}, via : {"channel"}]
  /\ changes' = changes + 1
  /\ UNCHANGED <<banned, gatewayVars, bans, losses, failures>>

\* A ban sets users.banned_at and leaves the members rows alone.
Ban(u) ==
  /\ bans < MaxBans
  /\ u \notin banned
  /\ banned' = banned \cup {u}
  /\ news' = IF ChannelsOf(u) = {} THEN news
             ELSE news \cup [user : {u}, channels : {Channel}, kind : {"removed"}, via : {"user"}]
  /\ bans' = bans + 1
  /\ UNCHANGED <<member, gatewayVars, changes, losses, failures>>

Unban(u) ==
  /\ u \in banned
  /\ banned' = banned \ {u}
  /\ UNCHANGED <<member, news, gatewayVars, boundVars>>

\* The api dies before it publishes, or Redis refuses: logged, never retried.
LoseChange(n) ==
  /\ losses + failures < MaxFaults
  /\ n \in news
  /\ news' = news \ {n}
  /\ losses' = losses + 1
  /\ UNCHANGED <<storeVars, gatewayVars, changes, bans, failures>>

-------------------------------------------------------------------------------
(***************************************************************************)
(* deliverMembership: one synchronous call takes the user u out of the      *)
(* channels gone and into the channels new, on every open connection of u.  *)
(***************************************************************************)
\* Wrong: releases the channel for connections of the user that do not hold it.
Losers_AllOfUser(u, c) == OpenOf(u)

Losers(u, c) == {k \in OpenOf(u) : c \in held[k]}

Gainers(u, c) == OpenOf(u)

Released(c, n) == IF n < count[c] THEN count[c] - n ELSE 0

\* Only the call that moves a count from 0 to 1 issues the SUBSCRIBE and awaits it
\* before it inserts the channel; every other call goes on at once.  An addition
\* is counted for a connection that holds the channel already, too.
Deliver(u, gone, new) ==
  LET fresh == {c \in new : count[c] = 0 /\ Gainers(u, c) # {}}
  IN \E first \in OpenOf(u) \cup {CHOOSE k \in Connection : TRUE} :
       /\ OpenOf(u) # {} => first \in OpenOf(u)
       /\ held' = [k \in Connection |->
            IF k \in OpenOf(u)
            THEN (held[k] \ gone) \cup {c \in new : c \notin fresh \/ k # first}
            ELSE held[k]]
       /\ waiting' = waiting \cup ({first} \X fresh)
       /\ count' = [c \in Channel |->
            IF c \in gone THEN Released(c, Cardinality(Losers(u, c)))
            ELSE IF c \in new THEN count[c] + Cardinality(Gainers(u, c))
            ELSE count[c]]
       /\ subject' = [c \in Channel |->
            IF c \in fresh THEN "pending"
            ELSE IF c \in gone /\ Losers(u, c) # {} /\ count'[c] = 0 THEN "off"
            ELSE subject[c]]

Heard(n) ==
  IF n.via = "user" THEN OpenOf(n.user) # {}
  ELSE \E c \in n.channels : subject[c] = "on"

\* A published change reaches the instance if it is subscribed at that moment.
PublishChange(n) ==
  /\ n \in news
  /\ news' = news \ {n}
  /\ IF ~Heard(n) THEN UNCHANGED <<held, fabricVars>>
     ELSE IF n.kind = "added" THEN Deliver(n.user, {}, n.channels)
     ELSE Deliver(n.user, n.channels, {})
  /\ UNCHANGED <<storeVars, pc, rereadVars, boundVars>>

-------------------------------------------------------------------------------
(***************************************************************************)
(* The fabric.                                                              *)
(***************************************************************************)
SubscribeLands(c) ==
  /\ subject[c] = "pending"
  /\ subject' = [subject EXCEPT ![c] = "on"]
  /\ held' = [k \in Connection |-> IF <<k, c>> \in waiting THEN held[k] \cup {c} ELSE held[k]]
  /\ waiting' = {w \in waiting : w[2] # c}
  /\ UNCHANGED <<storeVars, news, pc, count, rereadVars, boundVars>>

\* A SUBSCRIBE that fails is logged.  The count it was issued under stays, and an
\* addition that awaited it is dropped.
SubscribeFails(c) ==
  /\ losses + failures < MaxFaults
  /\ subject[c] = "pending"
  /\ subject' = [subject EXCEPT ![c] = "off"]
  /\ waiting' = {w \in waiting : w[2] # c}
  /\ failures' = failures + 1
  /\ UNCHANGED <<storeVars, news, pc, held, count, rereadVars,
                 changes, bans, losses>>

-------------------------------------------------------------------------------
(***************************************************************************)
(* A connection: session lookup, handshake, timer, close.                   *)
(***************************************************************************)
\* The session route answers the channels, and refuses a banned user.
LookUpSession(k) ==
  /\ pc[k] = "new"
  /\ IF UserOf[k] \in banned
     THEN pc' = [pc EXCEPT ![k] = "closed"] /\ UNCHANGED held
     ELSE /\ pc' = [pc EXCEPT ![k] = "looked"]
          /\ held' = [held EXCEPT ![k] = ChannelsOf(UserOf[k])]
  /\ UNCHANGED <<storeVars, news, fabricVars, rereadVars, boundVars>>

OpenConnection(k) ==
  /\ pc[k] = "looked"
  /\ pc' = [pc EXCEPT ![k] = "open"]
  /\ count' = [c \in Channel |-> IF c \in held[k] THEN count[c] + 1 ELSE count[c]]
  /\ subject' = [c \in Channel |->
       IF c \in held[k] /\ count[c] = 0 THEN "pending" ELSE subject[c]]
  /\ UNCHANGED <<storeVars, news, held, waiting, rereadVars, boundVars>>

CloseConnection(k) ==
  /\ pc[k] = "open"
  /\ pc' = [pc EXCEPT ![k] = "closed"]
  /\ count' = [c \in Channel |-> IF c \in held[k] THEN Released(c, 1) ELSE count[c]]
  /\ subject' = [c \in Channel |->
       IF c \in held[k] /\ count'[c] = 0 THEN "off" ELSE subject[c]]
  /\ UNCHANGED <<storeVars, news, held, waiting, rereadVars, boundVars>>

\* The api answers a re-read with the members rows; nobody asks about a ban here.
ReadMemberships(k) ==
  /\ pc[k] = "open"
  /\ k \notin rereading
  /\ rereading' = rereading \cup {k}
  /\ truth' = [truth EXCEPT ![k] = ChannelsOf(UserOf[k])]
  /\ UNCHANGED <<storeVars, news, pc, held, fabricVars, boundVars>>

\* Wrong: the re-read only ever adds.
Gone_Never(k) == {}

Gone(k) == held[k] \ truth[k]

Gained(k) == truth[k] \ held[k]

\* The difference is taken against channelIds as they are NOW, not when the api
\* read the rows, and also if the connection has closed meanwhile.
ApplyReread(k) ==
  /\ k \in rereading
  /\ Deliver(UserOf[k], Gone(k), Gained(k))
  /\ rereading' = rereading \ {k}
  /\ truth' = [truth EXCEPT ![k] = {}]
  /\ UNCHANGED <<storeVars, news, pc, boundVars>>

RereadStep(k) == ReadMemberships(k) \/ ApplyReread(k)

MembershipNext ==
  \/ \E u \in User :
       \/ \E c \in Channel : AddMember(u, c) \/ RemoveMember(u, c)
       \/ Ban(u) \/ Unban(u)
  \/ \E n \in news : LoseChange(n) \/ PublishChange(n)
  \/ \E c \in Channel : SubscribeLands(c) \/ SubscribeFails(c)
  \/ \E k \in Connection :
       LookUpSession(k) \/ OpenConnection(k) \/ CloseConnection(k) \/ RereadStep(k)

MembershipSpec == MembershipInit /\ [][MembershipNext]_membershipVars

\* The re-read timer of an open connection keeps firing and the api answers, a
\* session that was looked up is opened, and a SUBSCRIBE lands unless it fails.
MembershipFairSpec ==
  /\ MembershipSpec
  /\ \A k \in Connection : WF_membershipVars(RereadStep(k)) /\ WF_membershipVars(OpenConnection(k))
  /\ \A c \in Channel : WF_membershipVars(SubscribeLands(c))

-------------------------------------------------------------------------------
\* As long as no SUBSCRIBE fails, a connection that holds a channel is never cut off
\* from it: whatever releases the channel for others, doubled additions and late
\* re-reads included, the instance stays subscribed.
HeldIsSubscribed ==
  failures = 0 =>
    \A k \in Connection : pc[k] = "open" => \A c \in held[k] : subject[c] # "off"

\* The backstop converges: once a user's membership of a channel stops changing,
\* every connection that stays open ends up holding the channel if and only if the
\* user is a member, whatever was lost, doubled or applied late.
Converges ==
  \A k \in Connection, c \in Channel :
    /\ <>[](pc[k] = "open" /\ <<UserOf[k], c>> \in member) => <>[](c \in held[k])
    /\ <>[](pc[k] = "open" /\ <<UserOf[k], c>> \notin member) => <>[](c \notin held[k])

\* What the tests say of a ban: after the clause's five seconds nothing is delivered
\* on the connections the banned user still has open, so none of them may come to
\* hold a channel again.
BanSilences ==
  [][\A k \in Connection :
       pc[k] = "open" /\ UserOf[k] \in banned => held'[k] \subseteq held[k]]_membershipVars
===============================================================================
