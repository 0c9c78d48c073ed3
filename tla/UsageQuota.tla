------------------------------- MODULE UsageQuota -------------------------------
(* What a month's quota costs a send, and the mail about it: assertWithinQuota   *)
(* and the counting half of sendMessage in db/repository.ts, then                *)
(* drainQuotaNotifications with quotas/quota-relay.ts.                           *)
(*                                                                               *)
(* One environment, one period, both hard caps set.  The statements that read    *)
(* the usage take no lock, so each is a step of its own.  From the upsert of     *)
(* usage_periods on a send waits for nobody and everybody who counts waits for   *)
(* it, so the upsert and the rest of the transaction are one step.               *)
EXTENDS Naturals, FiniteSets

CONSTANTS
  Send,          \* sends, one transaction each
  Channel, User,
  Bot,           \* users whose kind is "bot"
  ChannelOf, UserOf,
  KeyOf, NoKey,  \* idempotency keys
  Nobody,        \* no holder of a lock, no row under way
  Threshold,     \* THRESHOLDS, in percent
  MessageCap,    \* quota_config.messages.hard
  UserCap,       \* quota_config.active_users.hard
  Relay,         \* processes that run the quota relay
  Recipients,    \* addresses of the organisation's members
  Batch,         \* rows a pass claims
  MaxRollbacks,  \* sends lost with their connection
  MaxTrouble     \* mails that throw and relays that crash, together

ASSUME SendsAssumption ==
  /\ IsFiniteSet(Send) /\ IsFiniteSet(Channel) /\ IsFiniteSet(User) /\ Nobody \notin Send
  /\ Bot \subseteq User
  /\ ChannelOf \in [Send -> Channel] /\ UserOf \in [Send -> User]
  /\ Send \subseteq DOMAIN KeyOf
ASSUME CapsAssumption == Threshold \subseteq 1..100 /\ MessageCap \in Nat \ {0} /\ UserCap \in Nat \ {0}
ASSUME BoundAssumption == MaxRollbacks \in Nat /\ MaxTrouble \in Nat

Notice == {"messages", "active_users"} \X Threshold
ASSUME RelayAssumption == Batch \in Nat \ {0} /\ Recipients \in Nat /\ Nobody \notin Notice

VARIABLES
  sent,         \* usage_periods.messages_sent
  active,       \* usage_active_users
  notices,      \* quota_notifications: a row per dimension and threshold
  channelLock,  \* the send that holds the channel's row
  pc,           \* where each send is
  readSent,     \* the usage it read
  delivered,    \* rows with delivered_at set
  claimed,      \* claimed[r]: the rows relay r has locked and not handled yet
  mailing,      \* mailing[r]: the row it is mailing, or Nobody
  reached,      \* reached[r]: recipients of that row that were sent the mail
  marked,       \* marked[r]: rows it has marked, not committed yet
  mails,        \* mails[n][a]: mails of row n that went to the a-th recipient
  rollbacks, trouble

usageVars == <<sent, active>>
sendVars == <<channelLock, pc, readSent, rollbacks>>
relayVars == <<delivered, claimed, mailing, reached, marked, mails, trouble>>
vars == <<usageVars, notices, sendVars, relayVars>>

InFlight == {"locked", "read", "unknown", "permitted"}
Over == {"sent", "duplicate", "over_messages", "over_users", "failed"}

TypeOK ==
  /\ sent \in Nat /\ active \subseteq User
  /\ notices \subseteq Notice /\ delivered \subseteq Notice
  /\ channelLock \in [Channel -> Send \cup {Nobody}]
  /\ pc \in [Send -> {"new"} \cup InFlight \cup Over]
  /\ readSent \in [Send -> Nat]
  /\ claimed \in [Relay -> SUBSET Notice] /\ marked \in [Relay -> SUBSET Notice]
  /\ mailing \in [Relay -> Notice \cup {Nobody}] /\ reached \in [Relay -> 0..Recipients]
  /\ mails \in [Notice -> [1..Recipients -> Nat]]
  /\ rollbacks \in 0..MaxRollbacks /\ trouble \in 0..MaxTrouble

Init ==
  /\ sent = 0 /\ active = {} /\ notices = {} /\ delivered = {}
  /\ channelLock = [c \in Channel |-> Nobody]
  /\ pc = [s \in Send |-> "new"] /\ readSent = [s \in Send |-> 0]
  /\ claimed = [r \in Relay |-> {}] /\ marked = [r \in Relay |-> {}]
  /\ mailing = [r \in Relay |-> Nobody] /\ reached = [r \in Relay |-> 0]
  /\ mails = [n \in Notice |-> [a \in 1..Recipients |-> 0]]
  /\ rollbacks = 0 /\ trouble = 0

--------------------------------------------------------------------------------
(* The send *)

Goto(s, label) == pc' = [pc EXCEPT ![s] = label]
Unlock(s) == channelLock' = [channelLock EXCEPT ![ChannelOf[s]] = Nobody]

\* A throw or a lost connection: the transaction leaves nothing behind.
Leave(s, label) ==
  /\ Goto(s, label) /\ Unlock(s)
  /\ UNCHANGED <<usageVars, notices, readSent, relayVars>>

Person(u) == u \notin Bot
Persons == {u \in active : Person(u)}

\* Wrong: a threshold counts as crossed only when it is exceeded.
Crossed_Exceeded(before, after, cap) ==
  {t \in Threshold : 100 * before <= t * cap /\ 100 * after > t * cap}

\* thresholdsCrossed: every mark the step from before to after reaches or passes.
Crossed(before, after, cap) ==
  {t \in Threshold : 100 * before < t * cap /\ 100 * after >= t * cap}

\* Wrong: the row is read without FOR UPDATE.
LockChannel_PlainRead(s) ==
  /\ pc[s] = "new"
  /\ Goto(s, "locked")
  /\ UNCHANGED <<usageVars, notices, channelLock, readSent, rollbacks, relayVars>>

\* SELECT ... FROM channels ... FOR UPDATE, ahead of the quota.
LockChannel(s) ==
  /\ pc[s] = "new"
  /\ channelLock[ChannelOf[s]] = Nobody
  /\ channelLock' = [channelLock EXCEPT ![ChannelOf[s]] = s]
  /\ Goto(s, "locked")
  /\ UNCHANGED <<usageVars, notices, readSent, rollbacks, relayVars>>

\* Wrong: off by one.
OverMessages_Past(n) == n > MessageCap

OverMessages(n) == n >= MessageCap

\* The caps and the usage, one joined read without a lock.  A refusal inserts the
\* crossing first, and throws it away with the transaction.
CheckMessages(s) ==
  /\ pc[s] = "locked"
  /\ IF OverMessages(sent)
       THEN Leave(s, "over_messages") /\ UNCHANGED rollbacks
       ELSE /\ readSent' = [readSent EXCEPT ![s] = sent]
            /\ Goto(s, IF Person(UserOf[s]) THEN "read" ELSE "permitted")
            /\ UNCHANGED <<usageVars, notices, channelLock, rollbacks, relayVars>>

\* A person who has sent this month is past the ceiling whatever it is.
CheckActive(s) ==
  /\ pc[s] = "read"
  /\ Goto(s, IF UserOf[s] \in active THEN "permitted" ELSE "unknown")
  /\ UNCHANGED <<usageVars, notices, channelLock, readSent, rollbacks, relayVars>>

Seated == Cardinality(Persons)

\* Wrong: off by one.
OverUsers_Past(n) == n > UserCap

OverUsers(n) == n >= UserCap

CheckCeiling(s) ==
  /\ pc[s] = "unknown"
  /\ IF OverUsers(Seated)
       THEN Leave(s, "over_users") /\ UNCHANGED rollbacks
       ELSE Goto(s, "permitted")
            /\ UNCHANGED <<usageVars, notices, channelLock, readSent, rollbacks, relayVars>>

IsDuplicate(s) ==
  \E t \in Send : /\ pc[t] = "sent" /\ ChannelOf[t] = ChannelOf[s]
                  /\ KeyOf[s] # NoKey /\ KeyOf[t] = KeyOf[s]

\* The insert met the key: the original is answered and nothing is counted.
AnswerDuplicate(s) ==
  /\ pc[s] = "permitted" /\ IsDuplicate(s)
  /\ Leave(s, "duplicate") /\ UNCHANGED rollbacks

\* ON CONFLICT DO UPDATE SET messages_sent = messages_sent + 1, under the row's lock.
Incremented(s) == sent + 1

\* Wrong: the users are counted before the row of this one is there.
UserCrossings_Before(users) ==
  {"active_users"} \X Crossed(Cardinality(active) - 1, Cardinality(active), UserCap)

\* The users are counted again, bots and all, by a statement that starts after the
\* upsert has waited.
UserCrossings(users) ==
  {"active_users"} \X Crossed(Cardinality(users) - 1, Cardinality(users), UserCap)

\* From the usage that was read, whatever it is by now.
MessageCrossings(s) == {"messages"} \X Crossed(readSent[s], readSent[s] + 1, MessageCap)

\* The message, its event, the usage, the active user, the crossings, the commit.
CommitSend(s) ==
  LET users == active \cup {UserOf[s]} IN
  /\ pc[s] = "permitted" /\ ~IsDuplicate(s)
  /\ sent' = Incremented(s)
  /\ active' = users
  /\ notices' = notices \cup MessageCrossings(s) \cup UserCrossings(users)
  /\ Goto(s, "sent") /\ Unlock(s)
  /\ UNCHANGED <<readSent, rollbacks, relayVars>>

RollBack(s) ==
  /\ pc[s] \in InFlight /\ rollbacks < MaxRollbacks
  /\ rollbacks' = rollbacks + 1
  /\ Leave(s, "failed")

--------------------------------------------------------------------------------
(* The quota relay: one transaction per pass *)

Held == UNION {claimed[r] \cup marked[r] \cup {mailing[r]} : r \in Relay}

\* delivered_at IS NULL ... FOR UPDATE SKIP LOCKED.
Due == (notices \ delivered) \ Held

Working(r) == claimed[r] # {} \/ mailing[r] # Nobody
AtRest(r) == ~Working(r) /\ marked[r] = {}

\* The oldest Batch rows; crossed_at is when a send began, so the order in which
\* rows become visible is not theirs and any Batch of them may be the oldest.
Claim(r) ==
  /\ AtRest(r)
  /\ \E rows \in SUBSET Due :
       /\ rows # {}
       /\ Cardinality(rows) <= Batch /\ (rows = Due \/ Cardinality(rows) = Batch)
       /\ claimed' = [claimed EXCEPT ![r] = rows]
  /\ UNCHANGED <<usageVars, notices, sendVars, delivered, mailing, reached, marked, mails, trouble>>

\* deliver reads the organisation's recipients and starts with the first.
BeginRow(r) ==
  /\ mailing[r] = Nobody
  /\ \E n \in claimed[r] :
       /\ mailing' = [mailing EXCEPT ![r] = n]
       /\ claimed' = [claimed EXCEPT ![r] = @ \ {n}]
  /\ UNCHANGED <<usageVars, notices, sendVars, delivered, reached, marked, mails, trouble>>

\* mailer.send, awaited, one recipient after the other.
MailOne(r) ==
  /\ mailing[r] # Nobody /\ reached[r] < Recipients
  /\ mails' = [mails EXCEPT ![mailing[r]][reached[r] + 1] = @ + 1]
  /\ reached' = [reached EXCEPT ![r] = @ + 1]
  /\ UNCHANGED <<usageVars, notices, sendVars, delivered, claimed, mailing, marked, trouble>>

EndRow(r) ==
  /\ mailing' = [mailing EXCEPT ![r] = Nobody]
  /\ reached' = [reached EXCEPT ![r] = 0]

\* UPDATE ... SET delivered_at, in the pass's transaction: at once, with no mail, where
\* no member has an address (Recipients = 0).
MarkRow(r) ==
  /\ mailing[r] # Nobody /\ reached[r] = Recipients
  /\ marked' = [marked EXCEPT ![r] = @ \cup {mailing[r]}]
  /\ EndRow(r)
  /\ UNCHANGED <<usageVars, notices, sendVars, delivered, claimed, mails, trouble>>

\* Wrong: a row whose mail threw is marked all the same.
MarkedAfterThrow_Too(r) == marked[r] \cup {mailing[r]}

MarkedAfterThrow(r) == marked[r]

\* The mail to one recipient throws: last_error, and on to the next row.  The
\* recipients before it have their mail.
MailThrows(r) ==
  /\ mailing[r] # Nobody /\ reached[r] < Recipients /\ trouble < MaxTrouble
  /\ trouble' = trouble + 1
  /\ marked' = [marked EXCEPT ![r] = MarkedAfterThrow(r)]
  /\ EndRow(r)
  /\ UNCHANGED <<usageVars, notices, sendVars, delivered, claimed, mails>>

CommitPass(r) ==
  /\ ~Working(r) /\ marked[r] # {}
  /\ delivered' = delivered \cup marked[r]
  /\ marked' = [marked EXCEPT ![r] = {}]
  /\ UNCHANGED <<usageVars, notices, sendVars, claimed, mailing, reached, mails, trouble>>

\* The marks go with the transaction, the mails do not come back.
RelayCrashes(r) ==
  /\ ~AtRest(r) /\ trouble < MaxTrouble
  /\ trouble' = trouble + 1
  /\ claimed' = [claimed EXCEPT ![r] = {}]
  /\ marked' = [marked EXCEPT ![r] = {}]
  /\ EndRow(r)
  /\ UNCHANGED <<usageVars, notices, sendVars, delivered, mails>>

--------------------------------------------------------------------------------
SendStep(s) ==
  \/ LockChannel(s) \/ CheckMessages(s) \/ CheckActive(s) \/ CheckCeiling(s)
  \/ AnswerDuplicate(s) \/ CommitSend(s)
RelayStep(r) == Claim(r) \/ BeginRow(r) \/ MailOne(r) \/ MarkRow(r) \/ CommitPass(r)

Next ==
  \/ \E s \in Send : SendStep(s) \/ RollBack(s)
  \/ \E r \in Relay : RelayStep(r) \/ MailThrows(r) \/ RelayCrashes(r)

Spec == Init /\ [][Next]_vars

\* The relay's loop does not end; nobody is forced to send.
FairSpec == Spec /\ \A r \in Relay : WF_vars(RelayStep(r))

--------------------------------------------------------------------------------
\* What is billed is what was written, whatever raced: one for every send that
\* committed a message, none for a duplicate, a refusal or a rollback.
UsageIsExact == sent = Cardinality({s \in Send : pc[s] = "sent"})

\* "The overshoot is bounded by concurrency": the channel's lock comes before the
\* read, so at most one send per channel acts on a usage that has grown since.
OvershootIsBounded == sent + 1 <= MessageCap + Cardinality(Channel)

\* The ceiling on persons is overshot by no more than that either, and bots do not
\* take up its seats: a person is turned away only when the seats are taken.
CeilingIsForPersons ==
  /\ Cardinality(Persons) + 1 <= UserCap + Cardinality(Channel)
  /\ (\E s \in Send : pc[s] = "over_users") => Cardinality(Persons) >= UserCap

\* No mark on the way to the users' ceiling is passed in silence, although every
\* send counts for itself.
UserMarksAreNoticed ==
  \A t \in Threshold :
    100 * Cardinality(active) >= t * UserCap => <<"active_users", t>> \in notices

\* A second mail about the same row is the price of a throw or a crash, never of
\* two relays, and no more than one for each of them.
MailsArePaidFor ==
  \A n \in Notice : \A a \in 1..Recipients : mails[n][a] <= 1 + trouble

\* Every crossing that is recorded reaches every recipient there is in the end.
NoticesAreMailed ==
  \A n \in Notice : n \in notices ~> \A a \in 1..Recipients : mails[n][a] > 0

\* "The email has to survive the send that did not, so the row goes in first": who
\* is refused for the message quota has been told that it is used up.
RefusedIsNoticed ==
  (\E s \in Send : pc[s] = "over_messages") => <<"messages", 100>> \in notices
================================================================================
