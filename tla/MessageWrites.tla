----------------------------- MODULE MessageWrites -----------------------------
(* The three transactions that write messages: sendMessage, editMessage and      *)
(* deleteMessage of db/repository.ts, with the administration they race.        *)
(*                                                                              *)
(* PostgreSQL runs them at READ COMMITTED: a plain SELECT sees what had been     *)
(* committed when that statement ran, an UPDATE or SELECT FOR UPDATE waits for   *)
(* the row lock and then sees the row as it has become.  A step below is one     *)
(* such statement together with what needs no further waiting; what a            *)
(* transaction writes becomes visible in its last step, which also releases its  *)
(* row locks.                                                                    *)
(*                                                                              *)
(* A text is named by the request that wrote it.                                 *)
EXTENDS Naturals, FiniteSets

CONSTANTS
  Channel,      \* channels of the environment
  Private,      \* those of type "private"
  User,
  Bot,          \* users whose kind is "bot"
  Send, Edit, Delete,   \* requests, one transaction each
  Application,  \* the user of a request made with an application key
  UserOf,       \* who sends, edits or deletes
  ByKey,        \* sends made with an application key, in the name of UserOf
  ChannelOf,    \* the channel a send names
  KeyOf,        \* its idempotency key, or NoKey
  NoKey,
  Nobody,       \* no row lock, no writer, no message
  Tombstone,    \* the text of a deleted message (NULL)
  MaxRollbacks, \* transactions lost with their connection
  MaxAdmin      \* bans, archivings and removals of members, together

Request == Send \cup Edit \cup Delete
Revision == Edit \cup Delete

ASSUME RequestsAssumption ==
  /\ Send \cap Edit = {} /\ Send \cap Delete = {} /\ Edit \cap Delete = {}
  /\ Nobody \notin Request /\ Tombstone \notin Request \cup {Nobody}
ASSUME ParametersAssumption ==
  /\ Private \subseteq Channel /\ Bot \subseteq User /\ Application \notin User
  /\ UserOf \in [Request -> User \cup {Application}]
  /\ \A r \in Send \cup Edit : UserOf[r] \in User
  /\ ByKey \subseteq Send
  /\ ChannelOf \in [Send -> Channel] /\ Send \subseteq DOMAIN KeyOf
ASSUME BoundAssumption == IsFiniteSet(Send) /\ MaxRollbacks \in Nat /\ MaxAdmin \in Nat

Message == Channel \X (1..Cardinality(Send))

VARIABLES
  last,         \* last[c]: channels.last_sequence
  archived,     \* channels with archived_at set
  banned,       \* users with banned_at set
  member,       \* the members table: <<u, c>>
  maker,        \* maker[m]: the send whose row m is, or Nobody
  text,         \* text[m]: the request whose text m has, Tombstone, or Nobody
  edits,        \* message_edits: a record per revision
  channelLock,  \* channelLock[c]: the transaction that holds the channel's row
  messageLock,  \* messageLock[m]: the transaction that holds the message's row
  pc,           \* where each request is
  target,       \* the message it is about: for a send, what it was answered
  seq,          \* seq[s]: the sequence the send computed from the row it read
  prior,        \* prior[r]: the text the revision read first
  rollbacks, admin

storeVars == <<last, archived, banned, member, maker, text, edits>>
lockVars == <<channelLock, messageLock>>
requestVars == <<pc, target, seq, prior>>
boundVars == <<rollbacks, admin>>
vars == <<storeVars, lockVars, requestVars, boundVars>>

Waiting == {"new", "read", "locked", "permitted", "updated"}
Over == {"refused", "failed", "sent", "duplicate", "revised", "already"}

HistoryRow == [of : Message, said : Request \cup {Tombstone, Nobody}, endedBy : Revision]

TypeOK ==
  /\ last \in [Channel -> 0..Cardinality(Send)]
  /\ archived \subseteq Channel /\ banned \subseteq User
  /\ member \subseteq User \X Channel
  /\ maker \in [Message -> Send \cup {Nobody}]
  /\ text \in [Message -> Send \cup Edit \cup {Tombstone, Nobody}]
  /\ edits \subseteq HistoryRow
  /\ channelLock \in [Channel -> Request \cup {Nobody}]
  /\ messageLock \in [Message -> Revision \cup {Nobody}]
  /\ pc \in [Request -> Waiting \cup Over]
  /\ target \in [Request -> Message \cup {Nobody}]
  /\ seq \in [Send -> 0..Cardinality(Send) + 1]
  /\ prior \in [Revision -> Send \cup Edit \cup {Nobody}]
  /\ rollbacks \in 0..MaxRollbacks /\ admin \in 0..MaxAdmin

Init ==
  /\ last = [c \in Channel |-> 0]
  /\ archived = {} /\ banned = {}
  /\ member = User \X Channel
  /\ maker = [m \in Message |-> Nobody]
  /\ text = [m \in Message |-> Nobody]
  /\ edits = {}
  /\ channelLock = [c \in Channel |-> Nobody]
  /\ messageLock = [m \in Message |-> Nobody]
  /\ pc = [r \in Request |-> "new"]
  /\ target = [r \in Request |-> Nobody]
  /\ seq = [s \in Send |-> 0]
  /\ prior = [r \in Revision |-> Nobody]
  /\ rollbacks = 0 /\ admin = 0

--------------------------------------------------------------------------------
Goto(r, label) == pc' = [pc EXCEPT ![r] = label]

\* Commit or rollback: every row lock of r goes.
ReleaseLocks(r) ==
  /\ channelLock' = [c \in Channel |-> IF channelLock[c] = r THEN Nobody ELSE channelLock[c]]
  /\ messageLock' = [m \in Message |-> IF messageLock[m] = r THEN Nobody ELSE messageLock[m]]

LockChannelRow(r, c) ==
  /\ channelLock[c] = Nobody
  /\ channelLock' = [channelLock EXCEPT ![c] = r]

\* A transaction that throws leaves nothing behind.
Refuse(r) ==
  /\ Goto(r, "refused") /\ ReleaseLocks(r)
  /\ UNCHANGED <<storeVars, target, seq, prior, boundVars>>

\* The process or the connection is lost before the commit.
RollBack(r) ==
  /\ pc[r] \in Waiting \ {"new"} /\ rollbacks < MaxRollbacks
  /\ rollbacks' = rollbacks + 1
  /\ Goto(r, "failed") /\ ReleaseLocks(r)
  /\ UNCHANGED <<storeVars, target, seq, prior, admin>>

--------------------------------------------------------------------------------
(* sendMessage *)

IsPerson(r) == UserOf[r] \notin Bot
IsMember(r, c) == <<UserOf[r], c>> \in member

\* The ban, ahead of the channel.
ReadSender(s) ==
  /\ pc[s] = "new"
  /\ IF UserOf[s] \in banned
       THEN Refuse(s)
       ELSE Goto(s, "read") /\ UNCHANGED <<storeVars, lockVars, target, seq, prior, boundVars>>

\* Wrong: the row is read without FOR UPDATE.
LockChannel_PlainRead(s) ==
  /\ pc[s] = "read"
  /\ Goto(s, "locked")
  /\ seq' = [seq EXCEPT ![s] = last[ChannelOf[s]] + 1]
  /\ UNCHANGED <<storeVars, lockVars, target, prior, boundVars>>

\* SELECT ... FROM channels ... FOR UPDATE.
LockChannel(s) ==
  /\ pc[s] = "read"
  /\ LockChannelRow(s, ChannelOf[s])
  /\ Goto(s, "locked")
  /\ seq' = [seq EXCEPT ![s] = last[ChannelOf[s]] + 1]
  /\ UNCHANGED <<storeVars, messageLock, target, prior, boundVars>>

MayWrite(s, c) ==
  /\ c \in Private /\ IsPerson(s) => IsMember(s, c)
  /\ s \in ByKey => ~IsPerson(s)
  /\ c \notin archived

\* Visibility, the sender's kind, the archive flag that came with the locked row.
Permit(s) ==
  /\ pc[s] = "locked"
  /\ IF MayWrite(s, ChannelOf[s])
       THEN Goto(s, "permitted") /\ UNCHANGED <<storeVars, lockVars, target, seq, prior, boundVars>>
       ELSE Refuse(s)

SameKey(s, m) ==
  /\ maker[m] # Nobody /\ m[1] = ChannelOf[s]
  /\ KeyOf[s] # NoKey /\ KeyOf[maker[m]] = KeyOf[s]

\* Wrong: a recognised duplicate spends a sequence.
AnswerDuplicate_Spends(s) ==
  /\ pc[s] = "permitted"
  /\ \E m \in Message : SameKey(s, m) /\ target' = [target EXCEPT ![s] = m]
  /\ last' = [last EXCEPT ![ChannelOf[s]] = seq[s]]
  /\ Goto(s, "duplicate") /\ ReleaseLocks(s)
  /\ UNCHANGED <<archived, banned, member, maker, text, edits, seq, prior, boundVars>>

\* The insert meets the key: nothing is written, the original is answered.
AnswerDuplicate(s) ==
  /\ pc[s] = "permitted"
  /\ \E m \in Message : SameKey(s, m) /\ target' = [target EXCEPT ![s] = m]
  /\ Goto(s, "duplicate") /\ ReleaseLocks(s)
  /\ UNCHANGED <<storeVars, seq, prior, boundVars>>

\* The insert lands; the sequence, the event and the usage commit with it.
CommitSend(s) ==
  LET m == <<ChannelOf[s], seq[s]>> IN
  /\ pc[s] = "permitted"
  /\ \A n \in Message : ~SameKey(s, n)
  /\ last' = [last EXCEPT ![ChannelOf[s]] = seq[s]]
  /\ maker' = [maker EXCEPT ![m] = s]
  /\ text' = [text EXCEPT ![m] = s]
  /\ target' = [target EXCEPT ![s] = m]
  /\ Goto(s, "sent") /\ ReleaseLocks(s)
  /\ UNCHANGED <<archived, banned, member, edits, seq, prior, boundVars>>

--------------------------------------------------------------------------------
(* editMessage and deleteMessage *)

\* channelVisibleTo, which asks a bot for its membership too.
Visible(r, c) == c \notin Private \/ UserOf[r] = Application \/ IsMember(r, c)
Wrote(r, m) == UserOf[maker[m]] = UserOf[r]

\* The first SELECT: no lock, and the text it returns is kept for the history.
ReadMessage(r, m) ==
  /\ Goto(r, "read")
  /\ target' = [target EXCEPT ![r] = m]
  /\ prior' = [prior EXCEPT ![r] = text[m]]
  /\ UNCHANGED <<storeVars, lockVars, seq, boundVars>>

BeginEdit(e) ==
  /\ pc[e] = "new"
  /\ \E m \in Message :
       /\ maker[m] # Nobody
       /\ IF Visible(e, m[1]) /\ Wrote(e, m) /\ text[m] # Tombstone
            THEN ReadMessage(e, m)
            ELSE Refuse(e)

MayDelete(d, m) == Visible(d, m[1]) /\ (UserOf[d] = Application \/ Wrote(d, m))

BeginDelete(d) ==
  /\ pc[d] = "new"
  /\ \E m \in Message :
       /\ maker[m] # Nobody
       /\ \/ ~MayDelete(d, m) /\ Refuse(d)
          \/ MayDelete(d, m) /\ text[m] # Tombstone /\ ReadMessage(d, m)
          \/ /\ MayDelete(d, m) /\ text[m] = Tombstone
             /\ Goto(d, "already")
             /\ UNCHANGED <<storeVars, lockVars, target, seq, prior, boundVars>>

LockMessageRow(r) ==
  /\ messageLock[target[r]] = Nobody
  /\ messageLock' = [messageLock EXCEPT ![target[r]] = r]
  /\ Goto(r, "updated")
  /\ UNCHANGED <<storeVars, channelLock, target, seq, prior, boundVars>>

\* Wrong: WHERE id = ... alone.
UpdateForEdit_ById(e) == pc[e] = "read" /\ LockMessageRow(e)

\* UPDATE messages SET text WHERE id = ... AND deleted_at IS NULL: it waits for the
\* row and then looks at the row again.
UpdateForEdit(e) ==
  /\ pc[e] = "read"
  /\ \/ text[target[e]] # Tombstone /\ LockMessageRow(e)
     \/ messageLock[target[e]] = Nobody /\ text[target[e]] = Tombstone /\ Refuse(e)

\* UPDATE messages SET text = NULL, deleted_at WHERE id = ...
UpdateForDelete(d) == pc[d] = "read" /\ LockMessageRow(d)

\* INSERT INTO message_edits: the text that was read, whichever it is now.
HistoryOf(r) == {[of |-> target[r], said |-> prior[r], endedBy |-> r]}

\* UPDATE channels SET revision_sequence = revision_sequence + 1 waits for the
\* channel's row; what follows it waits for nothing.
CommitRevision(r) ==
  /\ pc[r] = "updated"
  /\ channelLock[target[r][1]] \in {Nobody, r}
  /\ text' = [text EXCEPT ![target[r]] = IF r \in Edit THEN r ELSE Tombstone]
  /\ edits' = edits \cup HistoryOf(r)
  /\ Goto(r, "revised") /\ ReleaseLocks(r)
  /\ UNCHANGED <<last, archived, banned, member, maker, target, seq, prior, boundVars>>

--------------------------------------------------------------------------------
(* Administration: each is one UPDATE or DELETE, committed at once. *)

Administer == admin < MaxAdmin /\ admin' = admin + 1 /\ UNCHANGED rollbacks

Archive(c) ==
  /\ Administer /\ channelLock[c] = Nobody /\ c \notin archived
  /\ archived' = archived \cup {c}
  /\ UNCHANGED <<last, banned, member, maker, text, edits, lockVars, requestVars>>

Unarchive(c) ==
  /\ channelLock[c] = Nobody /\ c \in archived
  /\ archived' = archived \ {c}
  /\ UNCHANGED <<last, banned, member, maker, text, edits, lockVars, requestVars, boundVars>>

Ban(u) ==
  /\ Administer /\ u \notin banned
  /\ banned' = banned \cup {u}
  /\ UNCHANGED <<last, archived, member, maker, text, edits, lockVars, requestVars>>

Unban(u) ==
  /\ u \in banned
  /\ banned' = banned \ {u}
  /\ UNCHANGED <<last, archived, member, maker, text, edits, lockVars, requestVars, boundVars>>

RemoveMember(u, c) ==
  /\ Administer /\ <<u, c>> \in member
  /\ member' = member \ {<<u, c>>}
  /\ UNCHANGED <<last, archived, banned, maker, text, edits, lockVars, requestVars>>

--------------------------------------------------------------------------------
SendStep(s) ==
  ReadSender(s) \/ LockChannel(s) \/ Permit(s) \/ AnswerDuplicate(s) \/ CommitSend(s)
EditStep(e) == BeginEdit(e) \/ UpdateForEdit(e)
DeleteStep(d) == BeginDelete(d) \/ UpdateForDelete(d)

Next ==
  \/ \E s \in Send : SendStep(s)
  \/ \E e \in Edit : EditStep(e)
  \/ \E d \in Delete : DeleteStep(d)
  \/ \E r \in Revision : CommitRevision(r)
  \/ \E r \in Request : RollBack(r)
  \/ \E c \in Channel : Archive(c) \/ Unarchive(c) \/ \E u \in User : RemoveMember(u, c)
  \/ \E u \in User : Ban(u) \/ Unban(u)

Spec == Init /\ [][Next]_vars

\* A statement whose row lock is free runs in the end; nobody is forced to make a request.
StatementOf(r) ==
  \/ r \in Send /\ pc[r] # "new" /\ SendStep(r)
  \/ r \in Edit /\ UpdateForEdit(r)
  \/ r \in Delete /\ UpdateForDelete(r)
  \/ r \in Revision /\ CommitRevision(r)
FairSpec == Spec /\ \A r \in Request : WF_vars(StatementOf(r))

--------------------------------------------------------------------------------
\* A channel's messages have the sequences 1 to last_sequence, all of them: the
\* resume cursor is a sequence and a hole would be a message nobody can fetch.
DenseSequences ==
  \A c \in Channel : {m[2] : m \in {n \in Message : n[1] = c /\ maker[n] # Nobody}} = 1..last[c]

Answered == {s \in Send : pc[s] \in {"sent", "duplicate"}}

\* Two sends are answered the same message exactly when they carry the same key for
\* the same channel: a retry that overlaps the original neither writes twice nor is
\* given somebody else's message.
AnswersFollowKeys ==
  \A s, t \in Answered : s # t =>
    (target[s] = target[t] <=> ChannelOf[s] = ChannelOf[t] /\ KeyOf[s] # NoKey /\ KeyOf[s] = KeyOf[t])

\* The text a message was sent with is never lost: once it has been replaced or
\* removed it is in the history, whatever the revisions raced.
OriginalIsKept ==
  \A m \in Message : maker[m] # Nobody /\ text[m] # maker[m] =>
    \E h \in edits : h.of = m /\ h.said = maker[m]

\* A deletion is not undone by an edit that read the message before it.
TombstoneStays == [][\A m \in Message : text[m] = Tombstone => text'[m] = Tombstone]_vars

\* No message commits in a channel whose archiving has committed, although the
\* archive may land while a send is under way.
ArchiveStopsWrites == [][\A c \in archived : last'[c] = last[c]]_vars

\* What the history rows are for: "the row carries what the message said BEFORE this
\* edit", so every text a message has had and has no more is in one of them.
HistoryIsComplete ==
  \A m \in Message : \A r \in Edit :
    pc[r] = "revised" /\ target[r] = m /\ text[m] # r =>
      \E h \in edits : h.of = m /\ h.said = r
================================================================================
