---------------------------- MODULE Records_proofs ----------------------------
(***************************************************************************)
(* Proofs about four parts that write one store row by row or key by key.   *)
(* MessageWrites: any number of sends, edits, deletions and                 *)
(* administrations. UserRecords: any number of rows and of requests under   *)
(* way. ConnectionSlots: any number of places and of connections.           *)
(* GatewayPresence: any number of instances and of visits.                  *)
(***************************************************************************)
EXTENDS MessageWrites, UserRecords, ConnectionSlots, GatewayPresence,
        FiniteSetTheorems, FunctionTheorems, TLAPS

--------------------------------------------------------------------------------
(* MessageWrites *)

(***************************************************************************)
(* The inductive invariant.  What a transaction knows about a row is true   *)
(* as long as it holds the row; what it read without a lock is true of some *)
(* earlier text only.                                                       *)
(***************************************************************************)
\* From its SELECT ... FOR UPDATE to its commit a send has the channel's row, and
\* the sequence it computed is still the next one.
HoldsChannel ==
  \A s \in Send : pc[s] \in {"locked", "permitted"} =>
    channelLock[ChannelOf[s]] = s /\ seq[s] = last[ChannelOf[s]] + 1
PermittedIsOpen == \A s \in Send : pc[s] = "permitted" => ChannelOf[s] \notin archived

RowsAreDense == \A m \in Message : maker[m] # Nobody <=> m[2] <= last[m[1]]
MakersAreSent ==
  \A m \in Message : maker[m] # Nobody =>
    pc[maker[m]] = "sent" /\ target[maker[m]] = m /\ ChannelOf[maker[m]] = m[1]
UnmadeIsBlank == \A m \in Message : maker[m] = Nobody => text[m] = Nobody

RevisesAMessage ==
  \A r \in Revision : pc[r] \in {"read", "updated"} =>
    target[r] \in Message /\ maker[target[r]] # Nobody
HoldsMessage == \A r \in Revision : pc[r] = "updated" => messageLock[target[r]] = r
EditsTheLiving == \A e \in Edit : pc[e] = "updated" => text[target[e]] # Tombstone

Kept(m) == \E h \in edits : h.of = m /\ h.said = maker[m]
\* The text a revision read first is the original one, or the original is kept already.
ReadOrKept ==
  \A r \in Revision : pc[r] \in {"read", "updated"} =>
    prior[r] = maker[target[r]] \/ Kept(target[r])

AnswersHaveRows ==
  \A s \in Answered :
    /\ target[s] \in Message /\ target[s][1] = ChannelOf[s]
    /\ maker[target[s]] = s \/ SameKey(s, target[s])
KeysAreUnique ==
  \A m, n \in Message :
    /\ maker[m] # Nobody /\ maker[n] # Nobody /\ m[1] = n[1]
    /\ KeyOf[maker[m]] = KeyOf[maker[n]] /\ KeyOf[maker[m]] # NoKey
    => m = n

LockInv == HoldsChannel /\ PermittedIsOpen /\ HoldsMessage
RowInv == RowsAreDense /\ MakersAreSent /\ UnmadeIsBlank
RevisionInv == RevisesAMessage /\ EditsTheLiving /\ ReadOrKept /\ OriginalIsKept
AnswerInv == AnswersHaveRows /\ KeysAreUnique

IInv == TypeOK /\ LockInv /\ RowInv /\ RevisionInv /\ AnswerInv

(***************************************************************************)
(* Facts about the data.                                                    *)
(***************************************************************************)
LEMMA RequestKinds ==
  /\ Send \subseteq Request /\ Edit \subseteq Request /\ Delete \subseteq Request
  /\ Edit \subseteq Revision /\ Delete \subseteq Revision /\ Revision \subseteq Request
  /\ Send \cap Revision = {} /\ Edit \cap Delete = {}
  /\ Nobody \notin Request /\ Tombstone \notin Request /\ Tombstone # Nobody
BY RequestsAssumption DEF Request, Revision

LEMMA Bounds == Cardinality(Send) \in Nat /\ MaxRollbacks \in Nat /\ MaxAdmin \in Nat
BY BoundAssumption, FS_CardinalityType

\* A message is its channel and its sequence.
LEMMA MessagePairs ==
  /\ \A m \in Message : m[1] \in Channel /\ m[2] \in 1..Cardinality(Send)
  /\ \A m, n \in Message : m[1] = n[1] /\ m[2] = n[2] => m = n
  /\ \A c \in Channel : \A k \in 1..Cardinality(Send) :
       <<c, k>> \in Message /\ <<c, k>>[1] = c /\ <<c, k>>[2] = k
BY DEF Message

\* While a send has no row yet its channel has fewer rows than there are sends: the
\* rows of a channel were made by as many different sends.
LEMMA RoomForOneMore ==
  ASSUME IInv, NEW s \in Send, pc[s] # "sent", NEW c \in Channel
  PROVE  last[c] + 1 \in 1..Cardinality(Send)
<1> DEFINE rows == 1..last[c]
           others == Send \ {s}
           made == [k \in rows |-> maker[<<c, k>>]]
<1>1. last[c] \in 0..Cardinality(Send)
  BY DEF IInv, TypeOK
<1>2. ASSUME NEW k \in rows
      PROVE  /\ <<c, k>> \in Message
             /\ made[k] \in others
             /\ target[made[k]] = <<c, k>>
  <2>1. k \in 1..Cardinality(Send)
    BY <1>1, Bounds
  <2>2. <<c, k>> \in Message /\ maker[<<c, k>>] # Nobody
    BY <1>1, <2>1, MessagePairs, Bounds DEF IInv, RowInv, RowsAreDense
  <2>3. maker[<<c, k>>] \in Send
    BY <2>2 DEF IInv, TypeOK
  <2> QED
    BY <2>2, <2>3 DEF IInv, RowInv, MakersAreSent
<1>3. made \in [rows -> others]
  BY <1>2
<1>4. ASSUME NEW j \in rows, NEW k \in rows, made[j] = made[k] PROVE j = k
  <2>1. <<c, j>> = <<c, k>>
    BY <1>2, <1>4
  <2> QED
    BY <2>1
<1>5. made \in Injection(rows, others)
  <2> HIDE DEF made, rows, others
  <2> QED BY <1>3, <1>4, Fun_IsInj
<1>6. IsFiniteSet(others) /\ Cardinality(others) = Cardinality(Send) - 1
  BY BoundAssumption, FS_RemoveElement
<1>7. Cardinality(rows) <= Cardinality(others)
  <2> HIDE DEF made, rows, others
  <2> QED BY <1>5, <1>6, FS_Injection
<1>8. Cardinality(rows) = last[c]
  BY <1>1, Bounds, FS_Interval
<1> QED
  BY <1>1, <1>6, <1>7, <1>8, Bounds

(***************************************************************************)
(* What several actions do to the invariant.                                *)
(***************************************************************************)
\* A transaction that ends without a commit, refused or lost, leaves no trace but
\* its locks, and takes those with it.
LEMMA EndedInVain ==
  ASSUME IInv, NEW r \in Request, NEW label \in {"refused", "failed"},
         r \in Send => pc[r] \notin {"sent", "duplicate"},
         Goto(r, label), ReleaseLocks(r),
         UNCHANGED <<storeVars, target, seq, prior>>,
         rollbacks' \in 0..MaxRollbacks, admin' \in 0..MaxAdmin
  PROVE  IInv'
<1> USE DEF Goto, storeVars
<1>1. TypeOK'
  BY RequestKinds DEF IInv, TypeOK, ReleaseLocks, Over
<1>2. \A t \in Request : t # r => pc'[t] = pc[t]
  BY DEF IInv, TypeOK
<1>3. pc'[r] = label
  BY DEF IInv, TypeOK
<1>4. LockInv'
  <2>1. HoldsChannel'
    BY <1>2, <1>3, RequestKinds, ParametersAssumption
       DEF IInv, TypeOK, LockInv, HoldsChannel, ReleaseLocks
  <2>2. PermittedIsOpen'
    BY <1>2, <1>3, RequestKinds DEF IInv, LockInv, PermittedIsOpen
  <2>3. HoldsMessage'
    BY <1>2, <1>3, RequestKinds
       DEF IInv, TypeOK, LockInv, HoldsMessage, RevisionInv, RevisesAMessage, ReleaseLocks
  <2> QED
    BY <2>1, <2>2, <2>3 DEF LockInv
<1>5. RowInv'
  <2>1. RowsAreDense' /\ UnmadeIsBlank'
    BY DEF IInv, RowInv, RowsAreDense, UnmadeIsBlank
  <2>2. MakersAreSent'
    BY <1>2, <1>3, RequestKinds DEF IInv, TypeOK, RowInv, MakersAreSent
  <2> QED
    BY <2>1, <2>2 DEF RowInv
<1>6. RevisionInv'
  BY <1>2, <1>3, RequestKinds
     DEF IInv, RevisionInv, RevisesAMessage, EditsTheLiving, ReadOrKept, Kept, OriginalIsKept
<1>7. AnswerInv'
  BY <1>2, <1>3, RequestKinds
     DEF IInv, AnswerInv, AnswersHaveRows, KeysAreUnique, Answered, SameKey
<1> QED
  BY <1>1, <1>4, <1>5, <1>6, <1>7 DEF IInv

\* A revision's first read: of a message somebody sent and nobody has deleted.
LEMMA MessageRead ==
  ASSUME IInv, NEW r \in Revision, pc[r] = "new", NEW m \in Message,
         maker[m] # Nobody, text[m] # Tombstone, ReadMessage(r, m)
  PROVE  IInv'
<1> USE DEF ReadMessage, Goto, storeVars, lockVars, boundVars
<1>1. TypeOK'
  BY RequestKinds DEF IInv, TypeOK, Waiting
<1>2. /\ \A t \in Request : t # r => pc'[t] = pc[t] /\ target'[t] = target[t]
      /\ \A t \in Revision : t # r => prior'[t] = prior[t]
      /\ pc'[r] = "read" /\ target'[r] = m /\ prior'[r] = text[m]
  BY RequestKinds DEF IInv, TypeOK
<1>3. LockInv'
  BY <1>2, RequestKinds DEF IInv, LockInv, HoldsChannel, PermittedIsOpen, HoldsMessage
<1>4. RowInv'
  <2>1. RowsAreDense' /\ UnmadeIsBlank'
    BY DEF IInv, RowInv, RowsAreDense, UnmadeIsBlank
  <2>2. MakersAreSent'
    BY <1>2, RequestKinds DEF IInv, TypeOK, RowInv, MakersAreSent
  <2> QED
    BY <2>1, <2>2 DEF RowInv
<1>5. RevisionInv'
  <2>1. RevisesAMessage' /\ EditsTheLiving' /\ OriginalIsKept'
    BY <1>2, RequestKinds
       DEF IInv, RevisionInv, RevisesAMessage, EditsTheLiving, OriginalIsKept
  <2>2. ReadOrKept'
    BY <1>2, RequestKinds DEF IInv, RevisionInv, ReadOrKept, Kept, OriginalIsKept
  <2> QED
    BY <2>1, <2>2 DEF RevisionInv
<1>6. AnswerInv'
  BY <1>2, RequestKinds DEF IInv, AnswerInv, AnswersHaveRows, KeysAreUnique, Answered, SameKey
<1> QED
  BY <1>1, <1>3, <1>4, <1>5, <1>6 DEF IInv

\* A revision's UPDATE has the message's row; an edit's found it undeleted.
LEMMA MessageLocked ==
  ASSUME IInv, NEW r \in Revision, pc[r] = "read",
         r \in Edit => text[target[r]] # Tombstone, LockMessageRow(r)
  PROVE  IInv'
<1> USE DEF LockMessageRow, Goto, storeVars, boundVars
<1>1. TypeOK'
  BY RequestKinds DEF IInv, TypeOK, Waiting
<1>2. /\ \A t \in Request : t # r => pc'[t] = pc[t]
      /\ pc'[r] = "updated"
      /\ target[r] \in Message /\ messageLock'[target[r]] = r
      /\ \A m \in Message : messageLock[m] # Nobody => messageLock'[m] = messageLock[m]
  BY RequestKinds DEF IInv, TypeOK, RevisionInv, RevisesAMessage
<1>3. LockInv'
  <2>1. HoldsChannel' /\ PermittedIsOpen'
    BY <1>2, RequestKinds DEF IInv, LockInv, HoldsChannel, PermittedIsOpen
  <2>2. HoldsMessage'
    BY <1>2, RequestKinds DEF IInv, LockInv, HoldsMessage, RevisionInv, RevisesAMessage
  <2> QED
    BY <2>1, <2>2 DEF LockInv
<1>4. RowInv'
  <2>1. RowsAreDense' /\ UnmadeIsBlank'
    BY DEF IInv, RowInv, RowsAreDense, UnmadeIsBlank
  <2>2. MakersAreSent'
    BY <1>2, RequestKinds DEF IInv, TypeOK, RowInv, MakersAreSent
  <2> QED
    BY <2>1, <2>2 DEF RowInv
<1>5. RevisionInv'
  BY <1>2, RequestKinds
     DEF IInv, RevisionInv, RevisesAMessage, EditsTheLiving, ReadOrKept, Kept, OriginalIsKept
<1>6. AnswerInv'
  BY <1>2, RequestKinds DEF IInv, AnswerInv, AnswersHaveRows, KeysAreUnique, Answered, SameKey
<1> QED
  BY <1>1, <1>3, <1>4, <1>5, <1>6 DEF IInv

\* A request that moves on without having written: its rows, its target and the
\* history are what they were.
LEMMA MovedOn ==
  ASSUME IInv, NEW r \in Request, NEW label \in (Waiting \ {"new", "updated"}) \cup {"already"},
         pc[r] \notin {"sent", "duplicate"},
         r \in Revision => label = "already",
         Goto(r, label),
         UNCHANGED <<storeVars, target, prior>>,
         TypeOK', LockInv'
  PROVE  IInv'
<1> USE DEF Goto, storeVars
<1>1. /\ \A t \in Request : t # r => pc'[t] = pc[t]
      /\ pc'[r] = label /\ label \notin {"updated", "sent", "duplicate"}
  BY DEF IInv, TypeOK, Waiting
<1>2. RowInv'
  <2>1. RowsAreDense' /\ UnmadeIsBlank'
    BY DEF IInv, RowInv, RowsAreDense, UnmadeIsBlank
  <2>2. MakersAreSent'
    BY <1>1, RequestKinds DEF IInv, TypeOK, RowInv, MakersAreSent
  <2> QED
    BY <2>1, <2>2 DEF RowInv
<1>3. RevisionInv'
  BY <1>1, RequestKinds
     DEF IInv, RevisionInv, RevisesAMessage, EditsTheLiving, ReadOrKept, Kept, OriginalIsKept
<1>4. AnswerInv'
  BY <1>1, RequestKinds
     DEF IInv, AnswerInv, AnswersHaveRows, KeysAreUnique, Answered, SameKey
<1> QED
  BY <1>2, <1>3, <1>4 DEF IInv

(***************************************************************************)
(* sendMessage                                                              *)
(***************************************************************************)
LEMMA ReadSenderKeeps == ASSUME IInv, NEW s \in Send, ReadSender(s) PROVE IInv'
<1>1. CASE UserOf[s] \in banned
  BY <1>1, RequestKinds, EndedInVain DEF ReadSender, Refuse, boundVars, IInv, TypeOK
<1>2. CASE UserOf[s] \notin banned
  <2> USE <1>2 DEF ReadSender, Goto, storeVars, lockVars, boundVars
  <2>1. TypeOK'
    BY RequestKinds DEF IInv, TypeOK, Waiting
  <2>2. \A t \in Request : t # s => pc'[t] = pc[t]
    BY DEF IInv, TypeOK
  <2>3. LockInv'
    BY <2>2, RequestKinds
       DEF IInv, TypeOK, LockInv, HoldsChannel, PermittedIsOpen, HoldsMessage
  <2> QED
    BY <2>1, <2>3, RequestKinds, MovedOn DEF Waiting
<1> QED
  BY <1>1, <1>2

LEMMA LockChannelKeeps == ASSUME IInv, NEW s \in Send, LockChannel(s) PROVE IInv'
<1> USE DEF LockChannel, LockChannelRow, Goto, storeVars, boundVars
<1>1. ChannelOf[s] \in Channel
  BY ParametersAssumption
<1>2. TypeOK'
  BY <1>1, Bounds, RequestKinds DEF IInv, TypeOK, Waiting
<1>3. /\ \A t \in Request : t # s => pc'[t] = pc[t]
      /\ \A t \in Send : t # s => seq'[t] = seq[t]
      /\ pc'[s] = "locked" /\ seq'[s] = last[ChannelOf[s]] + 1
      /\ channelLock'[ChannelOf[s]] = s
      /\ \A c \in Channel : channelLock[c] # Nobody => channelLock'[c] = channelLock[c]
  BY <1>1, RequestKinds DEF IInv, TypeOK
<1>4. LockInv'
  <2>1. HoldsChannel'
    BY <1>3, RequestKinds, ParametersAssumption DEF IInv, LockInv, HoldsChannel
  <2>2. PermittedIsOpen' /\ HoldsMessage'
    BY <1>3, RequestKinds DEF IInv, LockInv, PermittedIsOpen, HoldsMessage
  <2> QED
    BY <2>1, <2>2 DEF LockInv
<1> QED
  BY <1>2, <1>4, RequestKinds, MovedOn DEF Waiting

LEMMA PermitKeeps == ASSUME IInv, NEW s \in Send, Permit(s) PROVE IInv'
<1>1. CASE ~MayWrite(s, ChannelOf[s])
  BY <1>1, RequestKinds, EndedInVain DEF Permit, Refuse, boundVars, IInv, TypeOK
<1>2. CASE MayWrite(s, ChannelOf[s])
  <2> USE <1>2 DEF Permit, Goto, storeVars, lockVars, boundVars
  <2>1. TypeOK'
    BY RequestKinds DEF IInv, TypeOK, Waiting
  <2>2. (\A t \in Request : t # s => pc'[t] = pc[t]) /\ pc'[s] = "permitted"
    BY RequestKinds DEF IInv, TypeOK
  <2>3. LockInv'
    <3>1. HoldsChannel' /\ HoldsMessage'
      BY <2>2, RequestKinds DEF IInv, LockInv, HoldsChannel, HoldsMessage
    <3>2. PermittedIsOpen'
      BY <2>2, RequestKinds DEF IInv, LockInv, PermittedIsOpen, MayWrite
    <3> QED
      BY <3>1, <3>2 DEF LockInv
  <2> QED
    BY <2>1, <2>3, RequestKinds, MovedOn DEF Waiting
<1> QED
  BY <1>1, <1>2

\* What the end of a transaction does to the locks the others hold.
LEMMA LocksReleased ==
  ASSUME IInv, NEW r \in Request, NEW label \in Over, Goto(r, label), ReleaseLocks(r),
         UNCHANGED archived
  PROVE  /\ PermittedIsOpen'
         /\ \A t \in Request : t # r => pc'[t] = pc[t]
         /\ pc'[r] = label
         /\ \A c \in Channel : channelLock[c] # r => channelLock'[c] = channelLock[c]
         /\ \A m \in Message : messageLock[m] # r => messageLock'[m] = messageLock[m]
         /\ pc' \in [Request -> Waiting \cup Over]
         /\ channelLock' \in [Channel -> Request \cup {Nobody}]
         /\ messageLock' \in [Message -> Revision \cup {Nobody}]
<1> USE DEF Goto
<1>1. pc' \in [Request -> Waiting \cup Over] /\ pc'[r] = label
  BY DEF IInv, TypeOK
<1>2. \A t \in Request : t # r => pc'[t] = pc[t]
  BY DEF IInv, TypeOK
<1>3. PermittedIsOpen'
  BY <1>1, <1>2, RequestKinds DEF IInv, LockInv, PermittedIsOpen, Over
<1> QED
  BY <1>1, <1>2, <1>3 DEF IInv, TypeOK, ReleaseLocks

LEMMA AnswerDuplicateKeeps == ASSUME IInv, NEW s \in Send, AnswerDuplicate(s) PROVE IInv'
<1> USE DEF AnswerDuplicate, storeVars, boundVars
<1>1. PICK m \in Message : SameKey(s, m) /\ target' = [target EXCEPT ![s] = m]
  OBVIOUS
<1>2. /\ PermittedIsOpen'
      /\ \A t \in Request : t # s => pc'[t] = pc[t]
      /\ pc'[s] = "duplicate"
      /\ \A c \in Channel : channelLock[c] # s => channelLock'[c] = channelLock[c]
      /\ \A n \in Message : messageLock[n] # s => messageLock'[n] = messageLock[n]
      /\ pc' \in [Request -> Waiting \cup Over]
      /\ channelLock' \in [Channel -> Request \cup {Nobody}]
      /\ messageLock' \in [Message -> Revision \cup {Nobody}]
  BY RequestKinds, LocksReleased DEF Over
<1>3. target'[s] = m /\ \A t \in Request : t # s => target'[t] = target[t]
  BY <1>1, RequestKinds DEF IInv, TypeOK
<1>4. TypeOK'
  BY <1>1, <1>2 DEF IInv, TypeOK
<1>5. LockInv'
  <2>1. HoldsChannel'
    BY <1>2, RequestKinds, ParametersAssumption DEF IInv, LockInv, HoldsChannel
  <2>2. HoldsMessage'
    BY <1>2, <1>3, RequestKinds
       DEF IInv, LockInv, HoldsMessage, RevisionInv, RevisesAMessage
  <2> QED
    BY <1>2, <2>1, <2>2 DEF LockInv
<1>6. RowInv'
  <2>1. RowsAreDense' /\ UnmadeIsBlank'
    BY DEF IInv, RowInv, RowsAreDense, UnmadeIsBlank
  <2>2. MakersAreSent'
    BY <1>2, <1>3, RequestKinds DEF IInv, TypeOK, RowInv, MakersAreSent
  <2> QED
    BY <2>1, <2>2 DEF RowInv
<1>7. RevisionInv'
  BY <1>2, <1>3, RequestKinds
     DEF IInv, RevisionInv, RevisesAMessage, EditsTheLiving, ReadOrKept, Kept, OriginalIsKept
<1>8. AnswerInv'
  <2>1. AnswersHaveRows'
    BY <1>1, <1>2, <1>3, RequestKinds DEF IInv, AnswerInv, AnswersHaveRows, Answered, SameKey
  <2>2. KeysAreUnique'
    BY DEF IInv, AnswerInv, KeysAreUnique
  <2> QED
    BY <2>1, <2>2 DEF AnswerInv
<1> QED
  BY <1>4, <1>5, <1>6, <1>7, <1>8 DEF IInv

\* The row a send is about to insert is the channel's next, and nobody's yet.
LEMMA NextRow ==
  ASSUME IInv, NEW s \in Send, pc[s] = "permitted"
  PROVE  /\ ChannelOf[s] \in Channel /\ seq[s] = last[ChannelOf[s]] + 1
         /\ channelLock[ChannelOf[s]] = s
         /\ <<ChannelOf[s], seq[s]>> \in Message
         /\ maker[<<ChannelOf[s], seq[s]>>] = Nobody
         /\ text[<<ChannelOf[s], seq[s]>>] = Nobody
<1>1. /\ ChannelOf[s] \in Channel /\ seq[s] = last[ChannelOf[s]] + 1
      /\ channelLock[ChannelOf[s]] = s
  BY ParametersAssumption DEF IInv, LockInv, HoldsChannel
<1>2. seq[s] \in 1..Cardinality(Send)
  BY <1>1, RoomForOneMore
<1>3. <<ChannelOf[s], seq[s]>> \in Message
  BY <1>1, <1>2, MessagePairs
<1>4. ~(seq[s] <= last[ChannelOf[s]])
  BY <1>1, <1>2, Bounds DEF IInv, TypeOK
<1> QED
  BY <1>1, <1>2, <1>3, <1>4, MessagePairs DEF IInv, RowInv, RowsAreDense, UnmadeIsBlank

LEMMA CommitSendKeeps == ASSUME IInv, NEW s \in Send, CommitSend(s) PROVE IInv'
<1> DEFINE c == ChannelOf[s]
           m == <<ChannelOf[s], seq[s]>>
<1>1. /\ c \in Channel /\ seq[s] = last[c] + 1 /\ channelLock[c] = s
      /\ m \in Message /\ maker[m] = Nobody /\ text[m] = Nobody
  BY NextRow DEF CommitSend
<1>2. /\ last' = [last EXCEPT ![c] = seq[s]]
      /\ maker' = [maker EXCEPT ![m] = s]
      /\ text' = [text EXCEPT ![m] = s]
      /\ target' = [target EXCEPT ![s] = m]
      /\ Goto(s, "sent") /\ ReleaseLocks(s) /\ pc[s] = "permitted"
      /\ \A n \in Message : ~SameKey(s, n)
      /\ UNCHANGED <<archived, banned, member, edits, seq, prior, rollbacks, admin>>
  BY DEF CommitSend, boundVars
<1>3. /\ PermittedIsOpen'
      /\ \A t \in Request : t # s => pc'[t] = pc[t]
      /\ pc'[s] = "sent"
      /\ \A d \in Channel : channelLock[d] # s => channelLock'[d] = channelLock[d]
      /\ \A n \in Message : messageLock[n] # s => messageLock'[n] = messageLock[n]
      /\ pc' \in [Request -> Waiting \cup Over]
      /\ channelLock' \in [Channel -> Request \cup {Nobody}]
      /\ messageLock' \in [Message -> Revision \cup {Nobody}]
  BY <1>2, RequestKinds, LocksReleased DEF Over
<1>4. m[1] = c /\ m[2] = seq[s] /\ seq[s] \in 1..Cardinality(Send)
  BY <1>1, MessagePairs
<1> HIDE DEF m, c
<1>5. /\ target'[s] = m /\ \A t \in Request : t # s => target'[t] = target[t]
      /\ maker'[m] = s /\ text'[m] = s
      /\ \A n \in Message : n # m => maker'[n] = maker[n] /\ text'[n] = text[n]
      /\ last'[c] = last[c] + 1 /\ \A d \in Channel : d # c => last'[d] = last[d]
  BY <1>1, <1>2, RequestKinds DEF IInv, TypeOK
<1>6. TypeOK'
  <2>0. seq[s] \in 0..Cardinality(Send)
    BY <1>4, Bounds
  <2>1. /\ last' \in [Channel -> 0..Cardinality(Send)]
        /\ maker' \in [Message -> Send \cup {Nobody}]
        /\ text' \in [Message -> Send \cup Edit \cup {Tombstone, Nobody}]
    BY <1>2, <2>0 DEF IInv, TypeOK
  <2>2. target' \in [Request -> Message \cup {Nobody}]
    BY <1>1, <1>2 DEF IInv, TypeOK
  <2> QED
    BY <1>2, <1>3, <2>1, <2>2 DEF IInv, TypeOK
<1>7. LockInv'
  <2>1. HoldsChannel'
    BY <1>1, <1>2, <1>3, <1>5, RequestKinds, ParametersAssumption
       DEF IInv, TypeOK, LockInv, HoldsChannel, c
  <2>2. HoldsMessage'
    BY <1>2, <1>3, <1>5, RequestKinds
       DEF IInv, LockInv, HoldsMessage, RevisionInv, RevisesAMessage
  <2> QED
    BY <1>3, <2>1, <2>2 DEF LockInv
<1>8. RowInv'
  <2>1. RowsAreDense'
    <3> SUFFICES ASSUME NEW n \in Message PROVE maker'[n] # Nobody <=> n[2] <= last'[n[1]]
      BY DEF RowsAreDense
    <3>0. last[c] \in Nat
      BY <1>1, Bounds DEF IInv, TypeOK
    <3>1. CASE n = m
      BY <1>1, <1>4, <1>5, <3>0, <3>1, RequestKinds
    <3>2. CASE n # m
      <4>1. n[1] \in Channel /\ n[2] \in Nat /\ (n[1] = c => n[2] # seq[s])
        BY <1>4, <1>1, <3>2, MessagePairs, Bounds
      <4>2. maker'[n] = maker[n] /\ (maker[n] # Nobody <=> n[2] <= last[n[1]])
        BY <1>5, <3>2 DEF IInv, RowInv, RowsAreDense
      <4>3. CASE n[1] = c
        BY <1>1, <1>5, <3>0, <4>1, <4>2, <4>3
      <4>4. CASE n[1] # c
        BY <1>5, <4>1, <4>2, <4>4
      <4> QED
        BY <4>3, <4>4
    <3> QED
      BY <3>1, <3>2
  <2>2. MakersAreSent'
    BY <1>2, <1>3, <1>4, <1>5, RequestKinds DEF IInv, TypeOK, RowInv, MakersAreSent, c
  <2>3. UnmadeIsBlank'
    BY <1>5, RequestKinds DEF IInv, RowInv, UnmadeIsBlank
  <2> QED
    BY <2>1, <2>2, <2>3 DEF RowInv
\* A message a revision is about has a row, so it is not m.
<1>9. RevisionInv'
  <2>1. \A r \in Revision : pc'[r] \in {"read", "updated"} =>
          pc'[r] = pc[r] /\ target'[r] = target[r] /\ target[r] \in Message /\ target[r] # m
    BY <1>1, <1>3, <1>5, RequestKinds DEF IInv, RevisionInv, RevisesAMessage
  <2>2. RevisesAMessage' /\ EditsTheLiving'
    BY <1>5, <2>1, RequestKinds DEF IInv, RevisionInv, RevisesAMessage, EditsTheLiving
  <2>3. ReadOrKept'
    BY <1>2, <1>5, <2>1 DEF IInv, RevisionInv, ReadOrKept, Kept
  <2>4. OriginalIsKept'
    BY <1>2, <1>5 DEF IInv, RevisionInv, OriginalIsKept
  <2> QED
    BY <2>2, <2>3, <2>4 DEF RevisionInv
<1>10. AnswerInv'
  <2>1. AnswersHaveRows'
    <3> SUFFICES ASSUME NEW t \in Send, pc'[t] \in {"sent", "duplicate"}
                 PROVE  /\ target'[t] \in Message /\ target'[t][1] = ChannelOf[t]
                        /\ maker'[target'[t]] = t \/ SameKey(t, target[t])'
      BY DEF AnswersHaveRows, Answered
    <3>1. CASE t = s
      BY <1>1, <1>4, <1>5, <3>1 DEF c
    <3>2. CASE t # s
      BY <1>1, <1>3, <1>5, <3>2, RequestKinds
         DEF IInv, AnswerInv, AnswersHaveRows, Answered, SameKey
    <3> QED
      BY <3>1, <3>2
  <2>2. KeysAreUnique'
    BY <1>2, <1>4, <1>5 DEF IInv, AnswerInv, KeysAreUnique, SameKey, c
  <2> QED
    BY <2>1, <2>2 DEF AnswerInv
<1> QED
  BY <1>6, <1>7, <1>8, <1>9, <1>10 DEF IInv

(***************************************************************************)
(* editMessage and deleteMessage                                            *)
(***************************************************************************)
LEMMA BeginEditKeeps == ASSUME IInv, NEW e \in Edit, BeginEdit(e) PROVE IInv'
<1>1. PICK m \in Message :
        /\ maker[m] # Nobody
        /\ IF Visible(e, m[1]) /\ Wrote(e, m) /\ text[m] # Tombstone
             THEN ReadMessage(e, m)
             ELSE Refuse(e)
  BY DEF BeginEdit
<1>2. CASE text[m] # Tombstone /\ ReadMessage(e, m)
  BY <1>1, <1>2, RequestKinds, MessageRead DEF BeginEdit
<1>3. CASE Refuse(e)
  BY <1>3, RequestKinds, EndedInVain DEF BeginEdit, Refuse, boundVars, IInv, TypeOK
<1> QED
  BY <1>1, <1>2, <1>3

LEMMA BeginDeleteKeeps == ASSUME IInv, NEW d \in Delete, BeginDelete(d) PROVE IInv'
<1>1. PICK m \in Message :
        /\ maker[m] # Nobody
        /\ \/ ~MayDelete(d, m) /\ Refuse(d)
           \/ MayDelete(d, m) /\ text[m] # Tombstone /\ ReadMessage(d, m)
           \/ /\ MayDelete(d, m) /\ text[m] = Tombstone
              /\ Goto(d, "already")
              /\ UNCHANGED <<storeVars, lockVars, target, seq, prior, boundVars>>
  BY DEF BeginDelete
<1>2. CASE Refuse(d)
  BY <1>2, RequestKinds, EndedInVain DEF BeginDelete, Refuse, boundVars, IInv, TypeOK
<1>3. CASE text[m] # Tombstone /\ ReadMessage(d, m)
  BY <1>1, <1>3, RequestKinds, MessageRead DEF BeginDelete
<1>4. CASE /\ Goto(d, "already")
           /\ UNCHANGED <<storeVars, lockVars, target, seq, prior, boundVars>>
  <2> USE <1>4 DEF Goto, storeVars, lockVars, boundVars
  <2>1. TypeOK'
    BY RequestKinds DEF IInv, TypeOK, Over
  <2>2. (\A t \in Request : t # d => pc'[t] = pc[t]) /\ pc'[d] = "already"
    BY RequestKinds DEF IInv, TypeOK
  <2>3. LockInv'
    BY <2>2, RequestKinds DEF IInv, LockInv, HoldsChannel, PermittedIsOpen, HoldsMessage
  <2> QED
    BY <2>1, <2>3, RequestKinds, MovedOn DEF BeginDelete
<1> QED
  BY <1>1, <1>2, <1>3, <1>4

LEMMA UpdateForEditKeeps == ASSUME IInv, NEW e \in Edit, UpdateForEdit(e) PROVE IInv'
<1>1. CASE text[target[e]] # Tombstone /\ LockMessageRow(e)
  BY <1>1, RequestKinds, MessageLocked DEF UpdateForEdit
<1>2. CASE Refuse(e)
  BY <1>2, RequestKinds, EndedInVain DEF UpdateForEdit, Refuse, boundVars, IInv, TypeOK
<1> QED
  BY <1>1, <1>2 DEF UpdateForEdit

LEMMA UpdateForDeleteKeeps == ASSUME IInv, NEW d \in Delete, UpdateForDelete(d) PROVE IInv'
BY RequestKinds, MessageLocked DEF UpdateForDelete

LEMMA CommitRevisionKeeps == ASSUME IInv, NEW r \in Revision, CommitRevision(r) PROVE IInv'
<1> DEFINE m == target[r]
           reported == IF r \in Edit THEN r ELSE Tombstone
           row == [of |-> target[r], said |-> prior[r], endedBy |-> r]
<1>1. /\ pc[r] = "updated" /\ Goto(r, "revised") /\ ReleaseLocks(r)
      /\ text' = [text EXCEPT ![m] = reported]
      /\ edits' = edits \cup {row}
      /\ UNCHANGED <<last, archived, banned, member, maker, target, seq, prior,
                     rollbacks, admin>>
  BY DEF CommitRevision, HistoryOf, boundVars
<1>2. m \in Message /\ maker[m] # Nobody /\ messageLock[m] = r
  BY <1>1 DEF IInv, RevisionInv, RevisesAMessage, LockInv, HoldsMessage
<1>3. /\ PermittedIsOpen'
      /\ \A t \in Request : t # r => pc'[t] = pc[t]
      /\ pc'[r] = "revised"
      /\ \A d \in Channel : channelLock[d] # r => channelLock'[d] = channelLock[d]
      /\ \A n \in Message : messageLock[n] # r => messageLock'[n] = messageLock[n]
      /\ pc' \in [Request -> Waiting \cup Over]
      /\ channelLock' \in [Channel -> Request \cup {Nobody}]
      /\ messageLock' \in [Message -> Revision \cup {Nobody}]
  BY <1>1, RequestKinds, LocksReleased DEF Over
<1>4. prior[r] \in Request \cup {Tombstone, Nobody}
  BY RequestKinds DEF IInv, TypeOK
<1>5. row \in HistoryRow /\ row.of = m /\ row.said = prior[r]
  BY <1>2, <1>4 DEF HistoryRow
<1>6. reported \in Send \cup Edit \cup {Tombstone, Nobody}
  OBVIOUS
<1> HIDE DEF m, reported, row
<1>7. TypeOK'
  BY <1>1, <1>2, <1>3, <1>5, <1>6, RequestKinds DEF IInv, TypeOK
<1>8. text'[m] = reported /\ \A n \in Message : n # m => text'[n] = text[n]
  BY <1>1, <1>2 DEF IInv, TypeOK
<1>9. LockInv'
  <2>1. HoldsChannel'
    BY <1>1, <1>3, RequestKinds, ParametersAssumption DEF IInv, LockInv, HoldsChannel
  <2>2. HoldsMessage'
    BY <1>1, <1>3, RequestKinds
       DEF IInv, LockInv, HoldsMessage, RevisionInv, RevisesAMessage
  <2> QED
    BY <1>3, <2>1, <2>2 DEF LockInv
<1>10. RowInv'
  <2>1. RowsAreDense' /\ MakersAreSent'
    BY <1>1, <1>3, RequestKinds DEF IInv, TypeOK, RowInv, RowsAreDense, MakersAreSent
  <2>2. UnmadeIsBlank'
    BY <1>1, <1>2, <1>8 DEF IInv, RowInv, UnmadeIsBlank
  <2> QED
    BY <2>1, <2>2 DEF RowInv
<1>11. RevisionInv'
  <2>1. RevisesAMessage'
    BY <1>1, <1>3, RequestKinds DEF IInv, RevisionInv, RevisesAMessage
  \* Another edit that has passed its UPDATE has another row.
  <2>2. EditsTheLiving'
    <3> SUFFICES ASSUME NEW e \in Edit, pc'[e] = "updated" PROVE text'[target[e]] # Tombstone
      BY <1>1 DEF EditsTheLiving
    <3>1. e # r /\ pc[e] = "updated"
      BY <1>3, RequestKinds
    <3>2. target[e] \in Message /\ messageLock[target[e]] = e /\ text[target[e]] # Tombstone
      BY <3>1, RequestKinds
         DEF IInv, LockInv, HoldsMessage, RevisionInv, RevisesAMessage, EditsTheLiving
    <3> QED
      BY <1>2, <1>8, <3>1, <3>2
  <2>3. ReadOrKept'
    BY <1>1, <1>3, RequestKinds DEF IInv, RevisionInv, ReadOrKept, Kept
  <2>4. \E h \in edits' : h.of = m /\ h.said = maker[m]
    BY <1>1, <1>5, RequestKinds DEF IInv, RevisionInv, ReadOrKept, Kept, m
  <2>5. OriginalIsKept'
    BY <1>1, <1>8, <2>4 DEF IInv, RevisionInv, OriginalIsKept
  <2> QED
    BY <2>1, <2>2, <2>3, <2>5 DEF RevisionInv
<1>12. AnswerInv'
  BY <1>1, <1>3, RequestKinds
     DEF IInv, AnswerInv, AnswersHaveRows, KeysAreUnique, Answered, SameKey
<1> QED
  BY <1>7, <1>9, <1>10, <1>11, <1>12 DEF IInv

(***************************************************************************)
(* Administration and the invariant as a whole                              *)
(***************************************************************************)
\* Bans and memberships are read without a lock: no part of the invariant is about
\* them.  The archive flag changes only while nobody has the channel's row.
LEMMA AdministrationKeeps ==
  ASSUME IInv, UNCHANGED <<last, maker, text, edits, lockVars, requestVars, rollbacks>>,
         admin' \in 0..MaxAdmin,
         archived' \subseteq Channel, banned' \subseteq User, member' \subseteq User \X Channel,
         \A c \in Channel : c \in archived' => c \in archived \/ channelLock[c] = Nobody
  PROVE  IInv'
<1> USE DEF lockVars, requestVars
<1>1. TypeOK'
  BY DEF IInv, TypeOK
<1>2. LockInv'
  <2>1. HoldsChannel' /\ HoldsMessage'
    BY DEF IInv, LockInv, HoldsChannel, HoldsMessage
  <2>2. PermittedIsOpen'
    BY RequestKinds, ParametersAssumption
       DEF IInv, LockInv, PermittedIsOpen, HoldsChannel
  <2> QED
    BY <2>1, <2>2 DEF LockInv
<1>3. RowInv'
  BY DEF IInv, RowInv, RowsAreDense, MakersAreSent, UnmadeIsBlank
<1>4. RevisionInv'
  BY DEF IInv, RevisionInv, RevisesAMessage, EditsTheLiving, ReadOrKept, Kept, OriginalIsKept
<1>5. AnswerInv'
  BY DEF IInv, AnswerInv, AnswersHaveRows, KeysAreUnique, Answered, SameKey
<1> QED
  BY <1>1, <1>2, <1>3, <1>4, <1>5 DEF IInv

LEMMA InvariantInitially == Init => IInv
<1> SUFFICES ASSUME Init PROVE IInv
  OBVIOUS
<1> USE DEF Init
<1>1. TypeOK
  BY Bounds DEF TypeOK, Waiting
<1>2. LockInv
  BY RequestKinds DEF LockInv, HoldsChannel, PermittedIsOpen, HoldsMessage
<1>3. RowInv
  <2>1. \A m \in Message : ~(m[2] <= last[m[1]])
    BY MessagePairs, Bounds
  <2> QED
    BY <2>1 DEF RowInv, RowsAreDense, MakersAreSent, UnmadeIsBlank
<1>4. RevisionInv
  BY RequestKinds DEF RevisionInv, RevisesAMessage, EditsTheLiving, ReadOrKept, OriginalIsKept
<1>5. AnswerInv
  BY RequestKinds DEF AnswerInv, AnswersHaveRows, KeysAreUnique, Answered
<1> QED
  BY <1>1, <1>2, <1>3, <1>4, <1>5 DEF IInv

LEMMA InvariantKept == IInv /\ [Next]_vars => IInv'
<1> SUFFICES ASSUME IInv, [Next]_vars PROVE IInv'
  OBVIOUS
<1>1. ASSUME NEW s \in Send, SendStep(s) PROVE IInv'
  BY <1>1, ReadSenderKeeps, LockChannelKeeps, PermitKeeps, AnswerDuplicateKeeps,
     CommitSendKeeps DEF SendStep
<1>2. ASSUME NEW e \in Edit, EditStep(e) PROVE IInv'
  BY <1>2, BeginEditKeeps, UpdateForEditKeeps DEF EditStep
<1>3. ASSUME NEW d \in Delete, DeleteStep(d) PROVE IInv'
  BY <1>3, BeginDeleteKeeps, UpdateForDeleteKeeps DEF DeleteStep
<1>4. ASSUME NEW r \in Revision, CommitRevision(r) PROVE IInv'
  BY <1>4, CommitRevisionKeeps
<1>5. ASSUME NEW r \in Request, RollBack(r) PROVE IInv'
  <2>1. rollbacks' \in 0..MaxRollbacks /\ admin' \in 0..MaxAdmin
    BY <1>5, Bounds DEF RollBack, IInv, TypeOK
  <2> QED
    BY <1>5, <2>1, EndedInVain DEF RollBack, Waiting
<1>6. ASSUME NEW c \in Channel, Archive(c) PROVE IInv'
  BY <1>6, Bounds, AdministrationKeeps DEF Archive, Administer, IInv, TypeOK
<1>7. ASSUME NEW c \in Channel, Unarchive(c) PROVE IInv'
  BY <1>7, AdministrationKeeps DEF Unarchive, boundVars, IInv, TypeOK
<1>8. ASSUME NEW c \in Channel, NEW u \in User, RemoveMember(u, c) PROVE IInv'
  BY <1>8, Bounds, AdministrationKeeps DEF RemoveMember, Administer, IInv, TypeOK
<1>9. ASSUME NEW u \in User, Ban(u) PROVE IInv'
  BY <1>9, Bounds, AdministrationKeeps DEF Ban, Administer, IInv, TypeOK
<1>10. ASSUME NEW u \in User, Unban(u) PROVE IInv'
  BY <1>10, AdministrationKeeps DEF Unban, boundVars, IInv, TypeOK
<1>11. CASE UNCHANGED vars
  BY <1>11, AdministrationKeeps DEF vars, storeVars, boundVars, IInv, TypeOK
<1> QED
  BY <1>1, <1>2, <1>3, <1>4, <1>5, <1>6, <1>7, <1>8, <1>9, <1>10, <1>11 DEF Next

\* The inductive invariant holds in every reachable state.
THEOREM InvariantHolds == Spec => []IInv
BY InvariantInitially, InvariantKept, PTL DEF Spec

(***************************************************************************)
(* The properties                                                           *)
(***************************************************************************)
\* Every variable has its type in every reachable state; for last_sequence that
\* is the count of RoomForOneMore.
THEOREM WritesTypeCorrect == Spec => []TypeOK
<1>1. IInv => TypeOK
  BY DEF IInv
<1> QED
  BY <1>1, InvariantHolds, PTL

\* sendMessage: a channel's messages have the sequences 1 to last_sequence, whatever
\* sends overlap, are refused, are recognised or are lost.
THEOREM SequencesHaveNoHoles == Spec => []DenseSequences
<1>1. IInv => DenseSequences
  <2> SUFFICES ASSUME IInv, NEW c \in Channel
               PROVE  {m[2] : m \in {n \in Message : n[1] = c /\ maker[n] # Nobody}} = 1..last[c]
    BY DEF DenseSequences
  <2> DEFINE rows == {n \in Message : n[1] = c /\ maker[n] # Nobody}
  <2>1. last[c] \in 0..Cardinality(Send)
    BY DEF IInv, TypeOK
  <2>2. ASSUME NEW m \in rows PROVE m[2] \in 1..last[c]
    BY <2>1, MessagePairs, Bounds DEF IInv, RowInv, RowsAreDense
  <2>3. ASSUME NEW k \in 1..last[c] PROVE \E m \in rows : m[2] = k
    <3>1. k \in 1..Cardinality(Send)
      BY <2>1, Bounds
    <3>2. <<c, k>> \in rows /\ <<c, k>>[2] = k
      BY <2>1, <3>1, MessagePairs DEF IInv, RowInv, RowsAreDense
    <3> QED
      BY <3>2
  <2> QED
    BY <2>2, <2>3
<1> QED
  BY <1>1, InvariantHolds, PTL

\* sendMessage and its idempotency key: two sends are answered the same message
\* exactly when they carry the same key for the same channel.
THEOREM RetriesAreRecognised == Spec => []AnswersFollowKeys
<1>1. IInv => AnswersFollowKeys
  <2> SUFFICES ASSUME IInv, NEW s \in Answered, NEW t \in Answered, s # t
               PROVE  target[s] = target[t] <=>
                        ChannelOf[s] = ChannelOf[t] /\ KeyOf[s] # NoKey /\ KeyOf[s] = KeyOf[t]
    BY DEF AnswersFollowKeys
  <2>1. ASSUME NEW a \in Answered
        PROVE  /\ target[a] \in Message /\ target[a][1] = ChannelOf[a]
               /\ maker[target[a]] # Nobody
               /\ KeyOf[maker[target[a]]] = KeyOf[a]
               /\ maker[target[a]] = a \/ KeyOf[a] # NoKey
    BY RequestKinds DEF IInv, AnswerInv, AnswersHaveRows, SameKey, Answered
  <2>2. ASSUME target[s] = target[t]
        PROVE  ChannelOf[s] = ChannelOf[t] /\ KeyOf[s] # NoKey /\ KeyOf[s] = KeyOf[t]
    BY <2>1, <2>2
  <2>3. ASSUME ChannelOf[s] = ChannelOf[t], KeyOf[s] # NoKey, KeyOf[s] = KeyOf[t]
        PROVE  target[s] = target[t]
    BY <2>1, <2>3 DEF IInv, AnswerInv, KeysAreUnique
  <2> QED
    BY <2>2, <2>3
<1> QED
  BY <1>1, InvariantHolds, PTL

\* editMessage and deleteMessage: the text a message was sent with stays on it or
\* is in message_edits, although every revision keeps what it read without a lock.
THEOREM OriginalsAreKept == Spec => []OriginalIsKept
<1>1. IInv => OriginalIsKept
  BY DEF IInv, RevisionInv
<1> QED
  BY <1>1, InvariantHolds, PTL

\* A send never writes on a row that is there, and an edit that has passed its
\* UPDATE has the row until it commits: a tombstone stays one.
THEOREM DeletionsAreFinal == Spec => TombstoneStays
<1>1. IInv /\ [Next]_vars => [\A m \in Message : text[m] = Tombstone => text'[m] = Tombstone]_vars
  <2> SUFFICES ASSUME IInv, Next, NEW m \in Message, text[m] = Tombstone
               PROVE  text'[m] = Tombstone
    BY DEF vars
  <2>1. ASSUME NEW s \in Send, CommitSend(s) PROVE text'[m] = Tombstone
    BY <2>1, NextRow, RequestKinds DEF CommitSend, IInv, TypeOK
  <2>2. ASSUME NEW r \in Revision, CommitRevision(r) PROVE text'[m] = Tombstone
    BY <2>2, RequestKinds DEF CommitRevision, IInv, TypeOK, RevisionInv, EditsTheLiving
  <2>3. CASE UNCHANGED text
    BY <2>3
  <2>4. ASSUME NEW r \in Request, Refuse(r) PROVE UNCHANGED text
    BY <2>4 DEF Refuse, storeVars
  <2>5. ASSUME NEW s \in Send, SendStep(s) PROVE CommitSend(s) \/ UNCHANGED text
    BY <2>5, <2>4, RequestKinds
       DEF SendStep, ReadSender, LockChannel, Permit, AnswerDuplicate, storeVars
  <2>6. ASSUME NEW e \in Edit, EditStep(e) PROVE UNCHANGED text
    BY <2>6, <2>4, RequestKinds
       DEF EditStep, BeginEdit, UpdateForEdit, ReadMessage, LockMessageRow, storeVars
  <2>7. ASSUME NEW d \in Delete, DeleteStep(d) PROVE UNCHANGED text
    BY <2>7, <2>4, RequestKinds
       DEF DeleteStep, BeginDelete, UpdateForDelete, ReadMessage, LockMessageRow, storeVars
  <2>8. ASSUME NEW r \in Request, RollBack(r) PROVE UNCHANGED text
    BY <2>8 DEF RollBack, storeVars
  <2>9. (\E c \in Channel : Archive(c) \/ Unarchive(c) \/ \E u \in User : RemoveMember(u, c))
           \/ (\E u \in User : Ban(u) \/ Unban(u))
           => UNCHANGED text
    BY DEF Archive, Unarchive, RemoveMember, Ban, Unban
  <2> QED
    BY <2>1, <2>2, <2>3, <2>5, <2>6, <2>7, <2>8, <2>9 DEF Next
<1> QED
  BY <1>1, InvariantHolds, PTL DEF Spec, TombstoneStays

\* sendMessage reads archived_at from the row it has locked: once an archiving has
\* committed no send that was under way adds a message.
THEOREM ArchivedChannelsAreClosed == Spec => ArchiveStopsWrites
<1>1. IInv /\ [Next]_vars => [\A c \in archived : last'[c] = last[c]]_vars
  <2> SUFFICES ASSUME IInv, Next, NEW c \in archived PROVE last'[c] = last[c]
    BY DEF vars
  <2>1. ASSUME NEW s \in Send, CommitSend(s) PROVE last'[c] = last[c]
    <3>1. ChannelOf[s] # c
      BY <2>1 DEF CommitSend, IInv, LockInv, PermittedIsOpen
    <3> QED
      BY <2>1, <3>1 DEF CommitSend, IInv, TypeOK
  <2>2. ASSUME NEW r \in Request, Refuse(r) PROVE UNCHANGED last
    BY <2>2 DEF Refuse, storeVars
  <2>3. ASSUME NEW s \in Send, SendStep(s) PROVE CommitSend(s) \/ UNCHANGED last
    BY <2>3, <2>2, RequestKinds
       DEF SendStep, ReadSender, LockChannel, Permit, AnswerDuplicate, storeVars
  <2>4. ASSUME NEW e \in Edit, EditStep(e) PROVE UNCHANGED last
    BY <2>4, <2>2, RequestKinds
       DEF EditStep, BeginEdit, UpdateForEdit, ReadMessage, LockMessageRow, storeVars
  <2>5. ASSUME NEW d \in Delete, DeleteStep(d) PROVE UNCHANGED last
    BY <2>5, <2>2, RequestKinds
       DEF DeleteStep, BeginDelete, UpdateForDelete, ReadMessage, LockMessageRow, storeVars
  <2>6. ASSUME NEW r \in Revision, CommitRevision(r) PROVE UNCHANGED last
    BY <2>6 DEF CommitRevision
  <2>7. ASSUME NEW r \in Request, RollBack(r) PROVE UNCHANGED last
    BY <2>7 DEF RollBack, storeVars
  <2>8. (\E d \in Channel : Archive(d) \/ Unarchive(d) \/ \E u \in User : RemoveMember(u, d))
           \/ (\E u \in User : Ban(u) \/ Unban(u))
           => UNCHANGED last
    BY DEF Archive, Unarchive, RemoveMember, Ban, Unban
  <2> QED
    BY <2>1, <2>3, <2>4, <2>5, <2>6, <2>7, <2>8 DEF Next
<1> QED
  BY <1>1, InvariantHolds, PTL DEF Spec, ArchiveStopsWrites

--------------------------------------------------------------------------------
(* UserRecords *)

(* The three invariants are of different kinds: the events need nothing beside    *)
(* themselves; the two about what is left over need to know of a deletion that    *)
(* has passed its read positions, which OvertakenInv says: a position that is     *)
(* there now and that it did not delete was written after it looked.              *)
OvertakenInv ==
  \A c \in Caller :
    /\ At(c, "last") /\ call[c].verb \in Leaving
    /\ "position" \notin took[c] /\ call[c].on \in positions
    => <<call[c].on, "position">> \in late

\* What a request that goes on is doing next.
LEMMA GoesOn ==
  ASSUME call \in [Caller -> CallRecords], NEW c \in Caller, NEW r \in Record \cup {NoRecord},
         NEW step \in {"find", "write", "join", "check", "put", "members", "positions", "last"},
         Goes(c, step, r)
  PROVE  /\ call' \in [Caller -> CallRecords]
         /\ \A d \in Caller \ {c} : call'[d] = call[d]
         /\ call'[c].verb = call[c].verb /\ call'[c].step = step /\ call'[c].on = r
BY DEF Goes, CallRecords

\* A request that is answered is idle, and the others go on.
LEMMA ComesToAnEnd ==
  ASSUME call \in [Caller -> CallRecords], NEW c \in Caller, Ends(c)
  PROVE  /\ call' \in [Caller -> CallRecords]
         /\ \A d \in Caller \ {c} : call'[d] = call[d]
         /\ call'[c] = Idle
BY DEF Ends, CallRecords, Idle

\* The last step of a request.
LEMMA EndKeepsTypes ==
  ASSUME UsersTypeOK, NEW c \in Caller, Ends(c), UNCHANGED <<name, calls, lost>>,
         profile' \subseteq Record, gone' \subseteq Record,
         joined' \subseteq Record, positions' \subseteq Record,
         told' \in [Record -> {"nothing", "added", "removed"}], silent' \subseteq Record,
         late' \subseteq Record \X {"profile", "member", "position"}
  PROVE  UsersTypeOK'
<1>1. /\ call' \in [Caller -> CallRecords]
      /\ \A d \in Caller \ {c} : call'[d] = call[d]
      /\ call'[c] = Idle
  BY ComesToAnEnd DEF UsersTypeOK
<1>2. took' \in [Caller -> SUBSET {"member", "position"}]
  BY DEF UsersTypeOK, Ends
<1>3. /\ \A d \in Caller : ~At(d, "idle")' => call'[d].verb \in Verbs
      /\ \A d \in Caller :
           call'[d].step \notin {"idle", "insert", "find"} =>
             call'[d].on \in Record /\ name'[call'[d].on] # "unused"
  BY <1>1 DEF UsersTypeOK, At, Idle
<1>4. \A r, q \in Holder' : r = q
  BY DEF UsersTypeOK, Holder
<1> QED
  BY <1>1, <1>2, <1>3, <1>4 DEF UsersTypeOK

\* A request that goes on to the row it has found.
LEMMA GoingKeepsTypes ==
  ASSUME UsersTypeOK, NEW c \in Caller, ~At(c, "idle"), NEW r \in Record, name[r] # "unused",
         NEW step \in {"put", "last"}, Goes(c, step, r),
         took' \in [Caller -> SUBSET {"member", "position"}],
         UNCHANGED <<recordVars, calls, lost, historyVars>>
  PROVE  UsersTypeOK'
<1>1. /\ call' \in [Caller -> CallRecords]
      /\ \A d \in Caller \ {c} : call'[d] = call[d]
      /\ call'[c].verb = call[c].verb /\ call'[c].step = step /\ call'[c].on = r
  BY GoesOn DEF UsersTypeOK
<1>2. UNCHANGED <<name, profile, gone, joined, positions, told, silent, late>>
  BY DEF recordVars, historyVars
<1>3. \A d \in Caller : ~At(d, "idle")' => call'[d].verb \in Verbs
  BY <1>1 DEF UsersTypeOK, At
<1>4. \A d \in Caller :
        call'[d].step \notin {"idle", "insert", "find"} =>
          call'[d].on \in Record /\ name'[call'[d].on] # "unused"
  BY <1>1, <1>2 DEF UsersTypeOK
<1>5. \A s, q \in Holder' : s = q
  BY <1>2 DEF UsersTypeOK, Holder
<1> QED
  BY <1>1, <1>2, <1>3, <1>4, <1>5 DEF UsersTypeOK

\* Types, and that the environment has one row for an external id: an insert waits for
\* there to be none, and a row is renamed only away from it.
THEOREM UsersTypeCorrect == UsersSpec => []UsersTypeOK
<1>1. UsersInit => UsersTypeOK
  BY DEF UsersInit, UsersTypeOK, Idle, Holder, At, CallRecords
<1>2. UsersTypeOK /\ [UsersNext]_userVars => UsersTypeOK'
  <2> SUFFICES ASSUME UsersTypeOK, [UsersNext]_userVars PROVE UsersTypeOK'
    OBVIOUS
  <2> USE DEF UsersTypeOK, Verbs, Leaving, Holder, At, Goes, Ends, Idle, Note
  <2>1. CASE UNCHANGED userVars
    BY <2>1 DEF userVars, recordVars, historyVars
  <2>2. ASSUME NEW c \in Caller, NEW verb \in Verbs, Calls(c, verb) PROVE UsersTypeOK'
    BY <2>2 DEF Calls, CallRecords, recordVars, historyVars
  <2>3. ASSUME NEW c \in Caller, Inserts(c) PROVE UsersTypeOK'
    <3> USE DEF Inserts, recordVars, historyVars
    <3>1. CASE Goes(c, "find", NoRecord) /\ UNCHANGED <<recordVars, took>>
      <4> HIDE DEF Goes
      <4> QED
        BY <2>3, <3>1, GoesOn
    <3>2. ASSUME NEW r \in Record, Holder = {}, name[r] = "unused",
                 name' = [name EXCEPT ![r] = "held"],
                 UNCHANGED <<gone, joined, positions>>, profile' \in {profile, profile \cup {r}}
          PROVE  /\ name' \in [Record -> {"unused", "held", "erased"}]
                 /\ profile' \subseteq Record
                 /\ \A p, q \in Holder' : p = q
                 /\ \A p \in Record : name[p] # "unused" => name'[p] # "unused"
                 /\ name'[r] # "unused"
      BY <3>2
    <3>3. CASE \E r \in Record :
                 /\ Holder = {} /\ name[r] = "unused"
                 /\ name' = [name EXCEPT ![r] = "held"]
                 /\ UNCHANGED <<gone, joined, positions>>
                 /\ profile' \in {profile, profile \cup {r}}
                 /\ Ends(c) \/ (Goes(c, "join", r) /\ UNCHANGED took)
      <4>1. PICK r \in Record :
                 /\ Holder = {} /\ name[r] = "unused"
                 /\ name' = [name EXCEPT ![r] = "held"]
                 /\ UNCHANGED <<gone, joined, positions>>
                 /\ profile' \in {profile, profile \cup {r}}
                 /\ Ends(c) \/ (Goes(c, "join", r) /\ UNCHANGED took)
        BY <3>3
      <4>2. CASE Ends(c)
        <5>1. /\ call' \in [Caller -> CallRecords]
              /\ \A d \in Caller \ {c} : call'[d] = call[d]
              /\ call'[c] = Idle
          BY <4>2, ComesToAnEnd
        <5>2. took' \in [Caller -> SUBSET {"member", "position"}]
          BY <4>2
        <5>3. UNCHANGED <<calls, lost, historyVars>>
          BY <2>3
        <5> HIDE DEF Ends, Inserts
        <5> QED
          BY <3>2, <4>1, <5>1, <5>2, <5>3
      <4>3. CASE Goes(c, "join", r) /\ UNCHANGED took
        <5> HIDE DEF Goes
        <5> QED
          BY <2>3, <3>2, <4>1, <4>3, GoesOn
      <4> QED
        BY <4>1, <4>2, <4>3
    <3> QED
      BY <2>3, <3>1, <3>3
  <2>4. ASSUME NEW c \in Caller, Finds(c) PROVE UsersTypeOK'
    <3>1. CASE Ends(c) /\ UNCHANGED <<recordVars, calls, lost, historyVars>>
      <4>1. Ends(c) /\ UNCHANGED <<name, profile, gone, joined, positions, told, silent, late,
                                   calls, lost>>
        BY <3>1 DEF recordVars, historyVars
      <4> QED
        BY <4>1, EndKeepsTypes
    <3>2. CASE \E r \in Holder :
                 /\ Goes(c, Then(call[c].verb), r)
                 /\ UNCHANGED <<took, recordVars, calls, lost, historyVars>>
      <4>1. PICK r \in Holder :
              /\ Goes(c, Then(call[c].verb), r)
              /\ UNCHANGED <<took, recordVars, calls, lost, historyVars>>
        BY <3>2
      <4>2. call[c].verb \in Verbs
        BY <2>4 DEF Finds
      <4>3. Then(call[c].verb) \in {"write", "join", "members", "positions", "check"}
        BY <4>2 DEF Then
      <4> HIDE DEF Then, Goes
      <4> QED
        BY <4>1, <4>2, <4>3, GoesOn DEF recordVars, historyVars
    <3> QED
      BY <2>4, <3>1, <3>2 DEF Finds
  <2>5. ASSUME NEW c \in Caller, Upserts(c) PROVE UsersTypeOK'
    <3>1. call[c].on \in Record /\ name' = name /\ Ends(c)
      BY <2>5 DEF Upserts
    <3>2. late' \subseteq Record \X {"profile", "member", "position"}
      BY <2>5, <3>1 DEF Upserts, historyVars
    <3>3. /\ UNCHANGED <<name, calls, lost>>
          /\ profile' \subseteq Record /\ gone' \subseteq Record
          /\ joined' \subseteq Record /\ positions' \subseteq Record
          /\ told' \in [Record -> {"nothing", "added", "removed"}] /\ silent' \subseteq Record
      BY <2>5, <3>1 DEF Upserts, historyVars
    <3> QED
      BY <3>1, <3>2, <3>3, EndKeepsTypes
  <2>6. ASSUME NEW c \in Caller, Patches(c) PROVE UsersTypeOK'
    <3>1. call[c].on \in Record /\ Ends(c) /\ UNCHANGED <<name, calls, lost>>
      BY <2>6 DEF Patches, historyVars
    <3>2. /\ profile' \subseteq Record /\ gone' \subseteq Record
          /\ joined' \subseteq Record /\ positions' \subseteq Record
      BY <2>6, <3>1 DEF Patches
    <3>3. told' \in [Record -> {"nothing", "added", "removed"}] /\ silent' \subseteq Record
      BY <2>6, <3>1 DEF Patches, historyVars
    <3>4. late' \subseteq Record \X {"profile", "member", "position"}
      BY <2>6 DEF Patches, historyVars
    <3> QED
      BY <3>1, <3>2, <3>3, <3>4, EndKeepsTypes
  <2>7. ASSUME NEW c \in Caller, Joins(c) PROVE UsersTypeOK'
    <3>1. call[c].on \in Record /\ name' = name /\ Ends(c)
      BY <2>7 DEF Joins
    <3>2. late' \subseteq Record \X {"profile", "member", "position"}
      BY <2>7, <3>1 DEF Joins, historyVars
    <3>3. /\ UNCHANGED <<name, calls, lost>>
          /\ profile' \subseteq Record /\ gone' \subseteq Record
          /\ joined' \subseteq Record /\ positions' \subseteq Record
          /\ told' \in [Record -> {"nothing", "added", "removed"}] /\ silent' \subseteq Record
      BY <2>7, <3>1 DEF Joins, historyVars
    <3> QED
      BY <3>1, <3>2, <3>3, EndKeepsTypes
  <2>8. ASSUME NEW c \in Caller, Checks(c) PROVE UsersTypeOK'
    <3>1. /\ ~At(c, "idle") /\ call[c].on \in Record /\ name[call[c].on] # "unused"
          /\ UNCHANGED <<recordVars, calls, lost, historyVars>>
      BY <2>8 DEF Checks
    <3>2. \/ Goes(c, "put", call[c].on) /\ UNCHANGED took
          \/ Ends(c)
      BY <2>8 DEF Checks
    <3>3. CASE Goes(c, "put", call[c].on) /\ UNCHANGED took
      BY <3>1, <3>3, GoingKeepsTypes
    <3>4. CASE Ends(c)
      <4>1. UNCHANGED <<name, profile, gone, joined, positions, told, silent, late, calls, lost>>
        BY <3>1 DEF recordVars, historyVars
      <4> QED
        BY <3>4, <4>1, EndKeepsTypes
    <3> QED
      BY <3>2, <3>3, <3>4
  <2>9. ASSUME NEW c \in Caller, PutsPosition(c) PROVE UsersTypeOK'
    <3>1. call[c].on \in Record /\ name' = name /\ Ends(c)
      BY <2>9 DEF PutsPosition
    <3>2. late' \subseteq Record \X {"profile", "member", "position"}
      BY <2>9, <3>1 DEF PutsPosition, historyVars
    <3>3. /\ UNCHANGED <<name, calls, lost>>
          /\ profile' \subseteq Record /\ gone' \subseteq Record
          /\ joined' \subseteq Record /\ positions' \subseteq Record
          /\ told' \in [Record -> {"nothing", "added", "removed"}] /\ silent' \subseteq Record
      BY <2>9, <3>1 DEF PutsPosition, historyVars
    <3> QED
      BY <3>1, <3>2, <3>3, EndKeepsTypes
  <2>10. ASSUME NEW c \in Caller, TakesMembership(c) PROVE UsersTypeOK'
    <3>1. ~At(c, "idle") /\ call[c].on \in Record /\ name[call[c].on] # "unused"
      BY <2>10 DEF TakesMembership
    <3>2. took' \in [Caller -> SUBSET {"member", "position"}]
      BY <2>10 DEF TakesMembership
    <3>3. Goes(c, "last", call[c].on) /\ UNCHANGED <<recordVars, calls, lost, historyVars>>
      BY <2>10 DEF TakesMembership
    <3> QED
      BY <3>1, <3>2, <3>3, GoingKeepsTypes
  <2>11. ASSUME NEW c \in Caller, Removes(c) PROVE UsersTypeOK'
    <3>1. call[c].on \in Record /\ Ends(c) /\ UNCHANGED <<name, calls, lost>>
      BY <2>11 DEF Removes
    <3>2. /\ profile' \subseteq Record /\ gone' \subseteq Record
          /\ joined' \subseteq Record /\ positions' \subseteq Record
      BY <2>11, <3>1 DEF Removes
    <3>3. told' \in [Record -> {"nothing", "added", "removed"}] /\ silent' \subseteq Record
      BY <2>11, <3>1 DEF Removes
    <3>4. late' \subseteq Record \X {"profile", "member", "position"}
      BY <2>11 DEF Removes
    <3> QED
      BY <3>1, <3>2, <3>3, <3>4, EndKeepsTypes
  <2>12. ASSUME NEW c \in Caller, TakesPosition(c) PROVE UsersTypeOK'
    <3>1. ~At(c, "idle") /\ call[c].on \in Record /\ name[call[c].on] # "unused"
      BY <2>12 DEF TakesPosition
    <3>2. took' \in [Caller -> SUBSET {"member", "position"}]
      BY <2>12 DEF TakesPosition
    <3>3. Goes(c, "last", call[c].on) /\ UNCHANGED <<recordVars, calls, lost, historyVars>>
      BY <2>12 DEF TakesPosition
    <3> QED
      BY <3>1, <3>2, <3>3, GoingKeepsTypes
  <2>13. ASSUME NEW c \in Caller, Leaves(c) PROVE UsersTypeOK'
    <3>1. /\ call[c].on \in Record /\ name[call[c].on] # "unused" /\ Ends(c)
          /\ UNCHANGED <<calls, lost, told>>
      BY <2>13 DEF Leaves
    <3>2. name' = name \/ name' = [name EXCEPT ![call[c].on] = "erased"]
      BY <2>13 DEF Leaves
    <3>3. /\ profile' \subseteq Record /\ gone' \subseteq Record
          /\ joined' \subseteq Record /\ positions' \subseteq Record
          /\ silent' \subseteq Record
      BY <2>13, <3>1 DEF Leaves
    <3>4. late' \subseteq Record \X {"profile", "member", "position"}
      BY <2>13 DEF Leaves
    <3>5. /\ name' \in [Record -> {"unused", "held", "erased"}]
          /\ \A r \in Record : name[r] # "unused" => name'[r] # "unused"
          /\ Holder' \subseteq Holder
      BY <3>1, <3>2
    <3>6. /\ call' \in [Caller -> CallRecords]
          /\ \A d \in Caller \ {c} : call'[d] = call[d]
          /\ call'[c] = Idle
      BY <3>1, ComesToAnEnd
    <3>7. took' \in [Caller -> SUBSET {"member", "position"}]
      BY <3>1
    <3>8. \A d \in Caller :
            /\ ~At(d, "idle")' => call'[d].verb \in Verbs
            /\ call'[d].step \notin {"idle", "insert", "find"} =>
                 call'[d].on \in Record /\ name'[call'[d].on] # "unused"
      BY <3>5, <3>6
    <3>9. \A r, q \in Holder' : r = q
      <4> HIDE DEF Holder
      <4> QED
        BY <3>5
    <3> QED
      BY <3>1, <3>3, <3>4, <3>5, <3>6, <3>7, <3>8, <3>9
  <2>14. ASSUME NEW c \in Caller, DeadlockEnds(c) \/ Dies(c) PROVE UsersTypeOK'
    BY <2>14, ComesToAnEnd DEF DeadlockEnds, Dies, recordVars, historyVars
  <2> HIDE DEF UsersTypeOK
  <2>15. ASSUME NEW c \in Caller, Proceeds(c) PROVE UsersTypeOK'
    BY ONLY <2>3, <2>4, <2>5, <2>6, <2>7, <2>8, <2>9, <2>10, <2>11, <2>12, <2>13, <2>14,
            <2>15, c \in Caller DEF Proceeds
  <2> QED
    BY <2>1, <2>2, <2>14, <2>15 DEF UsersNext
<1> QED
  BY <1>1, <1>2, PTL DEF UsersSpec

--------------------------------------------------------------------------------
\* Memberships and the events about them agree, except where a deletion or an erasure
\* took the membership, which is silent.
THEOREM EventsAreTrue == UsersSpec => []EventsTellMembership
<1>1. UsersInit => EventsTellMembership
  BY DEF UsersInit, EventsTellMembership
<1>2. UsersTypeOK /\ EventsTellMembership /\ [UsersNext]_userVars => EventsTellMembership'
  <2> SUFFICES ASSUME UsersTypeOK, EventsTellMembership, [UsersNext]_userVars
               PROVE EventsTellMembership'
    OBVIOUS
  <2> USE DEF EventsTellMembership, UsersTypeOK
  <2>1. CASE UNCHANGED userVars
    BY <2>1 DEF userVars, recordVars, historyVars
  <2>2. ASSUME NEW c \in Caller, NEW verb \in Verbs, Calls(c, verb) PROVE EventsTellMembership'
    BY <2>2 DEF Calls, recordVars, historyVars
  <2>3. ASSUME NEW c \in Caller, Inserts(c) PROVE EventsTellMembership'
    BY <2>3 DEF Inserts, recordVars, historyVars
  <2>4. ASSUME NEW c \in Caller, Finds(c) PROVE EventsTellMembership'
    BY <2>4 DEF Finds, recordVars, historyVars
  <2>5. ASSUME NEW c \in Caller, Upserts(c) PROVE EventsTellMembership'
    BY <2>5 DEF Upserts, recordVars, historyVars
  <2>6. ASSUME NEW c \in Caller, Patches(c) PROVE EventsTellMembership'
    BY <2>6 DEF Patches, recordVars, historyVars
  <2>7. ASSUME NEW c \in Caller, Joins(c) PROVE EventsTellMembership'
    BY <2>7 DEF Joins, recordVars, historyVars
  <2>8. ASSUME NEW c \in Caller, Checks(c) PROVE EventsTellMembership'
    BY <2>8 DEF Checks, recordVars, historyVars
  <2>9. ASSUME NEW c \in Caller, PutsPosition(c) PROVE EventsTellMembership'
    BY <2>9 DEF PutsPosition, recordVars, historyVars
  <2>10. ASSUME NEW c \in Caller, TakesMembership(c) PROVE EventsTellMembership'
    BY <2>10 DEF TakesMembership, recordVars, historyVars
  <2>11. ASSUME NEW c \in Caller, Removes(c) PROVE EventsTellMembership'
    BY <2>11 DEF Removes, recordVars, historyVars
  <2>12. ASSUME NEW c \in Caller, TakesPosition(c) PROVE EventsTellMembership'
    BY <2>12 DEF TakesPosition, recordVars, historyVars
  <2>13. ASSUME NEW c \in Caller, Leaves(c) PROVE EventsTellMembership'
    BY <2>13 DEF Leaves, recordVars, historyVars
  <2>14. ASSUME NEW c \in Caller, DeadlockEnds(c) PROVE EventsTellMembership'
    BY <2>14 DEF DeadlockEnds, recordVars, historyVars
  <2>15. ASSUME NEW c \in Caller, Dies(c) PROVE EventsTellMembership'
    BY <2>15 DEF Dies, recordVars, historyVars
  <2> QED
    BY <2>1, <2>2, <2>3, <2>4, <2>5, <2>6, <2>7, <2>8, <2>9, <2>10, <2>11,
       <2>12, <2>13, <2>14, <2>15 DEF UsersNext, Proceeds
<1> QED
  BY <1>1, <1>2, UsersTypeCorrect, PTL DEF UsersSpec

\* A deletion past its read positions knows of all of them but those written since.
THEOREM OvertakenIsNoted == UsersSpec => []OvertakenInv
<1>1. UsersInit => OvertakenInv
  BY DEF UsersInit, OvertakenInv, At, Idle
<1>2. UsersTypeOK /\ OvertakenInv /\ [UsersNext]_userVars => OvertakenInv'
  <2> SUFFICES ASSUME UsersTypeOK, OvertakenInv, [UsersNext]_userVars PROVE OvertakenInv'
    OBVIOUS
  <2> USE DEF UsersTypeOK, CallRecords, OvertakenInv, At, Goes, Ends, Idle, Note, LeavingNow
  <2>1. CASE UNCHANGED userVars
    BY <2>1 DEF userVars, recordVars, historyVars
  <2>2. ASSUME NEW c \in Caller, NEW verb \in Verbs, Calls(c, verb) PROVE OvertakenInv'
    BY <2>2 DEF Calls, recordVars, historyVars
  <2>3. ASSUME NEW c \in Caller, Inserts(c) PROVE OvertakenInv'
    <3>1. UNCHANGED <<positions, late>> /\ call'[c].step # "last"
      BY <2>3 DEF Inserts, recordVars, historyVars
    <3>2. \A d \in Caller \ {c} : call'[d] = call[d] /\ took'[d] = took[d]
      BY <2>3 DEF Inserts
    <3> QED
      BY <3>1, <3>2
  <2>4. ASSUME NEW c \in Caller, Finds(c) PROVE OvertakenInv'
    <3>1. CASE Ends(c) /\ UNCHANGED <<recordVars, calls, lost, historyVars>>
      BY <3>1 DEF recordVars, historyVars
    <3>2. CASE \E r \in Holder :
                 /\ Goes(c, Then(call[c].verb), r)
                 /\ UNCHANGED <<took, recordVars, calls, lost, historyVars>>
      <4>1. PICK r \in Holder :
              /\ Goes(c, Then(call[c].verb), r)
              /\ UNCHANGED <<took, recordVars, calls, lost, historyVars>>
        BY <3>2
      <4>2. /\ Then(call[c].verb) \in {"write", "join", "members", "positions", "check"}
            /\ r \in Record
        <5>1. call[c].verb \in Verbs
          BY <2>4 DEF Finds
        <5> QED
          BY <4>1, <5>1 DEF Then, Verbs, Leaving, Holder
      <4> HIDE DEF Then, Goes
      <4>3. call'[c].step # "last" /\ \A d \in Caller \ {c} : call'[d] = call[d]
        BY <4>1, <4>2, GoesOn
      <4> QED
        BY <4>1, <4>3 DEF recordVars, historyVars
    <3> QED
      BY <2>4, <3>1, <3>2 DEF Finds
  <2>5. ASSUME NEW c \in Caller, Upserts(c) PROVE OvertakenInv'
    BY <2>5 DEF Upserts, recordVars, historyVars
  <2>6. ASSUME NEW c \in Caller, Patches(c) PROVE OvertakenInv'
    BY <2>6 DEF Patches, recordVars, historyVars
  <2>7. ASSUME NEW c \in Caller, Joins(c) PROVE OvertakenInv'
    BY <2>7 DEF Joins, recordVars, historyVars
  <2>8. ASSUME NEW c \in Caller, Checks(c) PROVE OvertakenInv'
    <3>1. UNCHANGED <<positions, late>> /\ call'[c].step # "last"
      BY <2>8 DEF Checks, recordVars, historyVars
    <3>2. \A d \in Caller \ {c} : call'[d] = call[d] /\ took'[d] = took[d]
      BY <2>8 DEF Checks
    <3> QED
      BY <3>1, <3>2
  <2>9. ASSUME NEW c \in Caller, PutsPosition(c) PROVE OvertakenInv'
    BY <2>9 DEF PutsPosition, recordVars, historyVars
  <2>10. ASSUME NEW c \in Caller, TakesMembership(c) PROVE OvertakenInv'
    <3>1. call[c].on \in Record /\ call[c].verb = "remove" /\ Goes(c, "last", call[c].on)
      BY <2>10 DEF TakesMembership
    <3> HIDE DEF Goes
    <3>2. call'[c].verb = "remove" /\ \A d \in Caller \ {c} : call'[d] = call[d]
      BY <3>1, GoesOn
    <3> QED
      BY <2>10, <3>2 DEF TakesMembership, Leaving, recordVars, historyVars
  <2>11. ASSUME NEW c \in Caller, Removes(c) PROVE OvertakenInv'
    BY <2>11 DEF Removes, recordVars, historyVars
  <2>12. ASSUME NEW c \in Caller, TakesPosition(c) PROVE OvertakenInv'
    BY <2>12 DEF TakesPosition, recordVars, historyVars
  <2>13. ASSUME NEW c \in Caller, Leaves(c) PROVE OvertakenInv'
    BY <2>13 DEF Leaves, recordVars, historyVars
  <2>14. ASSUME NEW c \in Caller, DeadlockEnds(c) PROVE OvertakenInv'
    BY <2>14 DEF DeadlockEnds, recordVars, historyVars
  <2>15. ASSUME NEW c \in Caller, Dies(c) PROVE OvertakenInv'
    BY <2>15 DEF Dies, recordVars, historyVars
  <2> QED
    BY <2>1, <2>2, <2>3, <2>4, <2>5, <2>6, <2>7, <2>8, <2>9, <2>10, <2>11,
       <2>12, <2>13, <2>14, <2>15 DEF UsersNext, Proceeds
<1> QED
  BY <1>1, <1>2, UsersTypeCorrect, PTL DEF UsersSpec

\* No member's read position outlives the membership, but one that was checked before it
\* went.
THEOREM PositionsLeaveWithMembers == UsersSpec => []PositionsFollowMembership
<1>1. UsersInit => PositionsFollowMembership
  BY DEF UsersInit, PositionsFollowMembership
<1>2. UsersTypeOK /\ OvertakenInv /\ PositionsFollowMembership /\ [UsersNext]_userVars
        => PositionsFollowMembership'
  <2> SUFFICES ASSUME UsersTypeOK, OvertakenInv, PositionsFollowMembership, [UsersNext]_userVars
               PROVE  PositionsFollowMembership'
    OBVIOUS
  <2> USE DEF UsersTypeOK, OvertakenInv, PositionsFollowMembership, At, Note
  <2>1. CASE UNCHANGED userVars
    BY <2>1 DEF userVars, recordVars, historyVars
  <2>2. ASSUME NEW c \in Caller, NEW verb \in Verbs, Calls(c, verb) PROVE PositionsFollowMembership'
    BY <2>2 DEF Calls, recordVars, historyVars
  <2>3. ASSUME NEW c \in Caller, Inserts(c) PROVE PositionsFollowMembership'
    BY <2>3 DEF Inserts, recordVars, historyVars
  <2>4. ASSUME NEW c \in Caller, Finds(c) PROVE PositionsFollowMembership'
    BY <2>4 DEF Finds, recordVars, historyVars
  <2>5. ASSUME NEW c \in Caller, Upserts(c) PROVE PositionsFollowMembership'
    BY <2>5 DEF Upserts, recordVars, historyVars
  <2>6. ASSUME NEW c \in Caller, Patches(c) PROVE PositionsFollowMembership'
    BY <2>6 DEF Patches, recordVars, historyVars
  <2>7. ASSUME NEW c \in Caller, Joins(c) PROVE PositionsFollowMembership'
    BY <2>7 DEF Joins, recordVars, historyVars
  <2>8. ASSUME NEW c \in Caller, Checks(c) PROVE PositionsFollowMembership'
    BY <2>8 DEF Checks, recordVars, historyVars
  <2>9. ASSUME NEW c \in Caller, PutsPosition(c) PROVE PositionsFollowMembership'
    BY <2>9 DEF PutsPosition, recordVars, historyVars
  <2>10. ASSUME NEW c \in Caller, TakesMembership(c) PROVE PositionsFollowMembership'
    BY <2>10 DEF TakesMembership, recordVars, historyVars
  <2>11. ASSUME NEW c \in Caller, Removes(c) PROVE PositionsFollowMembership'
    BY <2>11 DEF Removes, recordVars, historyVars
  <2>12. ASSUME NEW c \in Caller, TakesPosition(c) PROVE PositionsFollowMembership'
    BY <2>12 DEF TakesPosition, recordVars, historyVars
  <2>13. ASSUME NEW c \in Caller, Leaves(c) PROVE PositionsFollowMembership'
    BY <2>13 DEF Leaves, recordVars, historyVars
  <2>14. ASSUME NEW c \in Caller, DeadlockEnds(c) PROVE PositionsFollowMembership'
    BY <2>14 DEF DeadlockEnds, recordVars, historyVars
  <2>15. ASSUME NEW c \in Caller, Dies(c) PROVE PositionsFollowMembership'
    BY <2>15 DEF Dies, recordVars, historyVars
  <2> QED
    BY <2>1, <2>2, <2>3, <2>4, <2>5, <2>6, <2>7, <2>8, <2>9, <2>10, <2>11,
       <2>12, <2>13, <2>14, <2>15 DEF UsersNext, Proceeds
<1> QED
  BY <1>1, <1>2, UsersTypeCorrect, OvertakenIsNoted, PTL DEF UsersSpec

\* An erasure leaves nothing behind that a call it has overtaken did not write.
THEOREM ErasureIsComplete == UsersSpec => []ErasedIsGone
<1>1. UsersInit => ErasedIsGone
  BY DEF UsersInit, ErasedIsGone
<1>2. UsersTypeOK /\ OvertakenInv /\ ErasedIsGone /\ [UsersNext]_userVars => ErasedIsGone'
  <2> SUFFICES ASSUME UsersTypeOK, OvertakenInv, ErasedIsGone, [UsersNext]_userVars PROVE ErasedIsGone'
    OBVIOUS
  <2> USE DEF UsersTypeOK, OvertakenInv, ErasedIsGone, At, Note
  <2>1. CASE UNCHANGED userVars
    BY <2>1 DEF userVars, recordVars, historyVars
  <2>2. ASSUME NEW c \in Caller, NEW verb \in Verbs, Calls(c, verb) PROVE ErasedIsGone'
    BY <2>2 DEF Calls, recordVars, historyVars
  <2>3. ASSUME NEW c \in Caller, Inserts(c) PROVE ErasedIsGone'
    BY <2>3 DEF Inserts, recordVars, historyVars
  <2>4. ASSUME NEW c \in Caller, Finds(c) PROVE ErasedIsGone'
    BY <2>4 DEF Finds, recordVars, historyVars
  <2>5. ASSUME NEW c \in Caller, Upserts(c) PROVE ErasedIsGone'
    BY <2>5 DEF Upserts, recordVars, historyVars
  <2>6. ASSUME NEW c \in Caller, Patches(c) PROVE ErasedIsGone'
    BY <2>6 DEF Patches, recordVars, historyVars
  <2>7. ASSUME NEW c \in Caller, Joins(c) PROVE ErasedIsGone'
    BY <2>7 DEF Joins, recordVars, historyVars
  <2>8. ASSUME NEW c \in Caller, Checks(c) PROVE ErasedIsGone'
    BY <2>8 DEF Checks, recordVars, historyVars
  <2>9. ASSUME NEW c \in Caller, PutsPosition(c) PROVE ErasedIsGone'
    BY <2>9 DEF PutsPosition, recordVars, historyVars
  <2>10. ASSUME NEW c \in Caller, TakesMembership(c) PROVE ErasedIsGone'
    BY <2>10 DEF TakesMembership, recordVars, historyVars
  <2>11. ASSUME NEW c \in Caller, Removes(c) PROVE ErasedIsGone'
    BY <2>11 DEF Removes, recordVars, historyVars
  <2>12. ASSUME NEW c \in Caller, TakesPosition(c) PROVE ErasedIsGone'
    BY <2>12 DEF TakesPosition, recordVars, historyVars
  <2>13. ASSUME NEW c \in Caller, Leaves(c) PROVE ErasedIsGone'
    BY <2>13 DEF Leaves, recordVars, historyVars
  <2>14. ASSUME NEW c \in Caller, DeadlockEnds(c) PROVE ErasedIsGone'
    BY <2>14 DEF DeadlockEnds, recordVars, historyVars
  <2>15. ASSUME NEW c \in Caller, Dies(c) PROVE ErasedIsGone'
    BY <2>15 DEF Dies, recordVars, historyVars
  <2> QED
    BY <2>1, <2>2, <2>3, <2>4, <2>5, <2>6, <2>7, <2>8, <2>9, <2>10, <2>11,
       <2>12, <2>13, <2>14, <2>15 DEF UsersNext, Proceeds
<1> QED
  BY <1>1, <1>2, UsersTypeCorrect, OvertakenIsNoted, PTL DEF UsersSpec

--------------------------------------------------------------------------------
(* ConnectionSlots *)

(***************************************************************************)
(* Whose the places are.  Apart from the places whose winning was never     *)
(* heard of, a walk is made by a connection that holds none and that Redis  *)
(* has not confirmed within the bound; a place that was won and not heard   *)
(* of yet, and afterwards the one the connection believes in, is the only   *)
(* one under its id; and a confirmation that is younger than the bound      *)
(* means that the key still lives, for the rest of it.                      *)
(***************************************************************************)
Keeps(c, s) == since[c] < Bound => holder[s] = c /\ left[s] = Bound - since[c]
HoldsOnly(c, s) == \A t \in Place : holder[t] = c => t = s \/ t \in unheard[c]
HoldsNothing(c) == \A t \in Place : holder[t] = c => t \in unheard[c]

WalkersInv == \A c \in Connection : walk[c] # 0 => won[c] = 0 /\ since[c] = Bound /\ HoldsNothing(c)
WinnersInv ==
  \A c \in Connection :
    won[c] # 0 => HoldsOnly(c, won[c]) /\ (conn[c] # "closed" => Keeps(c, won[c]))
PlacedInv ==
  \A c \in Connection :
    conn[c] = "open" /\ Resting(c) =>
      HoldsOnly(c, place[c]) /\ (place[c] # 0 => Keeps(c, place[c]))
NewInv == \A c \in Connection : conn[c] = "new" => Resting(c) /\ since[c] = Bound /\ HoldsNothing(c)
DueInv == \A c \in due : conn[c] = "open" /\ Resting(c) /\ place[c] # 0
ClaimingInv == \A c \in Connection : conn[c] = "claiming" => ~Resting(c)

SlotsInv == WalkersInv /\ WinnersInv /\ PlacedInv /\ NewInv /\ DueInv /\ ClaimingInv

\* Every variable of the connection slots has its type in every reachable state.
THEOREM SlotsTypeCorrect == SlotsSpec => []SlotsTypeOK
<1>1. SlotsInit => SlotsTypeOK
  BY SlotsAssumption DEF SlotsInit, SlotsTypeOK, Place
<1>2. SlotsTypeOK /\ [SlotsNext]_socketVars => SlotsTypeOK'
  <2> SUFFICES ASSUME SlotsTypeOK, [SlotsNext]_socketVars PROVE SlotsTypeOK'
    OBVIOUS
  <2> USE SlotsAssumption DEF SlotsTypeOK, Place, keyVars, walkVars
  <2>1. ASSUME NEW c \in Connection, Open(c) PROVE SlotsTypeOK'
    <3>1. conn' \in [Connection -> {"new", "claiming", "open", "refused", "closed"}]
      BY <2>1 DEF Open
    <3>2. walk' \in [Connection -> 0..Places + 1]
      BY <2>1 DEF Open
    <3> QED
      BY <2>1, <3>1, <3>2 DEF Open
  <2>2. ASSUME NEW c \in Connection, TakePlace(c) PROVE SlotsTypeOK'
    <3>1. holder' \in [Place -> Connection \cup {Free}] /\ left' \in [Place -> 0..Bound]
      BY <2>2 DEF TakePlace, Write
    <3>2. won' \in [Connection -> 0..Places] /\ walk' \in [Connection -> 0..Places + 1]
      BY <2>2 DEF TakePlace
    <3>3. since' \in [Connection -> 0..Bound]
      BY <2>2 DEF TakePlace, Write
    <3> QED
      BY <2>2, <3>1, <3>2, <3>3 DEF TakePlace
  <2>3. ASSUME NEW c \in Connection, SkipPlace(c) PROVE SlotsTypeOK'
    <3>0. walk[c] \in 1..Places /\ walk' = [walk EXCEPT ![c] = walk[c] + 1]
      BY <2>3 DEF SkipPlace
    <3>1. walk[c] + 1 \in 0..Places + 1
      BY <3>0
    <3>2. walk' \in [Connection -> 0..Places + 1]
      BY <3>0, <3>1
    <3> QED
      BY <2>3, <3>2 DEF SkipPlace
  <2>4. ASSUME NEW c \in Connection, WalkFails(c) PROVE SlotsTypeOK'
    <3>1. conn' \in [Connection -> {"new", "claiming", "open", "refused", "closed"}]
      BY <2>4 DEF WalkFails
    <3>2. walk' \in [Connection -> 0..Places + 1]
      BY <2>4 DEF WalkFails
    <3> QED
      BY <2>4, <3>1, <3>2 DEF WalkFails
  <2>5. ASSUME NEW c \in Connection, HearPlace(c) PROVE SlotsTypeOK'
    <3>1. conn' \in [Connection -> {"new", "claiming", "open", "refused", "closed"}]
      BY <2>5 DEF HearPlace
    <3>2. place' \in [Connection -> 0..Places] /\ won' \in [Connection -> 0..Places]
      BY <2>5 DEF HearPlace
    <3> QED
      BY <2>5, <3>1, <3>2 DEF HearPlace
  <2>6. ASSUME NEW c \in Connection, HearFull(c) PROVE SlotsTypeOK'
    <3>1. conn' \in [Connection -> {"new", "claiming", "open", "refused", "closed"}]
      BY <2>6 DEF HearFull
    <3>2. place' \in [Connection -> 0..Places] /\ walk' \in [Connection -> 0..Places + 1]
      BY <2>6 DEF HearFull
    <3> QED
      BY <2>6, <3>1, <3>2 DEF HearFull
  <2>7. ASSUME NEW c \in Connection, Renew(c) PROVE SlotsTypeOK'
    <3>0. /\ holder' = [holder EXCEPT ![place[c]] = c]
          /\ left' = [left EXCEPT ![place[c]] = Bound]
      BY <2>7 DEF Renew, Write
    <3>1. holder' \in [Place -> Connection \cup {Free}]
      BY <3>0
    <3>3. Bound \in 0..Bound
      OBVIOUS
    <3>4. left' \in [Place -> 0..Bound]
      BY <3>0, <3>3
    <3>2. since' \in [Connection -> 0..Bound] /\ due' \subseteq Connection
      BY <2>7 DEF Renew, Write
    <3> QED
      BY <2>7, <3>1, <3>2, <3>4 DEF Renew
  <2>8. ASSUME NEW c \in Connection, RenewRefused(c) PROVE SlotsTypeOK'
    <3>1. walk' \in [Connection -> 0..Places + 1] /\ due' \subseteq Connection
      BY <2>8 DEF RenewRefused
    <3> QED
      BY <2>8, <3>1 DEF RenewRefused
  <2>9. ASSUME NEW c \in Connection, RenewFails(c) PROVE SlotsTypeOK'
    BY <2>9 DEF RenewFails
  <2>10. ASSUME NEW c \in Connection, Close(c) PROVE SlotsTypeOK'
    <3>1. conn' \in [Connection -> {"new", "claiming", "open", "refused", "closed"}]
      BY <2>10 DEF Close
    <3>2. holder' \in [Place -> Connection \cup {Free}] /\ left' \in [Place -> 0..Bound]
      BY <2>10 DEF Close
    <3>3. since' \in [Connection -> 0..Bound] /\ due' \subseteq Connection
      BY <2>10 DEF Close
    <3> QED
      BY <2>10, <3>1, <3>2, <3>3 DEF Close
  <2>11. ASSUME NEW c \in Connection, Die(c) PROVE SlotsTypeOK'
    <3>1. conn' \in [Connection -> {"new", "claiming", "open", "refused", "closed"}]
      BY <2>11 DEF Die
    <3>2. place' \in [Connection -> 0..Places] /\ walk' \in [Connection -> 0..Places + 1]
      BY <2>11 DEF Die
    <3>3. won' \in [Connection -> 0..Places] /\ since' \in [Connection -> 0..Bound]
      BY <2>11 DEF Die
    <3> QED
      BY <2>11, <3>1, <3>2, <3>3 DEF Die
  <2>12. CASE Tick
    BY <2>12 DEF Tick
  <2>13. CASE GoDown
    <3>1. outages + 1 \in 0..MaxOutages
      BY <2>13 DEF GoDown
    <3> QED
      BY <2>13, <3>1 DEF GoDown
  <2>14. CASE GoUp
    <3>1. CASE UNCHANGED <<keyVars, since>>
      BY <2>14, <3>1 DEF GoUp
    <3>2. CASE /\ holder' = [s \in Place |-> Free] /\ left' = [s \in Place |-> 0]
               /\ since' = [c \in Connection |-> Bound]
      BY <2>14, <3>2 DEF GoUp
    <3> QED
      BY <2>14, <3>1, <3>2 DEF GoUp
  <2>15. CASE UNCHANGED socketVars
    BY <2>15 DEF socketVars
  <2>16. ASSUME NEW c \in Connection, LosePlace(c) PROVE SlotsTypeOK'
    <3>1. conn' \in [Connection -> {"new", "claiming", "open", "refused", "closed"}]
      BY <2>16 DEF LosePlace
    <3>2. won' \in [Connection -> 0..Places] /\ unheard' \in [Connection -> SUBSET Place]
      BY <2>16 DEF LosePlace
    <3>3. outages' \in 0..MaxOutages /\ since' \in [Connection -> 0..Bound]
      BY <2>16 DEF LosePlace
    <3> QED
      BY <2>16, <3>1, <3>2, <3>3 DEF LosePlace
  <2> QED
    BY <2>1, <2>2, <2>3, <2>4, <2>5, <2>6, <2>7, <2>8, <2>9, <2>10, <2>11, <2>12, <2>13,
       <2>14, <2>15, <2>16 DEF SlotsNext, Answer, Serve
<1> QED
  BY <1>1, <1>2, PTL DEF SlotsSpec

\* Every step of a gateway, of Redis and of time keeps the places with their connections.
LEMMA SlotsPreserved ==
  SlotsTypeOK /\ SlotsInv /\ [SlotsNext]_socketVars => SlotsInv'
<1> SUFFICES ASSUME SlotsTypeOK, SlotsInv, [SlotsNext]_socketVars PROVE SlotsInv'
  OBVIOUS
<1> USE SlotsAssumption DEF SlotsTypeOK, SlotsInv, Place, Keeps, HoldsOnly, HoldsNothing,
                           Resting, keyVars, walkVars
<1>1. ASSUME NEW c \in Connection, Open(c) PROVE SlotsInv'
  <2>1. WalkersInv'
    BY <1>1 DEF Open, WalkersInv, NewInv
  <2>2. WinnersInv'
    BY <1>1 DEF Open, WinnersInv
  <2>3. PlacedInv'
    BY <1>1 DEF Open, PlacedInv
  <2>4. NewInv'
    BY <1>1 DEF Open, NewInv
  <2>5. DueInv'
    BY <1>1 DEF Open, DueInv
  <2>6. ClaimingInv'
    BY <1>1 DEF Open, ClaimingInv
  <2> QED
    BY <2>1, <2>2, <2>3, <2>4, <2>5, <2>6
<1>2. ASSUME NEW c \in Connection, TakePlace(c) PROVE SlotsInv'
  <2>1. WalkersInv'
    BY <1>2 DEF TakePlace, Write, WalkersInv
  <2>2. WinnersInv'
    <3>1. /\ walk[c] \in Place /\ walk[c] # 0 /\ holder[walk[c]] = Free
          /\ won' = [won EXCEPT ![c] = walk[c]] /\ UNCHANGED <<conn, unheard>>
      BY <1>2 DEF TakePlace
    <3>2. HoldsNothing(c)
      BY <3>1 DEF WalkersInv
    <3>3. /\ holder' = [holder EXCEPT ![walk[c]] = c] /\ since' = [since EXCEPT ![c] = 0]
          /\ left' = [left EXCEPT ![walk[c]] = Bound]
      BY <1>2 DEF TakePlace, Write
    <3> SUFFICES ASSUME NEW d \in Connection, won'[d] # 0
                 PROVE  HoldsOnly(d, won[d])' /\ (conn'[d] # "closed" => Keeps(d, won[d])')
      BY DEF WinnersInv
    <3>4. CASE d = c
      BY <3>1, <3>2, <3>3, <3>4
    <3>5. CASE d # c
      <4>1. won'[d] = won[d] /\ won[d] # 0 /\ conn' = conn
        BY <3>1, <3>5
      <4>2. HoldsOnly(d, won[d]) /\ (conn[d] # "closed" => Keeps(d, won[d]))
        BY <4>1 DEF WinnersInv
      <4>3. won[d] \in Place
        BY <4>1
      <4> QED
        BY <3>1, <3>3, <3>5, <4>1, <4>2, <4>3
    <3> QED
      BY <3>4, <3>5
  <2>3. PlacedInv'
    <3>1. /\ walk[c] \in Place /\ walk[c] # 0 /\ holder[walk[c]] = Free
          /\ won' = [won EXCEPT ![c] = walk[c]] /\ walk' = [walk EXCEPT ![c] = 0]
          /\ UNCHANGED <<conn, place, unheard>>
      BY <1>2 DEF TakePlace
    <3>2. /\ holder' = [holder EXCEPT ![walk[c]] = c] /\ since' = [since EXCEPT ![c] = 0]
          /\ left' = [left EXCEPT ![walk[c]] = Bound]
      BY <1>2 DEF TakePlace, Write
    <3> SUFFICES ASSUME NEW d \in Connection, conn'[d] = "open" /\ Resting(d)'
                 PROVE  HoldsOnly(d, place[d])' /\ (place'[d] # 0 => Keeps(d, place[d])')
      BY DEF PlacedInv
    <3>3. d # c /\ conn[d] = "open" /\ Resting(d)
      BY <3>1
    <3>4. HoldsOnly(d, place[d]) /\ (place[d] # 0 => Keeps(d, place[d]))
      BY <3>3 DEF PlacedInv
    <3>5. HoldsOnly(d, place[d])'
      BY <3>1, <3>2, <3>3, <3>4
    <3>6. ASSUME place'[d] # 0 PROVE Keeps(d, place[d])'
      BY <3>1, <3>2, <3>3, <3>4, <3>6
    <3> QED
      BY <3>5, <3>6
  <2>4. NewInv'
    BY <1>2 DEF TakePlace, Write, NewInv
  <2>5. DueInv'
    BY <1>2 DEF TakePlace, Write, DueInv
  <2>6. ClaimingInv'
    BY <1>2 DEF TakePlace, Write, ClaimingInv
  <2> QED
    BY <2>1, <2>2, <2>3, <2>4, <2>5, <2>6
<1>3. ASSUME NEW c \in Connection, SkipPlace(c) PROVE SlotsInv'
  <2>1. WalkersInv'
    <3>1. walk[c] # 0 /\ walk' = [walk EXCEPT ![c] = @ + 1] /\ UNCHANGED <<keyVars, won, unheard, since>>
      BY <1>3 DEF SkipPlace
    <3> QED
      BY <3>1 DEF WalkersInv
  <2>2. WinnersInv'
    BY <1>3 DEF SkipPlace, WinnersInv
  <2>3. PlacedInv'
    <3>1. /\ walk[c] # 0 /\ walk' = [walk EXCEPT ![c] = @ + 1]
          /\ UNCHANGED <<keyVars, conn, place, won, unheard, since>>
      BY <1>3 DEF SkipPlace
    <3> QED
      BY <3>1 DEF PlacedInv
  <2>4. NewInv'
    <3>1. /\ walk[c] # 0 /\ walk' = [walk EXCEPT ![c] = @ + 1]
          /\ UNCHANGED <<keyVars, conn, won, unheard, since>>
      BY <1>3 DEF SkipPlace
    <3> QED
      BY <3>1 DEF NewInv
  <2>5. DueInv'
    BY <1>3 DEF SkipPlace, DueInv
  <2>6. ClaimingInv'
    BY <1>3 DEF SkipPlace, ClaimingInv
  <2> QED
    BY <2>1, <2>2, <2>3, <2>4, <2>5, <2>6
<1>4. ASSUME NEW c \in Connection, WalkFails(c) PROVE SlotsInv'
  <2>1. WalkersInv'
    BY <1>4 DEF WalkFails, WalkersInv
  <2>2. WinnersInv'
    BY <1>4 DEF WalkFails, WinnersInv
  <2>3. PlacedInv'
    BY <1>4 DEF WalkFails, PlacedInv, WalkersInv
  <2>4. NewInv'
    BY <1>4 DEF WalkFails, NewInv
  <2>5. DueInv'
    BY <1>4 DEF WalkFails, DueInv
  <2>6. ClaimingInv'
    BY <1>4 DEF WalkFails, ClaimingInv
  <2> QED
    BY <2>1, <2>2, <2>3, <2>4, <2>5, <2>6
<1>5. ASSUME NEW c \in Connection, HearPlace(c) PROVE SlotsInv'
  <2>1. WalkersInv'
    BY <1>5 DEF HearPlace, WalkersInv, WinnersInv
  <2>2. WinnersInv'
    BY <1>5 DEF HearPlace, WinnersInv
  <2>3. PlacedInv'
    BY <1>5 DEF HearPlace, PlacedInv, WinnersInv
  <2>4. NewInv'
    BY <1>5 DEF HearPlace, NewInv
  <2>5. DueInv'
    BY <1>5 DEF HearPlace, DueInv
  <2>6. ClaimingInv'
    BY <1>5 DEF HearPlace, ClaimingInv
  <2> QED
    BY <2>1, <2>2, <2>3, <2>4, <2>5, <2>6
<1>6. ASSUME NEW c \in Connection, HearFull(c) PROVE SlotsInv'
  <2>1. WalkersInv'
    BY <1>6 DEF HearFull, WalkersInv
  <2>2. WinnersInv'
    BY <1>6 DEF HearFull, WinnersInv
  <2>3. PlacedInv'
    BY <1>6 DEF HearFull, PlacedInv, WalkersInv
  <2>4. NewInv'
    BY <1>6 DEF HearFull, NewInv
  <2>5. DueInv'
    BY <1>6 DEF HearFull, DueInv
  <2>6. ClaimingInv'
    BY <1>6 DEF HearFull, ClaimingInv
  <2> QED
    BY <2>1, <2>2, <2>3, <2>4, <2>5, <2>6
<1>7. ASSUME NEW c \in Connection, Renew(c) PROVE SlotsInv'
  <2>1. WalkersInv'
    BY <1>7 DEF Renew, Write, Owned, WalkersInv, DueInv
  <2>2. WinnersInv'
    <3>1. won[c] = 0 /\ holder[place[c]] = c /\ UNCHANGED <<conn, won, unheard>>
      BY <1>7 DEF Renew, Owned, DueInv
    <3>2. /\ holder' = [holder EXCEPT ![place[c]] = c] /\ since' = [since EXCEPT ![c] = 0]
          /\ left' = [left EXCEPT ![place[c]] = Bound]
      BY <1>7 DEF Renew, Write
    <3> SUFFICES ASSUME NEW d \in Connection, won'[d] # 0
                 PROVE  HoldsOnly(d, won[d])' /\ (conn'[d] # "closed" => Keeps(d, won[d])')
      BY DEF WinnersInv
    <3>3. d # c /\ won[d] # 0
      BY <3>1
    <3>4. HoldsOnly(d, won[d]) /\ (conn[d] # "closed" => Keeps(d, won[d]))
      BY <3>3 DEF WinnersInv
    <3>5. won[d] \in Place
      BY <3>3
    <3> QED
      BY <3>1, <3>2, <3>3, <3>4, <3>5
  <2>3. PlacedInv'
    BY <1>7 DEF Renew, Write, Owned, PlacedInv, DueInv
  <2>4. NewInv'
    BY <1>7 DEF Renew, Write, Owned, NewInv, DueInv
  <2>5. DueInv'
    BY <1>7 DEF Renew, Write, Owned, DueInv
  <2>6. ClaimingInv'
    BY <1>7 DEF Renew, Write, Owned, ClaimingInv
  <2> QED
    BY <2>1, <2>2, <2>3, <2>4, <2>5, <2>6
<1>8. ASSUME NEW c \in Connection, RenewRefused(c) PROVE SlotsInv'
  <2>1. WalkersInv'
    BY <1>8 DEF RenewRefused, Owned, WalkersInv, DueInv, PlacedInv
  <2>2. WinnersInv'
    BY <1>8 DEF RenewRefused, Owned, WinnersInv
  <2>3. PlacedInv'
    BY <1>8 DEF RenewRefused, Owned, PlacedInv
  <2>4. NewInv'
    BY <1>8 DEF RenewRefused, Owned, NewInv, DueInv
  <2>5. DueInv'
    BY <1>8 DEF RenewRefused, Owned, DueInv
  <2>6. ClaimingInv'
    BY <1>8 DEF RenewRefused, Owned, ClaimingInv
  <2> QED
    BY <2>1, <2>2, <2>3, <2>4, <2>5, <2>6
<1>9. ASSUME NEW c \in Connection, RenewFails(c) PROVE SlotsInv'
  <2>1. WalkersInv'
    BY <1>9 DEF RenewFails, WalkersInv
  <2>2. WinnersInv'
    BY <1>9 DEF RenewFails, WinnersInv
  <2>3. PlacedInv'
    BY <1>9 DEF RenewFails, PlacedInv
  <2>4. NewInv'
    BY <1>9 DEF RenewFails, NewInv
  <2>5. DueInv'
    BY <1>9 DEF RenewFails, DueInv
  <2>6. ClaimingInv'
    BY <1>9 DEF RenewFails, ClaimingInv
  <2> QED
    BY <2>1, <2>2, <2>3, <2>4, <2>5, <2>6
<1>10. ASSUME NEW c \in Connection, Close(c) PROVE SlotsInv'
  <2>1. WalkersInv'
    BY <1>10 DEF Close, Released, WalkersInv
  <2>2. WinnersInv'
    <3>1. /\ \A s \in Place : holder'[s] # Free => holder'[s] = holder[s]
          /\ \A s \in Place : holder[s] # c => holder'[s] = holder[s] /\ left'[s] = left[s]
      BY <1>10 DEF Close, Released
    <3>2. /\ UNCHANGED <<won, unheard>> /\ conn' = [conn EXCEPT ![c] = "closed"]
          /\ since' = [since EXCEPT ![c] = Bound]
      BY <1>10 DEF Close
    <3> SUFFICES ASSUME NEW d \in Connection, won'[d] # 0
                 PROVE  HoldsOnly(d, won[d])' /\ (conn'[d] # "closed" => Keeps(d, won[d])')
      BY DEF WinnersInv
    <3>6. won[d] # 0 /\ won'[d] = won[d] /\ (d # c => since'[d] = since[d])
      BY <3>2
    <3>7. conn'[d] # "closed" => d # c /\ conn'[d] = conn[d]
      BY <3>2
    <3>3. /\ HoldsOnly(d, won[d]) /\ won[d] \in Place
          /\ conn'[d] # "closed" => d # c /\ Keeps(d, won[d])
      <4> HIDE DEF Keeps, HoldsOnly
      <4>1. HoldsOnly(d, won[d]) /\ (conn[d] # "closed" => Keeps(d, won[d]))
        BY <3>6 DEF WinnersInv
      <4>2. won[d] \in Place
        BY <3>6
      <4> QED
        BY <3>7, <4>1, <4>2
    <3>4. HoldsOnly(d, won[d])'
      BY <3>1, <3>2, <3>3, <3>6 DEF HoldsOnly
    <3>5. ASSUME conn'[d] # "closed" PROVE Keeps(d, won[d])'
      BY <3>1, <3>2, <3>3, <3>5
    <3> QED
      BY <3>4, <3>5
  <2>3. PlacedInv'
    BY <1>10 DEF Close, Released, PlacedInv
  <2>4. NewInv'
    BY <1>10 DEF Close, Released, NewInv
  <2>5. DueInv'
    BY <1>10 DEF Close, Released, DueInv
  <2>6. ClaimingInv'
    BY <1>10 DEF Close, Released, ClaimingInv
  <2> QED
    BY <2>1, <2>2, <2>3, <2>4, <2>5, <2>6
<1>11. ASSUME NEW c \in Connection, Die(c) PROVE SlotsInv'
  <2>1. WalkersInv'
    BY <1>11 DEF Die, WalkersInv
  <2>2. WinnersInv'
    BY <1>11 DEF Die, WinnersInv
  <2>3. PlacedInv'
    BY <1>11 DEF Die, PlacedInv
  <2>4. NewInv'
    BY <1>11 DEF Die, NewInv
  <2>5. DueInv'
    BY <1>11 DEF Die, DueInv
  <2>6. ClaimingInv'
    BY <1>11 DEF Die, ClaimingInv
  <2> QED
    BY <2>1, <2>2, <2>3, <2>4, <2>5, <2>6
<1>12. CASE Tick
  <2>1. WalkersInv'
    BY <1>12 DEF Tick, TimerGone, WalkersInv
  <2>2. WinnersInv'
    BY <1>12 DEF Tick, TimerGone, WinnersInv
  <2>3. PlacedInv'
    BY <1>12 DEF Tick, TimerGone, PlacedInv
  <2>4. NewInv'
    BY <1>12 DEF Tick, TimerGone, NewInv
  <2>5. DueInv'
    BY <1>12 DEF Tick, TimerGone, DueInv
  <2>6. ClaimingInv'
    BY <1>12 DEF Tick, TimerGone, ClaimingInv
  <2> QED
    BY <2>1, <2>2, <2>3, <2>4, <2>5, <2>6
<1>13. CASE GoDown
  <2>1. WalkersInv'
    BY <1>13 DEF GoDown, WalkersInv
  <2>2. WinnersInv'
    BY <1>13 DEF GoDown, WinnersInv
  <2>3. PlacedInv'
    BY <1>13 DEF GoDown, PlacedInv
  <2>4. NewInv'
    BY <1>13 DEF GoDown, NewInv
  <2>5. DueInv'
    BY <1>13 DEF GoDown, DueInv
  <2>6. ClaimingInv'
    BY <1>13 DEF GoDown, ClaimingInv
  <2> QED
    BY <2>1, <2>2, <2>3, <2>4, <2>5, <2>6
<1>14. CASE GoUp
  <2>1. CASE UNCHANGED <<keyVars, since>>
    BY <1>14, <2>1 DEF GoUp, WalkersInv, WinnersInv, PlacedInv, NewInv, DueInv, ClaimingInv
  <2>2. CASE /\ holder' = [s \in Place |-> Free] /\ left' = [s \in Place |-> 0]
             /\ since' = [c \in Connection |-> Bound]
    <3>1. WalkersInv' /\ NewInv'
      BY <1>14, <2>2 DEF GoUp, WalkersInv, NewInv
    <3>2. WinnersInv' /\ PlacedInv'
      BY <1>14, <2>2 DEF GoUp, WinnersInv, PlacedInv
    <3>3. DueInv' /\ ClaimingInv'
      BY <1>14, <2>2 DEF GoUp, DueInv, ClaimingInv
    <3> QED
      BY <3>1, <3>2, <3>3
  <2> QED
    BY <1>14, <2>1, <2>2 DEF GoUp
<1>15. CASE UNCHANGED socketVars
  BY <1>15 DEF socketVars, WalkersInv, WinnersInv, PlacedInv, NewInv, DueInv, ClaimingInv
<1>16. ASSUME NEW c \in Connection, LosePlace(c) PROVE SlotsInv'
  <2>1. WalkersInv'
    BY <1>16 DEF LosePlace, WalkersInv, WinnersInv
  <2>2. WinnersInv'
    BY <1>16 DEF LosePlace, WinnersInv
  <2>3. PlacedInv'
    BY <1>16 DEF LosePlace, PlacedInv, WinnersInv
  <2>4. NewInv'
    BY <1>16 DEF LosePlace, NewInv
  <2>5. DueInv'
    BY <1>16 DEF LosePlace, DueInv
  <2>6. ClaimingInv'
    BY <1>16 DEF LosePlace, ClaimingInv
  <2> QED
    BY <2>1, <2>2, <2>3, <2>4, <2>5, <2>6
<1> QED
  BY <1>1, <1>2, <1>3, <1>4, <1>5, <1>6, <1>7, <1>8, <1>9, <1>10, <1>11, <1>12, <1>13, <1>14, <1>15,
     <1>16 DEF SlotsNext, Answer, Serve

\* connections.ts: a connection that Redis has confirmed within the bound has its place,
\* and what else is under its id was won by a walk whose answer was lost, for any number
\* of places, connections, outages and gateways that die, and however late an answer is
\* heard.
THEOREM NoPlaceLost == SlotsSpec => []NoPlaceIsTaken
<1>1. SlotsInit => SlotsInv
  BY SlotsAssumption DEF SlotsInit, SlotsInv, WalkersInv, WinnersInv, PlacedInv, NewInv, DueInv,
                         ClaimingInv, Keeps, HoldsOnly, HoldsNothing, Resting, Place
<1>2. SlotsTypeOK /\ SlotsInv => NoPlaceIsTaken
  <2> SUFFICES ASSUME SlotsTypeOK, SlotsInv PROVE NoPlaceIsTaken
    OBVIOUS
  <2>1. ASSUME NEW c \in Connection, conn[c] = "open", place[c] # 0, Resting(c), since[c] < Bound
        PROVE  holder[place[c]] = c /\ left[place[c]] = Bound - since[c]
    BY <2>1 DEF SlotsInv, PlacedInv, Keeps
  <2>2. ASSUME NEW c \in Connection, NEW s \in Place, conn[c] \in {"claiming", "open"}, holder[s] = c
        PROVE  s \in {place[c], won[c]} \cup unheard[c]
    <3>1. CASE walk[c] # 0
      BY <2>2, <3>1 DEF SlotsInv, WalkersInv, HoldsNothing
    <3>2. CASE won[c] # 0
      BY <2>2, <3>2 DEF SlotsInv, WinnersInv, HoldsOnly
    <3>3. CASE Resting(c)
      BY <2>2, <3>3 DEF SlotsInv, ClaimingInv, PlacedInv, HoldsOnly
    <3> QED
      BY <3>1, <3>2, <3>3 DEF Resting
  <2> QED
    BY <2>1, <2>2 DEF NoPlaceIsTaken
<1> QED
  BY <1>1, <1>2, SlotsPreserved, SlotsTypeCorrect, PTL DEF SlotsSpec

--------------------------------------------------------------------------------
(* GatewayPresence *)

(***************************************************************************)
(* For every steady connection the ticks the key still has, the refreshes   *)
(* its gateway has missed and the one that is due make up the time a        *)
(* refresh, a pin or an arrival gives the key; the gateway of a connection  *)
(* that is open holds the user.                                             *)
(***************************************************************************)
HeldInv == \A c \in Visit : visit[c] = "open" => On[c] \in held
SteadyOpen == \A c \in steady : visit[c] = "open"
Left(c) == key + missed[On[c]] + (IF refresh[On[c]] = "due" THEN 1 ELSE 0)
KeyLives == \A c \in steady : Left(c) >= Shortest

PresenceInv == HeldInv /\ SteadyOpen /\ KeyLives

\* Every variable of presence has its type in every reachable state.
THEOREM PresenceTypeCorrect == PresenceSpec => []PresenceTypeOK
<1> USE PresenceAssumption DEF PresenceTypeOK, pastVars, Trouble
<1>1. PresenceInit => PresenceTypeOK
  <2> SUFFICES ASSUME PresenceInit PROVE PresenceTypeOK
    OBVIOUS
  <2>1. timer \in [Instance -> 0..Off] /\ missed \in [Instance -> Nat]
    BY DEF PresenceInit, Off
  <2>2. key \in 0..Ttl + Grace /\ marker \in 0..Ttl /\ trouble \in 0..MaxTrouble
    BY DEF PresenceInit
  <2>3. /\ visit \in [Visit -> {"new", "open", "closed"}]
        /\ refresh \in [Instance -> {"idle", "due", "absent", "clear"}]
        /\ arrival \in [Visit -> {"idle", "elect", "clear", "publish"}]
        /\ check \in [Instance -> {"idle", "exists", "elect", "publish"}]
    BY DEF PresenceInit
  <2> QED
    BY <2>1, <2>2, <2>3 DEF PresenceInit
<1>2. PresenceTypeOK /\ [PresenceNext]_presenceVars => PresenceTypeOK'
  <2> SUFFICES ASSUME PresenceTypeOK, [PresenceNext]_presenceVars PROVE PresenceTypeOK'
    OBVIOUS
  <2>1. ASSUME NEW c \in Visit, Connect(c) PROVE PresenceTypeOK'
    BY <2>1 DEF Connect, presenceKeys
  <2>2. ASSUME NEW c \in Visit, ElectOnline(c) PROVE PresenceTypeOK'
    BY <2>2 DEF ElectOnline
  <2>3. ASSUME NEW c \in Visit, ClearMarker(c) PROVE PresenceTypeOK'
    BY <2>3 DEF ClearMarker
  <2>4. ASSUME NEW c \in Visit, PublishOnline(c) PROVE PresenceTypeOK'
    BY <2>4 DEF PublishOnline, presenceKeys
  <2>5. ASSUME NEW c \in Visit, Disconnect(c) PROVE PresenceTypeOK'
    BY <2>5 DEF Disconnect, presenceKeys
  <2>6. ASSUME NEW c \in Visit, Pin(c) PROVE PresenceTypeOK'
    <3>1. timer' \in [Instance -> 0..Off]
      BY <2>6 DEF Pin, Arm, CheckDelay, Off
    <3>2. key' \in 0..Ttl + Grace
      BY <2>6 DEF Pin
    <3> QED
      BY <2>6, <3>1, <3>2 DEF Pin, Arm
  <2>7. ASSUME NEW i \in Instance, Fire(i) PROVE PresenceTypeOK'
    <3>1. timer' \in [Instance -> 0..Off]
      BY <2>7 DEF Fire, Off
    <3> QED
      BY <2>7, <3>1 DEF Fire, presenceKeys
  <2>8. ASSUME NEW i \in Instance, AskExists(i) PROVE PresenceTypeOK'
    BY <2>8 DEF AskExists, presenceKeys
  <2>9. ASSUME NEW i \in Instance, ElectOffline(i) PROVE PresenceTypeOK'
    BY <2>9 DEF ElectOffline
  <2>10. ASSUME NEW i \in Instance, PublishOffline(i) PROVE PresenceTypeOK'
    BY <2>10 DEF PublishOffline, presenceKeys
  <2>11. ASSUME NEW i \in Instance, Refresh(i) PROVE PresenceTypeOK'
    <3>1. steady' \subseteq Visit
      BY <2>11 DEF Refresh, OpenOn, OpenVisits
    <3> QED
      BY <2>11, <3>1 DEF Refresh
  <2>12. ASSUME NEW i \in Instance, PutBack(i) PROVE PresenceTypeOK'
    BY <2>12 DEF PutBack
  <2>13. ASSUME NEW i \in Instance, PutBackClears(i) PROVE PresenceTypeOK'
    BY <2>13 DEF PutBackClears
  <2>14. ASSUME NEW i \in Instance, InstanceGone(i) PROVE PresenceTypeOK'
    <3>1. timer' \in [Instance -> 0..Off]
      BY <2>14 DEF InstanceGone, Off
    <3>2. visit' \in [Visit -> {"new", "open", "closed"}]
      BY <2>14 DEF InstanceGone
    <3>3. arrival' \in [Visit -> {"idle", "elect", "clear", "publish"}]
      BY <2>14 DEF InstanceGone
    <3> QED
      BY <2>14, <3>1, <3>2, <3>3 DEF InstanceGone, presenceKeys
  <2>15. CASE PresenceTick
    <3>1. timer' \in [Instance -> 0..Off]
      BY <2>15 DEF PresenceTick, AtRest, Off
    <3>2. key' \in 0..Ttl + Grace /\ marker' \in 0..Ttl
      BY <2>15 DEF PresenceTick, Less
    <3>3. refresh' \in [Instance -> {"idle", "due", "absent", "clear"}]
      BY <2>15 DEF PresenceTick
    <3> QED
      BY <2>15, <3>1, <3>2, <3>3 DEF PresenceTick
  <2>16. CASE KeysVanish
    BY <2>16 DEF KeysVanish, taskVars
  <2>17. CASE UNCHANGED presenceVars
    BY <2>17 DEF presenceVars, presenceKeys, taskVars
  <2>18. ASSUME NEW c \in Visit, ArriveFails(c) PROVE PresenceTypeOK'
    <3>1. key' \in 0..Ttl + Grace
      BY <2>18 DEF ArriveFails
    <3>2. arrival' \in [Visit -> {"idle", "elect", "clear", "publish"}]
      BY <2>18 DEF ArriveFails
    <3> QED
      BY <2>18, <3>1, <3>2 DEF ArriveFails
  <2>19. ASSUME NEW c \in Visit, PinFails(c) PROVE PresenceTypeOK'
    <3>1. timer' \in [Instance -> 0..Off]
      BY <2>19 DEF PinFails, Arm, CheckDelay, Off
    <3>2. UNCHANGED key /\ trouble' \in 0..MaxTrouble
      BY <2>19 DEF PinFails
    <3> QED
      BY <2>19, <3>1, <3>2 DEF PinFails, Arm
  <2>20. ASSUME NEW i \in Instance, CheckFails(i) PROVE PresenceTypeOK'
    BY <2>20 DEF CheckFails
  <2>21. ASSUME NEW i \in Instance, RefreshFails(i) PROVE PresenceTypeOK'
    BY <2>21 DEF RefreshFails
  <2>22. ASSUME NEW i \in Instance, PutBackFails(i) PROVE PresenceTypeOK'
    BY <2>22 DEF PutBackFails
  <2> QED
    BY <2>1, <2>2, <2>3, <2>4, <2>5, <2>6, <2>7, <2>8, <2>9, <2>10, <2>11, <2>12, <2>13,
       <2>14, <2>15, <2>16, <2>17, <2>18, <2>19, <2>20, <2>21, <2>22
       DEF PresenceNext, Arrive, Check, KeepAlive
<1> QED
  BY <1>1, <1>2, PTL DEF PresenceSpec

\* A refresh, a pin or an arrival never shortens the key below two ticks, and a tick finds
\* each gateway that holds the user about to refresh it.
LEMMA PresencePreserved ==
  PresenceTypeOK /\ PresenceInv /\ [PresenceNext]_presenceVars => PresenceInv'
<1> SUFFICES ASSUME PresenceTypeOK, PresenceInv, [PresenceNext]_presenceVars
             PROVE  PresenceInv'
  OBVIOUS
<1> USE PresenceAssumption DEF PresenceTypeOK, PresenceInv, HeldInv, SteadyOpen, KeyLives, Left,
                              Shortest, pastVars
<1>1. ASSUME NEW c \in Visit, Connect(c) PROVE PresenceInv'
  BY <1>1 DEF Connect, presenceKeys
<1>2. ASSUME NEW c \in Visit, ElectOnline(c) PROVE PresenceInv'
  BY <1>2 DEF ElectOnline
<1>3. ASSUME NEW c \in Visit, ClearMarker(c) PROVE PresenceInv'
  BY <1>3 DEF ClearMarker
<1>4. ASSUME NEW c \in Visit, PublishOnline(c) PROVE PresenceInv'
  BY <1>4 DEF PublishOnline, presenceKeys
<1>5. ASSUME NEW c \in Visit, Disconnect(c) PROVE PresenceInv'
  <2>1. HeldInv'
    BY <1>5 DEF Disconnect, IsLast, OpenOn, OpenVisits
  <2>2. SteadyOpen' /\ KeyLives'
    BY <1>5 DEF Disconnect, presenceKeys
  <2> QED
    BY <2>1, <2>2
<1>6. ASSUME NEW c \in Visit, Pin(c) PROVE PresenceInv'
  BY <1>6 DEF Pin, Arm
<1>7. ASSUME NEW i \in Instance, Check(i) PROVE PresenceInv'
  BY <1>7 DEF Check, Fire, AskExists, ElectOffline, PublishOffline, presenceKeys
<1>8. ASSUME NEW i \in Instance, Refresh(i) PROVE PresenceInv'
  <2>1. HeldInv' /\ SteadyOpen'
    BY <1>8 DEF Refresh, OpenOn, OpenVisits
  <2>2. CASE key # 0 /\ i \in held
    <3>1. key' = Ttl /\ missed' = [missed EXCEPT ![i] = 0]
      BY <1>8, <2>2 DEF Refresh
    <3>2. missed' \in [Instance -> Nat] /\ steady' \subseteq Visit
      BY <1>8, <2>2, <3>1 DEF Refresh, OpenOn, OpenVisits
    <3>3. ASSUME NEW c \in Visit PROVE Left(c)' >= Shortest
      <4>1. missed'[On[c]] \in Nat
        BY <3>2
      <4> QED
        BY <3>1, <4>1
    <3>4. KeyLives'
      BY <3>2, <3>3
    <3> QED
      BY <2>1, <3>4
  <2>3. CASE i \notin held
    <3>1. \A c \in steady : On[c] # i
      BY <2>3
    <3> QED
      BY <1>8, <2>1, <2>3, <3>1 DEF Refresh
  <2>4. CASE key = 0 /\ i \in held
    <3>1. steady' = steady \ OpenOn(i) /\ UNCHANGED <<key, missed>>
      BY <1>8, <2>4 DEF Refresh
    <3>2. refresh' = [refresh EXCEPT ![i] = "absent"]
      BY <1>8, <2>4 DEF Refresh
    <3>3. \A c \in steady' : c \in steady /\ On[c] # i
      BY <3>1 DEF OpenOn, OpenVisits
    <3> QED
      BY <2>1, <3>1, <3>2, <3>3
  <2> QED
    BY <2>1, <2>2, <2>3, <2>4
<1>9. ASSUME NEW i \in Instance, PutBack(i) PROVE PresenceInv'
  BY <1>9 DEF PutBack
<1>10. ASSUME NEW i \in Instance, PutBackClears(i) PROVE PresenceInv'
  BY <1>10 DEF PutBackClears
<1>11. ASSUME NEW i \in Instance, InstanceGone(i) PROVE PresenceInv'
  BY <1>11 DEF InstanceGone, OpenOn, OpenVisits, presenceKeys
<1>12. CASE PresenceTick
  <2>1. \A j \in Instance : refresh[j] = "idle"
    BY <1>12 DEF PresenceTick, AtRest
  <2>2. /\ UNCHANGED <<steady, visit, held, missed>> /\ key' = Less(key)
        /\ refresh' = [j \in Instance |-> IF j \in held THEN "due" ELSE "idle"]
    BY <1>12 DEF PresenceTick
  <2>3. \A c \in steady : refresh'[On[c]] = "due"
    BY <2>2
  <2>4. KeyLives'
    BY <2>1, <2>2, <2>3 DEF Less
  <2> QED
    BY <2>2, <2>4
<1>13. CASE KeysVanish
  BY <1>13 DEF KeysVanish, taskVars
<1>14. CASE UNCHANGED presenceVars
  BY <1>14 DEF presenceVars, presenceKeys, taskVars
<1>15. ASSUME NEW c \in Visit, ArriveFails(c) PROVE PresenceInv'
  BY <1>15 DEF ArriveFails
<1>16. ASSUME NEW c \in Visit, PinFails(c) PROVE PresenceInv'
  BY <1>16 DEF PinFails, Arm
<1>17. ASSUME NEW i \in Instance, CheckFails(i) PROVE PresenceInv'
  BY <1>17 DEF CheckFails
<1>18. ASSUME NEW i \in Instance, RefreshFails(i) PROVE PresenceInv'
  BY <1>18 DEF RefreshFails
<1>19. ASSUME NEW i \in Instance, PutBackFails(i) PROVE PresenceInv'
  BY <1>19 DEF PutBackFails
<1> QED
  BY <1>1, <1>2, <1>3, <1>4, <1>5, <1>6, <1>7, <1>8, <1>9, <1>10, <1>11, <1>12, <1>13,
     <1>14, <1>15, <1>16, <1>17, <1>18, <1>19 DEF PresenceNext, Arrive, KeepAlive

\* presence.ts: a check that finds the key absent has found a user none of whose
\* connections has been refreshed, but those whose gateway has missed all the refreshes
\* that the key's life had room for: for any number of gateways and connections, whoever
\* leaves, and whenever requests fail, processes die or Redis starts again empty.
THEOREM NobodySteadyIsAbsent == PresenceSpec => SteadyIsOnline
<1>1. PresenceInit => PresenceInv
  BY DEF PresenceInit, PresenceInv, HeldInv, SteadyOpen, KeyLives
<1>2. PresenceTypeOK /\ PresenceInv /\ [PresenceNext]_presenceVars =>
        [(\E i \in Instance : check[i] = "exists" /\ check'[i] = "elect") =>
           \A c \in steady : missed[On[c]] > Shortest - 2]_presenceVars
  <2> SUFFICES ASSUME PresenceTypeOK, PresenceInv, PresenceNext,
                      NEW i \in Instance, check[i] = "exists", check'[i] = "elect"
               PROVE  \A c \in steady : missed[On[c]] > Shortest - 2
    OBVIOUS
  <2>1. CASE \E j \in Instance : AskExists(j)
    <3>1. PICK j \in Instance : AskExists(j)
      BY <2>1
    <3>2. key = 0
      BY <3>1 DEF AskExists, PresenceTypeOK
    <3>3. \A c \in steady : Left(c) >= Shortest
      BY DEF PresenceInv, KeyLives
    <3> QED
      BY <3>2, <3>3, PresenceAssumption DEF Left, Shortest, PresenceTypeOK
  <2>2. CASE ~\E j \in Instance : AskExists(j)
    <3>1. check'[i] # "elect" \/ check'[i] = check[i]
      BY <2>2 DEF PresenceNext, PresenceTypeOK, Connect, Arrive, ElectOnline, ClearMarker,
         PublishOnline, Disconnect, Pin, Check, Fire, ElectOffline, PublishOffline, KeepAlive,
         Refresh, PutBack, PutBackClears, InstanceGone, PresenceTick, KeysVanish, taskVars,
         ArriveFails, PinFails, Arm, CheckFails, RefreshFails, PutBackFails
    <3> QED
      BY <3>1
  <2> QED
    BY <2>1, <2>2
<1> QED
  BY <1>1, <1>2, PresenceTypeCorrect, PresencePreserved, PTL DEF PresenceSpec, SteadyIsOnline
================================================================================
