-------------------------- MODULE GatewayResume_proofs --------------------------
(***************************************************************************)
(* Proofs about GatewayResume, for every set of channels and connections,   *)
(* every limit of the page and of the buffer and any number of handshakes,  *)
(* revisions and lost announcements.                                        *)
(***************************************************************************)
EXTENDS GatewayResume, FiniteSetTheorems, WellFoundedInduction, TLAPS

(***************************************************************************)
(* The high-water mark.  A bounded set of numbers has a largest element, so *)
(* the CHOOSE of HighWaterMark names the last row of the page.              *)
(***************************************************************************)
LEMMA LargestSeq ==
  ASSUME NEW S \in SUBSET Seqs, S # {}
  PROVE  \E n \in S : \A x \in S : x <= n
<1> DEFINE Left == {MaxSeq - n : n \in S}
<1>1. Left \subseteq Nat /\ Left # {}
  <2>1. \A n \in S : MaxSeq - n \in Nat
    BY BoundAssumption DEF Seqs
  <2> QED
    BY <2>1
<1>2. \E x \in Left : \A y \in Left : ~(<<y, x>> \in OpToRel(<, Nat))
  <2> HIDE DEF Left
  <2> QED
    BY <1>1, NatLessThanWellFounded, WFMin
<1>3. PICK x \in Left : \A y \in Left : ~(<<y, x>> \in OpToRel(<, Nat))
  BY <1>2
<1>4. \A y \in Left : ~(y < x)
  <2> SUFFICES ASSUME NEW y \in Left, y < x PROVE FALSE
    OBVIOUS
  <2>1. <<y, x>> \in Nat \X Nat
    BY <1>1
  <2>2. <<y, x>> \in OpToRel(<, Nat)
    BY <2>1 DEF OpToRel
  <2> QED
    BY <1>3, <2>2
<1>5. PICK n \in S : x = MaxSeq - n
  OBVIOUS
<1>6. \A z \in S : z <= n
  BY <1>4, <1>5, BoundAssumption DEF Seqs
<1> QED
  BY <1>6

LEMMA HighWater ==
  ASSUME TypeOK, NEW k \in Connection, NEW c \in DOMAIN cursor[k]
  PROVE  /\ HighWaterMark(k, c) \in 0..MaxSeq
         /\ \A m \in PageOf(k) : m[1] = c => m[2] <= HighWaterMark(k, c)
         /\ HighWaterMark(k, c) = cursor[k][c] \/ <<c, HighWaterMark(k, c)>> \in PageOf(k)
<1>1. PageOf(k) \subseteq Message
  BY DEF TypeOK, PageOf, Page
<1>2. cursor[k][c] \in 0..MaxSeq
  BY DEF TypeOK, SeqMap
<1>3. CASE \E m \in PageOf(k) : m[1] = c
  <2> DEFINE S == {n \in Seqs : <<c, n>> \in PageOf(k)}
             Last(n) == n \in Seqs /\ <<c, n>> \in PageOf(k)
                        /\ \A m \in PageOf(k) : m[1] = c => m[2] <= n
  <2>1. \A m \in PageOf(k) : m[1] = c => m = <<c, m[2]>> /\ m[2] \in S
    BY <1>1 DEF Message
  <2>2. S # {}
    BY <1>3, <2>1
  <2>3. \E n \in S : \A x \in S : x <= n
    <3> HIDE DEF S
    <3>1. S \in SUBSET Seqs
      BY DEF S
    <3> QED
      BY <2>2, <3>1, LargestSeq
  <2>4. \E n \in Seqs : Last(n)
    BY <2>1, <2>3
  <2>5. HighWaterMark(k, c) = CHOOSE n \in Seqs :
          <<c, n>> \in PageOf(k) /\ \A m \in PageOf(k) : m[1] = c => m[2] <= n
    BY <1>3 DEF HighWaterMark
  <2>6. Last(HighWaterMark(k, c))
    BY <2>4, <2>5
  <2> QED
    BY <2>6, BoundAssumption DEF Seqs
<1>4. CASE ~\E m \in PageOf(k) : m[1] = c
  BY <1>2, <1>4 DEF HighWaterMark
<1> QED
  BY <1>3, <1>4

(***************************************************************************)
(* Types.  Every variable has its type, and a buffer is a finite set, so    *)
(* that the room it has left can be counted.                                *)
(***************************************************************************)
BuffersFinite == \A k \in Connection : IsFiniteSet(buffer[k])
\* A message has a text once it is committed.
RowsHaveText == \A m \in Message : m[2] <= last[m[1]] => text[m] # "none"
TypeInv == TypeOK /\ BuffersFinite /\ RowsHaveText

LEMMA EmptyValues ==
  /\ NoMarks \in SeqMap
  /\ NoPage \in Page
  /\ NoCopies \in [Message -> Text \cup {"none"}]
<1>1. NoMarks \in [{} -> 0..MaxSeq]
  BY DEF NoMarks
<1>2. [{} -> 0..MaxSeq] \in {[P -> 0..MaxSeq] : P \in SUBSET Channel}
  OBVIOUS
<1>3. NoMarks \in SeqMap
  BY <1>1, <1>2 DEF SeqMap
<1>4. NoPage \in Page
  BY DEF NoPage, Page
<1>5. NoCopies \in [Message -> Text \cup {"none"}]
  BY DEF NoCopies
<1> QED
  BY <1>3, <1>4, <1>5

LEMMA EmptyBuffer == IsFiniteSet({}) /\ Cardinality({}) = 0
BY FS_EmptySet

\* A frame is added to a buffer only while there is room.
LEMMA DeliverTypes ==
  ASSUME TypeInv, NEW m \in Message, Deliver(m)
  PROVE  /\ buffer' \in [Connection -> SUBSET Message]
         /\ \A k \in Connection : IsFiniteSet(buffer'[k]) /\ Cardinality(buffer'[k]) <= MaxBuffered
         /\ overflowed' \in [Connection -> BOOLEAN]
         /\ copy' \in [Connection -> [Message -> Text \cup {"none"}]]
         /\ again' \in [Connection -> SUBSET Message]
<1> USE DEF TypeInv, TypeOK, Deliver
<1>1. buffer' \in [Connection -> SUBSET Message]
  OBVIOUS
<1>2. ASSUME NEW k \in Connection
      PROVE  IsFiniteSet(buffer'[k]) /\ Cardinality(buffer'[k]) <= MaxBuffered
  <2>1. CASE k \in HeldBack(m) /\ HasRoom(k)
    <3>1. buffer'[k] = buffer[k] \cup {m}
      BY <2>1
    <3>2. IsFiniteSet(buffer[k]) /\ Cardinality(buffer[k]) < MaxBuffered
      BY <2>1 DEF BuffersFinite, HasRoom
    <3>3. /\ IsFiniteSet(buffer[k] \cup {m})
          /\ Cardinality(buffer[k] \cup {m}) = Cardinality(buffer[k])
             \/ Cardinality(buffer[k] \cup {m}) = Cardinality(buffer[k]) + 1
      BY <3>2, FS_AddElement
    <3>4. Cardinality(buffer[k]) \in Nat
      BY <3>2, FS_CardinalityType
    <3> QED
      BY <3>1, <3>2, <3>3, <3>4, LimitAssumption
  <2>2. CASE ~(k \in HeldBack(m) /\ HasRoom(k))
    BY <2>2 DEF BuffersFinite
  <2> QED
    BY <2>1, <2>2
<1>3. overflowed' \in [Connection -> BOOLEAN]
  OBVIOUS
<1>4. copy' \in [Connection -> [Message -> Text \cup {"none"}]]
  BY DEF Text
<1>5. again' \in [Connection -> SUBSET Message]
  OBVIOUS
<1> QED
  BY <1>1, <1>2, <1>3, <1>4, <1>5

LEMMA RegisterTypes ==
  ASSUME TypeInv, NEW k \in Connection, NEW phase \in {"live", "subscribing"},
         NEW cur \in SeqMap, Register(k, phase, cur), resumeOk' \in [Connection -> BOOLEAN]
  PROVE  TypeInv'
<1> USE DEF TypeInv, TypeOK, BuffersFinite, RowsHaveText, Register, storeVars, flightVars
<1>1. /\ pc' \in [Connection -> {"closed", "subscribing", "filled", "live"}]
      /\ opens' \in 0..MaxOpens
  BY BoundAssumption
<1>2. /\ waiting' \in [Connection -> SUBSET Channel]
      /\ shared' \in [Connection -> SUBSET Channel]
  BY MemberAssumption
<1>3. subscription' \in [Channel -> {"off", "pending", "on"}]
  OBVIOUS
<1>4. cursor' \in [Connection -> SeqMap] /\ again' \in [Connection -> SUBSET Message]
  OBVIOUS
<1>5. copy' \in [Connection -> [Message -> Text \cup {"none"}]]
  BY EmptyValues
<1> QED
  BY <1>1, <1>2, <1>3, <1>4, <1>5

LEMMA DegradeTypes ==
  ASSUME TypeInv, NEW k \in Connection, Degrade(k)
  PROVE  TypeInv'
<1> USE DEF TypeInv, TypeOK, BuffersFinite, RowsHaveText, Degrade, storeVars, flightVars, boundVars
<1>1. /\ buffer' \in [Connection -> SUBSET Message]
      /\ \A j \in Connection : IsFiniteSet(buffer'[j]) /\ Cardinality(buffer'[j]) <= MaxBuffered
  BY EmptyBuffer, LimitAssumption
<1>2. marks' \in [Connection -> SeqMap]
  BY EmptyValues
<1>3. pc' \in [Connection -> {"closed", "subscribing", "filled", "live"}]
  OBVIOUS
<1> QED
  BY <1>1, <1>2, <1>3

LEMMA PageText ==
  ASSUME TypeOK, NEW k \in Connection, NEW m \in PageOf(k)
  PROVE  (CHOOSE r \in page[k].rows : r[1] = m)[2] \in Text
<1>1. \E r \in page[k].rows : r[1] = m
  BY DEF PageOf
<1>2. (CHOOSE r \in page[k].rows : r[1] = m) \in page[k].rows
  BY <1>1
<1>3. page[k].rows \in SUBSET (Message \X Text)
  BY DEF TypeOK, Page
<1> QED
  BY <1>2, <1>3

LEMMA TypesInitially == Init => TypeInv
<1> SUFFICES ASSUME Init PROVE TypeInv
  OBVIOUS
<1> USE DEF Init, TypeInv, TypeOK, BuffersFinite, RowsHaveText
<1>1. \A k \in Connection : IsFiniteSet(buffer[k]) /\ Cardinality(buffer[k]) <= MaxBuffered
  BY EmptyBuffer, LimitAssumption
<1>2. /\ cursor \in [Connection -> SeqMap] /\ marks \in [Connection -> SeqMap]
      /\ page \in [Connection -> Page]
      /\ copy \in [Connection -> [Message -> Text \cup {"none"}]]
  BY EmptyValues
<1>3. /\ last \in [Channel -> 0..MaxSeq] /\ text \in [Message -> Text \cup {"none"}]
      /\ revisions \in 0..MaxTrouble /\ losses \in 0..MaxTrouble /\ opens \in 0..MaxOpens
  BY BoundAssumption
<1>4. \A m \in Message : ~(m[2] <= last[m[1]])
  BY DEF Message, Seqs
<1> QED
  BY <1>1, <1>2, <1>3, <1>4

LEMMA TypesPreserved ==
  ASSUME TypeInv, [Next]_vars
  PROVE  TypeInv'
<1> USE DEF storeVars, flightVars, heldVars, clientVars, boundVars
<1>1. ASSUME NEW c \in Channel, Commit(c) PROVE TypeInv'
  <2>1. <<c, last[c] + 1>> \in Message /\ last[c] + 1 \in 0..MaxSeq
    BY <1>1, BoundAssumption DEF Commit, TypeInv, TypeOK, Message, Seqs
  <2>2. last' \in [Channel -> 0..MaxSeq] /\ text' \in [Message -> Text \cup {"none"}]
    BY <1>1, <2>1 DEF Commit, TypeInv, TypeOK, Text
  <2>3. RowsHaveText'
    BY <1>1, <2>1 DEF Commit, TypeInv, TypeOK, RowsHaveText, Message, Seqs
  <2> QED
    BY <1>1, <2>1, <2>2, <2>3 DEF Commit, TypeInv, TypeOK, BuffersFinite, RowsHaveText
<1>2. ASSUME NEW m \in Message, NEW t \in Text, Revise(m, t) PROVE TypeInv'
  <2>1. text' \in [Message -> Text \cup {"none"}] /\ revisions' \in 0..MaxTrouble
    BY <1>2, BoundAssumption DEF Revise, TypeInv, TypeOK
  <2> QED
    BY <1>2, <2>1 DEF Revise, TypeInv, TypeOK, BuffersFinite, RowsHaveText
<1>3. ASSUME NEW m \in Message, Announce(m) PROVE TypeInv'
  <2>1. CASE Deliver(m)
    BY <1>3, <2>1, DeliverTypes DEF Announce, TypeInv, TypeOK, BuffersFinite, RowsHaveText
  <2>2. CASE UNCHANGED clientVars
    BY <1>3, <2>2 DEF Announce, TypeInv, TypeOK, BuffersFinite, RowsHaveText
  <2> QED
    BY <1>3, <2>1, <2>2 DEF Announce
<1>4. ASSUME NEW m \in Message, LoseAnnouncement(m) PROVE TypeInv'
  <2>1. losses' \in 0..MaxTrouble
    BY <1>4, BoundAssumption DEF LoseAnnouncement, TypeInv, TypeOK
  <2> QED
    BY <1>4, <2>1 DEF LoseAnnouncement, TypeInv, TypeOK, BuffersFinite, RowsHaveText
<1>5. ASSUME NEW m \in Message, NEW t \in Text, AnnounceRevision(m, t) PROVE TypeInv'
  <2>1. copy' \in [Connection -> [Message -> Text \cup {"none"}]]
    BY <1>5 DEF AnnounceRevision, TypeInv, TypeOK
  <2> QED
    BY <1>5, <2>1 DEF AnnounceRevision, TypeInv, TypeOK, BuffersFinite, RowsHaveText
<1>6. ASSUME NEW k \in Connection, OpenFresh(k) \/ OpenMalformed(k) PROVE TypeInv'
  <2>1. resumeOk' \in [Connection -> BOOLEAN] /\ Register(k, "live", NoMarks)
    BY <1>6 DEF OpenFresh, OpenMalformed, TypeInv, TypeOK
  <2> QED
    BY <2>1, EmptyValues, RegisterTypes
<1>7. ASSUME NEW k \in Connection, NEW P \in SUBSET Channel, OpenResume(k, P) PROVE TypeInv'
  <2>1. PICK cur \in [P -> 0..MaxSeq] : Register(k, "subscribing", cur)
    BY <1>7 DEF OpenResume
  <2>2. cur \in SeqMap
    BY <2>1 DEF SeqMap
  <2>3. resumeOk' \in [Connection -> BOOLEAN]
    BY <1>7 DEF OpenResume, TypeInv, TypeOK
  <2> QED
    BY <2>1, <2>2, <2>3, RegisterTypes
<1>8. ASSUME NEW c \in Channel, SubscribeLands(c) PROVE TypeInv'
  BY <1>8 DEF SubscribeLands, TypeInv, TypeOK, BuffersFinite, RowsHaveText
<1>9. ASSUME NEW k \in Connection,
             SubscribeDeadline(k) \/ BackfillFails(k) \/ CompleteOverflowed(k)
      PROVE  TypeInv'
  BY <1>9, DegradeTypes DEF SubscribeDeadline, BackfillFails, CompleteOverflowed
<1>10. ASSUME NEW k \in Connection, NEW c \in Channel, ReadPage(k, c) PROVE TypeInv'
  <2>1. {<<m, text[m]>> : m \in {x \in Scanned(k, c) : text[x] # "deleted"}} \subseteq Message \X Text
    <3>1. \A x \in Scanned(k, c) : x \in Message /\ text[x] \in Text
      BY DEF TypeInv, TypeOK, RowsHaveText, Scanned, Above
    <3> QED
      BY <3>1
  <2>2. page[k] \in Page
    BY DEF TypeInv, TypeOK
  <2>3. page' \in [Connection -> Page]
    BY <1>10, <2>1, <2>2 DEF ReadPage, Page, TypeInv, TypeOK
  <2> QED
    BY <1>10, <2>3 DEF ReadPage, TypeInv, TypeOK, BuffersFinite, RowsHaveText
<1>11. ASSUME NEW k \in Connection, BackfillAnswers(k) PROVE TypeInv'
  BY <1>11 DEF BackfillAnswers, TypeInv, TypeOK, BuffersFinite, RowsHaveText
<1>12. ASSUME NEW k \in Connection, Complete(k) PROVE TypeInv'
  <2> USE DEF Complete, TypeInv, TypeOK, BuffersFinite, RowsHaveText
  <2>1. /\ buffer' \in [Connection -> SUBSET Message]
        /\ \A j \in Connection : IsFiniteSet(buffer'[j]) /\ Cardinality(buffer'[j]) <= MaxBuffered
    BY <1>12, EmptyBuffer, LimitAssumption
  <2>2. copy' \in [Connection -> [Message -> Text \cup {"none"}]]
    BY <1>12, PageText DEF Text
  <2>3. [c \in DOMAIN cursor[k] |-> HighWaterMark(k, c)] \in SeqMap
    <3>1. DOMAIN cursor[k] \in SUBSET Channel
      BY DEF SeqMap
    <3>2. [c \in DOMAIN cursor[k] |-> HighWaterMark(k, c)] \in [DOMAIN cursor[k] -> 0..MaxSeq]
      BY HighWater
    <3> QED
      BY <3>1, <3>2 DEF SeqMap
  <2>4. marks' \in [Connection -> SeqMap]
    BY <1>12, <2>3
  <2>5. again' \in [Connection -> SUBSET Message]
    BY <1>12 DEF Flushable
  <2> QED
    BY <1>12, <2>1, <2>2, <2>4, <2>5
<1>13. ASSUME NEW k \in Connection, Close(k) PROVE TypeInv'
  <2> USE DEF Close, TypeInv, TypeOK, BuffersFinite, RowsHaveText
  <2>1. /\ buffer' \in [Connection -> SUBSET Message]
        /\ \A j \in Connection : IsFiniteSet(buffer'[j]) /\ Cardinality(buffer'[j]) <= MaxBuffered
    BY <1>13, EmptyBuffer, LimitAssumption
  <2>2. /\ cursor' \in [Connection -> SeqMap] /\ marks' \in [Connection -> SeqMap]
        /\ page' \in [Connection -> Page]
        /\ copy' \in [Connection -> [Message -> Text \cup {"none"}]]
    BY <1>13, EmptyValues
  <2>3. /\ pc' \in [Connection -> {"closed", "subscribing", "filled", "live"}]
        /\ subscription' \in [Channel -> {"off", "pending", "on"}]
        /\ waiting' \in [Connection -> SUBSET Channel] /\ shared' \in [Connection -> SUBSET Channel]
    BY <1>13
  <2>4. /\ resumeOk' \in [Connection -> BOOLEAN] /\ overflowed' \in [Connection -> BOOLEAN]
        /\ again' \in [Connection -> SUBSET Message]
    BY <1>13
  <2> QED
    BY <1>13, <2>1, <2>2, <2>3, <2>4
<1>14. CASE UNCHANGED vars
  BY <1>14 DEF vars, TypeInv, TypeOK, BuffersFinite, RowsHaveText
<1> QED
  BY <1>1, <1>2, <1>3, <1>4, <1>5, <1>6, <1>7, <1>8, <1>9, <1>10, <1>11, <1>12, <1>13, <1>14
  DEF Next, ResumeStep

(***************************************************************************)
(* The subscription.  While the instance has a connection of a member, the  *)
(* channel's subject is subscribed or about to be; and it is confirmed for  *)
(* a connection that neither issued the SUBSCRIBE nor found another's on    *)
(* its way.                                                                 *)
(***************************************************************************)
ReferencedIsSubscribed ==
  \A k \in Connection : pc[k] # "closed" =>
    \A c \in MemberOf[k] : subscription[c] # "off"
SettledIsOn ==
  \A k \in Connection : pc[k] # "closed" =>
    \A c \in MemberOf[k] : c \notin waiting[k] \cup shared[k] => subscription[c] = "on"
\* A backfill has begun only once what the connection waits for has been confirmed.
ReadIsConfirmed ==
  \A k \in Connection :
    /\ waiting[k] \subseteq MemberOf[k]
    /\ pc[k] = "closed" => page[k] = NoPage
    /\ page[k].read # {} => Confirmed(k)

SubscribedInv == ReferencedIsSubscribed /\ SettledIsOn /\ ReadIsConfirmed

LEMMA SubscribedInitially == Init => SubscribedInv
BY DEF Init, SubscribedInv, ReferencedIsSubscribed, SettledIsOn, ReadIsConfirmed, NoPage

LEMMA RegisterSubscribes ==
  ASSUME TypeOK, SubscribedInv, NEW k \in Connection, NEW phase \in {"live", "subscribing"},
         NEW cur, Register(k, phase, cur)
  PROVE  SubscribedInv'
<1> USE MemberAssumption DEF TypeOK, SubscribedInv, Register, Unreferenced
<1>1. ReferencedIsSubscribed'
  BY DEF ReferencedIsSubscribed
<1>2. ASSUME NEW j \in Connection \ {k}
      PROVE  /\ pc'[j] = pc[j] /\ waiting'[j] = waiting[j] /\ shared'[j] = shared[j]
             /\ pc[j] # "closed" => \A c \in MemberOf[j] : subscription'[c] = subscription[c]
  OBVIOUS
<1>3. ASSUME NEW c \in MemberOf[k], c \notin waiting'[k], c \notin shared'[k]
      PROVE  subscription'[c] = "on"
  <2>1. c \in Channel /\ ~Unreferenced(c)
    BY <1>3
  <2>2. subscription[c] # "pending" /\ subscription'[c] = subscription[c]
    BY <1>3, <2>1
  <2>3. subscription[c] # "off"
    BY <2>1 DEF ReferencedIsSubscribed
  <2> QED
    BY <2>1, <2>2, <2>3
<1>4. SettledIsOn'
  <2> HIDE DEF TypeOK, Register
  <2> QED
    BY <1>2, <1>3 DEF SettledIsOn
<1>5. ASSUME NEW j \in Connection \ {k}, page[j].read # {} PROVE Confirmed(j)'
  <2>1. pc[j] # "closed"
    BY <1>5 DEF ReadIsConfirmed, NoPage
  <2>2. Confirmed(j) /\ waiting[j] \subseteq MemberOf[j]
    BY <1>5 DEF ReadIsConfirmed
  <2> QED
    BY <1>2, <2>1, <2>2 DEF Confirmed
<1>6. page' = page /\ page[k].read = {} /\ waiting'[k] \subseteq MemberOf[k] /\ pc'[k] # "closed"
  BY DEF ReadIsConfirmed, NoPage
<1>7. ReadIsConfirmed'
  BY <1>2, <1>5, <1>6 DEF ReadIsConfirmed
<1> QED
  BY <1>1, <1>4, <1>7

\* Only the last local member's departure releases a subject.
LEMMA SubscribedPreserved ==
  ASSUME TypeOK, SubscribedInv, [Next]_vars
  PROVE  SubscribedInv'
<1> USE DEF SubscribedInv, storeVars, flightVars, heldVars, clientVars, boundVars
<1>1. ASSUME UNCHANGED <<subscription, pc, waiting, shared, page>> PROVE SubscribedInv'
  BY <1>1 DEF ReferencedIsSubscribed, SettledIsOn, ReadIsConfirmed, Confirmed
<1>2. ASSUME NEW c \in Channel, Commit(c) PROVE SubscribedInv'
  BY <1>1, <1>2 DEF Commit
<1>3. ASSUME NEW m \in Message, NEW t \in Text, Revise(m, t) \/ AnnounceRevision(m, t)
      PROVE  SubscribedInv'
  BY <1>1, <1>3 DEF Revise, AnnounceRevision
<1>4. ASSUME NEW m \in Message, Announce(m) \/ LoseAnnouncement(m) PROVE SubscribedInv'
  BY <1>1, <1>4 DEF Announce, LoseAnnouncement
<1>5. ASSUME NEW k \in Connection, NEW P \in SUBSET Channel,
             OpenFresh(k) \/ OpenMalformed(k) \/ OpenResume(k, P)
      PROVE  SubscribedInv'
  BY <1>5, RegisterSubscribes DEF OpenFresh, OpenMalformed, OpenResume
<1>6. ASSUME NEW c \in Channel, SubscribeLands(c) PROVE SubscribedInv'
  <2>1. /\ UNCHANGED <<pc, waiting, shared, page>>
        /\ \A d \in Channel : subscription'[d] \in {subscription[d], "on"}
    BY <1>6 DEF SubscribeLands, TypeOK
  <2>2. \A k \in Connection : MemberOf[k] \subseteq Channel
    BY MemberAssumption
  <2> QED
    BY <2>1, <2>2 DEF ReferencedIsSubscribed, SettledIsOn, ReadIsConfirmed, Confirmed
<1>7. ASSUME NEW k \in Connection,
             SubscribeDeadline(k) \/ BackfillFails(k) \/ CompleteOverflowed(k) \/ Complete(k)
             \/ BackfillAnswers(k)
      PROVE  SubscribedInv'
  <2>1. /\ pc[k] # "closed" /\ (pc' = [pc EXCEPT ![k] = "live"] \/ pc' = [pc EXCEPT ![k] = "filled"])
        /\ UNCHANGED <<subscription, waiting, shared, page>>
    BY <1>7 DEF SubscribeDeadline, BackfillFails, CompleteOverflowed, Degrade, Complete,
                BackfillAnswers
  <2>2. \A j \in Connection : pc'[j] = "closed" <=> pc[j] = "closed"
    BY <2>1 DEF TypeOK
  <2>3. ReferencedIsSubscribed' /\ SettledIsOn'
    BY <2>1, <2>2 DEF ReferencedIsSubscribed, SettledIsOn
  <2>4. ReadIsConfirmed'
    BY <2>1, <2>2 DEF ReadIsConfirmed, Confirmed
  <2> QED
    BY <2>3, <2>4
<1>8. ASSUME NEW k \in Connection, NEW c \in Channel, ReadPage(k, c) PROVE SubscribedInv'
  BY <1>8 DEF ReadPage, TypeOK, ReferencedIsSubscribed, SettledIsOn, ReadIsConfirmed, Confirmed
<1>9. ASSUME NEW k \in Connection, Close(k) PROVE SubscribedInv'
  <2> USE <1>9, MemberAssumption DEF Close, TypeOK
  <2>1. \A j \in Connection \ {k} : pc'[j] = pc[j] /\ waiting'[j] = waiting[j]
          /\ shared'[j] = shared[j] /\ page'[j] = page[j]
    OBVIOUS
  <2>2. \A j \in Connection \ {k} : pc[j] # "closed" =>
          \A c \in MemberOf[j] : subscription'[c] = subscription[c]
    OBVIOUS
  <2>3. pc'[k] = "closed" /\ waiting'[k] = {} /\ page'[k] = NoPage
    OBVIOUS
  <2> HIDE <1>9, MemberAssumption DEF Close, TypeOK
  <2>4. ReferencedIsSubscribed'
    BY <2>1, <2>2, <2>3 DEF ReferencedIsSubscribed
  <2>7. SettledIsOn'
    BY <2>1, <2>2, <2>3 DEF SettledIsOn
  <2>5. ASSUME NEW j \in Connection \ {k}, page'[j].read # {} PROVE Confirmed(j)'
    <3>1. pc[j] # "closed" /\ Confirmed(j)
      BY <2>1, <2>5 DEF ReadIsConfirmed, NoPage
    <3> QED
      BY <2>1, <2>2, <3>1 DEF Confirmed, ReadIsConfirmed
  <2>6. ReadIsConfirmed'
    BY <2>1, <2>3, <2>5 DEF ReadIsConfirmed, NoPage
  <2> QED
    BY <2>4, <2>6, <2>7
<1>10. CASE UNCHANGED vars
  BY <1>1, <1>10 DEF vars
<1> QED
  BY <1>2, <1>3, <1>4, <1>5, <1>6, <1>7, <1>8, <1>9, <1>10 DEF Next, ResumeStep

(***************************************************************************)
(* Where a connection stands.  Its cursors are for its own channels and not *)
(* ahead of them, its page lies above its cursors, and until it is live it  *)
(* has shown nothing.                                                       *)
(***************************************************************************)
Sent(m) == m[2] <= last[m[1]]

CursorScope ==
  \A k \in Connection : \A c \in DOMAIN cursor[k] : c \in MemberOf[k] /\ cursor[k][c] <= last[c]
ReadScope == \A k \in Connection : page[k].read \subseteq DOMAIN cursor[k]
PageScope ==
  \A k \in Connection : \A m \in PageOf(k) :
    m[1] \in page[k].read /\ cursor[k][m[1]] < m[2] /\ Sent(m)
PhaseScope ==
  \A k \in Connection :
    /\ pc[k] = "closed" => buffer[k] = {} /\ page[k] = NoPage
    /\ pc[k] # "live" => copy[k] = NoCopies /\ again[k] = {}
    /\ pc[k] \in {"subscribing", "filled"} => resumeOk[k] = FALSE
    /\ pc[k] = "filled" => page[k].read = DOMAIN cursor[k]

ScopeInv == CursorScope /\ ReadScope /\ PageScope /\ PhaseScope

LEMMA ScopeInitially == Init => ScopeInv
BY DEF Init, ScopeInv, CursorScope, ReadScope, PageScope, PhaseScope, PageOf, NoPage, NoMarks

LEMMA NoPageIsEmpty ==
  ASSUME NEW k \in Connection, page[k] = NoPage
  PROVE  PageOf(k) = {} /\ page[k].read = {}
BY DEF PageOf, NoPage

\* A commit only adds to what has been sent.
LEMMA CommitGrows ==
  ASSUME TypeOK, NEW c \in Channel, Commit(c)
  PROVE  /\ \A d \in Channel : last[d] <= last'[d] /\ last[d] \in Nat /\ last'[d] \in Nat
         /\ \A m \in Message : Sent(m) => Sent(m)'
         /\ <<c, last[c] + 1>> \in Message
         /\ \A m \in Message : m = <<c, last[c] + 1>> => ~Sent(m) /\ Sent(m)'
<1> USE BoundAssumption DEF Commit, TypeOK, Message, Seqs, Sent
<1>1. \A d \in Channel : last[d] <= last'[d] /\ last[d] \in Nat /\ last'[d] \in Nat
  OBVIOUS
<1>2. \A m \in Message : Sent(m) => Sent(m)'
  BY <1>1
<1>3. <<c, last[c] + 1>> \in Message
  OBVIOUS
<1>4. \A m \in Message : m = <<c, last[c] + 1>> => ~Sent(m) /\ Sent(m)'
  OBVIOUS
<1> QED
  BY <1>1, <1>2, <1>3, <1>4

LEMMA RegisterScopes ==
  ASSUME TypeOK, ScopeInv, NEW k \in Connection, NEW phase \in {"live", "subscribing"},
         NEW cur \in SeqMap, Register(k, phase, cur),
         \A c \in DOMAIN cur : c \in MemberOf[k] /\ cur[c] <= last[c],
         \E ok \in BOOLEAN :
           resumeOk' = [resumeOk EXCEPT ![k] = ok] /\ (phase = "subscribing" => ok = FALSE)
  PROVE  ScopeInv'
<1> USE DEF ScopeInv, Register, storeVars, flightVars
<1>1. \A j \in Connection \ {k} :
        pc'[j] = pc[j] /\ cursor'[j] = cursor[j] /\ copy'[j] = copy[j] /\ again'[j] = again[j]
        /\ resumeOk'[j] = resumeOk[j]
  BY DEF TypeOK
<1>2. pc'[k] = phase /\ cursor'[k] = cur /\ copy'[k] = NoCopies /\ again'[k] = {}
      /\ (phase = "subscribing" => resumeOk'[k] = FALSE)
  BY DEF TypeOK
<1>3. page' = page /\ buffer' = buffer /\ last' = last /\ page[k] = NoPage
  BY DEF PhaseScope
<1>4. PageOf(k) = {} /\ page[k].read = {}
  BY <1>3, NoPageIsEmpty
<1> HIDE DEF Register
<1>5. CursorScope'
  BY <1>1, <1>2, <1>3 DEF CursorScope
<1>6. ReadScope'
  BY <1>1, <1>3, <1>4 DEF ReadScope
<1>7. \A j \in Connection : PageOf(j)' = PageOf(j)
  BY <1>3 DEF PageOf
<1>8. PageScope'
  BY <1>1, <1>3, <1>4, <1>7 DEF PageScope, Sent
<1>9. PhaseScope'
  BY <1>1, <1>2, <1>3 DEF PhaseScope
<1> QED
  BY <1>5, <1>6, <1>8, <1>9

LEMMA PageGrows ==
  ASSUME TypeOK, NEW k \in Connection, NEW c \in Channel, ReadPage(k, c)
  PROVE  PageOf(k)' = PageOf(k) \cup {x \in Scanned(k, c) : text[x] # "deleted"}
<1> DEFINE S == {x \in Scanned(k, c) : text[x] # "deleted"}
           New == {<<m, text[m]>> : m \in S}
<1>1. page'[k].rows = page[k].rows \cup New
  BY DEF ReadPage, TypeOK
<1>2. PageOf(k)' = {r[1] : r \in page[k].rows \cup New}
  BY <1>1 DEF PageOf
<1>3. {r[1] : r \in page[k].rows \cup New} = {r[1] : r \in page[k].rows} \cup {r[1] : r \in New}
  OBVIOUS
<1>4. {r[1] : r \in New} = S
  <2> HIDE DEF S
  <2>1. \A m \in S : <<m, text[m]>> \in New /\ <<m, text[m]>>[1] = m
    OBVIOUS
  <2>2. \A r \in New : r[1] \in S
    OBVIOUS
  <2> HIDE DEF New
  <2>3. S \subseteq {r[1] : r \in New}
    BY <2>1
  <2>4. {r[1] : r \in New} \subseteq S
    BY <2>2
  <2> QED
    BY <2>3, <2>4
<1> QED
  BY <1>2, <1>3, <1>4 DEF PageOf

LEMMA DegradeScopes ==
  ASSUME TypeOK, ScopeInv, NEW k \in Connection, pc[k] # "closed", Degrade(k)
  PROVE  ScopeInv'
<1>1. /\ UNCHANGED <<last, cursor, page, copy, again, resumeOk>>
      /\ pc' = [pc EXCEPT ![k] = "live"] /\ buffer' = [buffer EXCEPT ![k] = {}]
  BY DEF Degrade, storeVars
<1>2. CursorScope' /\ ReadScope'
  BY <1>1 DEF ScopeInv, CursorScope, ReadScope
<1>3. PageScope'
  BY <1>1 DEF ScopeInv, PageScope, PageOf, Sent
<1>4. PhaseScope'
  BY <1>1 DEF ScopeInv, PhaseScope, TypeOK
<1> QED
  BY <1>2, <1>3, <1>4 DEF ScopeInv

LEMMA ScopePreserved ==
  ASSUME TypeOK, ScopeInv, [Next]_vars
  PROVE  ScopeInv'
<1> USE DEF storeVars, flightVars, heldVars, clientVars, boundVars
<1>1. ASSUME UNCHANGED <<last, pc, cursor, page, buffer, copy, again, resumeOk>> PROVE ScopeInv'
  BY <1>1 DEF ScopeInv, CursorScope, ReadScope, PageScope, PageOf, Sent, PhaseScope
<1>2. ASSUME NEW c \in Channel, Commit(c) PROVE ScopeInv'
  <2>1. UNCHANGED <<pc, cursor, page, buffer, copy, again, resumeOk>>
    BY <1>2 DEF Commit
  <2>2. CursorScope'
    <3>1. \A k \in Connection : \A d \in DOMAIN cursor[k] : d \in Channel /\ cursor[k][d] \in Nat
      BY BoundAssumption DEF TypeOK, SeqMap
    <3>2. \A d \in Channel : last[d] <= last'[d] /\ last[d] \in Nat /\ last'[d] \in Nat
      BY <1>2, CommitGrows
    <3>3. ASSUME NEW k \in Connection, NEW d \in DOMAIN cursor[k]
          PROVE  d \in MemberOf[k] /\ cursor[k][d] <= last'[d]
      BY <3>1, <3>2 DEF ScopeInv, CursorScope
    <3> QED
      BY <2>1, <3>3 DEF CursorScope
  <2>3. ReadScope' /\ PhaseScope'
    BY <2>1 DEF ScopeInv, ReadScope, PhaseScope
  <2>4. \A k \in Connection : PageOf(k)' = PageOf(k) /\ PageOf(k) \subseteq Message
    BY <2>1 DEF PageOf, TypeOK, Page
  <2>5. PageScope'
    BY <1>2, <2>1, <2>4, CommitGrows DEF ScopeInv, PageScope
  <2> QED
    BY <2>2, <2>3, <2>5 DEF ScopeInv
<1>3. ASSUME NEW m \in Message, NEW t \in Text, Revise(m, t) PROVE ScopeInv'
  BY <1>1, <1>3 DEF Revise
<1>4. ASSUME NEW m \in Message, LoseAnnouncement(m) PROVE ScopeInv'
  BY <1>1, <1>4 DEF LoseAnnouncement
<1>5. ASSUME NEW c \in Channel, SubscribeLands(c) PROVE ScopeInv'
  BY <1>1, <1>5 DEF SubscribeLands
<1>6. ASSUME NEW m \in Message, Announce(m) \/ \E t \in Text : AnnounceRevision(m, t)
      PROVE  ScopeInv'
  <2>1. UNCHANGED <<last, pc, cursor, page, resumeOk>>
    BY <1>6 DEF Announce, AnnounceRevision
  <2>2. \A k \in Connection :
          /\ pc[k] = "closed" => buffer'[k] = buffer[k]
          /\ pc[k] # "live" => copy'[k] = copy[k] /\ again'[k] = again[k]
    <3>1. CASE Announce(m)
      <4>1. CASE Deliver(m)
        BY <4>1 DEF Deliver, HeldBack, SentTo, Hears, TypeOK
      <4>2. CASE UNCHANGED clientVars
        BY <4>2
      <4> QED
        BY <3>1, <4>1, <4>2 DEF Announce
    <3>2. CASE \E t \in Text : AnnounceRevision(m, t)
      BY <3>2 DEF AnnounceRevision, TypeOK
    <3> QED
      BY <1>6, <3>1, <3>2
  <2>3. CursorScope' /\ ReadScope' /\ PageScope'
    BY <2>1 DEF ScopeInv, CursorScope, ReadScope, PageScope, PageOf, Sent
  <2>4. PhaseScope'
    BY <2>1, <2>2 DEF ScopeInv, PhaseScope
  <2> QED
    BY <2>3, <2>4 DEF ScopeInv
<1>7. ASSUME NEW k \in Connection, OpenFresh(k) PROVE ScopeInv'
  <2>1. DOMAIN NoMarks = {}
    BY DEF NoMarks
  <2> QED
    BY <1>7, <2>1, RegisterScopes, EmptyValues DEF OpenFresh
<1>8. ASSUME NEW k \in Connection, OpenMalformed(k) PROVE ScopeInv'
  <2>1. DOMAIN NoMarks = {}
    BY DEF NoMarks
  <2> QED
    BY <1>8, <2>1, RegisterScopes, EmptyValues DEF OpenMalformed
<1>9. ASSUME NEW k \in Connection, NEW P \in SUBSET Channel, OpenResume(k, P) PROVE ScopeInv'
  <2>1. PICK cur \in [P -> 0..MaxSeq] :
          (\A c \in P : cur[c] <= last[c]) /\ Register(k, "subscribing", cur)
    BY <1>9 DEF OpenResume
  <2>2. cur \in SeqMap /\ DOMAIN cur = P
    BY <2>1 DEF SeqMap
  <2>3. P \subseteq MemberOf[k] /\ resumeOk' = [resumeOk EXCEPT ![k] = FALSE]
    BY <1>9 DEF OpenResume
  <2> QED
    BY <2>1, <2>2, <2>3, RegisterScopes
<1>10. ASSUME NEW k \in Connection,
              SubscribeDeadline(k) \/ BackfillFails(k) \/ CompleteOverflowed(k)
       PROVE  ScopeInv'
  BY <1>10, DegradeScopes DEF SubscribeDeadline, BackfillFails, CompleteOverflowed
<1>11. ASSUME NEW k \in Connection, NEW c \in Channel, ReadPage(k, c) PROVE ScopeInv'
  <2>1. UNCHANGED <<last, pc, cursor, buffer, copy, again, resumeOk>>
    BY <1>11 DEF ReadPage
  <2>2. pc[k] = "subscribing" /\ c \in DOMAIN cursor[k]
    BY <1>11 DEF ReadPage
  <2>3. \A j \in Connection \ {k} : page'[j] = page[j]
    BY <1>11 DEF ReadPage, TypeOK
  <2>4. /\ page'[k].read = page[k].read \cup {c}
        /\ page'[k].rows = page[k].rows
              \cup {<<m, text[m]>> : m \in {x \in Scanned(k, c) : text[x] # "deleted"}}
    BY <1>11 DEF ReadPage, TypeOK
  <2>5. PageOf(k)' = PageOf(k) \cup {x \in Scanned(k, c) : text[x] # "deleted"}
    BY <1>11, PageGrows
  <2>6. \A j \in Connection \ {k} : PageOf(j)' = PageOf(j)
    BY <2>3 DEF PageOf
  <2>7. \A m \in Scanned(k, c) : m[1] = c /\ cursor[k][c] < m[2] /\ Sent(m)
    BY DEF Scanned, Above, Sent
  <2>8. CursorScope'
    BY <2>1 DEF ScopeInv, CursorScope
  <2>9. ReadScope'
    BY <2>1, <2>2, <2>3, <2>4 DEF ScopeInv, ReadScope
  <2>10. PageScope'
    <3>1. \A j \in Connection \ {k} : \A m \in PageOf(j)' :
            m[1] \in page'[j].read /\ cursor'[j][m[1]] < m[2] /\ Sent(m)'
      BY <2>1, <2>3, <2>6 DEF ScopeInv, PageScope, Sent
    <3>2. \A m \in PageOf(k)' : m[1] \in page'[k].read /\ cursor'[k][m[1]] < m[2] /\ Sent(m)'
      BY <2>1, <2>4, <2>5, <2>7 DEF ScopeInv, PageScope, Sent
    <3> QED
      BY <3>1, <3>2 DEF PageScope
  <2>11. PhaseScope'
    BY <2>1, <2>2, <2>3 DEF ScopeInv, PhaseScope
  <2> QED
    BY <2>8, <2>9, <2>10, <2>11 DEF ScopeInv
<1>12. ASSUME NEW k \in Connection, BackfillAnswers(k) PROVE ScopeInv'
  <2>1. UNCHANGED <<last, cursor, page, buffer, copy, again, resumeOk>>
    BY <1>12 DEF BackfillAnswers
  <2>2. CursorScope' /\ ReadScope' /\ PageScope'
    BY <2>1 DEF ScopeInv, CursorScope, ReadScope, PageScope, PageOf, Sent
  <2>3. PhaseScope'
    BY <1>12, <2>1 DEF BackfillAnswers, ScopeInv, PhaseScope, TypeOK
  <2> QED
    BY <2>2, <2>3 DEF ScopeInv
<1>13. ASSUME NEW k \in Connection, Complete(k) PROVE ScopeInv'
  <2>1. UNCHANGED <<last, cursor, page>>
    BY <1>13 DEF Complete
  <2>2. CursorScope' /\ ReadScope' /\ PageScope'
    BY <2>1 DEF ScopeInv, CursorScope, ReadScope, PageScope, PageOf, Sent
  <2>3. \A j \in Connection \ {k} :
          pc'[j] = pc[j] /\ buffer'[j] = buffer[j] /\ copy'[j] = copy[j] /\ again'[j] = again[j]
          /\ resumeOk'[j] = resumeOk[j]
    BY <1>13 DEF Complete, TypeOK
  <2>4. pc'[k] = "live"
    BY <1>13 DEF Complete, TypeOK
  <2>5. PhaseScope'
    BY <2>1, <2>3, <2>4 DEF ScopeInv, PhaseScope
  <2> QED
    BY <2>2, <2>5 DEF ScopeInv
<1>14. ASSUME NEW k \in Connection, Close(k) PROVE ScopeInv'
  <2>1. last' = last
    BY <1>14 DEF Close
  <2>2. \A j \in Connection \ {k} :
          /\ pc'[j] = pc[j] /\ buffer'[j] = buffer[j] /\ copy'[j] = copy[j]
          /\ again'[j] = again[j] /\ resumeOk'[j] = resumeOk[j] /\ page'[j] = page[j]
          /\ cursor'[j] = cursor[j]
    BY <1>14 DEF Close, TypeOK
  <2>3. /\ pc'[k] = "closed" /\ buffer'[k] = {} /\ copy'[k] = NoCopies /\ again'[k] = {}
        /\ page'[k] = NoPage /\ cursor'[k] = NoMarks
    BY <1>14 DEF Close, TypeOK
  <2>4. DOMAIN cursor'[k] = {} /\ page'[k].read = {} /\ PageOf(k)' = {}
    BY <2>3 DEF NoMarks, NoPage, PageOf
  <2>5. \A j \in Connection \ {k} : PageOf(j)' = PageOf(j)
    BY <2>2 DEF PageOf
  <2>6. CursorScope' /\ ReadScope'
    BY <2>1, <2>2, <2>4 DEF ScopeInv, CursorScope, ReadScope
  <2>7. PageScope'
    BY <2>1, <2>2, <2>4, <2>5 DEF ScopeInv, PageScope, Sent
  <2>8. PhaseScope'
    BY <2>2, <2>3 DEF ScopeInv, PhaseScope
  <2> QED
    BY <2>6, <2>7, <2>8 DEF ScopeInv
<1>15. CASE UNCHANGED vars
  BY <1>1, <1>15 DEF vars
<1> QED
  BY <1>2, <1>3, <1>4, <1>5, <1>6, <1>7, <1>8, <1>9, <1>10, <1>11, <1>12, <1>13, <1>14, <1>15
  DEF Next, ResumeStep

(***************************************************************************)
(* Once.  A message that is still to be announced is in no buffer, and if a *)
(* client has it already, the page brought it and the mark suppresses the   *)
(* announcement; so no client is told of a message twice.                   *)
(***************************************************************************)
OnlySentIsKnown ==
  /\ \A m \in announcing : Sent(m)
  /\ \A k \in Connection, m \in Message : m \in buffer[k] \/ copy[k][m] # "none" => Sent(m)
UnannouncedIsUnheard == \A k \in Connection : \A m \in announcing : m \notin buffer[k]
KnownIsSuppressed ==
  \A k \in Connection : \A m \in announcing :
    copy[k][m] # "none" => Suppressed(k, m)

OnceInv == OnlySentIsKnown /\ UnannouncedIsUnheard /\ KnownIsSuppressed /\ NoRepeat

LEMMA OnceInitially == Init => OnceInv
BY DEF Init, OnceInv, OnlySentIsKnown, UnannouncedIsUnheard, KnownIsSuppressed, NoRepeat, NoCopies

\* Two connections' values suffice: what a step leaves alone keeps its part.
LEMMA OnceFrame ==
  ASSUME TypeOK, OnceInv, NEW k \in Connection,
         last' = last, announcing' = announcing,
         \A j \in Connection \ {k} :
           buffer'[j] = buffer[j] /\ copy'[j] = copy[j] /\ again'[j] = again[j]
           /\ marks'[j] = marks[j],
         buffer'[k] \in SUBSET buffer[k], again'[k] = {}, copy'[k] = NoCopies
  PROVE  OnceInv'
<1> USE DEF OnceInv
<1>1. OnlySentIsKnown'
  BY DEF OnlySentIsKnown, NoCopies, Sent
<1>2. UnannouncedIsUnheard'
  BY DEF UnannouncedIsUnheard
<1>3. KnownIsSuppressed'
  <2>1. \A m \in announcing : NoCopies[m] = "none"
    BY DEF TypeOK, NoCopies
  <2>2. \A j \in Connection : \A m \in announcing :
          copy'[j][m] # "none" => copy'[j][m] = copy[j][m] /\ marks'[j] = marks[j]
    BY <2>1
  <2> QED
    BY <2>2 DEF KnownIsSuppressed, Suppressed
<1>4. NoRepeat'
  BY DEF NoRepeat
<1> QED
  BY <1>1, <1>2, <1>3, <1>4

LEMMA OnceCommit ==
  ASSUME TypeOK, OnceInv, NEW c \in Channel, Commit(c)
  PROVE  OnceInv'
<1> DEFINE new == <<c, last[c] + 1>>
<1>1. /\ announcing' = announcing \cup {new}
      /\ UNCHANGED <<buffer, copy, again, marks>>
  BY DEF Commit, clientVars, heldVars
<1>2. new \in Message /\ ~Sent(new)
  BY CommitGrows
<1>3. \A m \in Message : (Sent(m) => Sent(m)') /\ (m = new => Sent(m)')
  BY CommitGrows
<1>4. \A k \in Connection : new \notin buffer[k] /\ copy[k][new] = "none"
  BY <1>2 DEF OnceInv, OnlySentIsKnown
<1> HIDE DEF new
<1>5. OnlySentIsKnown'
  BY <1>1, <1>2, <1>3 DEF OnceInv, OnlySentIsKnown, TypeOK
<1>6. UnannouncedIsUnheard'
  BY <1>1, <1>4 DEF OnceInv, UnannouncedIsUnheard
<1>7. KnownIsSuppressed'
  BY <1>1, <1>4 DEF OnceInv, KnownIsSuppressed, Suppressed
<1>8. NoRepeat'
  BY <1>1 DEF OnceInv, NoRepeat
<1> QED
  BY <1>5, <1>6, <1>7, <1>8 DEF OnceInv

\* An announcement is delivered to whom it tells something new.
LEMMA OnceAnnounce ==
  ASSUME TypeOK, OnceInv, NEW m \in announcing, announcing' = announcing \ {m},
         Deliver(m), UNCHANGED <<last, marks>>
  PROVE  OnceInv'
<1>1. m \in Message /\ Sent(m)
  BY DEF TypeOK, OnceInv, OnlySentIsKnown
<1>2. \A k \in Connection :
        /\ buffer'[k] \subseteq buffer[k] \cup {m}
        /\ \A x \in Message : x # m => copy'[k][x] = copy[k][x]
        /\ again'[k] = again[k] \/ (k \in SentTo(m) /\ copy[k][m] # "none")
  BY <1>1 DEF Deliver, TypeOK
<1>3. \A k \in SentTo(m) : copy[k][m] = "none"
  BY DEF SentTo, OnceInv, KnownIsSuppressed
<1>4. OnlySentIsKnown'
  BY <1>1, <1>2 DEF OnceInv, OnlySentIsKnown, Sent, TypeOK
<1>5. UnannouncedIsUnheard'
  BY <1>2 DEF OnceInv, UnannouncedIsUnheard
<1>6. KnownIsSuppressed'
  BY <1>2 DEF OnceInv, KnownIsSuppressed, Suppressed, TypeOK
<1>7. NoRepeat'
  BY <1>2, <1>3 DEF OnceInv, NoRepeat, SentTo
<1> QED
  BY <1>4, <1>5, <1>6, <1>7 DEF OnceInv

\* The flush begins above the page, and the marks stand where the page ended.
LEMMA OnceComplete ==
  ASSUME TypeOK, OnceInv, ScopeInv, NEW k \in Connection, Complete(k)
  PROVE  OnceInv'
<1>1. PageOf(k) \subseteq Message /\ buffer[k] \subseteq Message
  BY DEF TypeOK, Page, PageOf
<1>2. \A m \in PageOf(k) : m[1] \in DOMAIN cursor[k] /\ m[2] <= HighWaterMark(k, m[1]) /\ Sent(m)
  BY HighWater DEF ScopeInv, PageScope, ReadScope
<1>3. \A m \in Flushable(k) :
        m \in buffer[k] /\ (m[1] \in DOMAIN cursor[k] => m[2] > HighWaterMark(k, m[1]))
  BY DEF Flushable
<1>4. Flushable(k) \cap PageOf(k) = {}
  <2> SUFFICES ASSUME NEW m \in Flushable(k), m \in PageOf(k) PROVE FALSE
    OBVIOUS
  <2>1. m[1] \in DOMAIN cursor[k] /\ m[2] \in Int
    BY <1>1, <1>2 DEF Message, Seqs
  <2>2. HighWaterMark(k, m[1]) \in 0..MaxSeq
    BY <2>1, HighWater
  <2>3. HighWaterMark(k, m[1]) \in Int
    BY <2>2
  <2> QED
    BY <1>2, <1>3, <2>1, <2>3
<1>5. /\ UNCHANGED <<last, announcing>>
      /\ \A j \in Connection \ {k} :
           buffer'[j] = buffer[j] /\ copy'[j] = copy[j] /\ again'[j] = again[j]
           /\ marks'[j] = marks[j]
  BY DEF Complete, storeVars, flightVars, TypeOK
<1>6. /\ buffer'[k] = {}
      /\ marks'[k] = [c \in DOMAIN cursor[k] |-> HighWaterMark(k, c)]
      /\ again'[k] = again[k] \cup (Flushable(k) \cap PageOf(k))
  BY DEF Complete, TypeOK
<1>7. \A m \in Message : copy'[k][m] # "none" => m \in Flushable(k) \cup PageOf(k)
  BY DEF Complete, TypeOK
<1>8. OnlySentIsKnown'
  BY <1>2, <1>3, <1>5, <1>6, <1>7 DEF OnceInv, OnlySentIsKnown, Sent
<1>9. UnannouncedIsUnheard'
  BY <1>5, <1>6 DEF OnceInv, UnannouncedIsUnheard
<1>10. KnownIsSuppressed'
  <2>1. ASSUME NEW m \in announcing, copy'[k][m] # "none" PROVE Suppressed(k, m)'
    <3>1. m \in Message /\ m \notin Flushable(k)
      BY <1>3 DEF OnceInv, UnannouncedIsUnheard, TypeOK
    <3>2. m \in PageOf(k)
      BY <1>7, <2>1, <3>1
    <3> QED
      BY <1>2, <1>6, <3>2 DEF Suppressed
  <2> QED
    BY <1>5, <2>1 DEF OnceInv, KnownIsSuppressed, Suppressed
<1>11. NoRepeat'
  BY <1>4, <1>5, <1>6 DEF OnceInv, NoRepeat
<1> QED
  BY <1>8, <1>9, <1>10, <1>11 DEF OnceInv

LEMMA OncePreserved ==
  ASSUME TypeOK, ScopeInv, OnceInv, [Next]_vars
  PROVE  OnceInv'
<1> USE DEF storeVars, flightVars, heldVars, clientVars, boundVars
<1>1. ASSUME UNCHANGED <<last, announcing, buffer, copy, again, marks>> PROVE OnceInv'
  BY <1>1 DEF OnceInv, OnlySentIsKnown, UnannouncedIsUnheard, KnownIsSuppressed, NoRepeat,
              Suppressed, Sent
<1>2. ASSUME NEW c \in Channel, Commit(c) PROVE OnceInv'
  BY <1>2, OnceCommit
<1>3. ASSUME NEW m \in Message, NEW t \in Text, Revise(m, t) PROVE OnceInv'
  BY <1>1, <1>3 DEF Revise
<1>4. ASSUME NEW m \in Message, Announce(m) PROVE OnceInv'
  <2>1. m \in announcing /\ announcing' = announcing \ {m} /\ UNCHANGED <<last, marks>>
    BY <1>4 DEF Announce
  <2>2. CASE Deliver(m)
    BY <2>1, <2>2, OnceAnnounce
  <2>3. CASE UNCHANGED clientVars
    BY <2>1, <2>3 DEF OnceInv, OnlySentIsKnown, UnannouncedIsUnheard, KnownIsSuppressed,
                      NoRepeat, Suppressed, Sent
  <2> QED
    BY <1>4, <2>2, <2>3 DEF Announce
<1>5. ASSUME NEW m \in Message, LoseAnnouncement(m) PROVE OnceInv'
  BY <1>5 DEF LoseAnnouncement, OnceInv, OnlySentIsKnown, UnannouncedIsUnheard,
              KnownIsSuppressed, NoRepeat, Suppressed, Sent
<1>6. ASSUME NEW m \in Message, NEW t \in Text, AnnounceRevision(m, t) PROVE OnceInv'
  <2>1. UNCHANGED <<last, announcing, buffer, again, marks>>
    BY <1>6 DEF AnnounceRevision
  <2>2. \A k \in Connection, x \in Message : copy'[k][x] # "none" => copy[k][x] # "none"
    BY <1>6 DEF AnnounceRevision, TypeOK
  <2>3. announcing \subseteq Message
    BY DEF TypeOK
  <2> QED
    BY <2>1, <2>2, <2>3 DEF OnceInv, OnlySentIsKnown, UnannouncedIsUnheard,
                            KnownIsSuppressed, NoRepeat, Suppressed, Sent
<1>7. ASSUME NEW k \in Connection, NEW P \in SUBSET Channel,
             OpenFresh(k) \/ OpenMalformed(k) \/ OpenResume(k, P)
      PROVE  OnceInv'
  <2>1. /\ UNCHANGED <<last, announcing, buffer, marks>>
        /\ copy' = [copy EXCEPT ![k] = NoCopies] /\ again' = [again EXCEPT ![k] = {}]
    BY <1>7 DEF OpenFresh, OpenMalformed, OpenResume, Register
  <2> QED
    BY <2>1, OnceFrame DEF TypeOK
<1>8. ASSUME NEW c \in Channel, SubscribeLands(c) PROVE OnceInv'
  BY <1>1, <1>8 DEF SubscribeLands
<1>9. ASSUME NEW k \in Connection,
             SubscribeDeadline(k) \/ BackfillFails(k) \/ CompleteOverflowed(k)
      PROVE  OnceInv'
  <2>1. pc[k] # "live" /\ Degrade(k)
    BY <1>9 DEF SubscribeDeadline, BackfillFails, CompleteOverflowed
  <2>2. /\ UNCHANGED <<last, announcing, copy, again>> /\ copy[k] = NoCopies
        /\ buffer' = [buffer EXCEPT ![k] = {}] /\ marks' = [marks EXCEPT ![k] = NoMarks]
    BY <2>1 DEF Degrade, ScopeInv, PhaseScope
  <2>3. again[k] = {}
    BY DEF OnceInv, NoRepeat
  <2>4. \A j \in Connection \ {k} :
           buffer'[j] = buffer[j] /\ copy'[j] = copy[j] /\ again'[j] = again[j]
           /\ marks'[j] = marks[j]
    BY <2>2, <2>3 DEF TypeOK
  <2>5. buffer'[k] \in SUBSET buffer[k] /\ again'[k] = {} /\ copy'[k] = NoCopies
    BY <2>2, <2>3 DEF TypeOK
  <2>6. last' = last /\ announcing' = announcing
    BY <2>2, <2>3
  <2> QED
    BY ONLY TypeOK, OnceInv, k \in Connection, <2>4, <2>5, <2>6, OnceFrame
<1>10. ASSUME NEW k \in Connection, NEW c \in Channel, ReadPage(k, c) PROVE OnceInv'
  BY <1>1, <1>10 DEF ReadPage
<1>11. ASSUME NEW k \in Connection, BackfillAnswers(k) PROVE OnceInv'
  BY <1>1, <1>11 DEF BackfillAnswers
<1>12. ASSUME NEW k \in Connection, Complete(k) PROVE OnceInv'
  BY <1>12, OnceComplete
<1>13. ASSUME NEW k \in Connection, Close(k) PROVE OnceInv'
  <2>1. /\ UNCHANGED <<last, announcing>>
        /\ copy' = [copy EXCEPT ![k] = NoCopies] /\ again' = [again EXCEPT ![k] = {}]
        /\ buffer' = [buffer EXCEPT ![k] = {}] /\ marks' = [marks EXCEPT ![k] = NoMarks]
    BY <1>13 DEF Close
  <2>4. \A j \in Connection \ {k} :
           buffer'[j] = buffer[j] /\ copy'[j] = copy[j] /\ again'[j] = again[j]
           /\ marks'[j] = marks[j]
    BY <2>1 DEF TypeOK
  <2>5. buffer'[k] \in SUBSET buffer[k] /\ again'[k] = {} /\ copy'[k] = NoCopies
    BY <2>1 DEF TypeOK
  <2>6. last' = last /\ announcing' = announcing
    BY <2>1
  <2> QED
    BY ONLY TypeOK, OnceInv, k \in Connection, <2>4, <2>5, <2>6, OnceFrame
<1>14. CASE UNCHANGED vars
  BY <1>1, <1>14 DEF vars
<1> QED
  BY <1>2, <1>3, <1>4, <1>5, <1>6, <1>7, <1>8, <1>9, <1>10, <1>11, <1>12, <1>13, <1>14
  DEF Next, ResumeStep

(***************************************************************************)
(* No gap.  A page holds everything between the cursor and its last row.    *)
(* While the connection buffers, what was sent beyond the page is still to  *)
(* be announced, was lost by its sender or is in the buffer; and once it is *)
(* live, the mark separates what the client has been shown from what the    *)
(* announcements will bring.                                                *)
(***************************************************************************)
AboveCursor(k, m) == m[1] \in DOMAIN cursor[k] /\ cursor[k][m[1]] < m[2]
Deleted(m) == text[m] = "deleted"
OnItsWay(m) == m \in announcing \/ m \in lost
Promised(k, m) == m[1] \notin page[k].truncated /\ m[1] \notin shared[k] /\ Sent(m)

PageIsComplete(k) ==
  \A m \in Message, x \in PageOf(k) :
    x[1] = m[1] /\ m[2] <= x[2] /\ AboveCursor(k, m) => m \in PageOf(k) \/ Deleted(m)
BufferIsComplete(k) ==
  Buffering(k) =>
    \A m \in Message :
      m[1] \in page[k].read /\ AboveCursor(k, m) /\ Promised(k, m) =>
        m \in PageOf(k) \/ Deleted(m) \/ OnItsWay(m) \/ m \in buffer[k] \/ overflowed[k]
MarksAreSet(k) ==
  pc[k] = "live" /\ resumeOk[k] =>
    \A c \in DOMAIN cursor[k] : c \in DOMAIN marks[k] /\ c \in page[k].read /\ marks[k][c] <= last[c]
MarkedIsShown(k) ==
  pc[k] = "live" /\ resumeOk[k] =>
    \A m \in Message :
      AboveCursor(k, m) /\ m[2] <= marks[k][m[1]] => copy[k][m] # "none" \/ Deleted(m)
SentIsShown(k) ==
  pc[k] = "live" /\ resumeOk[k] =>
    \A m \in Message :
      AboveCursor(k, m) /\ Promised(k, m) => copy[k][m] # "none" \/ Deleted(m) \/ OnItsWay(m)

GapFree(k) ==
  PageIsComplete(k) /\ BufferIsComplete(k) /\ MarksAreSet(k) /\ MarkedIsShown(k) /\ SentIsShown(k)
GapInv == \A k \in Connection : GapFree(k)

LEMMA GapInitially == Init => GapInv
<1> SUFFICES ASSUME Init, NEW k \in Connection PROVE GapFree(k)
  BY DEF GapInv
<1>1. PageOf(k) = {} /\ pc[k] = "closed"
  BY NoPageIsEmpty DEF Init
<1> QED
  BY <1>1 DEF GapFree, PageIsComplete, BufferIsComplete, Buffering, MarksAreSet, MarkedIsShown,
              SentIsShown

\* A connection that has an empty page, and is closed, fresh or at the start of its
\* resume, owes nothing yet.
LEMMA GapFreeAtStart ==
  ASSUME NEW k \in Connection, page'[k] = NoPage,
         pc'[k] = "live" => resumeOk'[k] = FALSE \/ DOMAIN cursor'[k] = {}
  PROVE  GapFree(k)'
<1>1. PageOf(k)' = {} /\ page'[k].read = {}
  BY DEF PageOf, NoPage
<1> QED
  BY <1>1 DEF GapFree, PageIsComplete, BufferIsComplete, MarksAreSet, MarkedIsShown, SentIsShown,
              AboveCursor

\* A step that leaves a connection alone, and nothing sent or on its way besides,
\* leaves it without a gap; so does one that only degrades it.
LEMMA GapFreeKept ==
  ASSUME NEW k \in Connection, GapFree(k),
         last' = last,
         \A m \in Message : /\ OnItsWay(m) => OnItsWay(m)'
                            /\ Deleted(m) => Deleted(m)',
         cursor'[k] = cursor[k], page'[k] = page[k], shared'[k] = shared[k],
         \/ /\ pc'[k] = pc[k] \/ (Buffering(k) /\ Buffering(k)')
            /\ buffer'[k] = buffer[k] /\ overflowed'[k] = overflowed[k] /\ marks'[k] = marks[k]
            /\ resumeOk'[k] = resumeOk[k]
            /\ \A m \in Message : copy'[k][m] # "none" <=> copy[k][m] # "none"
         \/ pc'[k] = "live" /\ resumeOk'[k] = FALSE
  PROVE  GapFree(k)'
<1> USE DEF GapFree
<1>1. PageOf(k)' = PageOf(k)
  BY DEF PageOf
<1>2. PageIsComplete(k)'
  BY <1>1 DEF PageIsComplete, AboveCursor
<1>3. BufferIsComplete(k)'
  BY <1>1 DEF BufferIsComplete, Buffering, AboveCursor, Promised, Sent
<1>4. MarksAreSet(k)'
  BY DEF MarksAreSet, Buffering
<1>5. MarkedIsShown(k)'
  BY DEF MarkedIsShown, Buffering, AboveCursor
<1>6. SentIsShown(k)'
  BY DEF SentIsShown, Buffering, AboveCursor, Promised, Sent
<1> QED
  BY <1>2, <1>3, <1>4, <1>5, <1>6

\* A channel whose page has been read is subscribed, unless the SUBSCRIBE was another
\* connection's.
LEMMA ReaderHears ==
  ASSUME SubscribedInv, ScopeInv, NEW k \in Connection, pc[k] # "closed",
         NEW c \in page[k].read, c \notin shared[k]
  PROVE  subscription[c] = "on" /\ c \in MemberOf[k]
<1>1. c \in DOMAIN cursor[k] /\ c \in MemberOf[k]
  BY DEF ScopeInv, ReadScope, CursorScope
<1>2. Confirmed(k)
  BY DEF SubscribedInv, ReadIsConfirmed
<1> QED
  BY <1>1, <1>2 DEF Confirmed, SubscribedInv, SettledIsOn

LEMMA GapCommit ==
  ASSUME TypeOK, ScopeInv, NEW k \in Connection, GapFree(k), NEW c \in Channel, Commit(c)
  PROVE  GapFree(k)'
<1> DEFINE new == <<c, last[c] + 1>>
<1>1. /\ UNCHANGED <<pc, cursor, page, shared, buffer, overflowed, marks, resumeOk, copy, lost>>
      /\ announcing' = announcing \cup {new}
  BY DEF Commit, heldVars, clientVars
<1>2. new \in Message /\ ~Sent(new)
  BY CommitGrows
<1>3. \A m \in Message : m # new => (Sent(m)' => Sent(m)) /\ (Deleted(m) <=> Deleted(m)')
  BY <1>2 DEF Commit, TypeOK, Sent, Deleted, Message, Seqs
<1>4. new[1] = c /\ new[2] = last[c] + 1 /\ last[c] \in Nat
  BY DEF TypeOK
<1>5. PageOf(k)' = PageOf(k) /\ PageOf(k) \subseteq Message
  BY <1>1 DEF PageOf, TypeOK, Page
<1> HIDE DEF new
<1>6. PageIsComplete(k)'
  <2>1. ASSUME NEW x \in PageOf(k), x[1] = new[1], new[2] <= x[2] PROVE FALSE
    <3>1. x[2] <= last[c] /\ x[2] \in Nat
      BY <1>4, <1>5, <2>1 DEF ScopeInv, PageScope, Sent, Message, Seqs
    <3> QED
      BY <1>4, <2>1, <3>1
  <2> QED
    BY <1>1, <1>3, <1>5, <2>1 DEF GapFree, PageIsComplete, AboveCursor
<1>7. BufferIsComplete(k)'
  BY <1>1, <1>3, <1>5 DEF GapFree, BufferIsComplete, Buffering, AboveCursor, Promised, OnItsWay
<1>8. MarksAreSet(k)'
  <2>1. ASSUME pc[k] = "live", resumeOk[k], NEW d \in DOMAIN cursor[k]
        PROVE  d \in DOMAIN marks[k] /\ d \in page[k].read /\ marks[k][d] <= last'[d]
    <3>1. d \in DOMAIN marks[k] /\ d \in page[k].read /\ marks[k][d] <= last[d]
      BY <2>1 DEF GapFree, MarksAreSet
    <3>2. d \in Channel /\ marks[k][d] \in 0..MaxSeq
      BY <3>1 DEF TypeOK, SeqMap
    <3>3. last[d] <= last'[d] /\ last[d] \in Nat /\ last'[d] \in Nat
      BY <3>2, CommitGrows
    <3> QED
      BY <3>1, <3>2, <3>3
  <2> QED
    BY <1>1, <2>1 DEF MarksAreSet
<1>9. MarkedIsShown(k)'
  <2>1. ASSUME pc[k] = "live", resumeOk[k], AboveCursor(k, new), new[2] <= marks[k][new[1]]
        PROVE  FALSE
    <3>1. c \in DOMAIN marks[k] /\ marks[k][c] <= last[c]
      BY <1>4, <2>1 DEF GapFree, MarksAreSet, AboveCursor
    <3>2. marks[k][c] \in 0..MaxSeq
      BY <3>1 DEF TypeOK, SeqMap
    <3> QED
      BY <1>4, <2>1, <3>1, <3>2
  <2> QED
    BY <1>1, <1>3, <2>1 DEF GapFree, MarkedIsShown, AboveCursor
<1>10. SentIsShown(k)'
  BY <1>1, <1>3 DEF GapFree, SentIsShown, AboveCursor, Promised, OnItsWay
<1> QED
  BY <1>6, <1>7, <1>8, <1>9, <1>10 DEF GapFree

\* What leaves the sender reaches every reader: it is buffered or overflows while the
\* connection resumes, and afterwards it is shown unless the page brought it.
LEMMA GapAnnounce ==
  ASSUME TypeOK, SubscribedInv, ScopeInv, NEW k \in Connection, GapFree(k),
         NEW m \in Message, Announce(m)
  PROVE  GapFree(k)'
<1>1. /\ UNCHANGED <<last, text, pc, cursor, page, shared, marks, resumeOk, lost>>
      /\ m \in announcing /\ announcing' = announcing \ {m}
  BY DEF Announce, storeVars, heldVars
<1>2. PageOf(k)' = PageOf(k)
  BY <1>1 DEF PageOf
<1>3. /\ \A x \in Message : x # m => (OnItsWay(x) => OnItsWay(x)')
      /\ \A x \in Message : Deleted(x) => Deleted(x)'
  BY <1>1 DEF OnItsWay, Deleted
<1>4. /\ buffer[k] \subseteq buffer'[k] /\ (overflowed[k] => overflowed'[k])
      /\ \A x \in Message : copy[k][x] # "none" => copy'[k][x] # "none"
  <2>1. CASE Deliver(m)
    BY <2>1 DEF Deliver, TypeOK
  <2>2. CASE UNCHANGED clientVars
    BY <2>2 DEF clientVars
  <2> QED
    BY <2>1, <2>2 DEF Announce
<1>5. ASSUME pc[k] # "closed", m[1] \in page[k].read, m[1] \notin shared[k]
      PROVE  Deliver(m) /\ Hears(k, m)
  BY <1>5, ReaderHears DEF Announce, Hears
<1>6. PageIsComplete(k)' /\ MarksAreSet(k)'
  BY <1>1, <1>2 DEF GapFree, PageIsComplete, MarksAreSet, AboveCursor, Deleted
<1>7. MarkedIsShown(k)'
  BY <1>1, <1>3, <1>4 DEF GapFree, MarkedIsShown, AboveCursor
<1>8. BufferIsComplete(k)'
  <2>1. ASSUME Buffering(k), m[1] \in page[k].read, Promised(k, m)
        PROVE  m \in buffer'[k] \/ overflowed'[k]
    <3>1. Deliver(m) /\ k \in HeldBack(m)
      BY <1>5, <2>1 DEF Promised, HeldBack, Buffering
    <3> QED
      BY <3>1 DEF Deliver
  <2>2. \A x \in Message : Promised(k, x)' => Promised(k, x)
    BY <1>1 DEF Promised, Sent
  <2> QED
    BY <1>1, <1>2, <1>3, <1>4, <2>1, <2>2 DEF GapFree, BufferIsComplete, Buffering, AboveCursor
<1>9. SentIsShown(k)'
  <2>1. ASSUME pc[k] = "live", resumeOk[k], AboveCursor(k, m), Promised(k, m)
        PROVE  copy'[k][m] # "none" \/ Deleted(m)
    <3>1. m[1] \in DOMAIN marks[k] /\ m[1] \in page[k].read
      BY <2>1 DEF GapFree, MarksAreSet, AboveCursor
    <3>2. Deliver(m) /\ Hears(k, m)
      BY <1>5, <2>1, <3>1 DEF Promised
    <3>3. CASE Suppressed(k, m)
      BY <1>4, <2>1, <3>3 DEF GapFree, MarkedIsShown, Suppressed
    <3>4. CASE ~Suppressed(k, m)
      <4>1. k \in SentTo(m)
        BY <2>1, <3>2, <3>4 DEF SentTo
      <4> QED
        BY <3>2, <4>1 DEF Deliver, TypeOK
    <3> QED
      BY <3>3, <3>4
  <2>2. \A x \in Message : Promised(k, x)' => Promised(k, x)
    BY <1>1 DEF Promised, Sent
  <2> QED
    BY <1>1, <1>3, <1>4, <2>1, <2>2 DEF GapFree, SentIsShown, AboveCursor
<1> QED
  BY <1>6, <1>7, <1>8, <1>9 DEF GapFree

\* The rows of one channel's page, tombstones apart, follow each other from its cursor.
LEMMA GapReadPage ==
  ASSUME TypeOK, ScopeInv, NEW k \in Connection, GapFree(k), NEW c \in Channel, ReadPage(k, c)
  PROVE  GapFree(k)'
<1> DEFINE S == {x \in Scanned(k, c) : text[x] # "deleted"}
<1>1. /\ UNCHANGED <<last, text, pc, cursor, shared, buffer, overflowed, announcing, lost>>
      /\ pc[k] = "subscribing" /\ c \in DOMAIN cursor[k] /\ c \notin page[k].read
  BY DEF ReadPage, storeVars, flightVars, clientVars
<1>2. /\ page'[k].read = page[k].read \cup {c}
      /\ page[k].truncated \subseteq page'[k].truncated
      /\ Above(k, c) # Scanned(k, c) => c \in page'[k].truncated
  BY DEF ReadPage, TypeOK
<1>3. PageOf(k)' = PageOf(k) \cup S
  BY PageGrows
<1>4. \A x \in Scanned(k, c) : x \in Message /\ x[1] = c /\ x[2] <= last[c]
                             /\ x[2] <= cursor[k][c] + BackfillLimit
  BY DEF Scanned, Above
<1>5. last[c] \in Nat /\ cursor[k][c] + BackfillLimit \in Nat
  <2>1. cursor[k][c] \in 0..MaxSeq
    BY <1>1 DEF TypeOK, SeqMap
  <2> QED
    BY <2>1, LimitAssumption, BoundAssumption DEF TypeOK
<1>6. PageIsComplete(k)'
  <2>1. ASSUME NEW m \in Message, NEW x \in PageOf(k) \cup S, x[1] = m[1], m[2] <= x[2],
               AboveCursor(k, m)
        PROVE  m \in PageOf(k) \cup S \/ Deleted(m)
    <3>1. CASE x \in PageOf(k)
      BY <2>1, <3>1 DEF GapFree, PageIsComplete
    <3>2. CASE x \in S
      <4>1. x[2] \in Nat /\ m[2] \in Nat /\ m[1] = c
        BY <1>4, <2>1, <3>2 DEF Message, Seqs
      <4>2. m[2] <= last[c] /\ m[2] <= cursor[k][c] + BackfillLimit
        BY <1>4, <1>5, <2>1, <3>2, <4>1
      <4>3. m \in Scanned(k, c)
        BY <2>1, <4>1, <4>2 DEF Scanned, Above, AboveCursor
      <4> QED
        BY <4>3 DEF Deleted
    <3> QED
      BY <3>1, <3>2
  <2> HIDE DEF S
  <2>2. \A m \in Message : AboveCursor(k, m)' = AboveCursor(k, m) /\ Deleted(m)' = Deleted(m)
    BY <1>1 DEF AboveCursor, Deleted
  <2> QED
    BY <1>3, <2>1, <2>2 DEF PageIsComplete
<1>7. BufferIsComplete(k)'
  <2>1. ASSUME NEW m \in Message, m[1] = c, AboveCursor(k, m), Promised(k, m)'
        PROVE  m \in S \/ Deleted(m)
    <3>1. Above(k, c) = Scanned(k, c)
      BY <1>2, <2>1 DEF Promised
    <3>2. m \in Above(k, c)
      BY <1>1, <2>1 DEF Above, AboveCursor, Promised, Sent
    <3> QED
      BY <3>1, <3>2 DEF Deleted
  <2>2. ASSUME NEW m \in Message, m[1] \in page[k].read, AboveCursor(k, m), Promised(k, m)'
        PROVE  m \in PageOf(k) \/ Deleted(m) \/ OnItsWay(m) \/ m \in buffer[k] \/ overflowed[k]
    <3>1. Promised(k, m)
      BY <1>1, <1>2, <2>2 DEF Promised, Sent
    <3> QED
      BY <1>1, <2>2, <3>1 DEF GapFree, BufferIsComplete, Buffering
  <2> HIDE DEF S
  <2>3. \A m \in Message : /\ AboveCursor(k, m)' = AboveCursor(k, m) /\ Deleted(m)' = Deleted(m)
                           /\ OnItsWay(m)' = OnItsWay(m)
    BY <1>1 DEF AboveCursor, Deleted, OnItsWay
  <2> QED
    BY <1>1, <1>2, <1>3, <2>1, <2>2, <2>3 DEF BufferIsComplete
<1>8. MarksAreSet(k)' /\ MarkedIsShown(k)' /\ SentIsShown(k)'
  BY <1>1 DEF MarksAreSet, MarkedIsShown, SentIsShown
<1> QED
  BY <1>6, <1>7, <1>8 DEF GapFree

\* Page, flush and marks meet without a gap.
LEMMA GapComplete ==
  ASSUME TypeOK, ScopeInv, NEW k \in Connection, GapFree(k), Complete(k)
  PROVE  GapFree(k)'
<1>1. /\ UNCHANGED <<last, text, cursor, page, shared, announcing, lost>>
      /\ pc[k] = "filled" /\ overflowed[k] = FALSE
  BY DEF Complete, storeVars, flightVars, TypeOK
<1>2. pc'[k] = "live" /\ marks'[k] = [c \in DOMAIN cursor[k] |-> HighWaterMark(k, c)]
  BY DEF Complete, TypeOK
<1>3. page[k].read = DOMAIN cursor[k]
  BY <1>1 DEF ScopeInv, PhaseScope
<1>4. \A m \in Message : m \in Flushable(k) \cup PageOf(k) => copy'[k][m] # "none"
  <2>1. ASSUME NEW m \in Message PROVE
          copy'[k][m] = IF m \in Flushable(k) THEN "sent"
                        ELSE IF m \in PageOf(k)
                             THEN (CHOOSE r \in page[k].rows : r[1] = m)[2]
                             ELSE "none"
    BY DEF Complete, TypeOK
  <2> QED
    BY <2>1, PageText DEF Text
<1>5. \A m \in Message : /\ AboveCursor(k, m)' = AboveCursor(k, m) /\ Deleted(m)' = Deleted(m)
                         /\ OnItsWay(m)' = OnItsWay(m) /\ Promised(k, m)' = Promised(k, m)
  BY <1>1 DEF AboveCursor, Deleted, OnItsWay, Promised, Sent
<1>6. PageOf(k)' = PageOf(k)
  BY <1>1 DEF PageOf
<1>7. PageIsComplete(k)'
  BY <1>5, <1>6 DEF GapFree, PageIsComplete
<1>8. BufferIsComplete(k)'
  BY <1>2 DEF BufferIsComplete, Buffering
<1>9. MarksAreSet(k)'
  <2>1. ASSUME NEW c \in DOMAIN cursor[k] PROVE HighWaterMark(k, c) <= last[c]
    <3>1. CASE HighWaterMark(k, c) = cursor[k][c]
      BY <3>1 DEF ScopeInv, CursorScope
    <3>2. CASE <<c, HighWaterMark(k, c)>> \in PageOf(k)
      BY <3>2 DEF ScopeInv, PageScope, Sent
    <3> QED
      BY <3>1, <3>2, HighWater
  <2> QED
    BY <1>1, <1>2, <1>3, <2>1 DEF MarksAreSet
<1>10. ASSUME NEW m \in Message, AboveCursor(k, m), m[2] <= HighWaterMark(k, m[1])
       PROVE  m \in PageOf(k) \/ Deleted(m)
  <2> DEFINE h == HighWaterMark(k, m[1])
  <2>1. m[1] \in DOMAIN cursor[k] /\ cursor[k][m[1]] < m[2] /\ m[2] \in Nat
    BY <1>10 DEF AboveCursor, Message, Seqs
  <2>2. cursor[k][m[1]] \in 0..MaxSeq
    BY <2>1 DEF TypeOK, SeqMap
  <2>3. h # cursor[k][m[1]]
    BY <1>10, <2>1, <2>2
  <2>4. <<m[1], h>> \in PageOf(k)
    BY <2>1, <2>3, HighWater
  <2> HIDE DEF h
  <2>5. m[2] <= h
    BY <1>10 DEF h
  <2> QED
    BY <1>10, <2>4, <2>5 DEF GapFree, PageIsComplete
<1>11. MarkedIsShown(k)'
  <2>1. \A m \in Message : AboveCursor(k, m) => marks'[k][m[1]] = HighWaterMark(k, m[1])
    BY <1>2 DEF AboveCursor
  <2> QED
    BY <1>4, <1>5, <1>10, <2>1 DEF MarkedIsShown
<1>12. SentIsShown(k)'
  <2>1. ASSUME NEW m \in Message, AboveCursor(k, m), Promised(k, m)
        PROVE  m \in Flushable(k) \/ m \in PageOf(k) \/ Deleted(m) \/ OnItsWay(m)
    <3>1. m \in PageOf(k) \/ Deleted(m) \/ OnItsWay(m) \/ m \in buffer[k]
      BY <1>1, <1>3, <2>1 DEF GapFree, BufferIsComplete, Buffering, AboveCursor
    <3>2. HighWaterMark(k, m[1]) \in 0..MaxSeq /\ m[2] \in Nat
      <4>1. m[1] \in DOMAIN cursor[k]
        BY <2>1 DEF AboveCursor
      <4>2. HighWaterMark(k, m[1]) \in 0..MaxSeq
        BY <4>1, HighWater
      <4> QED
        BY <4>2 DEF Message, Seqs
    <3>3. m[2] > HighWaterMark(k, m[1]) \/ m[2] <= HighWaterMark(k, m[1])
      BY <3>2
    <3> QED
      BY <1>10, <2>1, <3>1, <3>3 DEF Flushable
  <2> QED
    BY <1>4, <1>5, <2>1 DEF SentIsShown
<1> QED
  BY <1>7, <1>8, <1>9, <1>11, <1>12 DEF GapFree

LEMMA GapPreserved ==
  ASSUME TypeOK, SubscribedInv, ScopeInv, GapInv, [Next]_vars
  PROVE  GapInv'
<1> DEFINE Alone(j) == /\ cursor'[j] = cursor[j] /\ page'[j] = page[j] /\ shared'[j] = shared[j]
                       /\ pc'[j] = pc[j] /\ resumeOk'[j] = resumeOk[j]
                       /\ buffer'[j] = buffer[j] /\ overflowed'[j] = overflowed[j]
                       /\ marks'[j] = marks[j]
                       /\ \A m \in Message : copy'[j][m] # "none" <=> copy[j][m] # "none"
<1> USE DEF storeVars, flightVars, heldVars, clientVars, boundVars
<1>1. ASSUME last' = last,
             \A m \in Message : /\ OnItsWay(m) => OnItsWay(m)'
                                /\ Deleted(m) => Deleted(m)'
      PROVE  \A j \in Connection : Alone(j) => GapFree(j)'
  <2> SUFFICES ASSUME NEW j \in Connection, Alone(j) PROVE GapFree(j)'
    OBVIOUS
  <2>1. GapFree(j)
    BY DEF GapInv
  <2> QED
    BY ONLY <1>1, <2>1, j \in Connection, Alone(j), GapFreeKept
<1>2. ASSUME UNCHANGED <<last, announcing, lost, text>>
      PROVE  \A j \in Connection : Alone(j) => GapFree(j)'
  <2>1. \A m \in Message : /\ OnItsWay(m) => OnItsWay(m)'
                           /\ Deleted(m) => Deleted(m)'
    BY <1>2 DEF OnItsWay, Deleted
  <2> QED
    BY <1>1, <1>2, <2>1
<1>3. ASSUME NEW c \in Channel, Commit(c) PROVE GapInv'
  BY <1>3, GapCommit DEF GapInv
<1>4. ASSUME NEW m \in Message, NEW t \in Text, Revise(m, t) PROVE GapInv'
  <2>1. \A x \in Message : /\ OnItsWay(x) => OnItsWay(x)'
                           /\ Deleted(x) => Deleted(x)'
    BY <1>4 DEF Revise, OnItsWay, Deleted, TypeOK
  <2>2. last' = last /\ \A j \in Connection : Alone(j)
    BY <1>4 DEF Revise
  <2> QED
    BY <1>1, <2>1, <2>2 DEF GapInv
<1>5. ASSUME NEW m \in Message, Announce(m) PROVE GapInv'
  BY <1>5, GapAnnounce DEF GapInv
<1>6. ASSUME NEW m \in Message, LoseAnnouncement(m) PROVE GapInv'
  <2>1. \A x \in Message : /\ OnItsWay(x) => OnItsWay(x)'
                           /\ Deleted(x) => Deleted(x)'
    BY <1>6 DEF LoseAnnouncement, OnItsWay, Deleted
  <2>2. last' = last /\ \A j \in Connection : Alone(j)
    BY <1>6 DEF LoseAnnouncement
  <2> QED
    BY <1>1, <2>1, <2>2 DEF GapInv
<1>7. ASSUME NEW m \in Message, NEW t \in Text, AnnounceRevision(m, t) PROVE GapInv'
  <2>1. \A j \in Connection, x \in Message : copy'[j][x] # "none" <=> copy[j][x] # "none"
    BY <1>7 DEF AnnounceRevision, TypeOK, Text
  <2>2. \A j \in Connection : Alone(j)
    BY <1>7, <2>1 DEF AnnounceRevision
  <2> QED
    BY <1>2, <1>7, <2>2 DEF AnnounceRevision, GapInv
<1>8. ASSUME NEW k \in Connection, NEW P \in SUBSET Channel,
             OpenFresh(k) \/ OpenMalformed(k) \/ OpenResume(k, P)
      PROVE  GapInv'
  <2>1. PICK phase, cur : Register(k, phase, cur)
    BY <1>8 DEF OpenFresh, OpenMalformed, OpenResume
  <2>2. page'[k] = NoPage
    BY <2>1 DEF Register, ScopeInv, PhaseScope
  <2>3. pc'[k] = "live" => resumeOk'[k] = FALSE \/ DOMAIN cursor'[k] = {}
    BY <1>8 DEF OpenFresh, OpenMalformed, OpenResume, Register, NoMarks, TypeOK
  <2>4. \A j \in Connection \ {k} : Alone(j)
    BY <1>8, <2>1 DEF Register, OpenFresh, OpenMalformed, OpenResume, TypeOK
  <2>5. UNCHANGED <<last, announcing, lost, text>>
    BY <2>1 DEF Register
  <2> QED
    BY <1>2, <2>2, <2>3, <2>4, <2>5, GapFreeAtStart DEF GapInv
<1>9. ASSUME NEW c \in Channel, SubscribeLands(c) PROVE GapInv'
  BY <1>2, <1>9 DEF SubscribeLands, GapInv
<1>10. ASSUME NEW k \in Connection,
              SubscribeDeadline(k) \/ BackfillFails(k) \/ CompleteOverflowed(k)
       PROVE  GapInv'
  <2>1. Buffering(k) /\ Degrade(k)
    BY <1>10 DEF SubscribeDeadline, BackfillFails, CompleteOverflowed, Buffering
  <2>2. pc'[k] = "live" /\ resumeOk'[k] = FALSE
    BY <2>1 DEF Degrade, ScopeInv, PhaseScope, Buffering, TypeOK
  <2>3. \A j \in Connection \ {k} : Alone(j)
    BY <2>1 DEF Degrade, TypeOK
  <2>4. UNCHANGED <<last, announcing, lost, text, cursor, page, shared>>
    BY <2>1 DEF Degrade
  <2>5. \A m \in Message : /\ OnItsWay(m) => OnItsWay(m)'
                           /\ Deleted(m) => Deleted(m)'
    BY <2>4 DEF OnItsWay, Deleted
  <2>6. GapFree(k)'
    BY <2>2, <2>4, <2>5, GapFreeKept DEF GapInv
  <2> QED
    BY <1>2, <2>3, <2>4, <2>6 DEF GapInv
<1>11. ASSUME NEW k \in Connection, NEW c \in Channel, ReadPage(k, c) PROVE GapInv'
  <2>1. \A j \in Connection \ {k} : Alone(j)
    BY <1>11 DEF ReadPage, TypeOK
  <2>2. UNCHANGED <<last, announcing, lost, text>>
    BY <1>11 DEF ReadPage
  <2> QED
    BY <1>2, <1>11, <2>1, <2>2, GapReadPage DEF GapInv
<1>12. ASSUME NEW k \in Connection, BackfillAnswers(k) PROVE GapInv'
  <2>1. \A j \in Connection \ {k} : Alone(j)
    BY <1>12 DEF BackfillAnswers, TypeOK
  <2>2. UNCHANGED <<last, announcing, lost, text, cursor, page, shared, buffer, overflowed,
                    marks, resumeOk, copy>>
    BY <1>12 DEF BackfillAnswers
  <2>3. Buffering(k) /\ Buffering(k)'
    BY <1>12 DEF BackfillAnswers, Buffering, TypeOK
  <2>4. \A m \in Message : /\ OnItsWay(m) => OnItsWay(m)'
                           /\ Deleted(m) => Deleted(m)'
    BY <2>2 DEF OnItsWay, Deleted
  <2>5. GapFree(k)'
    BY <2>2, <2>3, <2>4, GapFreeKept DEF GapInv
  <2> QED
    BY <1>2, <2>1, <2>2, <2>5 DEF GapInv
<1>13. ASSUME NEW k \in Connection, Complete(k) PROVE GapInv'
  <2>1. \A j \in Connection \ {k} : Alone(j)
    BY <1>13 DEF Complete, TypeOK
  <2>2. UNCHANGED <<last, announcing, lost, text>>
    BY <1>13 DEF Complete
  <2> QED
    BY <1>2, <1>13, <2>1, <2>2, GapComplete DEF GapInv
<1>14. ASSUME NEW k \in Connection, Close(k) PROVE GapInv'
  <2>1. page'[k] = NoPage /\ pc'[k] = "closed"
    BY <1>14 DEF Close, TypeOK
  <2>2. \A j \in Connection \ {k} : Alone(j)
    BY <1>14 DEF Close, TypeOK
  <2>3. UNCHANGED <<last, announcing, lost, text>>
    BY <1>14 DEF Close
  <2> QED
    BY <1>2, <2>1, <2>2, <2>3, GapFreeAtStart DEF GapInv
<1>15. CASE UNCHANGED vars
  BY <1>2, <1>15 DEF vars, GapInv
<1> QED
  BY <1>3, <1>4, <1>5, <1>6, <1>7, <1>8, <1>9, <1>10, <1>11, <1>12, <1>13, <1>14, <1>15
  DEF Next, ResumeStep

\* What is missing on a channel that was nobody else's to subscribe would have been
\* shown: below the mark by the page, above it by its announcement.
LEMMA NothingMissing ==
  ASSUME TypeOK, ScopeInv, GapInv
  PROVE  NoGap
<1> SUFFICES ASSUME NEW k \in Connection, NEW m \in Message, Missing(k, m), m[1] \notin shared[k]
             PROVE  FALSE
  BY DEF NoGap
<1>1. /\ pc[k] = "live" /\ resumeOk[k] /\ AboveCursor(k, m) /\ copy[k][m] = "none"
      /\ ~OnItsWay(m) /\ ~Deleted(m) /\ m[2] <= PromisedUpTo(k, m[1])
  BY DEF Missing, AboveCursor, OnItsWay, Deleted
<1>2. CASE m[1] \in page[k].truncated
  BY <1>1, <1>2 DEF GapInv, GapFree, MarkedIsShown, PromisedUpTo
<1>3. CASE m[1] \notin page[k].truncated
  BY <1>1, <1>3 DEF GapInv, GapFree, SentIsShown, PromisedUpTo, Promised, Sent
<1> QED
  BY <1>2, <1>3

(***************************************************************************)
(* The theorems.                                                            *)
(***************************************************************************)
\* Every reachable state is well typed; in particular the buffer of a connection that
\* resumes never holds more than MAX_BUFFERED_FRAMES frames.
THEOREM TypeCorrect == Spec => []TypeOK
<1>1. Init => TypeInv
  BY TypesInitially
<1>2. TypeInv /\ [Next]_vars => TypeInv'
  BY TypesPreserved
<1>3. TypeInv => TypeOK
  BY DEF TypeInv
<1> QED
  BY <1>1, <1>2, <1>3, PTL DEF Spec

\* A client is never shown a message twice, whatever the seam between its page and its
\* buffer and however late an announcement: the marks a resume keeps suppress both.
THEOREM NothingIsRepeated == Spec => []NoRepeat
<1>1. Init => ScopeInv /\ OnceInv
  BY ScopeInitially, OnceInitially
<1>2. TypeOK /\ ScopeInv /\ OnceInv /\ [Next]_vars => ScopeInv' /\ OnceInv'
  BY ScopePreserved, OncePreserved
<1>3. OnceInv => NoRepeat
  BY DEF OnceInv
<1> QED
  BY <1>1, <1>2, <1>3, TypeCorrect, PTL DEF Spec

\* An acknowledged resume leaves no gap: the page reaches from the cursor to the mark,
\* and what was sent beyond it was buffered, has been shown since, is still to be
\* announced or was lost by its sender.
THEOREM NothingIsMissed == Spec => []NoGap
<1>1. Init => SubscribedInv /\ ScopeInv /\ GapInv
  BY SubscribedInitially, ScopeInitially, GapInitially
<1>2. TypeOK /\ SubscribedInv /\ ScopeInv /\ GapInv /\ [Next]_vars
        => SubscribedInv' /\ ScopeInv' /\ GapInv'
  BY SubscribedPreserved, ScopePreserved, GapPreserved
<1>3. TypeOK /\ ScopeInv /\ GapInv => NoGap
  BY NothingMissing
<1> QED
  BY <1>1, <1>2, <1>3, TypeCorrect, PTL DEF Spec
===============================================================================
