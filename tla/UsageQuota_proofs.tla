--------------------------- MODULE UsageQuota_proofs ---------------------------
(***************************************************************************)
(* Proofs about UsageQuota, for every set of sends, channels, users and     *)
(* relays, every cap, batch size and number of recipients.                  *)
(***************************************************************************)
EXTENDS UsageQuota, FiniteSetTheorems, TLAPS

(***************************************************************************)
(* The inductive invariant.  A send in flight holds its channel, so the     *)
(* sends that act on a usage they have read are as many as their channels;  *)
(* each of them still has a unit of the overshoot to spend.                 *)
(***************************************************************************)
HoldsChannel == \A s \in Send : pc[s] \in InFlight => channelLock[ChannelOf[s]] = s

Checked(s) == pc[s] \in {"read", "unknown", "permitted"}
CheckedChannels == {ChannelOf[s] : s \in {t \in Send : Checked(t)}}
MessageSlack == sent + Cardinality(CheckedChannels) + 1 <= MessageCap + Cardinality(Channel)

\* A permitted person who is not among the active users yet.
Joining(s) == pc[s] = "permitted" /\ Person(UserOf[s]) /\ UserOf[s] \notin active
JoiningChannels == {ChannelOf[s] : s \in {t \in Send : Joining(t)}}
UserSlack ==
  Cardinality(Persons) + Cardinality(JoiningChannels) + 1 <= UserCap + Cardinality(Channel)
RefusedWhenFull ==
  \A s \in Send : pc[s] = "over_users" => Cardinality(Persons) >= UserCap

SendInv == HoldsChannel /\ MessageSlack /\ UsageIsExact
UserInv == UserSlack /\ RefusedWhenFull /\ UserMarksAreNoticed
CountInv == TypeOK /\ SendInv /\ UserInv

(***************************************************************************)
(* Finite sets.                                                             *)
(***************************************************************************)
LEMMA SetSizes ==
  /\ Cardinality(Channel) \in Nat /\ Cardinality(Send) \in Nat
  /\ \A S : S \subseteq Channel \/ S \subseteq User \/ S \subseteq Send =>
       IsFiniteSet(S) /\ Cardinality(S) \in Nat
  /\ \A S : S \subseteq Channel => Cardinality(S) <= Cardinality(Channel)
BY SendsAssumption, FS_CardinalityType, FS_Subset

LEMMA SubsetSize ==
  ASSUME NEW S, NEW T, IsFiniteSet(T), S \subseteq T
  PROVE  IsFiniteSet(S) /\ Cardinality(S) <= Cardinality(T)
BY FS_Subset

LEMMA OneLess ==
  ASSUME NEW S, NEW T, NEW x, IsFiniteSet(T), S \subseteq T \ {x}, x \in T
  PROVE  IsFiniteSet(S) /\ Cardinality(S) + 1 <= Cardinality(T)
<1>1. IsFiniteSet(T \ {x}) /\ Cardinality(T \ {x}) = Cardinality(T) - 1
  BY FS_RemoveElement
<1>2. IsFiniteSet(S) /\ Cardinality(S) <= Cardinality(T \ {x})
  BY <1>1, FS_Subset
<1> QED
  BY <1>1, <1>2, FS_CardinalityType

LEMMA Places ==
  /\ CheckedChannels \subseteq Channel /\ JoiningChannels \subseteq Channel
  /\ TypeOK => Persons \subseteq User /\ active \subseteq User
BY SendsAssumption DEF CheckedChannels, JoiningChannels, Persons, TypeOK

LEMMA PlacesAfter ==
  /\ CheckedChannels' \subseteq Channel /\ JoiningChannels' \subseteq Channel
  /\ TypeOK' => Persons' \subseteq User /\ active' \subseteq User
BY SendsAssumption DEF CheckedChannels, JoiningChannels, Persons, TypeOK

(***************************************************************************)
(* Type correctness.                                                        *)
(***************************************************************************)
LEMMA TypeStep == TypeOK /\ [Next]_vars => TypeOK'
<1> SUFFICES ASSUME TypeOK, [Next]_vars PROVE TypeOK'
  OBVIOUS
<1> USE SendsAssumption, RelayAssumption, BoundAssumption
    DEF TypeOK, InFlight, Over, usageVars, sendVars, relayVars, Goto, Unlock, Leave, EndRow
<1>1. ASSUME NEW s \in Send, SendStep(s) \/ RollBack(s) PROVE TypeOK'
  <2>1. CASE LockChannel(s)
    BY <2>1 DEF LockChannel
  <2>2. CASE CheckMessages(s)
    <3>1. CASE OverMessages(sent)
      BY <2>2, <3>1 DEF CheckMessages
    <3>2. CASE ~OverMessages(sent)
      <4> DEFINE label == IF Person(UserOf[s]) THEN "read" ELSE "permitted"
      <4>0. label \in InFlight
        OBVIOUS
      <4>1. readSent' \in [Send -> Nat] /\ Goto(s, label)
        BY <2>2, <3>2 DEF CheckMessages
      <4>2. UNCHANGED <<usageVars, notices, channelLock, rollbacks, relayVars>>
        BY <2>2, <3>2 DEF CheckMessages
      <4> HIDE DEF label
      <4> QED
        BY <4>0, <4>1, <4>2
    <3> QED
      BY <3>1, <3>2
  <2>3. CASE CheckActive(s)
    BY <2>3 DEF CheckActive
  <2>4. CASE CheckCeiling(s)
    BY <2>4 DEF CheckCeiling
  <2>5. CASE AnswerDuplicate(s)
    BY <2>5 DEF AnswerDuplicate
  <2>6. CASE CommitSend(s)
    BY <2>6 DEF CommitSend, MessageCrossings, UserCrossings, Crossed, Notice, Incremented
  <2>7. CASE RollBack(s)
    BY <2>7 DEF RollBack
  <2> QED
    BY <1>1, <2>1, <2>2, <2>3, <2>4, <2>5, <2>6, <2>7 DEF SendStep
<1>2. ASSUME NEW r \in Relay, RelayStep(r) \/ MailThrows(r) \/ RelayCrashes(r) PROVE TypeOK'
  <2>1. CASE Claim(r)
    BY <2>1 DEF Claim, Due
  <2>2. CASE BeginRow(r)
    BY <2>2 DEF BeginRow
  <2>3. CASE MailOne(r)
    BY <2>3 DEF MailOne
  <2>4. CASE MarkRow(r)
    BY <2>4 DEF MarkRow
  <2>5. CASE CommitPass(r)
    BY <2>5 DEF CommitPass
  <2>6. CASE MailThrows(r)
    BY <2>6 DEF MailThrows, MarkedAfterThrow
  <2>7. CASE RelayCrashes(r)
    BY <2>7 DEF RelayCrashes
  <2> QED
    BY <1>2, <2>1, <2>2, <2>3, <2>4, <2>5, <2>6, <2>7 DEF RelayStep
<1>3. CASE UNCHANGED vars
  BY <1>3 DEF vars
<1> QED
  BY <1>1, <1>2, <1>3 DEF Next

(***************************************************************************)
(* The counts.  A step of send s changes pc[s] alone.                       *)
(***************************************************************************)
LEMMA OnlyItself ==
  ASSUME TypeOK, NEW s \in Send, NEW label, Goto(s, label)
  PROVE  pc'[s] = label /\ \A t \in Send : t # s => pc'[t] = pc[t]
BY DEF TypeOK, Goto

\* Sends of one channel exclude each other.
LEMMA HoldersStay ==
  ASSUME CountInv, TypeOK', NEW s \in Send, NEW label, Goto(s, label),
         \/ UNCHANGED channelLock /\ (label \in InFlight => pc[s] \in InFlight)
         \/ Unlock(s) /\ pc[s] \in InFlight /\ label \notin InFlight
  PROVE  HoldsChannel'
<1> USE DEF CountInv, SendInv, HoldsChannel
<1>1. CASE UNCHANGED channelLock
  BY <1>1, OnlyItself
<1>2. CASE Unlock(s) /\ pc[s] \in InFlight /\ label \notin InFlight
  <2> SUFFICES ASSUME NEW t \in Send, pc'[t] \in InFlight PROVE channelLock'[ChannelOf[t]] = t
    OBVIOUS
  <2>1. t # s /\ channelLock[ChannelOf[t]] = t /\ channelLock[ChannelOf[s]] = s
    BY <1>2, OnlyItself
  <2> QED
    BY <1>2, <2>1, SendsAssumption DEF Unlock, TypeOK
<1> QED
  BY <1>1, <1>2

\* A step that counts nothing and takes up no slack.
LEMMA Uncounted ==
  ASSUME CountInv, TypeOK', NEW s \in Send, NEW label, Goto(s, label),
         UNCHANGED <<usageVars, notices>>, HoldsChannel', pc[s] # "sent", label # "sent",
         label \in {"read", "unknown", "permitted"} => Checked(s) \/ MessageSlack',
         Joining(s)' => Joining(s) \/ UserSlack',
         label = "over_users" => Cardinality(Persons) >= UserCap
  PROVE  CountInv'
<1> USE DEF CountInv, SendInv, UserInv, usageVars
<1>1. pc'[s] = label /\ \A t \in Send : t # s => pc'[t] = pc[t]
  BY OnlyItself
<1>2. Persons' = Persons
  BY DEF Persons
<1>3. MessageSlack'
  <2>1. CASE Checked(s)' => Checked(s)
    <3>1. CheckedChannels' \subseteq CheckedChannels
      BY <1>1, <2>1 DEF CheckedChannels, Checked
    <3>2. Cardinality(CheckedChannels') <= Cardinality(CheckedChannels)
      BY <3>1, Places, SetSizes, SubsetSize
    <3>3. Cardinality(CheckedChannels) \in Nat /\ Cardinality(CheckedChannels)' \in Nat
      BY Places, PlacesAfter, SetSizes
    <3>4. /\ Cardinality(Channel) \in Nat /\ MessageCap \in Nat
          /\ sent \in Nat /\ sent' = sent
      BY SetSizes, CapsAssumption DEF TypeOK
    <3>5. MessageSlack
      OBVIOUS
    <3> HIDE DEF CountInv
    <3> QED
      BY <3>2, <3>3, <3>4, <3>5 DEF MessageSlack
  <2>2. CASE Checked(s)' /\ ~Checked(s)
    BY <1>1, <2>2 DEF Checked
  <2> QED
    BY <2>1, <2>2
<1>4. UserSlack'
  <2>1. CASE Joining(s)' => Joining(s)
    <3>1. JoiningChannels' \subseteq JoiningChannels
      BY <1>1, <2>1 DEF JoiningChannels, Joining
    <3>2. Cardinality(JoiningChannels') <= Cardinality(JoiningChannels)
      BY <3>1, Places, SetSizes, SubsetSize
    <3> QED
      BY <1>2, <3>2, Places, PlacesAfter, SetSizes, CapsAssumption DEF UserSlack
  <2>2. CASE Joining(s)' /\ ~Joining(s)
    BY <2>2
  <2> QED
    BY <2>1, <2>2
<1>5. UsageIsExact'
  <2>1. {t \in Send : pc'[t] = "sent"} = {t \in Send : pc[t] = "sent"}
    BY <1>1
  <2> QED
    BY <2>1 DEF UsageIsExact
<1>6. RefusedWhenFull'
  BY <1>1, <1>2 DEF RefusedWhenFull
<1>7. UserMarksAreNoticed'
  BY DEF UserMarksAreNoticed
<1> QED
  BY <1>3, <1>4, <1>5, <1>6, <1>7

\* The messages' slack: the check finds the usage below the cap, and at worst every
\* other channel has such a send as well.
LEMMA SlackAfterCheck ==
  ASSUME TypeOK, sent < MessageCap, sent' = sent
  PROVE  MessageSlack'
<1>1. /\ Cardinality(CheckedChannels)' \in Nat
      /\ Cardinality(CheckedChannels)' <= Cardinality(Channel)
  BY PlacesAfter, SetSizes
<1> QED
  BY <1>1, SetSizes, CapsAssumption DEF MessageSlack, TypeOK

LEMMA SlackAfterCount ==
  ASSUME TypeOK, Seated < UserCap, active' = active
  PROVE  UserSlack'
<1>1. /\ Cardinality(JoiningChannels)' \in Nat
      /\ Cardinality(JoiningChannels)' <= Cardinality(Channel)
  BY PlacesAfter, SetSizes
<1>2. Persons' = Persons /\ Cardinality(Persons) \in Nat
  BY Places, SetSizes DEF Persons
<1> QED
  BY <1>1, <1>2, SetSizes, CapsAssumption DEF UserSlack, Seated

LEMMA LockChannelCounts ==
  ASSUME CountInv, TypeOK', NEW s \in Send, LockChannel(s) PROVE CountInv'
<1>1. Goto(s, "locked") /\ UNCHANGED <<usageVars, notices>> /\ pc[s] = "new"
  BY DEF LockChannel
<1>2. HoldsChannel'
  <2> SUFFICES ASSUME NEW t \in Send, pc'[t] \in InFlight PROVE channelLock'[ChannelOf[t]] = t
    BY DEF HoldsChannel
  <2>1. CASE t = s
    BY <2>1, SendsAssumption DEF LockChannel, CountInv, TypeOK
  <2>2. CASE t # s
    <3>1. channelLock[ChannelOf[t]] = t
      BY <1>1, <2>2, OnlyItself DEF CountInv, SendInv, HoldsChannel
    <3>2. ChannelOf[t] # ChannelOf[s]
      BY <3>1, SendsAssumption DEF LockChannel
    <3> QED
      BY <3>1, <3>2 DEF LockChannel, CountInv, TypeOK
  <2> QED
    BY <2>1, <2>2
<1>3. ~Joining(s)'
  BY <1>1, OnlyItself DEF Joining, CountInv
<1> QED
  BY <1>1, <1>2, <1>3, Uncounted

\* A refusal, a duplicate or a rollback gives its slack back.
LEMMA LeaveCounts ==
  ASSUME CountInv, TypeOK', NEW s \in Send, pc[s] \in InFlight,
         NEW label \in {"over_messages", "over_users", "duplicate", "failed"}, Leave(s, label),
         label = "over_users" => Cardinality(Persons) >= UserCap
  PROVE  CountInv'
<1>1. Goto(s, label) /\ UNCHANGED <<usageVars, notices>> /\ Unlock(s)
  BY DEF Leave
<1>2. HoldsChannel'
  BY <1>1, HoldersStay DEF InFlight
<1>3. ~Joining(s)'
  BY <1>1, OnlyItself DEF Joining, CountInv
<1> QED
  BY <1>1, <1>2, <1>3, Uncounted DEF InFlight

LEMMA CheckMessagesCounts ==
  ASSUME CountInv, TypeOK', NEW s \in Send, CheckMessages(s) PROVE CountInv'
<1>1. CASE OverMessages(sent)
  BY <1>1, LeaveCounts DEF CheckMessages, InFlight
<1>2. CASE ~OverMessages(sent)
  <2> DEFINE label == IF Person(UserOf[s]) THEN "read" ELSE "permitted"
  <2>1. /\ Goto(s, label) /\ UNCHANGED <<usageVars, notices, channelLock>>
        /\ pc[s] = "locked" /\ label \in {"read", "permitted"}
    BY <1>2 DEF CheckMessages
  <2>2. MessageSlack'
    BY <1>2, <2>1, SlackAfterCheck, CapsAssumption DEF OverMessages, CountInv, TypeOK, usageVars
  <2>3. ~Joining(s)'
    BY <2>1, OnlyItself DEF Joining, CountInv
  <2> HIDE DEF label
  <2>4. HoldsChannel'
    BY <2>1, HoldersStay DEF InFlight
  <2> QED
    BY <2>1, <2>2, <2>3, <2>4, Uncounted
<1> QED
  BY <1>1, <1>2

LEMMA CheckActiveCounts ==
  ASSUME CountInv, TypeOK', NEW s \in Send, CheckActive(s) PROVE CountInv'
<1> DEFINE label == IF UserOf[s] \in active THEN "permitted" ELSE "unknown"
<1>1. /\ Goto(s, label) /\ UNCHANGED <<usageVars, notices, channelLock>>
      /\ pc[s] = "read" /\ label \in {"unknown", "permitted"}
  BY DEF CheckActive
<1>2. ~Joining(s)'
  BY <1>1, OnlyItself DEF Joining, CountInv, usageVars
<1> HIDE DEF label
<1>3. HoldsChannel'
  BY <1>1, HoldersStay DEF InFlight
<1> QED
  BY <1>1, <1>2, <1>3, Uncounted DEF Checked

LEMMA CheckCeilingCounts ==
  ASSUME CountInv, TypeOK', NEW s \in Send, CheckCeiling(s) PROVE CountInv'
<1>1. CASE OverUsers(Seated)
  BY <1>1, LeaveCounts DEF CheckCeiling, InFlight, OverUsers, Seated
<1>2. CASE ~OverUsers(Seated)
  <2>1. Goto(s, "permitted") /\ UNCHANGED <<usageVars, notices, channelLock>> /\ pc[s] = "unknown"
    BY <1>2 DEF CheckCeiling
  <2>2. Seated \in Nat
    BY Places, SetSizes DEF Seated, CountInv
  <2>3. UserSlack'
    BY <1>2, <2>1, <2>2, SlackAfterCount, CapsAssumption DEF OverUsers, CountInv, usageVars
  <2>4. HoldsChannel'
    BY <2>1, HoldersStay DEF InFlight
  <2> QED
    BY <2>1, <2>3, <2>4, Uncounted DEF Checked
<1> QED
  BY <1>1, <1>2

\* The one step that counts: its channel leaves the set its slack was kept for.
LEMMA CommitSendCounts ==
  ASSUME CountInv, TypeOK', NEW s \in Send, CommitSend(s) PROVE CountInv'
<1> USE DEF CountInv, SendInv, UserInv
<1> DEFINE u == UserOf[s]
<1>1. /\ Goto(s, "sent") /\ Unlock(s) /\ pc[s] = "permitted"
      /\ sent' = sent + 1 /\ active' = active \cup {u}
      /\ notices' = notices \cup MessageCrossings(s) \cup UserCrossings(active \cup {u})
  BY DEF CommitSend, Incremented
<1>2. pc'[s] = "sent" /\ \A t \in Send : t # s => pc'[t] = pc[t]
  BY <1>1, OnlyItself
<1>3. ChannelOf[s] \in Channel /\ u \in User
  BY SendsAssumption
<1>4. HoldsChannel'
  BY <1>1, HoldersStay DEF InFlight
<1>5. \A t \in Send : t # s /\ pc[t] \in InFlight => ChannelOf[t] # ChannelOf[s]
  BY <1>1 DEF HoldsChannel, InFlight
<1>6. MessageSlack'
  <2>1. /\ ChannelOf[s] \in CheckedChannels
        /\ CheckedChannels' \subseteq CheckedChannels \ {ChannelOf[s]}
    BY <1>1, <1>2, <1>5 DEF CheckedChannels, Checked, InFlight
  <2>2. Cardinality(CheckedChannels') + 1 <= Cardinality(CheckedChannels)
    BY <2>1, Places, SetSizes, OneLess
  <2>3. Cardinality(CheckedChannels) \in Nat /\ Cardinality(CheckedChannels)' \in Nat
    BY Places, PlacesAfter, SetSizes
  <2>4. Cardinality(Channel) \in Nat /\ MessageCap \in Nat /\ sent \in Nat
    BY SetSizes, CapsAssumption DEF TypeOK
  <2>5. MessageSlack
    OBVIOUS
  <2> HIDE DEF CountInv
  <2> QED
    BY <1>1, <2>2, <2>3, <2>4, <2>5 DEF MessageSlack
<1>7. Cardinality(Persons) \in Nat /\ Cardinality(JoiningChannels) \in Nat
      /\ Cardinality(JoiningChannels)' \in Nat /\ IsFiniteSet(Persons) /\ IsFiniteSet(active)
      /\ Cardinality(active) \in Nat
  BY Places, PlacesAfter, SetSizes
<1>8. UserSlack'
  <2>1. CASE Joining(s)
    <3>1. Persons' = Persons \cup {u} /\ u \notin Persons
      BY <1>1, <2>1 DEF Persons, Joining
    <3>2. Cardinality(Persons') = Cardinality(Persons) + 1
      BY <1>7, <3>1, FS_AddElement
    <3>3. /\ ChannelOf[s] \in JoiningChannels
          /\ JoiningChannels' \subseteq JoiningChannels \ {ChannelOf[s]}
      BY <1>1, <1>2, <1>5, <2>1 DEF JoiningChannels, Joining, InFlight
    <3>4. Cardinality(JoiningChannels') + 1 <= Cardinality(JoiningChannels)
      BY <3>3, Places, SetSizes, OneLess
    <3> QED
      BY <1>7, <3>2, <3>4, SetSizes, CapsAssumption DEF UserSlack
  <2>2. CASE ~Joining(s)
    <3>1. Persons' = Persons
      BY <1>1, <2>2 DEF Persons, Joining
    <3>2. JoiningChannels' \subseteq JoiningChannels
      BY <1>1, <1>2 DEF JoiningChannels, Joining
    <3>3. Cardinality(JoiningChannels') <= Cardinality(JoiningChannels)
      BY <3>2, Places, SetSizes, SubsetSize
    <3> QED
      BY <1>7, <3>1, <3>3, SetSizes, CapsAssumption DEF UserSlack
  <2> QED
    BY <2>1, <2>2
<1>9. UsageIsExact'
  <2>1. {t \in Send : pc'[t] = "sent"} = {t \in Send : pc[t] = "sent"} \cup {s}
    BY <1>2
  <2>2. Cardinality({t \in Send : pc[t] = "sent"} \cup {s})
          = Cardinality({t \in Send : pc[t] = "sent"}) + 1
    BY <1>1, SetSizes, FS_AddElement
  <2> QED
    BY <1>1, <2>1, <2>2 DEF UsageIsExact
<1>10. RefusedWhenFull'
  <2>1. Persons \subseteq Persons' /\ IsFiniteSet(Persons')
    BY <1>1, PlacesAfter, SetSizes DEF Persons
  <2>2. Cardinality(Persons) <= Cardinality(Persons') /\ Cardinality(Persons') \in Nat
    BY <2>1, SubsetSize, FS_CardinalityType
  <2> QED
    BY <1>2, <1>7, <2>2, CapsAssumption DEF RefusedWhenFull
<1>11. UserMarksAreNoticed'
  <2> SUFFICES ASSUME NEW t \in Threshold, 100 * Cardinality(active \cup {u}) >= t * UserCap
               PROVE  <<"active_users", t>> \in notices'
    BY <1>1 DEF UserMarksAreNoticed
  <2> DEFINE n == Cardinality(active)
             m == Cardinality(active \cup {u})
             target == t * UserCap
  <2>1. n \in Nat /\ target \in Nat /\ m \in {n, n + 1}
    <3>1. n \in Nat /\ m \in {n, n + 1}
      BY <1>7, FS_AddElement
    <3>2. t \in Nat /\ UserCap \in Nat
      BY CapsAssumption
    <3>3. target \in Nat
      BY <3>2
    <3> QED
      BY <3>1, <3>3
  <2>2. CASE 100 * n >= target
    BY <1>1, <2>2 DEF UserMarksAreNoticed
  <2>3. CASE 100 * n < target
    <3> HIDE DEF n, target
    <3>1. m >= 0 /\ 100 * m >= target
      BY <2>1 DEF target
    <3>2. 100 * (m - 1) < target /\ 100 * m >= target
      BY <2>1, <2>3, <3>1
    <3>3. t \in Crossed(m - 1, m, UserCap)
      BY <3>2, Zenon DEF Crossed, target
    <3>4. <<"active_users", t>> \in UserCrossings(active \cup {u})
      BY <3>3 DEF UserCrossings
    <3> QED
      BY <1>1, <3>4
  <2> QED
    BY <2>1, <2>2, <2>3
<1> QED
  BY <1>4, <1>6, <1>8, <1>9, <1>10, <1>11

\* The relay counts nothing and its rows stay.
LEMMA RelayCounts ==
  ASSUME CountInv, TypeOK', UNCHANGED <<usageVars, notices, sendVars>> PROVE CountInv'
BY DEF CountInv, SendInv, UserInv, HoldsChannel, MessageSlack, UsageIsExact, UserSlack,
       RefusedWhenFull, UserMarksAreNoticed, CheckedChannels, Checked, JoiningChannels, Joining,
       Persons, usageVars, sendVars

LEMMA CountInit == Init => CountInv
<1> SUFFICES ASSUME Init PROVE CountInv
  OBVIOUS
<1>1. TypeOK
  BY SendsAssumption, BoundAssumption, RelayAssumption DEF Init, TypeOK
<1>2. CheckedChannels = {} /\ JoiningChannels = {} /\ Persons = {}
      /\ {s \in Send : pc[s] = "sent"} = {} /\ active = {}
  BY DEF Init, CheckedChannels, Checked, JoiningChannels, Joining, Persons
<1>3. MessageSlack /\ UserSlack /\ UsageIsExact
  BY <1>2, FS_EmptySet, SetSizes, CapsAssumption DEF Init, MessageSlack, UserSlack, UsageIsExact
<1>4. HoldsChannel /\ RefusedWhenFull
  BY DEF Init, HoldsChannel, InFlight, RefusedWhenFull
<1>5. UserMarksAreNoticed
  <2> SUFFICES ASSUME NEW t \in Threshold PROVE ~(100 * Cardinality(active) >= t * UserCap)
    BY DEF UserMarksAreNoticed
  <2>1. t \in Nat /\ t > 0 /\ UserCap \in Nat /\ UserCap > 0
    BY CapsAssumption
  <2>2. t * UserCap > 0
    BY <2>1
  <2>3. Cardinality(active) = 0
    BY <1>2, FS_EmptySet
  <2> DEFINE target == t * UserCap
  <2>4. target \in Nat /\ target > 0
    BY <2>1, <2>2
  <2> HIDE DEF target
  <2>5. ~(100 * Cardinality(active) >= target)
    BY <2>3, <2>4
  <2> QED
    BY <2>5 DEF target
<1> QED
  BY <1>1, <1>3, <1>4, <1>5 DEF CountInv, SendInv, UserInv

LEMMA CountStep == CountInv /\ [Next]_vars => CountInv'
<1> SUFFICES ASSUME CountInv, [Next]_vars PROVE CountInv'
  OBVIOUS
<1>1. TypeOK'
  BY TypeStep DEF CountInv
<1>2. ASSUME NEW s \in Send, SendStep(s) \/ RollBack(s) PROVE CountInv'
  <2>1. ASSUME AnswerDuplicate(s) PROVE CountInv'
    BY <1>1, <2>1, LeaveCounts DEF AnswerDuplicate, InFlight
  <2>2. ASSUME RollBack(s) PROVE CountInv'
    BY <1>1, <2>2, LeaveCounts DEF RollBack
  <2> QED
    BY <1>1, <1>2, <2>1, <2>2, LockChannelCounts, CheckMessagesCounts, CheckActiveCounts,
       CheckCeilingCounts, CommitSendCounts DEF SendStep
<1>3. ASSUME NEW r \in Relay, RelayStep(r) \/ MailThrows(r) \/ RelayCrashes(r) PROVE CountInv'
  <2>1. UNCHANGED <<usageVars, notices, sendVars>>
    BY <1>3 DEF RelayStep, Claim, BeginRow, MailOne, MarkRow, CommitPass, MailThrows, RelayCrashes
  <2> QED
    BY <1>1, <2>1, RelayCounts
<1>4. CASE UNCHANGED vars
  BY <1>1, <1>4, RelayCounts DEF vars
<1> QED
  BY <1>2, <1>3, <1>4 DEF Next

(***************************************************************************)
(* The mail.  A row is in one relay's hands at most, so a recipient has one *)
(* mail of it that is on record, delivered or on its way to be, and beyond  *)
(* that one only what a throw or a crash has taken off the record.          *)
(***************************************************************************)
InHand(r, n) == n \in claimed[r] \/ n \in marked[r] \/ mailing[r] = n
OneHand ==
  /\ \A n \in Notice : \A r, q \in Relay : InHand(r, n) /\ InHand(q, n) => r = q
  /\ \A n \in Notice : \A r \in Relay : InHand(r, n) => n \notin delivered
  /\ \A n \in Notice : \A r \in Relay : n \in claimed[r] => n \notin marked[r] /\ mailing[r] # n
  /\ \A n \in Notice : \A r \in Relay : n \in marked[r] => mailing[r] # n
NothingReached == \A r \in Relay : mailing[r] = Nobody => reached[r] = 0

OnRecord(n, a) ==
  \/ n \in delivered
  \/ \E r \in Relay : n \in marked[r] \/ (mailing[r] = n /\ a <= reached[r])
MailsCounted ==
  \A n \in Notice : \A a \in 1..Recipients :
    mails[n][a] <= trouble + 1 /\ (OnRecord(n, a) \/ mails[n][a] <= trouble)

MailInv == TypeOK /\ OneHand /\ NothingReached /\ MailsCounted

\* A step that mails nobody and keeps what is on record, or pays for what it does not.
LEMMA Unmailed ==
  ASSUME MailInv, TypeOK', UNCHANGED mails,
         \/ trouble' = trouble /\ \A n \in Notice : \A a \in 1..Recipients :
                                   OnRecord(n, a) => OnRecord(n, a)'
         \/ trouble' = trouble + 1
  PROVE  MailsCounted'
<1> SUFFICES ASSUME NEW n \in Notice, NEW a \in 1..Recipients
             PROVE  mails'[n][a] <= trouble' + 1 /\ (OnRecord(n, a)' \/ mails'[n][a] <= trouble')
  BY DEF MailsCounted
<1>1. mails[n][a] \in Nat /\ trouble \in Nat /\ mails' = mails
  <2>1. mails \in [Notice -> [1..Recipients -> Nat]] /\ trouble \in 0..MaxTrouble
    BY DEF MailInv, TypeOK
  <2> QED
    BY <2>1, BoundAssumption, RelayAssumption
<1>2. mails[n][a] <= trouble + 1 /\ (OnRecord(n, a) \/ mails[n][a] <= trouble)
  BY DEF MailInv, MailsCounted
<1>3. CASE trouble' = trouble + 1
  BY <1>1, <1>2, <1>3
<1>4. CASE trouble' = trouble /\ (OnRecord(n, a) => OnRecord(n, a)')
  <2> HIDE DEF OnRecord
  <2> QED
    BY <1>1, <1>2, <1>4
<1> QED
  BY <1>3, <1>4

LEMMA MailStep == MailInv /\ [Next]_vars => MailInv'
<1> SUFFICES ASSUME MailInv, [Next]_vars PROVE MailInv'
  OBVIOUS
<1>1. TypeOK'
  BY TypeStep DEF MailInv
<1> USE RelayAssumption DEF TypeOK, OneHand, InHand, NothingReached, OnRecord
<1>2. CASE UNCHANGED relayVars
  BY <1>1, <1>2 DEF MailInv, MailsCounted, relayVars
<1>3. ASSUME NEW s \in Send, SendStep(s) \/ RollBack(s) PROVE UNCHANGED relayVars
  BY <1>3 DEF SendStep, RollBack, LockChannel, CheckMessages, CheckActive, CheckCeiling,
              AnswerDuplicate, CommitSend, Leave
<1>4. ASSUME NEW r \in Relay, Claim(r) PROVE MailInv'
  <2>1. PICK rows \in SUBSET Due : claimed' = [claimed EXCEPT ![r] = rows]
    BY <1>4 DEF Claim
  <2>2. OneHand' /\ NothingReached'
    BY <1>4, <2>1 DEF MailInv, Claim, Due, Held, AtRest, Working
  <2>3. MailsCounted'
    BY <1>1, <1>4, Unmailed DEF Claim
  <2> QED
    BY <1>1, <2>2, <2>3 DEF MailInv
<1>5. ASSUME NEW r \in Relay, BeginRow(r) PROVE MailInv'
  <2>1. OneHand' /\ NothingReached'
    BY <1>5 DEF MailInv, BeginRow
  <2>2. MailsCounted'
    BY <1>1, <1>5, Unmailed DEF MailInv, BeginRow
  <2> QED
    BY <1>1, <2>1, <2>2 DEF MailInv
<1>6. ASSUME NEW r \in Relay, MailOne(r) PROVE MailInv'
  <2> DEFINE row == mailing[r]
             next == reached[r] + 1
  <2>1. row \in Notice /\ next \in 1..Recipients /\ reached' = [reached EXCEPT ![r] = next]
    BY <1>6 DEF MailInv, MailOne
  <2>2. OneHand' /\ NothingReached'
    BY <1>6 DEF MailInv, MailOne
  <2>3. ~OnRecord(row, next)
    BY <1>6, <2>1 DEF MailInv, MailOne
  <2>4. mailing'[r] = row /\ next <= reached'[r]
    BY <1>6, <2>1 DEF MailInv, MailOne
  <2>5. \A n \in Notice : \A a \in 1..Recipients : OnRecord(n, a) => OnRecord(n, a)'
    BY <1>6, <2>1 DEF MailInv, MailOne
  <2>6. \A n \in Notice : \A a \in 1..Recipients :
          mails'[n][a] = IF n = row /\ a = next THEN mails[n][a] + 1 ELSE mails[n][a]
    BY <1>6, <2>1 DEF MailInv, MailOne
  <2>7. trouble' = trouble
    BY <1>6 DEF MailOne
  <2>8. MailsCounted'
    <3> SUFFICES ASSUME NEW n \in Notice, NEW a \in 1..Recipients
                 PROVE  mails'[n][a] <= trouble + 1 /\ (OnRecord(n, a)' \/ mails'[n][a] <= trouble)
      BY <2>7 DEF MailsCounted
    <3>1. mails[n][a] \in Nat /\ trouble \in Nat
      BY BoundAssumption DEF MailInv
    <3>2. mails[n][a] <= trouble + 1 /\ (OnRecord(n, a) \/ mails[n][a] <= trouble)
      BY DEF MailInv, MailsCounted
    <3>3. CASE n = row /\ a = next
      <4>1. mails[n][a] <= trouble /\ mails'[n][a] = mails[n][a] + 1
        BY <2>3, <2>6, <3>2, <3>3
      <4>2. OnRecord(n, a)'
        BY <2>4, <3>3
      <4> QED
        BY <3>1, <4>1, <4>2
    <3>4. CASE ~(n = row /\ a = next)
      <4>1. mails'[n][a] = mails[n][a] /\ (OnRecord(n, a) => OnRecord(n, a)')
        BY <2>5, <2>6, <3>4
      <4> HIDE DEF OnRecord
      <4> QED
        BY <3>1, <3>2, <4>1
    <3> QED
      BY <3>3, <3>4
  <2> QED
    BY <1>1, <2>2, <2>8 DEF MailInv
<1>7. ASSUME NEW r \in Relay, MarkRow(r) PROVE MailInv'
  <2>1. OneHand' /\ NothingReached'
    BY <1>7 DEF MailInv, MarkRow, EndRow
  <2>2. MailsCounted'
    BY <1>1, <1>7, Unmailed DEF MailInv, MarkRow, EndRow
  <2> QED
    BY <1>1, <2>1, <2>2 DEF MailInv
<1>8. ASSUME NEW r \in Relay, CommitPass(r) PROVE MailInv'
  <2>1. OneHand' /\ NothingReached'
    BY <1>8 DEF MailInv, CommitPass, Working
  <2>2. MailsCounted'
    BY <1>1, <1>8, Unmailed DEF MailInv, CommitPass
  <2> QED
    BY <1>1, <2>1, <2>2 DEF MailInv
<1>9. ASSUME NEW r \in Relay, MailThrows(r) \/ RelayCrashes(r) PROVE MailInv'
  <2>1. OneHand' /\ NothingReached'
    <3>1. CASE MailThrows(r)
      BY <3>1 DEF MailInv, MailThrows, MarkedAfterThrow, EndRow
    <3>2. CASE RelayCrashes(r)
      BY <3>2 DEF MailInv, RelayCrashes, EndRow
    <3> QED
      BY <1>9, <3>1, <3>2
  <2>2. MailsCounted'
    BY <1>1, <1>9, Unmailed DEF MailThrows, RelayCrashes
  <2> QED
    BY <1>1, <2>1, <2>2 DEF MailInv
<1> QED
  BY <1>2, <1>3, <1>4, <1>5, <1>6, <1>7, <1>8, <1>9 DEF Next, RelayStep, vars

LEMMA MailInit == Init => MailInv
BY CountInit, RelayAssumption
   DEF CountInv, MailInv, Init, OneHand, InHand, NothingReached, MailsCounted, OnRecord

(***************************************************************************)
(* The theorems.                                                            *)
(***************************************************************************)
THEOREM Counted == Spec => []CountInv
BY CountInit, CountStep, PTL DEF Spec

\* Every variable keeps its type.
THEOREM TypeCorrect == Spec => []TypeOK
<1>1. CountInv => TypeOK
  BY DEF CountInv
<1> QED
  BY <1>1, Counted, PTL

\* messages_sent is incremented in the transaction of the message, by a statement
\* that adds to what it finds: the bill is the number of messages written.
THEOREM UsageExact == Spec => []UsageIsExact
<1>1. CountInv => UsageIsExact
  BY DEF CountInv, SendInv
<1> QED
  BY <1>1, Counted, PTL

\* The cap is checked by a read without a lock, but under the channel's: it is
\* overshot by fewer messages than the environment has channels.
THEOREM OvershootBounded == Spec => []OvershootIsBounded
<1>1. CountInv => OvershootIsBounded
  <2> SUFFICES ASSUME CountInv PROVE OvershootIsBounded
    OBVIOUS
  <2>1. Cardinality(CheckedChannels) \in Nat
    BY Places, SetSizes
  <2> QED
    BY <2>1, SetSizes, CapsAssumption
       DEF CountInv, SendInv, MessageSlack, OvershootIsBounded, TypeOK
<1> QED
  BY <1>1, Counted, PTL

\* So is the ceiling on persons, whose seats no bot takes.
THEOREM CeilingHolds == Spec => []CeilingIsForPersons
<1>1. CountInv => CeilingIsForPersons
  <2> SUFFICES ASSUME CountInv PROVE CeilingIsForPersons
    OBVIOUS
  <2>1. Cardinality(JoiningChannels) \in Nat /\ Cardinality(Persons) \in Nat
    BY Places, SetSizes DEF CountInv
  <2> QED
    BY <2>1, SetSizes, CapsAssumption
       DEF CountInv, UserInv, UserSlack, RefusedWhenFull, CeilingIsForPersons
<1> QED
  BY <1>1, Counted, PTL

\* The recount under the lock of usage_periods sees every user before this one, so
\* no mark is skipped.
THEOREM UserMarksNoticed == Spec => []UserMarksAreNoticed
<1>1. CountInv => UserMarksAreNoticed
  BY DEF CountInv, UserInv
<1> QED
  BY <1>1, Counted, PTL

\* The rows' locks keep two relays apart: a mail is repeated only when its row's
\* mark was lost with a throw or a crash.
THEOREM MailsPaidFor == Spec => []MailsArePaidFor
<1>1. MailInv => MailsArePaidFor
  BY BoundAssumption DEF MailInv, MailsCounted, MailsArePaidFor, TypeOK
<1> QED
  BY <1>1, MailInit, MailStep, PTL DEF Spec

================================================================================
