----------------------------- MODULE GatewayResume -----------------------------
(***************************************************************************)
(* One gateway instance's connections, the message fabric that feeds them,  *)
(* and the resume that hides the gap between the two.                       *)
(*                                                                          *)
(* A message is committed by the api at one instant and announced on the    *)
(* fabric at a later one, by whichever process handled the send, in any     *)
(* order and at most once.  A connection that presents cursors holds live   *)
(* frames back until the instance's subscription is confirmed and the       *)
(* backfill has answered, and then tells by sequence number which frames    *)
(* the client already has.                                                  *)
(*                                                                          *)
(* The gateway is one Node process: everything between two awaits is one    *)
(* step here.                                                               *)
(***************************************************************************)
EXTENDS Integers, FiniteSets

CONSTANTS Channel,
          Connection,
          MemberOf,       \* MemberOf[k]: the channels k's user belongs to
          MaxSeq,         \* bound: messages per channel
          BackfillLimit,  \* BACKFILL_LIMIT
          MaxBuffered,    \* MAX_BUFFERED_FRAMES
          MaxTrouble,     \* bound: revisions and lost announcements, together
          MaxOpens        \* bound: handshakes

ASSUME MemberAssumption == MemberOf \in [Connection -> SUBSET Channel]
ASSUME LimitAssumption ==
  /\ BackfillLimit \in Nat \ {0}
  /\ MaxBuffered \in Nat
ASSUME BoundAssumption ==
  /\ MaxSeq \in Nat
  /\ MaxTrouble \in Nat
  /\ MaxOpens \in Nat

Seqs == 1..MaxSeq
Message == Channel \X Seqs
Text == {"sent", "edited", "deleted"}

VARIABLES
  last,         \* last[c]: channels.last_sequence
  text,         \* text[m]: what the row of m holds now
  announcing,   \* messages committed whose fabric publish is still to come
  revising,     \* <<m, text>>: revisions committed, not yet published
  lost,         \* history: messages whose announcement never left its sender
  subscription, \* subscription[c] at the fabric, for this instance
  pc,           \* pc[k]: "closed", "subscribing", "filled" (page in hand) or "live"
  waiting,      \* waiting[k]: channels whose SUBSCRIBE k itself must await
  shared,       \* history: shared[k], channels whose SUBSCRIBE another connection had
                \* issued and the fabric not yet confirmed when k registered
  cursor,       \* cursor[k]: a sequence for each channel k presented one for
  page,         \* page[k]: what the backfill has read: rows, the channels it truncated,
                \* and the channels its loop has been through
  buffer,       \* buffer[k]: frames held back
  overflowed,   \* overflowed[k]
  marks,        \* marks[k]: high-water marks kept for the connection's life
  resumeOk,     \* resumeOk[k]: what connection.ack said
  copy,         \* copy[k][m]: the text of m the client was last sent
  again,        \* history: messages sent as message.created twice to k
  revisions, losses, opens

storeVars == <<last, text>>
flightVars == <<announcing, revising, lost>>
heldVars == <<waiting, shared, cursor, page, marks, resumeOk>>
clientVars == <<buffer, overflowed, copy, again>>
boundVars == <<revisions, losses, opens>>
vars == <<storeVars, flightVars, subscription, pc, heldVars, clientVars, boundVars>>

\* Maps from some of the channels to sequences: cursors and marks.
SeqMap == UNION {[P -> 0..MaxSeq] : P \in SUBSET Channel}
NoMarks == [c \in {} |-> 0]
Page == [rows : SUBSET (Message \X Text), truncated : SUBSET Channel, read : SUBSET Channel]
NoPage == [rows |-> {}, truncated |-> {}, read |-> {}]
NoCopies == [m \in Message |-> "none"]

TypeOK ==
  /\ last \in [Channel -> 0..MaxSeq]
  /\ text \in [Message -> Text \cup {"none"}]
  /\ announcing \in SUBSET Message
  /\ revising \in SUBSET (Message \X Text)
  /\ lost \in SUBSET Message
  /\ subscription \in [Channel -> {"off", "pending", "on"}]
  /\ pc \in [Connection -> {"closed", "subscribing", "filled", "live"}]
  /\ waiting \in [Connection -> SUBSET Channel]
  /\ shared \in [Connection -> SUBSET Channel]
  /\ cursor \in [Connection -> SeqMap]
  /\ page \in [Connection -> Page]
  /\ buffer \in [Connection -> SUBSET Message]
  /\ \A k \in Connection : Cardinality(buffer[k]) <= MaxBuffered
  /\ marks \in [Connection -> SeqMap]
  /\ copy \in [Connection -> [Message -> Text \cup {"none"}]]
  /\ overflowed \in [Connection -> BOOLEAN]
  /\ resumeOk \in [Connection -> BOOLEAN]
  /\ again \in [Connection -> SUBSET Message]
  /\ revisions \in 0..MaxTrouble /\ losses \in 0..MaxTrouble /\ opens \in 0..MaxOpens

Init ==
  /\ last = [c \in Channel |-> 0]
  /\ text = [m \in Message |-> "none"]
  /\ announcing = {} /\ revising = {} /\ lost = {}
  /\ subscription = [c \in Channel |-> "off"]
  /\ pc = [k \in Connection |-> "closed"]
  /\ waiting = [k \in Connection |-> {}]
  /\ shared = [k \in Connection |-> {}]
  /\ cursor = [k \in Connection |-> NoMarks]
  /\ page = [k \in Connection |-> NoPage]
  /\ buffer = [k \in Connection |-> {}]
  /\ overflowed = [k \in Connection |-> FALSE]
  /\ marks = [k \in Connection |-> NoMarks]
  /\ resumeOk = [k \in Connection |-> FALSE]
  /\ copy = [k \in Connection |-> NoCopies]
  /\ again = [k \in Connection |-> {}]
  /\ revisions = 0 /\ losses = 0 /\ opens = 0

-------------------------------------------------------------------------------
(***************************************************************************)
(* The write path: commit under the channel's row lock, announce later.     *)
(***************************************************************************)
Commit(c) ==
  /\ last[c] < MaxSeq
  /\ last' = [last EXCEPT ![c] = @ + 1]
  /\ text' = [text EXCEPT ![<<c, last[c] + 1>>] = "sent"]
  /\ announcing' = announcing \cup {<<c, last[c] + 1>>}
  /\ UNCHANGED <<revising, lost, subscription, pc, heldVars, clientVars, boundVars>>

\* An edit or a deletion; a deleted message refuses both.
Revise(m, t) ==
  /\ revisions + losses < MaxTrouble
  /\ t \in {"edited", "deleted"}
  /\ text[m] \in {"sent", "edited"}
  /\ text' = [text EXCEPT ![m] = t]
  /\ revising' = revising \cup {<<m, t>>}
  /\ revisions' = revisions + 1
  /\ UNCHANGED <<last, announcing, lost, subscription, pc, heldVars, clientVars,
                 losses, opens>>

-------------------------------------------------------------------------------
(***************************************************************************)
(* Delivery to the local connections.                                       *)
(***************************************************************************)
Hears(k, m) == pc[k] # "closed" /\ m[1] \in MemberOf[k]
Buffering(k) == pc[k] \in {"subscribing", "filled"}

\* Wrong: the marks are thrown away once the buffer is flushed.
Suppressed_Forgotten(k, m) == FALSE

Suppressed(k, m) == m[1] \in DOMAIN marks[k] /\ m[2] <= marks[k][m[1]]

HasRoom(k) == Cardinality(buffer[k]) < MaxBuffered

HeldBack(m) == {k \in Connection : Hears(k, m) /\ Buffering(k)}
SentTo(m) == {k \in Connection : Hears(k, m) /\ pc[k] = "live" /\ ~Suppressed(k, m)}

Deliver(m) ==
  /\ buffer' = [k \in Connection |->
       IF k \in HeldBack(m) /\ HasRoom(k) THEN buffer[k] \cup {m} ELSE buffer[k]]
  /\ overflowed' = [k \in Connection |->
       overflowed[k] \/ (k \in HeldBack(m) /\ ~HasRoom(k))]
  /\ copy' = [k \in Connection |->
       IF k \in SentTo(m) THEN [copy[k] EXCEPT ![m] = "sent"] ELSE copy[k]]
  /\ again' = [k \in Connection |->
       IF k \in SentTo(m) /\ copy[k][m] # "none" THEN again[k] \cup {m} ELSE again[k]]

\* The sender publishes what it committed; only an instance subscribed at that
\* moment hears it.
Announce(m) ==
  /\ m \in announcing
  /\ announcing' = announcing \ {m}
  /\ IF subscription[m[1]] = "on" THEN Deliver(m) ELSE UNCHANGED clientVars
  /\ UNCHANGED <<storeVars, revising, lost, subscription, pc, heldVars, boundVars>>

\* The sender dies between its commit and its publish, or the publish fails: the
\* failure is logged and nothing retries it.
LoseAnnouncement(m) ==
  /\ revisions + losses < MaxTrouble
  /\ m \in announcing
  /\ announcing' = announcing \ {m}
  /\ lost' = lost \cup {m}
  /\ losses' = losses + 1
  /\ UNCHANGED <<storeVars, revising, subscription, pc, heldVars, clientVars,
                 revisions, opens>>

\* Revisions are neither buffered nor suppressed; a buffering connection gets none.
AnnounceRevision(m, t) ==
  /\ <<m, t>> \in revising
  /\ revising' = revising \ {<<m, t>>}
  /\ copy' = [k \in Connection |->
       IF subscription[m[1]] = "on" /\ Hears(k, m) /\ pc[k] = "live" /\ copy[k][m] # "none"
       THEN [copy[k] EXCEPT ![m] = t]
       ELSE copy[k]]
  /\ UNCHANGED <<storeVars, announcing, lost, subscription, pc, heldVars, buffer,
                 overflowed, again, boundVars>>

-------------------------------------------------------------------------------
(***************************************************************************)
(* The handshake.  fanout.subscribe counts references: only the first local *)
(* member of a channel issues, and awaits, a SUBSCRIBE.                     *)
(***************************************************************************)
Unreferenced(c) == \A k \in Connection : pc[k] # "closed" => c \notin MemberOf[k]

Register(k, phase, cur) ==
  /\ opens < MaxOpens
  /\ pc[k] = "closed"
  /\ pc' = [pc EXCEPT ![k] = phase]
  /\ waiting' = [waiting EXCEPT ![k] = {c \in MemberOf[k] : Unreferenced(c)}]
  /\ shared' = [shared EXCEPT ![k] =
       {c \in MemberOf[k] : ~Unreferenced(c) /\ subscription[c] = "pending"}]
  /\ subscription' = [c \in Channel |->
       IF c \in MemberOf[k] /\ Unreferenced(c) THEN "pending" ELSE subscription[c]]
  /\ cursor' = [cursor EXCEPT ![k] = cur]
  /\ copy' = [copy EXCEPT ![k] = NoCopies]
  /\ again' = [again EXCEPT ![k] = {}]
  /\ opens' = opens + 1
  /\ UNCHANGED <<storeVars, flightVars, page, marks, buffer, overflowed, revisions, losses>>

\* A fresh connect is live at once, whatever the fabric says.
OpenFresh(k) ==
  /\ Register(k, "live", NoMarks)
  /\ resumeOk' = [resumeOk EXCEPT ![k] = TRUE]

\* A cursor set that does not parse degrades before anything is awaited.
OpenMalformed(k) ==
  /\ Register(k, "live", NoMarks)
  /\ resumeOk' = [resumeOk EXCEPT ![k] = FALSE]

\* Cursors for channels the caller is not in are dropped; a client can only hold
\* a sequence it was given.
OpenResume(k, P) ==
  /\ P \subseteq MemberOf[k]
  /\ \E cur \in [P -> 0..MaxSeq] :
       /\ \A c \in P : cur[c] <= last[c]
       /\ Register(k, "subscribing", cur)
  /\ resumeOk' = [resumeOk EXCEPT ![k] = FALSE]

SubscribeLands(c) ==
  /\ subscription[c] = "pending"
  /\ subscription' = [subscription EXCEPT ![c] = "on"]
  /\ UNCHANGED <<storeVars, flightVars, pc, heldVars, clientVars, boundVars>>

-------------------------------------------------------------------------------
(***************************************************************************)
(* The resume.                                                              *)
(***************************************************************************)
Degrade(k) ==
  /\ buffer' = [buffer EXCEPT ![k] = {}]
  /\ marks' = [marks EXCEPT ![k] = NoMarks]
  /\ pc' = [pc EXCEPT ![k] = "live"]
  /\ UNCHANGED <<storeVars, flightVars, subscription, waiting, shared, cursor, page, resumeOk,
                 overflowed, copy, again, boundVars>>

\* Wrong: awaits the fabric without a deadline.
SubscribeDeadline_Never(k) == FALSE

SubscribeDeadline(k) ==
  /\ pc[k] = "subscribing"
  /\ page[k].read = {}
  /\ Degrade(k)

\* Wrong: backfills as soon as the SUBSCRIBE is issued.
Confirmed_WhenIssued(k) == TRUE

Confirmed(k) == \A c \in waiting[k] : subscription[c] = "on"

Above(k, c) == {m \in Message : m[1] = c /\ cursor[k][c] < m[2] /\ m[2] <= last[c]}

\* The rows a page spends its limit on, tombstones included.
Scanned(k, c) == {m \in Above(k, c) : m[2] <= cursor[k][c] + BackfillLimit}

\* The api reads one page per presented channel, each in a query of its own; a
\* tombstone takes a place in the page and yields no frame.
ReadPage(k, c) ==
  /\ pc[k] = "subscribing"
  /\ Confirmed(k)
  /\ c \in DOMAIN cursor[k] \ page[k].read
  /\ page' = [page EXCEPT ![k] =
       [rows |-> @.rows \cup {<<m, text[m]>> : m \in {x \in Scanned(k, c) : text[x] # "deleted"}},
        truncated |-> IF Above(k, c) # Scanned(k, c) THEN @.truncated \cup {c} ELSE @.truncated,
        read |-> @.read \cup {c}]]
  /\ UNCHANGED <<storeVars, flightVars, subscription, pc, waiting, shared, cursor, marks,
                 resumeOk, clientVars, boundVars>>

BackfillAnswers(k) ==
  /\ pc[k] = "subscribing"
  /\ Confirmed(k)
  /\ page[k].read = DOMAIN cursor[k]
  /\ pc' = [pc EXCEPT ![k] = "filled"]
  /\ UNCHANGED <<storeVars, flightVars, subscription, heldVars, clientVars, boundVars>>

BackfillFails(k) ==
  /\ pc[k] = "subscribing"
  /\ Confirmed(k)
  /\ Degrade(k)

PageOf(k) == {r[1] : r \in page[k].rows}

\* The last sequence the page delivers for c, or the presented cursor.
HighWaterMark(k, c) ==
  IF \E m \in PageOf(k) : m[1] = c
  THEN CHOOSE n \in Seqs : <<c, n>> \in PageOf(k) /\ \A m \in PageOf(k) : m[1] = c => m[2] <= n
  ELSE cursor[k][c]

Flushable(k) ==
  {m \in buffer[k] : m[1] \in DOMAIN cursor[k] => m[2] > HighWaterMark(k, m[1])}

\* ack, page, flush, marks and live: no await between them.
Complete(k) ==
  /\ pc[k] = "filled"
  /\ ~overflowed[k]
  /\ resumeOk' = [resumeOk EXCEPT ![k] = TRUE]
  /\ copy' = [copy EXCEPT ![k] = [m \in Message |->
       IF m \in Flushable(k) THEN "sent"
       ELSE IF m \in PageOf(k) THEN (CHOOSE r \in page[k].rows : r[1] = m)[2]
       ELSE "none"]]
  /\ again' = [again EXCEPT ![k] = @ \cup (Flushable(k) \cap PageOf(k))]
  /\ buffer' = [buffer EXCEPT ![k] = {}]
  /\ marks' = [marks EXCEPT ![k] = [c \in DOMAIN cursor[k] |-> HighWaterMark(k, c)]]
  /\ pc' = [pc EXCEPT ![k] = "live"]
  /\ UNCHANGED <<storeVars, flightVars, subscription, waiting, shared, cursor, page,
                 overflowed, boundVars>>

CompleteOverflowed(k) ==
  /\ pc[k] = "filled"
  /\ overflowed[k]
  /\ Degrade(k)

\* The socket closes; the last local member of a channel releases its subject.
Close(k) ==
  /\ pc[k] # "closed"
  /\ pc' = [pc EXCEPT ![k] = "closed"]
  /\ subscription' = [c \in Channel |->
       IF c \in MemberOf[k] /\ \A j \in Connection \ {k} : pc[j] # "closed" => c \notin MemberOf[j]
       THEN "off" ELSE subscription[c]]
  /\ waiting' = [waiting EXCEPT ![k] = {}]
  /\ shared' = [shared EXCEPT ![k] = {}]
  /\ cursor' = [cursor EXCEPT ![k] = NoMarks]
  /\ page' = [page EXCEPT ![k] = NoPage]
  /\ marks' = [marks EXCEPT ![k] = NoMarks]
  /\ resumeOk' = [resumeOk EXCEPT ![k] = FALSE]
  /\ buffer' = [buffer EXCEPT ![k] = {}]
  /\ overflowed' = [overflowed EXCEPT ![k] = FALSE]
  /\ copy' = [copy EXCEPT ![k] = NoCopies]
  /\ again' = [again EXCEPT ![k] = {}]
  /\ UNCHANGED <<storeVars, flightVars, boundVars>>

ResumeStep(k) ==
  \/ SubscribeDeadline(k)
  \/ (\E c \in Channel : ReadPage(k, c)) \/ BackfillAnswers(k) \/ BackfillFails(k)
  \/ Complete(k) \/ CompleteOverflowed(k)

Next ==
  \/ \E c \in Channel : Commit(c) \/ SubscribeLands(c)
  \/ \E m \in Message :
       \/ Announce(m) \/ LoseAnnouncement(m)
       \/ \E t \in Text : Revise(m, t) \/ AnnounceRevision(m, t)
  \/ \E k \in Connection :
       \/ OpenFresh(k) \/ OpenMalformed(k)
       \/ \E P \in SUBSET Channel : OpenResume(k, P)
       \/ ResumeStep(k) \/ Close(k)

Spec == Init /\ [][Next]_vars

\* The subscribe deadline is a timer and the backfill answers or fails.
FairSpec == Spec /\ \A k \in Connection : WF_vars(ResumeStep(k))

-------------------------------------------------------------------------------
\* A connection never shows the client the same message twice: not across the
\* seam between backfill and buffer, and not when an announcement is so late that
\* the resume is long over.
NoRepeat == \A k \in Connection : again[k] = {}

\* What the ack promises the client about c: up to where its page ended if the
\* page was truncated, up to now otherwise.
PromisedUpTo(k, c) == IF c \in page[k].truncated THEN marks[k][c] ELSE last[c]

Missing(k, m) ==
  /\ pc[k] = "live" /\ resumeOk[k]
  /\ m[1] \in DOMAIN cursor[k]
  /\ cursor[k][m[1]] < m[2] /\ m[2] <= PromisedUpTo(k, m[1])
  /\ copy[k][m] = "none"
  /\ m \notin announcing \cup lost
  /\ text[m] # "deleted"

\* An acknowledged resume leaves no gap: every message above the cursor has been
\* sent, or its announcement is still to come or was lost by its sender.  (Except
\* on a channel whose SUBSCRIBE another connection was still waiting for.)
NoGap == \A k \in Connection, m \in Message : Missing(k, m) => m[1] \in shared[k]

\* No resume hangs, whatever the fabric and the api do.
EveryResumeEnds == \A k \in Connection : Buffering(k) ~> ~Buffering(k)
===============================================================================
