--------------------------- MODULE ConnectionMetering ---------------------------
(* Connection-minutes: the gateway's meter (gateway/src/meter.ts) reports, for every *)
(* connection, the minutes it has used so far; the api credits the difference to   *)
(* what it has on record (creditConnectionMinutes of db/repository.ts).            *)
(*                                                                                 *)
(* Reports are sent by a timer and once more at shutdown, and nothing keeps one     *)
(* from being sent while another is on its way, so their transactions overlap.  A   *)
(* step of a transaction is one SQL statement; READ COMMITTED as in MessageWrites.  *)
EXTENDS Integers, FiniteSets, Sequences, SequencesExt, FiniteSetsExt

CONSTANTS
  Connection,
  Report,       \* requests that may be under way at once
  Nobody,       \* no row lock
  Threshold,    \* minutes of a period at which a notification is due
  PeriodOf,     \* the period of each minute
  MaxMinute,    \* the run lasts this many minutes
  MaxRetained,  \* MAX_RETAINED_CLOSED
  MaxMishaps    \* crashes of the gateway, lost answers and lost transactions, together

ASSUME MeterAssumption ==
  /\ MaxMinute \in Nat \ {0} /\ MaxRetained \in Nat \ {0} /\ MaxMishaps \in Nat
  /\ PeriodOf \in [1..MaxMinute -> Nat]
  /\ Threshold \subseteq Nat \ {0} /\ Nobody \notin Report /\ IsFiniteSet(Report)

Minute == 1..MaxMinute
Period == {PeriodOf[m] : m \in Minute}
Key == Connection \X Period       \* the key of usage_connections
Entry == [key : Key, minutes : Minute]
KeysOf(entries) == {entries[i].key : i \in DOMAIN entries}

\* internalUsageReportRequestSchema: what the api takes for a report.
Parses(entries) == entries # <<>> /\ entries \in Seq([key : Key, minutes : Nat])

VARIABLES
  minute,       \* the wall clock
  used,         \* connection ids given out
  registry,     \* the open connections, in the order they were added
  retained,     \* closedEntries: what closed connections still owe
  pc,           \* where each report is
  closedNow,    \* closedNow[r]: the part of the report that came from closedEntries
  toCredit,     \* toCredit[r]: the entries its transaction has yet to credit
  already,      \* already[r]: the minutes it read for the first of them
  wrote,        \* wrote[r]: the rows it has written and not committed, 0 for none
  credit,       \* credit[r]: what it has added to each period and not committed
  recorded,     \* usage_connections.minutes, 0 where there is no row
  rollup,       \* usage_periods.connection_minutes
  noticed,      \* quota_notifications: <<period, threshold>>
  rowLock, periodLock,
  final,        \* history: the minutes a closed connection ended with, 0 before that
  gone,         \* history: keys owed that the gateway lost, by a crash or at the cap
  overlapped,   \* history: keys whose first report overlapped another one
  trouble

gatewayVars == <<used, registry, retained, final, gone>>
workVars == <<toCredit, already, wrote, credit>>
storeVars == <<recorded, rollup, noticed>>
lockVars == <<rowLock, periodLock>>
meterVars == <<minute, gatewayVars, pc, closedNow, workVars, storeVars, lockVars, overlapped, trouble>>

InTransaction == {"reading", "writing", "adding"}

MeterTypeOK ==
  /\ minute \in Minute
  /\ used \subseteq Connection
  /\ ToSet(registry) \subseteq [id : used, openedAt : Minute]
  /\ Len(retained) <= MaxRetained /\ ToSet(retained) \subseteq Entry
  /\ pc \in [Report -> {"idle", "answered"} \cup InTransaction]
  /\ \A r \in Report : ToSet(closedNow[r]) \cup ToSet(toCredit[r]) \subseteq Entry
  /\ already \in [Report -> 0..MaxMinute]
  /\ wrote \in [Report -> [Key -> 0..MaxMinute]]
  /\ DOMAIN credit = Report /\ \A r \in Report, p \in Period : credit[r][p] \in Nat
  /\ recorded \in [Key -> 0..MaxMinute]
  /\ DOMAIN rollup = Period /\ \A p \in Period : rollup[p] \in Nat
  /\ noticed \subseteq Period \X Threshold
  /\ rowLock \in [Key -> Report \cup {Nobody}]
  /\ periodLock \in [Period -> Report \cup {Nobody}]
  /\ final \in [Key -> 0..MaxMinute] /\ gone \subseteq Key /\ overlapped \subseteq Key
  /\ trouble \in 0..MaxMishaps

NoWrites == [k \in Key |-> 0]
NoCredit == [p \in Period |-> 0]

MeterInit ==
  /\ minute = 1
  /\ used = {} /\ registry = <<>> /\ retained = <<>>
  /\ pc = [r \in Report |-> "idle"]
  /\ closedNow = [r \in Report |-> <<>>]
  /\ toCredit = [r \in Report |-> <<>>]
  /\ already = [r \in Report |-> 0]
  /\ wrote = [r \in Report |-> NoWrites]
  /\ credit = [r \in Report |-> NoCredit]
  /\ recorded = [k \in Key |-> 0]
  /\ rollup = [p \in Period |-> 0]
  /\ noticed = {}
  /\ rowLock = [k \in Key |-> Nobody]
  /\ periodLock = [p \in Period |-> Nobody]
  /\ final = [k \in Key |-> 0] /\ gone = {} /\ overlapped = {} /\ trouble = 0

--------------------------------------------------------------------------------
(* The gateway *)

\* Every minute a connection was open for any part of, counted in the minute's period.
BucketsFor(c) ==
  LET minutesIn(p) == {m \in c.openedAt..minute : PeriodOf[m] = p}
      periods == SetToSortSeq({p \in Period : minutesIn(p) # {}}, <)
  IN [i \in 1..Len(periods) |->
       [key |-> <<c.id, periods[i]>>, minutes |-> Cardinality(minutesIn(periods[i]))]]

PassMinute ==
  /\ minute < MaxMinute /\ minute' = minute + 1
  /\ UNCHANGED <<gatewayVars, pc, closedNow, workVars, storeVars, lockVars, overlapped,
                 trouble>>

Open(c) ==
  /\ c \notin used /\ used' = used \cup {c}
  /\ registry' = Append(registry, [id |-> c, openedAt |-> minute])
  /\ UNCHANGED <<minute, retained, final, gone, pc, closedNow, workVars, storeVars, lockVars,
                 overlapped, trouble>>

\* At the cap the oldest entry makes room.
Retain(entries) ==
  LET all == retained \o entries
      excess == Max({0, Len(all) - MaxRetained})
  IN [kept |-> SubSeq(all, excess + 1, Len(all)), dropped |-> SubSeq(all, 1, excess)]

\* The close handler hands over the final totals before the registry forgets the connection.
Close(c) ==
  LET buckets == BucketsFor(c)
      r == Retain(buckets) IN
  /\ registry' = Remove(registry, c)
  /\ retained' = r.kept
  /\ gone' = gone \cup KeysOf(r.dropped)
  /\ final' = [k \in Key |-> IF \E e \in ToSet(buckets) : e.key = k
                             THEN (CHOOSE e \in ToSet(buckets) : e.key = k).minutes
                             ELSE final[k]]
  /\ UNCHANGED <<minute, used, pc, closedNow, workVars, storeVars, lockVars, overlapped,
                 trouble>>

OpenEntries == FlattenSeq([i \in 1..Len(registry) |-> BucketsFor(registry[i])])

\* Reports that are not under way are alike: the next one is the first of them.
NextSlot(r) == pc[r] = "idle" /\ r = CHOOSE q \in Report : pc[q] = "idle"

Request(r, entries) ==
  /\ Parses(entries)
  /\ pc' = [pc EXCEPT ![r] = "reading"]
  /\ closedNow' = [closedNow EXCEPT ![r] = retained]
  /\ toCredit' = [toCredit EXCEPT ![r] = entries]
  /\ UNCHANGED <<minute, gatewayVars, already, wrote, credit, storeVars, lockVars,
                 overlapped, trouble>>

\* reportOnce, from the timer or at shutdown: what closed connections owe, then the
\* open ones, unless there is nothing of either.  The request reaches the api.
SendReport(r) ==
  LET entries == retained \o OpenEntries IN
  NextSlot(r) /\ entries # <<>> /\ Request(r, entries)

\* Wrong: everything is forgotten that was owed when the answer came.
StillOwed_Nothing(r) == <<>>

\* Only what the report carried from closedEntries is forgotten: an entry added while
\* the report was under way stays.
StillOwed(r) == SelectSeq(retained, LAMBDA e : e.key \notin KeysOf(closedNow[r]))

AnswerArrives(r) ==
  /\ pc[r] = "answered"
  /\ pc' = [pc EXCEPT ![r] = "idle"]
  /\ retained' = StillOwed(r)
  /\ closedNow' = [closedNow EXCEPT ![r] = <<>>]
  /\ UNCHANGED <<minute, used, registry, final, gone, workVars, storeVars, lockVars, overlapped,
                 trouble>>

Trouble == trouble < MaxMishaps /\ trouble' = trouble + 1

\* The report failed for the gateway although its credit committed: everything stays.
LoseAnswer(r) ==
  /\ Trouble /\ pc[r] = "answered"
  /\ pc' = [pc EXCEPT ![r] = "idle"]
  /\ closedNow' = [closedNow EXCEPT ![r] = <<>>]
  /\ UNCHANGED <<minute, gatewayVars, workVars, storeVars, lockVars, overlapped>>

\* The process dies with its connections and what it had retained; the transactions
\* of its reports go on.
GatewayDies ==
  /\ Trouble
  /\ gone' = gone \cup KeysOf(retained)
  /\ registry' = <<>> /\ retained' = <<>>
  /\ closedNow' = [r \in Report |-> <<>>]
  /\ UNCHANGED <<minute, used, final, pc, workVars, storeVars, lockVars, overlapped>>

--------------------------------------------------------------------------------
(* The api: creditConnectionMinutes *)

Now(r) == Head(toCredit[r])
Goto(r, label) == pc' = [pc EXCEPT ![r] = label]
RowFree(r) == rowLock[Now(r).key] \in {Nobody, r}
PeriodFree(r) == periodLock[Now(r).key[2]] \in {Nobody, r}
Advance(r) ==
  /\ Goto(r, "reading")
  /\ toCredit' = [toCredit EXCEPT ![r] = Tail(@)]
  /\ already' = [already EXCEPT ![r] = 0]
EndTransaction(r) ==
  /\ toCredit' = [toCredit EXCEPT ![r] = <<>>]
  /\ already' = [already EXCEPT ![r] = 0]
  /\ wrote' = [wrote EXCEPT ![r] = NoWrites]
  /\ credit' = [credit EXCEPT ![r] = NoCredit]
  /\ rowLock' = [k \in Key |-> IF rowLock[k] = r THEN Nobody ELSE rowLock[k]]
  /\ periodLock' = [p \in Period |-> IF periodLock[p] = r THEN Nobody ELSE periodLock[p]]

\* A transaction sees what it has written itself.
Sees(r, k) == IF wrote[r][k] = 0 THEN recorded[k] ELSE wrote[r][k]

\* Wrong: the row is read without FOR UPDATE.
ReadEntry_PlainRead(r) ==
  /\ pc[r] = "reading" /\ toCredit[r] # <<>>
  /\ already' = [already EXCEPT ![r] = Sees(r, Now(r).key)]
  /\ Goto(r, "writing")
  /\ UNCHANGED <<minute, gatewayVars, closedNow, toCredit, wrote, credit, storeVars,
                 lockVars, overlapped, trouble>>

\* SELECT ... FOR UPDATE: it waits for the row and locks it, if there is one.
ReadEntry(r) ==
  /\ pc[r] = "reading" /\ toCredit[r] # <<>>
  /\ already' = [already EXCEPT ![r] = Sees(r, Now(r).key)]
  /\ \/ Sees(r, Now(r).key) = 0 /\ UNCHANGED rowLock
     \/ /\ Sees(r, Now(r).key) > 0 /\ RowFree(r)
        /\ rowLock' = [rowLock EXCEPT ![Now(r).key] = r]
  /\ Goto(r, "writing")
  /\ UNCHANGED <<minute, gatewayVars, closedNow, toCredit, wrote, credit, storeVars,
                 periodLock, overlapped, trouble>>

CreditFor(reported, credited) == Max({0, reported - credited})

HighWaterMark(reported, credited) == Max({reported, credited})

\* INSERT ... ON CONFLICT DO UPDATE: it waits for whoever has the row or its key, and
\* then writes the figure computed from the earlier read.
WriteEntry(r) ==
  LET k == Now(r).key IN
  /\ pc[r] = "writing" /\ RowFree(r)
  /\ rowLock' = [rowLock EXCEPT ![k] = r]
  /\ wrote' = [wrote EXCEPT ![r][k] = HighWaterMark(Now(r).minutes, already[r])]
  /\ overlapped' = IF already[r] = 0 /\ recorded[k] > 0 THEN overlapped \cup {k} ELSE overlapped
  /\ IF CreditFor(Now(r).minutes, already[r]) = 0
       THEN Advance(r)
       ELSE Goto(r, "adding") /\ UNCHANGED <<toCredit, already>>
  /\ UNCHANGED <<minute, gatewayVars, closedNow, credit, storeVars, periodLock, trouble>>

\* usage_periods: the difference is added to what the row has become.
AddToPeriod(r) ==
  LET p == Now(r).key[2] IN
  /\ pc[r] = "adding" /\ PeriodFree(r)
  /\ periodLock' = [periodLock EXCEPT ![p] = r]
  /\ credit' = [credit EXCEPT ![r][p] = @ + CreditFor(Now(r).minutes, already[r])]
  /\ Advance(r)
  /\ UNCHANGED <<minute, gatewayVars, closedNow, wrote, storeVars, rowLock, overlapped,
                 trouble>>

Crossed(before, after) == {t \in Threshold : before < t /\ after >= t}

\* The crossings of each period, once per report however many entries moved it, and
\* everything commits.
CommitReport(r) ==
  LET after == [p \in Period |-> rollup[p] + credit[r][p]] IN
  /\ pc[r] = "reading" /\ toCredit[r] = <<>>
  /\ recorded' = [k \in Key |-> IF wrote[r][k] = 0 THEN recorded[k] ELSE wrote[r][k]]
  /\ rollup' = after
  /\ noticed' = noticed \cup UNION {{<<p, t>> : t \in Crossed(rollup[p], after[p])} : p \in Period}
  /\ Goto(r, "answered") /\ EndTransaction(r)
  /\ UNCHANGED <<minute, gatewayVars, closedNow, overlapped, trouble>>

\* The transaction a report waits for.
Blocker(r) ==
  CASE pc[r] = "reading" /\ toCredit[r] # <<>> /\ ~RowFree(r) /\ recorded[Now(r).key] > 0 ->
         rowLock[Now(r).key]
    [] pc[r] = "writing" /\ ~RowFree(r) -> rowLock[Now(r).key]
    [] pc[r] = "adding" /\ ~PeriodFree(r) -> periodLock[Now(r).key[2]]
    [] OTHER -> Nobody

Deadlocked(r) ==
  LET waitsFor[n \in 0..Cardinality(Report)] ==
        IF n = 0 THEN r
        ELSE IF waitsFor[n - 1] = Nobody THEN Nobody ELSE Blocker(waitsFor[n - 1])
  IN \E n \in 1..Cardinality(Report) : waitsFor[n] = r

RollBack(r) ==
  /\ pc[r] \in InTransaction
  /\ Goto(r, "idle") /\ EndTransaction(r)
  /\ closedNow' = [closedNow EXCEPT ![r] = <<>>]
  /\ UNCHANGED <<minute, gatewayVars, storeVars, overlapped>>

\* PostgreSQL breaks a circle of waiting transactions; the report has failed.
BreakDeadlock(r) == Deadlocked(r) /\ RollBack(r) /\ UNCHANGED trouble

LoseTransaction(r) == Trouble /\ RollBack(r)

--------------------------------------------------------------------------------
ApiStep(r) ==
  ReadEntry(r) \/ WriteEntry(r) \/ AddToPeriod(r) \/ CommitReport(r) \/ BreakDeadlock(r)

MeterNext ==
  \/ \E r \in Report : SendReport(r) \/ ApiStep(r) \/ AnswerArrives(r)
  \/ \E r \in Report : LoseAnswer(r) \/ LoseTransaction(r)
  \/ \E c \in Connection : Open(c)
  \/ \E c \in ToSet(registry) : Close(c)
  \/ PassMinute
  \/ GatewayDies

MeterSpec == MeterInit /\ [][MeterNext]_meterVars

\* The timer keeps ticking and the api works on what it was given.  A row lock goes to
\* whoever waits for it when it is released, so a statement that could run again and
\* again does run.
MeterFairSpec ==
  /\ MeterSpec
  /\ WF_meterVars(\E r \in Report : SendReport(r))
  /\ \A r \in Report : SF_meterVars(ApiStep(r)) /\ WF_meterVars(AnswerArrives(r))

--------------------------------------------------------------------------------
\* The minutes on record for a period, each connection's counted from 1, and their sum.
OnRecord(p) == UNION {{c} \X (1..recorded[<<c, p>>]) : c \in Connection}
Recorded(p) == Cardinality(OnRecord(p))

\* What a period is billed is what its connections have on record: a repeated report
\* credits nothing, a lost one is repaid by the next, an old one that arrives late
\* adds nothing.  (Except where two first reports of a connection overlapped: before
\* its row exists there is nothing FOR UPDATE could lock.)
BilledOnce ==
  \A p \in Period :
    (\A c \in Connection : <<c, p>> \notin overlapped) => rollup[p] = Recorded(p)

\* However many reports and entries move a period past a threshold, and whichever
\* waited for which, the threshold is noticed.
ThresholdsNoticed ==
  \A p \in Period : \A t \in Threshold : rollup[p] >= t => <<p, t>> \in noticed

\* The two together: the bill is what is on record, and whoever it reaches a threshold
\* for has been told.
BillsAreRight == BilledOnce /\ ThresholdsNoticed

\* And they get there: all the minutes of every closed connection are on record in the
\* end, through lost answers, rolled-back transactions and deadlocks, unless the gateway
\* has lost them with its process or at its cap, as it says it may.
Settled == \A k \in Key : recorded[k] >= final[k] \/ k \in gone \/ k \in overlapped
ClosedIsRecorded == ~Settled ~> Settled

\* quotas/credit.ts: "a report delivered twice credits nothing the second time", and
\* two that arrive out of order credit the higher one.
BillIsExact == \A p \in Period : rollup[p] = Recorded(p)
================================================================================
