------------------------- MODULE EndpointHealth_proofs -------------------------
(***************************************************************************)
(* Proofs about EndpointHealth, for every set of reports, processes and     *)
(* relays and every policy.                                                 *)
(***************************************************************************)
EXTENDS EndpointHealth, FiniteSetTheorems, TLAPS

(***************************************************************************)
(* The inductive invariant.  Who is between its read and its commit holds   *)
(* the row, so what a report or a sweep has read still stands.  An endpoint *)
(* that is on has no notice of its current streak.                          *)
(***************************************************************************)
HolderHasLock == \A p \in Report \cup Instance : pc[p] = "holds" <=> lock = p
SeenIsTheRun == \A r \in Report : pc[r] = "holds" => seen[r] = run
StreakHasStart ==
  /\ streak.attempts = 0 <=> streak.since = Never
  /\ streak.since # Never => streak.since <= clock
SweepIsSure ==
  \A i \in Instance : pc[i] = "holds" =>
    enabled /\ streak.attempts >= MinAttempts /\ clock - streak.since > Hour
NoticesPast ==
  /\ IsFiniteSet(notices)
  /\ \A n \in notices : n[1] <= streak.no /\ (enabled => n[1] # streak.no)

HealthInv ==
  /\ TypeOK /\ HolderHasLock /\ SeenIsTheRun /\ StreakHasStart /\ SweepIsSure
  /\ NoticesPast /\ RunIsTheStreak /\ OncePerRun /\ FingerprintIsOwed

LEMMA InitHolds == Init => HealthInv
<1> SUFFICES ASSUME Init PROVE HealthInv
  OBVIOUS
<1>1. TypeOK
  <2>1. Healthy \in Run /\ streak \in [since : Nat \cup {Never}, attempts : Nat, no : Nat]
    BY DEF Init, Healthy, Run
  <2>2. clock \in 0..MaxClock /\ switches \in 0..MaxSwitches /\ trouble \in 0..MaxTrouble
    BY BoundAssumption DEF Init
  <2>3. enabled \in BOOLEAN /\ deleted \in BOOLEAN /\ disabledAt \in Nat \cup {Never}
    BY DEF Init
  <2>4. /\ recorded \subseteq {AttemptOf[r] : r \in Report} /\ lock \in Report \cup Instance \cup {Nobody}
        /\ pc \in [Report \cup Instance -> {"new", "holds", "done"}]
    BY DEF Init
  <2>5. /\ notices \subseteq Nat \X Nat /\ delivered \subseteq notices /\ told \subseteq notices
        /\ unaddressed \subseteq notices
        /\ claimed \in [Relay -> SUBSET notices] /\ handled \in [Relay -> SUBSET notices]
        /\ thrown \in [Relay -> SUBSET notices]
    BY DEF Init
  <2>6. run \in Run /\ seen \in [Report -> Run]
    BY <2>1 DEF Init
  <2> QED
    BY <2>1, <2>2, <2>3, <2>4, <2>5, <2>6 DEF TypeOK
<1>2. HolderHasLock /\ SeenIsTheRun /\ SweepIsSure
  BY ReportsAssumption DEF Init, HolderHasLock, SeenIsTheRun, SweepIsSure
<1>3. NoticesPast /\ StreakHasStart /\ RunIsTheStreak /\ OncePerRun /\ FingerprintIsOwed
  BY FS_EmptySet
     DEF Init, NoticesPast, StreakHasStart, RunIsTheStreak, OncePerRun, FingerprintIsOwed, Healthy
<1> QED
  BY <1>1, <1>2, <1>3 DEF HealthInv

(***************************************************************************)
(* The relay and the clock leave the endpoint alone.                        *)
(***************************************************************************)
LEMMA ElsewhereKeeps ==
  ASSUME HealthInv, TypeOK', UNCHANGED <<clock, endpointVars, lock, pc, seen>>
  PROVE  HealthInv'
BY DEF HealthInv, endpointVars, HolderHasLock, SeenIsTheRun, StreakHasStart, SweepIsSure,
       NoticesPast, RunIsTheStreak, OncePerRun, FingerprintIsOwed

LEMMA RelayKeeps ==
  ASSUME HealthInv, NEW q \in Relay, RelayStep(q) \/ MailThrows(q) \/ RelayCrashes(q)
  PROVE  HealthInv'
<1>1. CASE Claim(q)
  <2>1. TypeOK'
    BY <1>1 DEF HealthInv, TypeOK, Claim, Owed, endpointVars, reportVars, boundVars, Run
  <2> QED
    BY <1>1, <2>1, ElsewhereKeeps DEF Claim, reportVars
<1>2. CASE Mail(q)
  <2>1. TypeOK'
    BY <1>2 DEF HealthInv, TypeOK, Mail, Unsent, endpointVars, reportVars, boundVars, Run
  <2> QED
    BY <1>2, <2>1, ElsewhereKeeps DEF Mail, reportVars
<1>3. CASE MailThrows(q)
  <2>1. TypeOK'
    BY <1>3, BoundAssumption
       DEF HealthInv, TypeOK, MailThrows, Unsent, endpointVars, reportVars, boundVars, Run
  <2> QED
    BY <1>3, <2>1, ElsewhereKeeps DEF MailThrows, reportVars
<1>4. CASE CommitPass(q)
  <2>1. TypeOK'
    BY <1>4
       DEF HealthInv, TypeOK, CommitPass, Released, Settled, endpointVars, reportVars, boundVars, Run
  <2> QED
    BY <1>4, <2>1, ElsewhereKeeps DEF CommitPass, reportVars
<1>5. CASE RelayCrashes(q)
  <2>1. TypeOK'
    BY <1>5, BoundAssumption
       DEF HealthInv, TypeOK, RelayCrashes, Released, endpointVars, reportVars, boundVars, Run
  <2> QED
    BY <1>5, <2>1, ElsewhereKeeps DEF RelayCrashes, reportVars
<1> QED
  BY <1>1, <1>2, <1>3, <1>4, <1>5 DEF RelayStep

\* No transaction is open, so no reading grows old.
LEMMA TickKeeps ==
  ASSUME HealthInv, Tick
  PROVE  HealthInv'
<1>1. TypeOK'
  BY BoundAssumption
     DEF HealthInv, TypeOK, Tick, endpointVars, reportVars, relayVars, boundVars, Run
<1>2. (HolderHasLock /\ SeenIsTheRun /\ SweepIsSure)'
  BY DEF HealthInv, Tick, endpointVars, reportVars, HolderHasLock, SeenIsTheRun, SweepIsSure
<1>3. (StreakHasStart /\ NoticesPast /\ RunIsTheStreak /\ OncePerRun /\ FingerprintIsOwed)'
  BY DEF HealthInv, TypeOK, Tick, endpointVars, StreakHasStart, NoticesPast, RunIsTheStreak,
         OncePerRun, FingerprintIsOwed
<1> QED
  BY <1>1, <1>2, <1>3 DEF HealthInv

(***************************************************************************)
(* Disablement, by whoever holds the row.                                   *)
(***************************************************************************)
LEMMA Disables ==
  ASSUME TypeOK, NoticesPast, OncePerRun, FingerprintIsOwed, DisableEndpoint(streak.no),
         streak'.no = streak.no
  PROVE  /\ enabled' \in BOOLEAN /\ disabledAt' \in Nat \cup {Never}
         /\ notices \subseteq notices' /\ notices' \subseteq Nat \X Nat
         /\ NoticesPast' /\ OncePerRun' /\ FingerprintIsOwed'
<1>1. CASE enabled
  <2> DEFINE owed == <<streak.no, Cardinality(notices)>>
  <2>1. notices' = notices \cup {owed} /\ enabled' = FALSE /\ disabledAt' = clock
    BY <1>1 DEF DisableEndpoint
  <2>2. owed \in Nat \X Nat /\ owed[1] = streak.no
    BY FS_CardinalityType DEF TypeOK, NoticesPast
  <2>3. IsFiniteSet(notices')
    BY <2>1, FS_AddElement DEF NoticesPast
  <2> HIDE DEF owed
  <2>4. NoticesPast'
    BY <2>1, <2>2, <2>3 DEF NoticesPast, TypeOK
  <2>5. OncePerRun'
    BY <2>1, <2>2, <1>1 DEF OncePerRun, NoticesPast
  <2>6. FingerprintIsOwed'
    BY <2>1, <2>2 DEF FingerprintIsOwed, TypeOK
  <2>7. clock \in Nat /\ notices \subseteq Nat \X Nat
    BY DEF TypeOK
  <2> QED
    BY <2>1, <2>2, <2>4, <2>5, <2>6, <2>7
<1>2. CASE ~enabled
  BY <1>2 DEF DisableEndpoint, TypeOK, NoticesPast, OncePerRun, FingerprintIsOwed
<1> QED
  BY <1>1, <1>2 DEF TypeOK

(***************************************************************************)
(* Reports.                                                                 *)
(***************************************************************************)
LEMMA LockKeeps ==
  ASSUME HealthInv, NEW r \in Report,
         RepeatedReport(r) \/ LockEndpoint(r) \/ RollBack(r)
  PROVE  HealthInv'
<1> USE DEF HealthInv
<1>1. r \in Report \cup Instance /\ r # Nobody /\ r \notin Instance
  BY ReportsAssumption
<1>2. TypeOK'
  <2> USE DEF TypeOK, Goto, endpointVars, reportVars, relayVars, boundVars, Healthy, Run
  <2>1. CASE RepeatedReport(r)
    BY <1>1, <2>1, BoundAssumption DEF RepeatedReport
  <2>2. CASE LockEndpoint(r)
    BY <1>1, <2>2, BoundAssumption DEF LockEndpoint
  <2>3. CASE RollBack(r)
    BY <1>1, <2>3, BoundAssumption DEF RollBack
  <2> QED
    BY <2>1, <2>2, <2>3
<1>3. UNCHANGED <<clock, endpointVars>>
  BY DEF RepeatedReport, LockEndpoint, RollBack
<1>4. (StreakHasStart /\ NoticesPast /\ RunIsTheStreak /\ OncePerRun /\ FingerprintIsOwed)'
  BY <1>3
     DEF endpointVars, StreakHasStart, NoticesPast, RunIsTheStreak, OncePerRun, FingerprintIsOwed
<1>5. \A i \in Instance : pc'[i] = pc[i]
  BY <1>1 DEF TypeOK, RepeatedReport, LockEndpoint, RollBack, Goto
<1>6. SweepIsSure'
  BY <1>3, <1>5 DEF SweepIsSure, endpointVars
<1>7. HolderHasLock'
  BY <1>1, ReportsAssumption
     DEF TypeOK, HolderHasLock, RepeatedReport, LockEndpoint, RollBack, Goto, Free
<1>8. SeenIsTheRun'
  BY <1>1, <1>3
     DEF TypeOK, SeenIsTheRun, RepeatedReport, LockEndpoint, RollBack, Goto, reportVars, endpointVars
<1> QED
  BY <1>2, <1>4, <1>6, <1>7, <1>8

LEMMA CommitFrees ==
  ASSUME HealthInv, NEW r \in Report, CommitReport(r)
  PROVE  /\ lock = r /\ lock' = Nobody /\ clock' = clock
         /\ pc'[r] = "done" /\ \A p \in Report \cup Instance : pc'[p] # "holds"
         /\ pc' \in [Report \cup Instance -> {"new", "holds", "done"}]
BY ReportsAssumption DEF HealthInv, TypeOK, HolderHasLock, CommitReport, Goto

LEMMA CommitKeeps ==
  ASSUME HealthInv, NEW r \in Report, CommitReport(r)
  PROVE  HealthInv'
<1> USE DEF HealthInv
<1>1. /\ lock' = Nobody /\ clock' = clock /\ seen[r] = run
      /\ \A p \in Report \cup Instance : pc'[p] # "holds"
      /\ pc' \in [Report \cup Instance -> {"new", "holds", "done"}]
  BY CommitFrees DEF CommitReport, SeenIsTheRun
<1>2. (HolderHasLock /\ SeenIsTheRun /\ SweepIsSure)'
  BY <1>1, ReportsAssumption DEF HolderHasLock, SeenIsTheRun, SweepIsSure
<1>3. ASSUME RecordSuccess(r)
      PROVE  /\ (StreakHasStart /\ NoticesPast /\ RunIsTheStreak /\ OncePerRun /\ FingerprintIsOwed)'
             /\ enabled' \in BOOLEAN /\ disabledAt' \in Nat \cup {Never} /\ deleted' \in BOOLEAN
             /\ notices \subseteq notices' /\ notices' \subseteq Nat \X Nat
             /\ run' \in Run /\ streak' \in [since : Nat \cup {Never}, attempts : Nat, no : Nat]
  BY <1>1, <1>3
     DEF RecordSuccess, Ended, Healthy, TypeOK, Run, StreakHasStart, NoticesPast, RunIsTheStreak,
         OncePerRun, FingerprintIsOwed
<1>4. ASSUME RecordFailure(r)
      PROVE  /\ (StreakHasStart /\ NoticesPast /\ RunIsTheStreak /\ OncePerRun /\ FingerprintIsOwed)'
             /\ enabled' \in BOOLEAN /\ disabledAt' \in Nat \cup {Never} /\ deleted' \in BOOLEAN
             /\ notices \subseteq notices' /\ notices' \subseteq Nat \X Nat
             /\ run' \in Run /\ streak' \in [since : Nat \cup {Never}, attempts : Nat, no : Nat]
  <2>1. run' = Extended(run) /\ streak' = OneMore
    BY <1>1, <1>4 DEF RecordFailure
  <2>2. /\ streak'.no = streak.no /\ streak'.attempts = streak.attempts + 1
        /\ streak'.since = IF streak.attempts = 0 THEN clock ELSE streak.since
        /\ streak' \in [since : Nat \cup {Never}, attempts : Nat, no : Nat]
    <3>1. streak \in [since : Nat \cup {Never}, attempts : Nat, no : Nat] /\ clock \in Nat
      BY DEF TypeOK
    <3>2. CASE streak.attempts = 0
      BY <2>1, <3>1, <3>2 DEF OneMore
    <3>3. CASE streak.attempts # 0
      BY <2>1, <3>1, <3>3 DEF OneMore
    <3> QED
      BY <3>2, <3>3
  <2>3. run' \in Run /\ RunIsTheStreak' /\ StreakHasStart'
    BY <1>1, <2>1, <2>2, ReportsAssumption
       DEF Extended, RunIsTheStreak, StreakHasStart, TypeOK, Run
  <2>4. DisableEndpoint(streak.no) \/ UNCHANGED <<enabled, disabledAt, notices>>
    BY <1>4 DEF RecordFailure
  <2>5. CASE DisableEndpoint(streak.no)
    BY <1>4, <2>2, <2>3, <2>5, Disables DEF RecordFailure, TypeOK
  <2>6. CASE UNCHANGED <<enabled, disabledAt, notices>>
    BY <1>4, <2>2, <2>3, <2>6
       DEF RecordFailure, TypeOK, NoticesPast, OncePerRun, FingerprintIsOwed
  <2> QED
    BY <2>4, <2>5, <2>6
<1>5. TypeOK'
  <2>1. recorded' \subseteq {AttemptOf[s] : s \in Report} /\ seen' \in [Report -> Run]
    BY DEF CommitReport, TypeOK, Healthy, Run
  <2>2. UNCHANGED <<delivered, claimed, handled, thrown, told, unaddressed, switches, trouble>>
    BY DEF CommitReport, relayVars, boundVars
  <2> QED
    BY <1>1, <1>3, <1>4, <2>1, <2>2 DEF CommitReport, TypeOK
<1> QED
  BY <1>2, <1>3, <1>4, <1>5 DEF CommitReport

(***************************************************************************)
(* The sweep and the customer.                                              *)
(***************************************************************************)
LEMMA SweepKeeps ==
  ASSUME HealthInv, NEW i \in Instance, SweepStep(i)
  PROVE  HealthInv'
<1> USE DEF HealthInv
<1>1. i \in Report \cup Instance /\ i # Nobody /\ i \notin Report
  BY ReportsAssumption
<1>2. CASE SweepFinds(i)
  <2>1. TypeOK'
    BY <1>1, <1>2 DEF TypeOK, SweepFinds, Goto, endpointVars, reportVars, relayVars, boundVars, Run
  <2>2. UNCHANGED <<clock, endpointVars, seen>>
    BY <1>2 DEF SweepFinds, reportVars
  <2>3. (StreakHasStart /\ NoticesPast /\ RunIsTheStreak /\ OncePerRun /\ FingerprintIsOwed)'
    BY <2>2
       DEF endpointVars, StreakHasStart, NoticesPast, RunIsTheStreak, OncePerRun, FingerprintIsOwed
  <2>4. HolderHasLock'
    BY <1>1, <1>2, ReportsAssumption DEF TypeOK, HolderHasLock, SweepFinds, Goto, Free
  <2>5. SeenIsTheRun'
    BY <1>1, <1>2, <2>2 DEF TypeOK, SeenIsTheRun, SweepFinds, Goto, endpointVars
  <2>6. enabled /\ streak.attempts >= MinAttempts /\ clock - streak.since > Hour
    BY <1>2 DEF SweepFinds, LongFailing, ShouldDisable, RunIsTheStreak
  <2>7. SweepIsSure'
    BY <2>2, <2>6 DEF SweepIsSure, endpointVars
  <2> QED
    BY <2>1, <2>3, <2>4, <2>5, <2>7
<1>3. CASE SweepDisables(i)
  <2>1. /\ lock' = Nobody /\ UNCHANGED <<clock, deleted, run, streak, seen>>
        /\ \A p \in Report \cup Instance : pc'[p] # "holds"
        /\ pc' \in [Report \cup Instance -> {"new", "holds", "done"}]
    BY <1>1, <1>3, ReportsAssumption DEF TypeOK, HolderHasLock, SweepDisables, Goto, reportVars
  <2>2. (HolderHasLock /\ SeenIsTheRun /\ SweepIsSure)'
    BY <2>1, ReportsAssumption DEF HolderHasLock, SeenIsTheRun, SweepIsSure
  <2>3. /\ enabled' \in BOOLEAN /\ disabledAt' \in Nat \cup {Never}
        /\ notices \subseteq notices' /\ notices' \subseteq Nat \X Nat
        /\ NoticesPast' /\ OncePerRun' /\ FingerprintIsOwed'
    BY <1>3, <2>1, Disables DEF SweepDisables
  <2>4. StreakHasStart' /\ RunIsTheStreak'
    BY <2>1 DEF StreakHasStart, RunIsTheStreak
  <2>5. TypeOK'
    BY <1>3, <2>1, <2>3 DEF TypeOK, SweepDisables, reportVars, relayVars, boundVars
  <2> QED
    BY <2>2, <2>3, <2>4, <2>5
<1> QED
  BY <1>2, <1>3 DEF SweepStep

LEMMA CustomerKeeps ==
  ASSUME HealthInv, SwitchOn \/ SwitchOff \/ DeleteEndpoint
  PROVE  HealthInv'
<1> USE DEF HealthInv
<1>1. /\ Free /\ UNCHANGED <<clock, lock, pc, recorded, seen, notices>>
      /\ UNCHANGED <<delivered, claimed, handled, thrown, told, unaddressed, trouble>>
  BY DEF SwitchOn, SwitchOff, DeleteEndpoint, reportVars, relayVars
<1>2. (HolderHasLock /\ SeenIsTheRun /\ SweepIsSure)'
  BY <1>1, ReportsAssumption DEF HolderHasLock, SeenIsTheRun, SweepIsSure, Free
<1>3. (StreakHasStart /\ NoticesPast /\ RunIsTheStreak /\ OncePerRun)'
  BY <1>1
     DEF SwitchOn, SwitchOff, DeleteEndpoint, TypeOK, StreakHasStart, NoticesPast, RunIsTheStreak,
         OncePerRun, Ended, Healthy
<1>4. FingerprintIsOwed'
  BY <1>1 DEF SwitchOn, SwitchOff, DeleteEndpoint, TypeOK, FingerprintIsOwed
<1>5. TypeOK'
  <2>1. Healthy \in Run /\ Ended \in [since : Nat \cup {Never}, attempts : Nat, no : Nat]
    BY DEF Healthy, Run, Ended, TypeOK
  <2>2. CASE SwitchOn
    <3>1. /\ run' \in Run /\ streak' \in [since : Nat \cup {Never}, attempts : Nat, no : Nat]
          /\ switches' \in 0..MaxSwitches
      BY <2>1, <2>2, BoundAssumption DEF SwitchOn, TypeOK
    <3>2. enabled' \in BOOLEAN /\ deleted' \in BOOLEAN /\ disabledAt' \in Nat \cup {Never}
      BY <2>2 DEF SwitchOn, TypeOK
    <3> QED
      BY <1>1, <3>1, <3>2 DEF TypeOK
  <2>3. CASE SwitchOff
    <3>1. /\ enabled' = FALSE /\ switches' \in 0..MaxSwitches
          /\ UNCHANGED <<deleted, disabledAt, run, streak>>
      BY <2>3, BoundAssumption DEF SwitchOff, TypeOK
    <3>2. run' \in Run /\ streak' \in [since : Nat \cup {Never}, attempts : Nat, no : Nat]
      BY <3>1 DEF TypeOK
    <3> QED
      BY <1>1, <3>1, <3>2 DEF TypeOK
  <2>4. CASE DeleteEndpoint
    BY <1>1, <2>4, BoundAssumption DEF DeleteEndpoint, TypeOK, Run
  <2> QED
    BY <2>2, <2>3, <2>4
<1> QED
  BY <1>2, <1>3, <1>4, <1>5

LEMMA NextKeeps == HealthInv /\ [Next]_vars => HealthInv'
<1> SUFFICES ASSUME HealthInv, [Next]_vars PROVE HealthInv'
  OBVIOUS
<1>1. CASE UNCHANGED vars
  <2>1. TypeOK'
    BY <1>1
       DEF vars, HealthInv, TypeOK, endpointVars, reportVars, relayVars, boundVars, Run
  <2> QED
    BY <1>1, <2>1, ElsewhereKeeps DEF vars, reportVars
<1> QED
  BY <1>1, RelayKeeps, TickKeeps, LockKeeps, CommitKeeps, SweepKeeps, CustomerKeeps DEF Next

(***************************************************************************)
(* The theorems.                                                            *)
(***************************************************************************)
THEOREM InvariantHolds == Spec => []HealthInv
<1>1. Init => HealthInv
  BY InitHolds
<1> QED
  BY <1>1, NextKeeps, PTL DEF Spec

\* Every variable keeps its type.
THEOREM TypeCorrect == Spec => []TypeOK
<1>1. HealthInv => TypeOK
  BY DEF HealthInv
<1> QED
  BY <1>1, InvariantHolds, PTL

\* The row's run is what was really recorded: no failure is lost to an overlap.
THEOREM RunIsRecorded == Spec => []RunIsTheStreak
<1>1. HealthInv => RunIsTheStreak
  BY DEF HealthInv
<1> QED
  BY <1>1, InvariantHolds, PTL

\* One notification for a run, however many reports and sweeps find it long enough.
THEOREM NotifiedOnce == Spec => []OncePerRun
<1>1. HealthInv => OncePerRun
  BY DEF HealthInv
<1> QED
  BY <1>1, InvariantHolds, PTL

\* disabled_at is set only while the platform's disablement stands, and is owed a mail.
THEOREM FingerprintOwed == Spec => []FingerprintIsOwed
<1>1. HealthInv => FingerprintIsOwed
  BY DEF HealthInv
<1> QED
  BY <1>1, InvariantHolds, PTL

\* Only an endpoint that is on and has failed long and often enough is switched off.
THEOREM DisabledOnlyForCause == Spec => DisabledForCause
<1> DEFINE Cause == disabledAt' # disabledAt /\ disabledAt' # Never =>
              enabled /\ streak'.attempts >= MinAttempts /\ clock - streak'.since > Hour
<1>1. ASSUME HealthInv, [Next]_vars PROVE [Cause]_vars
  <2> USE DEF HealthInv
  <2> SUFFICES ASSUME Next, disabledAt' # disabledAt, disabledAt' # Never
               PROVE  enabled /\ streak'.attempts >= MinAttempts /\ clock - streak'.since > Hour
    BY <1>1
  <2>1. ASSUME NEW r \in Report, CommitReport(r)
        PROVE  enabled /\ streak'.attempts >= MinAttempts /\ clock - streak'.since > Hour
    <3>1. seen[r] = run /\ RecordFailure(r)
      BY <1>1, <2>1 DEF CommitReport, RecordSuccess, SeenIsTheRun
    <3>2. enabled /\ ShouldDisable(Extended(run))
      BY <3>1 DEF RecordFailure, DisableEndpoint
    <3>3. Extended(run).attempts = streak'.attempts /\ Extended(run).since = streak'.since
      BY <1>1, <3>1, ReportsAssumption
         DEF RecordFailure, Extended, OneMore, RunIsTheStreak, StreakHasStart, TypeOK
    <3> QED
      BY <3>2, <3>3 DEF ShouldDisable
  <2>2. ASSUME NEW i \in Instance, SweepStep(i)
        PROVE  enabled /\ streak'.attempts >= MinAttempts /\ clock - streak'.since > Hour
    BY <1>1, <2>2 DEF SweepStep, SweepFinds, SweepDisables, SweepIsSure, endpointVars
  <2>3. ASSUME NEW r \in Report, RepeatedReport(r) \/ LockEndpoint(r) \/ RollBack(r) PROVE FALSE
    BY <2>3 DEF RepeatedReport, LockEndpoint, RollBack, endpointVars
  <2>4. ASSUME NEW q \in Relay, RelayStep(q) \/ MailThrows(q) \/ RelayCrashes(q) PROVE FALSE
    BY <2>4 DEF RelayStep, Claim, Mail, CommitPass, MailThrows, RelayCrashes, endpointVars
  <2>5. ~(Tick \/ SwitchOn \/ SwitchOff \/ DeleteEndpoint)
    BY DEF Tick, SwitchOn, SwitchOff, DeleteEndpoint, endpointVars
  <2> QED
    BY <2>1, <2>2, <2>3, <2>4, <2>5 DEF Next
<1> QED
  BY <1>1, InvariantHolds, PTL DEF Spec, DisabledForCause
================================================================================
