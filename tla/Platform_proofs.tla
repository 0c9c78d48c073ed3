--------------------------- MODULE Platform_proofs ---------------------------
(***************************************************************************)
(* Proofs about three parts that share no state. HostedMedia: any number of *)
(* objects, workers, messages and troubles. GatewayMembership: any number   *)
(* of users, channels and connections of an instance. RateLimits: any       *)
(* number of processes, requests, windows, outages and restarts, and any    *)
(* limits.                                                                  *)
(***************************************************************************)
EXTENDS HostedMedia, GatewayMembership, RateLimits, FiniteSetTheorems, TLAPS

--------------------------------------------------------------------------------
(* HostedMedia *)

\* The environment's row is locked by whoever has summed and not yet inserted.
LockInv == \A o \in Object : slot[o] = "summed" => envLock = o

\* A row is there only after its slot was granted, and a slot is granted once.
SlotInv == \A o \in Object : slot[o] # "done" => row[o] = "none"

CountInv ==
  /\ Cardinality(Charged) <= Cap
  /\ \A o \in Object : slot[o] = "summed" => Cardinality(Charged) <= sum[o]

\* What a worker is at was uploaded, and its bytes are there until somebody's verdict.
AtWorkInv == \A w \in Worker : job[w].stage # "idle" => job[w].object \in Object
Unjudged(w) == job[w].stage \in {"judged", "rendered"}
JobInv ==
  \A w \in Worker : job[w].stage # "idle" =>
    /\ row[job[w].object] # "none"
    /\ Unjudged(w) /\ row[job[w].object] = "pending" =>
         /\ job[w].object \in stored
         /\ job[w].thumb # 0 => <<job[w].object, job[w].thumb>> \in stored
BytesInv ==
  \A o \in Object :
    row[o] = "ready" => o \in stored /\ (thumb[o] # 0 => <<o, thumb[o]>> \in stored)

\* Of the workers at an object one at most has had its verdict recorded, and nothing
\* was announced before that.
Recorded(w) == job[w].stage \in {"applied", "settled"}
VerdictInv ==
  \A w \in Worker : Recorded(w) =>
    /\ row[job[w].object] \in {job[w].verdict, "gone"}
    /\ announced[job[w].object] = <<>>
    /\ \A v \in Worker : Recorded(v) /\ job[v].object = job[w].object => v = w
AnnouncedInv ==
  \A o \in Object :
    announced[o] # <<>> => \E v \in Verdict : announced[o] = <<v>> /\ row[o] \in {v, "gone"}

\* What the sweep is about to delete no message in good time attaches.
Attaching(m) == message[m] \in {"checked", "sent"} /\ m \notin late
SweepInv ==
  /\ sweep.stage \in {"checked", "read"} =>
       \A m \in Message : Attaching(m) => MediaOf[m] \notin sweep.objects
  /\ sweep.stage \in {"read", "deleted"} =>
       sweep.keys \subseteq sweep.objects \cup (sweep.objects \X Nat)
  /\ sweep.stage = "deleted" => \A o \in sweep.objects : row[o] = "gone"
AttachedInv == \A m \in Message : Attaching(m) => row[MediaOf[m]] # "gone"

\* Only objects whose slot was granted are attached, or swept.
GrantedInv ==
  /\ \A m \in Message : message[m] \in {"checked", "sent"} => slot[MediaOf[m]] = "done"
  /\ \A o \in sweep.objects : slot[o] = "done"

MediaInv == LockInv /\ SlotInv /\ CountInv /\ JobInv /\ BytesInv /\ VerdictInv /\ AnnouncedInv
            /\ SweepInv /\ AttachedInv /\ GrantedInv

Jobs == [stage : {"idle", "judged", "rendered", "applied", "settled"},
         object : Object \cup {None}, verdict : Verdict, thumb : Nat]

\* Objects can be counted, and granting one adds one at most.
LEMMA NumbersOfObjects ==
  ASSUME NEW S \in SUBSET Object
  PROVE  /\ IsFiniteSet(S) /\ Cardinality(S) \in Nat
         /\ \A T \in SUBSET S : Cardinality(T) <= Cardinality(S)
         /\ \A o \in Object : Cardinality(S \cup {o}) <= Cardinality(S) + 1
<1>1. IsFiniteSet(S)
  BY MediaAssumption, FS_Subset
<1>2. \A T \in SUBSET S : Cardinality(T) <= Cardinality(S)
  BY <1>1, FS_Subset
<1>3. ASSUME NEW o \in Object PROVE Cardinality(S \cup {o}) <= Cardinality(S) + 1
  BY <1>1, FS_AddElement, FS_CardinalityType
<1> QED
  BY <1>1, <1>2, <1>3, FS_CardinalityType

\* The key of a thumbnail is not that of an object.
LEMMA KeysDiffer == \A o, p \in Object, n \in Nat : <<o, n>> # p
<1> SUFFICES ASSUME NEW o \in Object, NEW p \in Object, NEW n \in Nat, <<o, n>> = p PROVE FALSE
  OBVIOUS
<1>1. <<o, n>> \in Object \X Nat
  OBVIOUS
<1> QED
  BY <1>1, KeyAssumption

\* The sum that a slot request reads is a number.
LEMMA CommittedIsNat == Committed \in Nat
<1>1. Cardinality(Charged) \in Nat
  BY NumbersOfObjects DEF Charged
<1>2. Cardinality(Thumbs) \in Nat
  BY NumbersOfObjects DEF Thumbs
<1> QED
  BY <1>1, <1>2 DEF Committed

\* What a worker writes about its job has the type of one.
LEMMA JobSteps ==
  ASSUME TypeOK, NEW w \in Worker
  PROVE  /\ [job EXCEPT ![w] = NoJob] \in [Worker -> Jobs]
         /\ \A stage \in {"rendered", "applied", "settled"} :
              [job EXCEPT ![w].stage = stage] \in [Worker -> Jobs]
<1>1. job \in [Worker -> Jobs]
  BY DEF TypeOK, Jobs
<1>2. NoJob \in Jobs
  BY DEF NoJob, Jobs, Verdict
<1>3. ASSUME NEW stage \in {"rendered", "applied", "settled"}
      PROVE  [job[w] EXCEPT !.stage = stage] \in Jobs
  BY <1>1 DEF Jobs
<1> QED
  BY <1>1, <1>2, <1>3

\* A worker that is not idle is at an object.
LEMMA AtWorkPreserved == TypeOK /\ AtWorkInv /\ [Next]_vars => AtWorkInv'
<1> SUFFICES ASSUME TypeOK, AtWorkInv, [Next]_vars PROVE AtWorkInv'
  OBVIOUS
<1>1. ASSUME UNCHANGED job PROVE AtWorkInv'
  BY <1>1 DEF AtWorkInv
<1>2. ASSUME NEW w \in Worker, NEW o \in Object, Judge(w, o) PROVE AtWorkInv'
  BY <1>2 DEF Judge, AtWorkInv, TypeOK
<1>3. ASSUME NEW w \in Worker, NEW stage \in {"rendered", "applied", "settled"},
             job[w].stage # "idle", job' = [job EXCEPT ![w].stage = stage]
      PROVE  AtWorkInv'
  BY <1>3 DEF AtWorkInv, TypeOK
<1>4. ASSUME NEW w \in Worker, Render(w) PROVE AtWorkInv'
  BY <1>4 DEF Render, AtWorkInv, TypeOK
<1>5. ASSUME NEW w \in Worker, job' = [job EXCEPT ![w] = NoJob] PROVE AtWorkInv'
  BY <1>5 DEF NoJob, AtWorkInv, TypeOK
<1>6. ASSUME NEW w \in Worker, Settle(w) \/ KeepRejected(w) \/ VerdictLost(w) PROVE AtWorkInv'
  <2>1. CASE RenderNone(w)
    BY <2>1, <1>3 DEF RenderNone, Becomes
  <2>2. CASE RecordVerdict(w)
    BY <2>2, <1>3 DEF RecordVerdict, Becomes
  <2>3. CASE DropRejected(w)
    BY <2>3, <1>3 DEF DropRejected, Becomes
  <2>4. CASE KeepRejected(w)
    BY <2>4, <1>3 DEF KeepRejected, Attempt, Becomes
  <2> QED
    BY <1>6, <2>1, <2>2, <2>3, <2>4, <1>4, <1>5 DEF Settle, VerdictTooLate, Announce, VerdictLost
<1>7. CASE \E o \in Object : SlotStep(o) \/ Upload(o) \/ Age(o)
  BY <1>7, <1>1 DEF SlotStep, SumCommitted, InsertSlot, RefuseSlot, Upload, Age
<1>8. CASE \E m \in Message : CheckAttachable(m) \/ CommitMessage(m)
  BY <1>8, <1>1 DEF CheckAttachable, CommitMessage
<1>9. CASE DestroyExpired \/ SweepStep \/ SweepCrashes
  BY <1>9, <1>1 DEF DestroyExpired, SweepStep, SweepCrashes, CheckReferences, ReadKeys,
                    DeleteRows, DeleteBytes
<1>10. CASE UNCHANGED vars
  BY <1>10, <1>1 DEF vars
<1> QED
  BY <1>2, <1>6, <1>7, <1>8, <1>9, <1>10 DEF Next

\* Every variable has its type in every reachable state.
THEOREM MediaTypeCorrect == Spec => []TypeOK
<1>1. Init => TypeOK /\ AtWorkInv
  BY MediaAssumption, BoundAssumption DEF Init, TypeOK, AtWorkInv, NoJob, NoSweep, Verdict
<1>2. TypeOK /\ AtWorkInv /\ [Next]_vars => TypeOK'
  <2> SUFFICES ASSUME TypeOK, AtWorkInv, [Next]_vars PROVE TypeOK'
    OBVIOUS
  <2> USE MediaAssumption, BoundAssumption DEF TypeOK, rowVars, slotVars, messageVars, Verdict, Key
  <2>1. ASSUME NEW o \in Object, SumCommitted(o) PROVE TypeOK'
    BY <2>1, CommittedIsNat DEF SumCommitted
  <2>2. ASSUME NEW o \in Object, InsertSlot(o) PROVE TypeOK'
    <3>1. meter' \subseteq Key \X {"reserved", "rejected", "rendition", "deleted"}
      BY <2>2 DEF InsertSlot, Publish
    <3> QED
      BY <2>2, <3>1 DEF InsertSlot, UnlockEnvironment
  <2>3. ASSUME NEW o \in Object, RefuseSlot(o) PROVE TypeOK'
    BY <2>3 DEF RefuseSlot, UnlockEnvironment
  <2>4. ASSUME NEW o \in Object, Upload(o) PROVE TypeOK'
    BY <2>4 DEF Upload
  <2>5. ASSUME NEW o \in Object, Age(o) PROVE TypeOK'
    BY <2>5 DEF Age
  <2>6. ASSUME NEW w \in Worker, NEW o \in Object, Judge(w, o) PROVE TypeOK'
    <3>1. \A v \in Verdict : [stage |-> "judged", object |-> o, verdict |-> v, thumb |-> 0] \in Jobs
      BY <2>6 DEF Jobs
    <3>2. job' \in [Worker -> Jobs]
      BY <2>6, <3>1 DEF Judge, Jobs
    <3> QED
      BY <2>6, <3>2 DEF Judge, Jobs
  <2>7. ASSUME NEW w \in Worker, RenderNone(w) PROVE TypeOK'
    <3>1. job' \in [Worker -> Jobs]
      BY <2>7, JobSteps DEF RenderNone, Becomes
    <3> QED
      BY <2>7, <3>1 DEF RenderNone, Jobs
  <2>8. ASSUME NEW w \in Worker, Render(w) PROVE TypeOK'
    <3>1. PICK n \in 1..MaxKeys :
            /\ stored' = stored \cup {<<job[w].object, n>>}
            /\ job' = [job EXCEPT ![w].stage = "rendered", ![w].thumb = n]
      BY <2>8 DEF Render, FreshKeys
    <3>2. job[w].object \in Object
      BY <2>8 DEF Render, AtWorkInv
    <3>6. job[w] \in Jobs /\ n \in Nat
      BY <2>8 DEF Jobs
    <3>3. [job[w] EXCEPT !.stage = "rendered", !.thumb = n] \in Jobs
      BY <3>6 DEF Jobs
    <3>4. job' \in [Worker -> Jobs]
      BY <3>1, <3>3 DEF Jobs
    <3>5. stored' \subseteq Key
      BY <3>1, <3>2
    <3> QED
      BY <2>8, <3>4, <3>5 DEF Render, Jobs
  <2>9. ASSUME NEW w \in Worker, RecordVerdict(w) PROVE TypeOK'
    <3>1. job' \in [Worker -> Jobs]
      BY <2>9, JobSteps DEF RecordVerdict, Becomes
    <3>2. job[w].verdict \in {"ready", "rejected"} /\ job[w].thumb \in Nat
      BY <2>9
    <3>3. row' \in [Object -> {"none", "pending", "ready", "rejected", "gone"}]
      BY <2>9, <3>2 DEF RecordVerdict
    <3> QED
      BY <2>9, <3>1, <3>2, <3>3 DEF RecordVerdict, Jobs
  <2>10. ASSUME NEW w \in Worker, VerdictTooLate(w) PROVE TypeOK'
    BY <2>10 DEF VerdictTooLate, Applies, NoJob
  <2>11. ASSUME NEW w \in Worker, DropRejected(w) PROVE TypeOK'
    <3>1. job' \in [Worker -> Jobs]
      BY <2>11, JobSteps DEF DropRejected, Becomes
    <3> QED
      BY <2>11, <3>1 DEF DropRejected, Jobs
  <2>12. ASSUME NEW w \in Worker, KeepRejected(w) PROVE TypeOK'
    <3>1. job' \in [Worker -> Jobs]
      BY <2>12, JobSteps DEF KeepRejected, Becomes
    <3>2. trouble' \in 0..MaxTrouble
      BY <2>12 DEF KeepRejected, Attempt
    <3> QED
      BY <2>12, <3>1, <3>2 DEF KeepRejected, Jobs
  <2>13. ASSUME NEW w \in Worker, Announce(w) PROVE TypeOK'
    <3>1. job' \in [Worker -> Jobs]
      BY <2>13, JobSteps DEF Announce
    <3>2. job[w] \in Jobs /\ job[w].object \in Object
      BY <2>13 DEF Announce, AtWorkInv, Jobs
    <3>3. DeltaOf(job[w]) \subseteq Key \X {"reserved", "rejected", "rendition", "deleted"}
      BY <3>2 DEF DeltaOf, Jobs
    <3>4. announced' \in [Object -> Seq(Verdict)]
      BY <2>13, <3>2 DEF Announce, Jobs
    <3> QED
      BY <2>13, <3>1, <3>3, <3>4 DEF Announce, Publish, Jobs
  <2>14. ASSUME NEW w \in Worker, VerdictLost(w) PROVE TypeOK'
    <3>1. job' \in [Worker -> Jobs]
      BY <2>14, JobSteps DEF VerdictLost
    <3>2. trouble' \in 0..MaxTrouble
      BY <2>14 DEF VerdictLost, Attempt
    <3> QED
      BY <2>14, <3>1, <3>2 DEF VerdictLost, Jobs
  <2>15. ASSUME NEW m \in Message, CheckAttachable(m) PROVE TypeOK'
    BY <2>15 DEF CheckAttachable
  <2>16. ASSUME NEW m \in Message, CommitMessage(m) PROVE TypeOK'
    BY <2>16 DEF CommitMessage
  <2>17. CASE DestroyExpired
    <3>1. PICK page \in SUBSET Sent :
            /\ message' = [m \in Message |-> IF m \in page THEN "destroyed" ELSE message[m]]
            /\ sweep' = [NoSweep EXCEPT !.stage = "destroyed", !.objects = NamedBy(page)]
      BY <2>17 DEF DestroyExpired
    <3>2. NamedBy(page) \subseteq Object
      BY DEF NamedBy, Sent
    <3>3. sweep' = [stage |-> "destroyed", objects |-> NamedBy(page), keys |-> {}]
      BY <3>1 DEF NoSweep
    <3>4. sweep' \in [stage : {"idle", "destroyed", "checked", "read", "deleted"},
                      objects : SUBSET Object, keys : SUBSET Key]
      BY <3>2, <3>3
    <3>5. message' \in [Message -> {"new", "checked", "sent", "refused", "destroyed"}]
      BY <3>1
    <3> QED
      BY <2>17, <3>4, <3>5 DEF DestroyExpired
  <2>18. CASE CheckReferences
    <3>1. sweep' \in [stage : {"idle", "destroyed", "checked", "read", "deleted"},
                      objects : SUBSET Object, keys : SUBSET Key]
      BY <2>18 DEF CheckReferences, Unreferenced, NamedBy, Sent, NoSweep
    <3> QED
      BY <2>18, <3>1 DEF CheckReferences
  <2>19. CASE ReadKeys
    <3>1. sweep' \in [stage : {"idle", "destroyed", "checked", "read", "deleted"},
                      objects : SUBSET Object, keys : SUBSET Key]
      BY <2>19 DEF ReadKeys, Thumbs, NoSweep
    <3> QED
      BY <2>19, <3>1 DEF ReadKeys
  <2>20. CASE DeleteRows
    <3>1. sweep' \in [stage : {"idle", "destroyed", "checked", "read", "deleted"},
                      objects : SUBSET Object, keys : SUBSET Key]
      BY <2>20 DEF DeleteRows, NoSweep
    <3> QED
      BY <2>20, <3>1 DEF DeleteRows
  <2>21. CASE DeleteBytes
    <3>1. meter' \subseteq Key \X {"reserved", "rejected", "rendition", "deleted"}
      BY <2>21 DEF DeleteBytes, Publish
    <3>2. sweep' \in [stage : {"idle", "destroyed", "checked", "read", "deleted"},
                      objects : SUBSET Object, keys : SUBSET Key]
      BY <2>21 DEF DeleteBytes, NoSweep
    <3> QED
      BY <2>21, <3>1, <3>2 DEF DeleteBytes
  <2>22. CASE SweepCrashes
    <3>1. sweep' \in [stage : {"idle", "destroyed", "checked", "read", "deleted"},
                      objects : SUBSET Object, keys : SUBSET Key]
      BY <2>22 DEF SweepCrashes, NoSweep
    <3>2. trouble' \in 0..MaxTrouble
      BY <2>22 DEF SweepCrashes, Attempt
    <3> QED
      BY <2>22, <3>1, <3>2 DEF SweepCrashes
  <2>23. CASE UNCHANGED vars
    BY <2>23 DEF vars
  <2> QED
    BY <2>1, <2>2, <2>3, <2>4, <2>5, <2>6, <2>7, <2>8, <2>9, <2>10, <2>11, <2>12,
       <2>13, <2>14, <2>15, <2>16, <2>17, <2>18, <2>19, <2>20, <2>21, <2>22, <2>23
       DEF Next, SlotStep, Settle, SweepStep
<1> QED
  BY <1>1, <1>2, AtWorkPreserved, PTL DEF Spec

\* A step that charges nothing new keeps every sum that was read an upper bound.
LEMMA FewerCharged ==
  ASSUME TypeOK, CountInv, Charged' \subseteq Charged, UNCHANGED <<slot, sum>>
  PROVE  CountInv'
<1>1. Cardinality(Charged') <= Cardinality(Charged)
  BY NumbersOfObjects DEF Charged
<1>2. Cardinality(Charged) \in Nat /\ Cardinality(Charged') \in Nat
  BY NumbersOfObjects DEF Charged
<1> QED
  BY <1>1, <1>2, MediaAssumption DEF CountInv, TypeOK

\* Every step of a slot request, a worker, a message and the sweep keeps the invariant,
\* one conjunct at a time.
LEMMA MediaPreserved == TypeOK /\ AtWorkInv /\ MediaInv /\ [Next]_vars => MediaInv'
<1> SUFFICES ASSUME TypeOK, AtWorkInv, MediaInv, [Next]_vars PROVE MediaInv'
  OBVIOUS
<1> USE MediaAssumption, KeyAssumption DEF MediaInv, TypeOK, rowVars, slotVars, messageVars, Verdict
<1>1. ASSUME NEW o \in Object, SumCommitted(o) PROVE MediaInv'
  <2>1. LockInv'
    BY <1>1 DEF SumCommitted, LockInv
  <2>2. SlotInv'
    BY <1>1 DEF SumCommitted, SlotInv
  <2>3. CountInv'
    <3>1. Cardinality(Charged) \in Nat /\ Cardinality(Thumbs) \in Nat
      BY NumbersOfObjects DEF Charged, Thumbs
    <3>2. Cardinality(Charged) <= Committed
      BY <3>1 DEF Committed
    <3>3. UNCHANGED Charged
      BY <1>1 DEF SumCommitted, Charged
    <3> QED
      BY <1>1, <3>1, <3>2, <3>3 DEF SumCommitted, CountInv
  <2>4. GrantedInv'
    BY <1>1 DEF SumCommitted, GrantedInv
  <2>5. JobInv' /\ BytesInv' /\ VerdictInv' /\ AnnouncedInv' /\ SweepInv' /\
     AttachedInv'
    BY <1>1 DEF SumCommitted, JobInv, BytesInv, VerdictInv, AnnouncedInv, SweepInv,
       AttachedInv, Unjudged, AtWorkInv, Recorded, Attaching
  <2> QED
    BY <2>1, <2>2, <2>3, <2>4, <2>5
<1>2. ASSUME NEW o \in Object, InsertSlot(o) PROVE MediaInv'
  <2>1. LockInv'
    BY <1>2 DEF InsertSlot, UnlockEnvironment, Publish, LockInv
  <2>2. SlotInv'
    BY <1>2 DEF InsertSlot, UnlockEnvironment, Publish, SlotInv
  <2>3. CountInv'
    <3>1. Charged' \in SUBSET (Charged \cup {o}) /\ Charged' \in SUBSET Object
      BY <1>2 DEF InsertSlot, Charged
    <3>2. Cardinality(Charged \cup {o}) <= Cardinality(Charged) + 1
      BY NumbersOfObjects DEF Charged
    <3>3. Cardinality(Charged') <= Cardinality(Charged \cup {o})
      BY <3>1, NumbersOfObjects DEF Charged
    <3>4. /\ Cardinality(Charged') \in Nat /\ Cardinality(Charged) \in Nat
          /\ Cardinality(Charged \cup {o}) \in Nat
      BY <3>1, NumbersOfObjects DEF Charged
    <3>5. Cardinality(Charged) <= sum[o] /\ sum[o] + 1 <= Cap /\ sum[o] \in Nat
      BY <1>2 DEF InsertSlot, CountInv
    <3>6. Cardinality(Charged') <= Cap
      BY <3>2, <3>3, <3>4, <3>5
    <3>7. \A p \in Object : slot'[p] # "summed"
      BY <1>2 DEF InsertSlot, LockInv
    <3> QED
      BY <3>6, <3>7 DEF CountInv
  <2>4. JobInv'
    BY <1>2 DEF InsertSlot, UnlockEnvironment, Publish, JobInv, SlotInv, Unjudged,
       AtWorkInv
  <2>5. BytesInv'
    BY <1>2 DEF InsertSlot, UnlockEnvironment, Publish, BytesInv
  <2>6. VerdictInv'
    BY <1>2 DEF InsertSlot, UnlockEnvironment, Publish, VerdictInv, SlotInv, JobInv,
       Recorded, AtWorkInv, Unjudged
  <2>7. AnnouncedInv'
    BY <1>2 DEF InsertSlot, UnlockEnvironment, Publish, AnnouncedInv, SlotInv
  <2>8. SweepInv'
    BY <1>2 DEF InsertSlot, UnlockEnvironment, Publish, SweepInv, SlotInv, Attaching
  <2>9. AttachedInv'
    BY <1>2 DEF InsertSlot, UnlockEnvironment, Publish, AttachedInv, Attaching
  <2>10. GrantedInv'
    BY <1>2 DEF InsertSlot, UnlockEnvironment, Publish, GrantedInv
  <2> QED
    BY <2>1, <2>2, <2>3, <2>4, <2>5, <2>6, <2>7, <2>8, <2>9, <2>10
<1>3. ASSUME NEW o \in Object, RefuseSlot(o) PROVE MediaInv'
  <2>1. LockInv'
    BY <1>3 DEF RefuseSlot, UnlockEnvironment, LockInv
  <2>2. SlotInv'
    BY <1>3 DEF RefuseSlot, UnlockEnvironment, SlotInv
  <2>3. CountInv'
    BY <1>3 DEF RefuseSlot, UnlockEnvironment, CountInv, Charged
  <2>4. GrantedInv'
    BY <1>3 DEF RefuseSlot, UnlockEnvironment, GrantedInv
  <2>5. JobInv' /\ BytesInv' /\ VerdictInv' /\ AnnouncedInv' /\ SweepInv' /\
     AttachedInv'
    BY <1>3 DEF RefuseSlot, UnlockEnvironment, JobInv, BytesInv, VerdictInv,
       AnnouncedInv, SweepInv, AttachedInv, Unjudged, AtWorkInv, Recorded, Attaching
  <2> QED
    BY <2>1, <2>2, <2>3, <2>4, <2>5
<1>4. ASSUME NEW o \in Object, Upload(o) PROVE MediaInv'
  <2>1. JobInv'
    BY <1>4 DEF Upload, JobInv, Unjudged, AtWorkInv
  <2>2. BytesInv'
    BY <1>4 DEF Upload, BytesInv
  <2>3. LockInv' /\ SlotInv' /\ CountInv' /\ VerdictInv' /\ AnnouncedInv' /\
     SweepInv' /\ AttachedInv' /\ GrantedInv'
    BY <1>4 DEF Upload, LockInv, SlotInv, CountInv, VerdictInv, AnnouncedInv,
       SweepInv, AttachedInv, GrantedInv, Recorded, AtWorkInv, Attaching, Charged
  <2> QED
    BY <2>1, <2>2, <2>3
<1>5. ASSUME NEW o \in Object, Age(o) PROVE MediaInv'
  <2>1. LockInv' /\ SlotInv' /\ CountInv' /\ JobInv' /\ BytesInv' /\ VerdictInv' /\
     AnnouncedInv' /\ SweepInv' /\ AttachedInv' /\ GrantedInv'
    BY <1>5 DEF Age, LockInv, SlotInv, CountInv, JobInv, BytesInv, VerdictInv,
       AnnouncedInv, SweepInv, AttachedInv, GrantedInv, Unjudged, AtWorkInv,
       Recorded, Attaching, Charged
  <2> QED
    BY <2>1
<1>6. ASSUME NEW w \in Worker, NEW o \in Object, Judge(w, o) PROVE MediaInv'
  <2>1. JobInv'
    BY <1>6 DEF Judge, Listed, NoJob, JobInv, Unjudged, AtWorkInv
  <2>2. VerdictInv'
    BY <1>6 DEF Judge, Listed, NoJob, VerdictInv, Recorded, AtWorkInv
  <2>3. LockInv' /\ SlotInv' /\ CountInv' /\ BytesInv' /\ AnnouncedInv' /\ SweepInv'
     /\ AttachedInv' /\ GrantedInv'
    BY <1>6 DEF Judge, Listed, LockInv, SlotInv, CountInv, BytesInv, AnnouncedInv,
       SweepInv, AttachedInv, GrantedInv, Attaching, Charged
  <2> QED
    BY <2>1, <2>2, <2>3
<1>7. ASSUME NEW w \in Worker, RenderNone(w) PROVE MediaInv'
  <2>1. JobInv'
    BY <1>7 DEF RenderNone, Becomes, NoJob, JobInv, Unjudged, AtWorkInv
  <2>2. VerdictInv'
    BY <1>7 DEF RenderNone, Becomes, NoJob, VerdictInv, Recorded, AtWorkInv
  <2>3. LockInv' /\ SlotInv' /\ CountInv' /\ BytesInv' /\ AnnouncedInv' /\ SweepInv'
     /\ AttachedInv' /\ GrantedInv'
    BY <1>7 DEF RenderNone, Becomes, LockInv, SlotInv, CountInv, BytesInv,
       AnnouncedInv, SweepInv, AttachedInv, GrantedInv, Attaching, Charged
  <2> QED
    BY <2>1, <2>2, <2>3
<1>8. ASSUME NEW w \in Worker, Render(w) PROVE MediaInv'
  <2>1. JobInv'
    BY <1>8 DEF Render, FreshKeys, NoJob, JobInv, Unjudged, AtWorkInv
  <2>2. BytesInv'
    BY <1>8 DEF Render, FreshKeys, NoJob, BytesInv
  <2>3. VerdictInv'
    BY <1>8 DEF Render, FreshKeys, NoJob, VerdictInv, Recorded, AtWorkInv
  <2>4. LockInv' /\ SlotInv' /\ CountInv' /\ AnnouncedInv' /\ SweepInv' /\
     AttachedInv' /\ GrantedInv'
    BY <1>8 DEF Render, FreshKeys, LockInv, SlotInv, CountInv, AnnouncedInv,
       SweepInv, AttachedInv, GrantedInv, Attaching, Charged
  <2> QED
    BY <2>1, <2>2, <2>3, <2>4
<1>9. ASSUME NEW w \in Worker, RecordVerdict(w) PROVE MediaInv'
  <2>1. SlotInv'
    BY <1>9 DEF RecordVerdict, Becomes, Applies, NoJob, SlotInv
  <2>2. CountInv'
    <3>1. Charged' \subseteq Charged /\ UNCHANGED <<slot, sum>>
      BY <1>9 DEF RecordVerdict, Applies, Charged
    <3> QED
      BY <3>1, FewerCharged
  <2>3. JobInv'
    <3>1. /\ job[w].object \in Object /\ row[job[w].object] = "pending"
          /\ row' = [row EXCEPT ![job[w].object] = job[w].verdict] /\ UNCHANGED stored
          /\ job' = [job EXCEPT ![w].stage = "applied"]
      BY <1>9 DEF RecordVerdict, Becomes, Applies, AtWorkInv
    <3>2. /\ \A v \in Worker : v # w => job'[v] = job[v]
          /\ job'[w].stage = "applied" /\ job'[w].object = job[w].object
          /\ job[w].verdict \in {"ready", "rejected"}
      BY <3>1
    <3> SUFFICES ASSUME NEW v \in Worker, job'[v].stage # "idle"
                 PROVE  /\ row'[job'[v].object] # "none"
                        /\ Unjudged(v)' /\ row'[job'[v].object] = "pending" =>
                             /\ job'[v].object \in stored'
                             /\ job'[v].thumb # 0 => <<job'[v].object, job'[v].thumb>> \in stored'
      BY DEF JobInv
    <3>3. CASE v = w
      BY <3>1, <3>2, <3>3 DEF Unjudged
    <3>4. CASE v # w
      BY <3>1, <3>2, <3>4 DEF Unjudged, JobInv, AtWorkInv
    <3> QED
      BY <3>3, <3>4
  <2>4. BytesInv'
    BY <1>9 DEF RecordVerdict, Becomes, Applies, NoJob, BytesInv, JobInv, Unjudged,
       AtWorkInv
  <2>5. VerdictInv'
    <3>1. /\ job[w].object \in Object /\ row[job[w].object] = "pending"
          /\ row' = [row EXCEPT ![job[w].object] = job[w].verdict] /\ UNCHANGED announced
          /\ job' = [job EXCEPT ![w].stage = "applied"]
      BY <1>9 DEF RecordVerdict, Becomes, Applies, AtWorkInv
    <3>2. /\ \A v \in Worker : v # w => job'[v] = job[v]
          /\ job'[w].object = job[w].object /\ job'[w].verdict = job[w].verdict
          /\ job[w].verdict \in {"ready", "rejected"}
      BY <3>1
    <3>3. announced[job[w].object] = <<>>
      BY <3>1 DEF AnnouncedInv
    <3>4. \A v \in Worker : v # w /\ Recorded(v) => job[v].object # job[w].object
      <4> SUFFICES ASSUME NEW v \in Worker, v # w, Recorded(v), job[v].object = job[w].object
                   PROVE  FALSE
        OBVIOUS
      <4>1. row[job[v].object] \in {job[v].verdict, "gone"}
        BY DEF VerdictInv
      <4>2. job[v].verdict \in {"ready", "rejected"}
        OBVIOUS
      <4> QED
        BY <3>1, <4>1, <4>2
    <3>5. \A v \in Worker : v # w /\ Recorded(v) => job[v].object \in Object
      BY DEF AtWorkInv, Recorded
    <3>6. \A v \in Worker : v # w => (Recorded(v)' <=> Recorded(v))
      BY <3>2 DEF Recorded
    <3> SUFFICES ASSUME NEW v \in Worker, Recorded(v)'
                 PROVE  /\ row'[job'[v].object] \in {job'[v].verdict, "gone"}
                        /\ announced'[job'[v].object] = <<>>
                        /\ \A x \in Worker :
                             Recorded(x)' /\ job'[x].object = job'[v].object => x = v
      BY DEF VerdictInv
    <3>7. CASE v = w
      BY <3>1, <3>2, <3>3, <3>4, <3>6, <3>7
    <3>8. CASE v # w
      <4>1. /\ row[job[v].object] \in {job[v].verdict, "gone"} /\ announced[job[v].object] = <<>>
            /\ \A x \in Worker : Recorded(x) /\ job[x].object = job[v].object => x = v
        BY <3>6, <3>8 DEF VerdictInv
      <4> QED
        BY <3>1, <3>2, <3>4, <3>5, <3>6, <3>8, <4>1
    <3> QED
      BY <3>7, <3>8
  <2>6. AnnouncedInv'
    BY <1>9 DEF RecordVerdict, Becomes, Applies, NoJob, AnnouncedInv, JobInv,
       Unjudged, AtWorkInv
  <2>7. SweepInv'
    BY <1>9 DEF RecordVerdict, Becomes, Applies, NoJob, SweepInv, Attaching
  <2>8. AttachedInv'
    BY <1>9 DEF RecordVerdict, Becomes, Applies, NoJob, AttachedInv, Attaching
  <2>9. LockInv' /\ GrantedInv'
    BY <1>9 DEF RecordVerdict, Becomes, Applies, LockInv, GrantedInv
  <2> QED
    BY <2>1, <2>2, <2>3, <2>4, <2>5, <2>6, <2>7, <2>8, <2>9
<1>10. ASSUME NEW w \in Worker, VerdictTooLate(w) PROVE MediaInv'
  <2>1. JobInv'
    BY <1>10 DEF VerdictTooLate, Applies, NoJob, JobInv, Unjudged, AtWorkInv
  <2>2. VerdictInv'
    BY <1>10 DEF VerdictTooLate, Applies, NoJob, VerdictInv, Recorded, AtWorkInv
  <2>3. LockInv' /\ SlotInv' /\ CountInv' /\ BytesInv' /\ AnnouncedInv' /\ SweepInv'
     /\ AttachedInv' /\ GrantedInv'
    BY <1>10 DEF VerdictTooLate, Applies, LockInv, SlotInv, CountInv, BytesInv,
       AnnouncedInv, SweepInv, AttachedInv, GrantedInv, Attaching, Charged
  <2> QED
    BY <2>1, <2>2, <2>3
<1>11. ASSUME NEW w \in Worker, DropRejected(w) PROVE MediaInv'
  <2>0. /\ \A o \in Object :
             /\ o \in stored /\ row[o] \in {"pending", "ready"} => o \in stored'
             /\ \A n \in Nat : <<o, n>> \in stored => <<o, n>> \in stored'
    <3>1. job[w].object \in Object /\ row[job[w].object] \in {job[w].verdict, "gone"}
      BY <1>11 DEF DropRejected, AtWorkInv, VerdictInv, Recorded
    <3>2. \A o \in Object, n \in Nat : <<o, n>> # job[w].object
      BY <3>1, KeysDiffer
    <3>3. stored' = IF job[w].verdict = "rejected" THEN stored \ {job[w].object} ELSE stored
      BY <1>11 DEF DropRejected
    <3> QED
      BY <3>1, <3>2, <3>3
  <2>1. JobInv'
    <3>1. /\ \A v \in Worker : v # w => job'[v] = job[v]
          /\ ~Unjudged(w)' /\ job'[w].object = job[w].object /\ UNCHANGED row
      BY <1>11 DEF DropRejected, Becomes, Unjudged
    <3> SUFFICES ASSUME NEW v \in Worker, job'[v].stage # "idle"
                 PROVE  /\ row'[job'[v].object] # "none"
                        /\ Unjudged(v)' /\ row'[job'[v].object] = "pending" =>
                             /\ job'[v].object \in stored'
                             /\ job'[v].thumb # 0 => <<job'[v].object, job'[v].thumb>> \in stored'
      BY DEF JobInv
    <3>2. CASE v = w
      <4>1. job[w].stage = "applied"
        BY <1>11 DEF DropRejected
      <4>2. row[job[w].object] # "none"
        BY <4>1 DEF JobInv
      <4> QED
        BY <3>1, <3>2, <4>2
    <3>3. CASE v # w
      <4>1. /\ row[job[v].object] # "none" /\ job[v].object \in Object
            /\ Unjudged(v) /\ row[job[v].object] = "pending" =>
                 /\ job[v].object \in stored
                 /\ job[v].thumb # 0 => <<job[v].object, job[v].thumb>> \in stored
        BY <3>1, <3>3 DEF JobInv, AtWorkInv
      <4> QED
        BY <2>0, <3>1, <3>3, <4>1 DEF Unjudged
    <3> QED
      BY <3>2, <3>3
  <2>2. BytesInv'
    BY <1>11, <2>0 DEF DropRejected, BytesInv
  <2>3. VerdictInv'
    BY <1>11 DEF DropRejected, Becomes, NoJob, VerdictInv, Recorded, AtWorkInv
  <2>4. LockInv' /\ SlotInv' /\ CountInv' /\ AnnouncedInv' /\ SweepInv' /\
     AttachedInv' /\ GrantedInv'
    BY <1>11 DEF DropRejected, Becomes, LockInv, SlotInv, CountInv, AnnouncedInv,
       SweepInv, AttachedInv, GrantedInv, Attaching, Charged
  <2> QED
    BY <2>1, <2>2, <2>3, <2>4
<1>12. ASSUME NEW w \in Worker, KeepRejected(w) PROVE MediaInv'
  <2>1. JobInv'
    BY <1>12 DEF KeepRejected, Becomes, Attempt, NoJob, JobInv, Unjudged, AtWorkInv
  <2>2. VerdictInv'
    BY <1>12 DEF KeepRejected, Becomes, Attempt, NoJob, VerdictInv, Recorded,
       AtWorkInv
  <2>3. LockInv' /\ SlotInv' /\ CountInv' /\ BytesInv' /\ AnnouncedInv' /\ SweepInv'
     /\ AttachedInv' /\ GrantedInv'
    BY <1>12 DEF KeepRejected, Becomes, Attempt, LockInv, SlotInv, CountInv,
       BytesInv, AnnouncedInv, SweepInv, AttachedInv, GrantedInv, Attaching, Charged
  <2> QED
    BY <2>1, <2>2, <2>3
<1>13. ASSUME NEW w \in Worker, Announce(w) PROVE MediaInv'
  <2>1. JobInv'
    BY <1>13 DEF Announce, Publish, DeltaOf, NoJob, JobInv, Unjudged, AtWorkInv
  <2>2. VerdictInv'
    BY <1>13 DEF Announce, Publish, DeltaOf, NoJob, VerdictInv, JobInv, Recorded,
       AtWorkInv, Unjudged
  <2>3. AnnouncedInv'
    <3>1. /\ job[w].object \in Object /\ row[job[w].object] \in {job[w].verdict, "gone"}
          /\ announced[job[w].object] = <<>> /\ job[w].verdict \in Verdict
      BY <1>13 DEF Announce, AtWorkInv, VerdictInv, Recorded
    <3>2. /\ UNCHANGED row
          /\ announced' = [announced EXCEPT ![job[w].object] = Append(@, job[w].verdict)]
      BY <1>13 DEF Announce
    <3>3. announced'[job[w].object] = <<job[w].verdict>>
      BY <3>1, <3>2
    <3>4. \A o \in Object : o # job[w].object => announced'[o] = announced[o]
      BY <3>2
    <3> QED
      BY <3>1, <3>2, <3>3, <3>4 DEF AnnouncedInv
  <2>4. LockInv' /\ SlotInv' /\ CountInv' /\ BytesInv' /\ SweepInv' /\ AttachedInv'
     /\ GrantedInv'
    BY <1>13 DEF Announce, Publish, DeltaOf, LockInv, SlotInv, CountInv, BytesInv,
       SweepInv, AttachedInv, GrantedInv, Attaching, Charged
  <2> QED
    BY <2>1, <2>2, <2>3, <2>4
<1>14. ASSUME NEW w \in Worker, VerdictLost(w) PROVE MediaInv'
  <2>1. JobInv'
    BY <1>14 DEF VerdictLost, Attempt, NoJob, JobInv, Unjudged, AtWorkInv
  <2>2. VerdictInv'
    BY <1>14 DEF VerdictLost, Attempt, NoJob, VerdictInv, Recorded, AtWorkInv
  <2>3. LockInv' /\ SlotInv' /\ CountInv' /\ BytesInv' /\ AnnouncedInv' /\ SweepInv'
     /\ AttachedInv' /\ GrantedInv'
    BY <1>14 DEF VerdictLost, Attempt, LockInv, SlotInv, CountInv, BytesInv,
       AnnouncedInv, SweepInv, AttachedInv, GrantedInv, Attaching, Charged
  <2> QED
    BY <2>1, <2>2, <2>3
<1>15. ASSUME NEW m \in Message, CheckAttachable(m) PROVE MediaInv'
  <2>1. SweepInv'
    BY <1>15 DEF CheckAttachable, SweepInv, Attaching
  <2>2. AttachedInv'
    BY <1>15 DEF CheckAttachable, AttachedInv, Charged, Attaching
  <2>3. GrantedInv'
    BY <1>15 DEF CheckAttachable, GrantedInv, SlotInv, Charged
  <2>4. LockInv' /\ SlotInv' /\ CountInv' /\ JobInv' /\ BytesInv' /\ VerdictInv' /\
     AnnouncedInv'
    BY <1>15 DEF CheckAttachable, LockInv, SlotInv, CountInv, JobInv, BytesInv,
       VerdictInv, AnnouncedInv, Unjudged, AtWorkInv, Recorded, Charged
  <2> QED
    BY <2>1, <2>2, <2>3, <2>4
<1>16. ASSUME NEW m \in Message, CommitMessage(m) PROVE MediaInv'
  <2>1. SweepInv'
    BY <1>16 DEF CommitMessage, SweepInv, Attaching
  <2>2. AttachedInv'
    BY <1>16 DEF CommitMessage, AttachedInv, Attaching
  <2>3. GrantedInv'
    BY <1>16 DEF CommitMessage, GrantedInv
  <2>4. LockInv' /\ SlotInv' /\ CountInv' /\ JobInv' /\ BytesInv' /\ VerdictInv' /\
     AnnouncedInv'
    BY <1>16 DEF CommitMessage, LockInv, SlotInv, CountInv, JobInv, BytesInv,
       VerdictInv, AnnouncedInv, Unjudged, AtWorkInv, Recorded, Charged
  <2> QED
    BY <2>1, <2>2, <2>3, <2>4
<1>17. CASE DestroyExpired
  <2>1. SweepInv'
    BY <1>17 DEF DestroyExpired, NamedBy, Sent, NoSweep, SweepInv, Attaching
  <2>2. AttachedInv'
    BY <1>17 DEF DestroyExpired, NamedBy, Sent, NoSweep, AttachedInv, Attaching
  <2>3. GrantedInv'
    BY <1>17 DEF DestroyExpired, NamedBy, Sent, NoSweep, GrantedInv
  <2>4. LockInv' /\ SlotInv' /\ CountInv' /\ JobInv' /\ BytesInv' /\ VerdictInv' /\
     AnnouncedInv'
    BY <1>17 DEF DestroyExpired, NamedBy, Sent, LockInv, SlotInv, CountInv, JobInv,
       BytesInv, VerdictInv, AnnouncedInv, Unjudged, AtWorkInv, Recorded, Charged
  <2> QED
    BY <2>1, <2>2, <2>3, <2>4
<1>18. CASE CheckReferences
  <2>1. SweepInv'
    BY <1>18 DEF CheckReferences, Unreferenced, NamedBy, Sent, NoSweep, SweepInv,
       Attaching
  <2>2. AttachedInv'
    BY <1>18 DEF CheckReferences, Unreferenced, NamedBy, Sent, NoSweep, AttachedInv,
       Attaching
  <2>3. GrantedInv'
    BY <1>18 DEF CheckReferences, Unreferenced, NamedBy, Sent, NoSweep, GrantedInv
  <2>4. LockInv' /\ SlotInv' /\ CountInv' /\ JobInv' /\ BytesInv' /\ VerdictInv' /\
     AnnouncedInv'
    BY <1>18 DEF CheckReferences, Unreferenced, NamedBy, Sent, LockInv, SlotInv,
       CountInv, JobInv, BytesInv, VerdictInv, AnnouncedInv, Unjudged, AtWorkInv,
       Recorded, Charged
  <2> QED
    BY <2>1, <2>2, <2>3, <2>4
<1>19. CASE ReadKeys
  <2>1. SweepInv'
    BY <1>19 DEF ReadKeys, Thumbs, NoSweep, SweepInv, Attaching
  <2>2. GrantedInv'
    BY <1>19 DEF ReadKeys, Thumbs, NoSweep, GrantedInv
  <2>3. LockInv' /\ SlotInv' /\ CountInv' /\ JobInv' /\ BytesInv' /\ VerdictInv' /\
     AnnouncedInv' /\ AttachedInv'
    BY <1>19 DEF ReadKeys, Thumbs, LockInv, SlotInv, CountInv, JobInv, BytesInv,
       VerdictInv, AnnouncedInv, AttachedInv, Unjudged, AtWorkInv, Recorded,
       Attaching, Charged
  <2> QED
    BY <2>1, <2>2, <2>3
<1>20. CASE DeleteRows
  <2>1. SlotInv'
    BY <1>20 DEF DeleteRows, NoSweep, SlotInv, GrantedInv
  <2>2. CountInv'
    <3>1. Charged' \subseteq Charged /\ UNCHANGED <<slot, sum>>
      BY <1>20 DEF DeleteRows, Charged
    <3> QED
      BY <3>1, FewerCharged
  <2>3. JobInv'
    BY <1>20 DEF DeleteRows, NoSweep, JobInv, Unjudged, AtWorkInv
  <2>4. BytesInv'
    BY <1>20 DEF DeleteRows, NoSweep, BytesInv
  <2>5. VerdictInv'
    BY <1>20 DEF DeleteRows, NoSweep, VerdictInv, Recorded, AtWorkInv
  <2>6. AnnouncedInv'
    BY <1>20 DEF DeleteRows, NoSweep, AnnouncedInv
  <2>7. SweepInv'
    BY <1>20 DEF DeleteRows, NoSweep, SweepInv, Attaching
  <2>8. AttachedInv'
    BY <1>20 DEF DeleteRows, NoSweep, AttachedInv, SweepInv, Attaching
  <2>9. GrantedInv'
    BY <1>20 DEF DeleteRows, NoSweep, GrantedInv
  <2>10. LockInv'
    BY <1>20 DEF DeleteRows, LockInv
  <2> QED
    BY <2>1, <2>2, <2>3, <2>4, <2>5, <2>6, <2>7, <2>8, <2>9, <2>10
<1>21. CASE DeleteBytes
  <2>0. \A o \in Object : row[o] # "gone" =>
          /\ o \in stored => o \in stored'
          /\ \A n \in Nat : <<o, n>> \in stored => <<o, n>> \in stored'
    <3>1. /\ sweep.keys \subseteq sweep.objects \cup (sweep.objects \X Nat)
          /\ \A o \in sweep.objects : o \in Object /\ row[o] = "gone"
      BY <1>21 DEF DeleteBytes, SweepInv
    <3>2. \A o \in Object : row[o] # "gone" =>
            o \notin sweep.keys /\ \A n \in Nat : <<o, n>> \notin sweep.keys
      BY <3>1, KeysDiffer
    <3> QED
      BY <1>21, <3>2 DEF DeleteBytes
  <2>1. JobInv'
    <3> SUFFICES ASSUME NEW v \in Worker, job'[v].stage # "idle"
                 PROVE  /\ row'[job'[v].object] # "none"
                        /\ Unjudged(v)' /\ row'[job'[v].object] = "pending" =>
                             /\ job'[v].object \in stored'
                             /\ job'[v].thumb # 0 => <<job'[v].object, job'[v].thumb>> \in stored'
      BY DEF JobInv
    <3>1. UNCHANGED <<row, job>>
      BY <1>21 DEF DeleteBytes
    <3>2. /\ row[job[v].object] # "none" /\ job[v].object \in Object /\ job[v].thumb \in Nat
          /\ Unjudged(v) /\ row[job[v].object] = "pending" =>
               /\ job[v].object \in stored
               /\ job[v].thumb # 0 => <<job[v].object, job[v].thumb>> \in stored
      BY <3>1 DEF JobInv, AtWorkInv
    <3> QED
      BY <2>0, <3>1, <3>2 DEF Unjudged
  <2>2. BytesInv'
    BY <1>21, <2>0 DEF DeleteBytes, BytesInv
  <2>3. SweepInv'
    BY <1>21 DEF DeleteBytes, Publish, NoSweep, SweepInv, Attaching
  <2>4. GrantedInv'
    BY <1>21 DEF DeleteBytes, Publish, NoSweep, GrantedInv
  <2>5. LockInv' /\ SlotInv' /\ CountInv' /\ VerdictInv' /\ AnnouncedInv' /\
     AttachedInv'
    BY <1>21 DEF DeleteBytes, Publish, LockInv, SlotInv, CountInv, VerdictInv,
       AnnouncedInv, AttachedInv, Recorded, AtWorkInv, Attaching, Charged
  <2> QED
    BY <2>1, <2>2, <2>3, <2>4, <2>5
<1>22. CASE SweepCrashes
  <2>1. SweepInv'
    BY <1>22 DEF SweepCrashes, Attempt, NoSweep, SweepInv, Attaching
  <2>2. GrantedInv'
    BY <1>22 DEF SweepCrashes, Attempt, NoSweep, GrantedInv
  <2>3. LockInv' /\ SlotInv' /\ CountInv' /\ JobInv' /\ BytesInv' /\ VerdictInv' /\
     AnnouncedInv' /\ AttachedInv'
    BY <1>22 DEF SweepCrashes, Attempt, LockInv, SlotInv, CountInv, JobInv, BytesInv,
       VerdictInv, AnnouncedInv, AttachedInv, Unjudged, AtWorkInv, Recorded,
       Attaching, Charged
  <2> QED
    BY <2>1, <2>2, <2>3
<1>23. CASE UNCHANGED vars
  BY <1>23 DEF vars, LockInv, SlotInv, CountInv, JobInv, BytesInv, VerdictInv,
     AnnouncedInv, SweepInv, AttachedInv, GrantedInv, Charged, Unjudged, Recorded,
     Attaching, AtWorkInv
<1> QED
  BY <1>1, <1>2, <1>3, <1>4, <1>5, <1>6, <1>7, <1>8, <1>9, <1>10, <1>11, <1>12,
     <1>13, <1>14, <1>15, <1>16, <1>17, <1>18, <1>19, <1>20, <1>21, <1>22, <1>23 DEF
     Next, SlotStep, Settle, SweepStep

\* The inductive invariant of hosted media holds in every reachable state.
THEOREM MediaInvariant == Spec => [](TypeOK /\ MediaInv)
<1>1. Init => TypeOK /\ AtWorkInv
  BY MediaAssumption, BoundAssumption DEF Init, TypeOK, AtWorkInv, NoJob, NoSweep, Verdict
<1>2. Init => MediaInv
  <2> SUFFICES ASSUME Init PROVE MediaInv
    OBVIOUS
  <2>1. Charged = {}
    BY DEF Init, Charged
  <2>2. CountInv
    BY <2>1, FS_EmptySet, MediaAssumption DEF CountInv, Init
  <2> QED
    BY <2>2, MediaAssumption DEF Init, MediaInv, LockInv, SlotInv, JobInv, BytesInv, VerdictInv,
       AnnouncedInv, SweepInv, AttachedInv, GrantedInv, Unjudged, Recorded, Attaching, NoJob, NoSweep
<1> QED
  BY <1>1, <1>2, MediaPreserved, MediaTypeCorrect, AtWorkPreserved, PTL DEF Spec

\* requestUploadSlot: sum and insert under the lock of the environment never grant more
\* than the cap, for any number of objects, slots under way and workers.
THEOREM CapKept == Spec => []CapIsKept
<1>1. MediaInv => CapIsKept
  BY DEF MediaInv, CountInv, CapIsKept
<1> QED
  BY <1>1, MediaInvariant, PTL

\* settleMedia and the sweep: an object that is ready, and the thumbnail its row names,
\* have their bytes, whatever late verdicts and destructions do.
THEOREM ReadyKeepsBytes == Spec => []ReadyHasBytes
<1>1. MediaInv => ReadyHasBytes
  BY DEF MediaInv, BytesInv, ReadyHasBytes
<1> QED
  BY <1>1, MediaInvariant, PTL

\* recordMediaVerdict: of any number of workers at an object, one is heard, once, and it
\* says what the row says.
THEOREM VerdictHeardOnce == Spec => []HeardOnce
<1>1. MediaInv => HeardOnce
  <2> SUFFICES ASSUME AnnouncedInv, NEW o \in Object
               PROVE  /\ Len(announced[o]) <= 1
                      /\ announced[o] # <<>> => row[o] \in {announced[o][1], "gone"}
    BY DEF MediaInv, HeardOnce
  <2>1. CASE announced[o] = <<>>
    BY <2>1
  <2>2. CASE announced[o] # <<>>
    <3>1. PICK v \in Verdict : announced[o] = <<v>> /\ row[o] \in {v, "gone"}
      BY <2>2 DEF AnnouncedInv
    <3> QED
      BY <3>1
  <2> QED
    BY <2>1, <2>2
<1> QED
  BY <1>1, MediaInvariant, PTL

\* sweepMedia: a surviving message loses its object only if its check and its commit lay
\* around the sweep's.
THEOREM OnlyLateDangles == Spec => []DanglesOnlyWhenLate
<1>1. MediaInv => DanglesOnlyWhenLate
  BY DEF MediaInv, AttachedInv, Attaching, Sent, DanglesOnlyWhenLate
<1> QED
  BY <1>1, MediaInvariant, PTL

--------------------------------------------------------------------------------
(* GatewayMembership *)

\* The open connections that hold a channel, and the additions to it that wait.
Holders(c) == {k \in Connection : pc[k] = "open" /\ c \in held[k]}
Waiters(c) == {k \in Connection : <<k, c>> \in waiting}

\* The reference count covers the connections that hold a channel, and once more each
\* addition whose SUBSCRIBE is awaited, that of a connection which has closed included.
CountsCover == \A c \in Channel : Cardinality(Holders(c)) + Cardinality(Waiters(c)) <= count[c]

\* The instance listens while it counts anybody, and has asked to while anybody waits.
ListensInv == failures = 0 => \A c \in Channel : count[c] > 0 => subject[c] # "off"
AwaitedInv == \A c \in Channel : Waiters(c) # {} => subject[c] = "pending"

\* Types, without AwaitedInv.
MembershipShape ==
  /\ member \in SUBSET (User \X Channel)
  /\ banned \in SUBSET User /\ news \in SUBSET Change
  /\ pc \in [Connection -> {"new", "looked", "open", "closed"}]
  /\ held \in [Connection -> SUBSET Channel]
  /\ count \in [Channel -> Nat] /\ subject \in [Channel -> SubjectState]
  /\ waiting \in SUBSET (Connection \X Channel)
  /\ rereading \in SUBSET Connection /\ truth \in [Connection -> SUBSET Channel]
  /\ changes \in 0..MaxChanges /\ bans \in 0..MaxBans
  /\ losses \in Nat /\ failures \in Nat /\ losses + failures <= MaxFaults

FabricInv == CountsCover /\ ListensInv /\ AwaitedInv

\* Cardinalities of sets of connections.
LEMMA ConnectionSets ==
  ASSUME NEW S \in SUBSET Connection, NEW T \in SUBSET Connection
  PROVE  /\ IsFiniteSet(S) /\ Cardinality(S) \in Nat /\ Cardinality(T) \in Nat
         /\ Cardinality(S \cup T) \in Nat /\ Cardinality(S \cup T) <= Cardinality(S) + Cardinality(T)
         /\ S \subseteq T => Cardinality(S) <= Cardinality(T)
         /\ T \subseteq S => Cardinality(S \ T) = Cardinality(S) - Cardinality(T)
<1>1. IsFiniteSet(S) /\ IsFiniteSet(T)
  BY UserAssumption, FS_Subset
<1>2. Cardinality(S) \in Nat /\ Cardinality(T) \in Nat
  BY <1>1, FS_CardinalityType
<1>3. /\ IsFiniteSet(S \cup T)
      /\ Cardinality(S \cup T) = Cardinality(S) + Cardinality(T) - Cardinality(S \cap T)
  BY <1>1, FS_Union
<1>4. Cardinality(S \cap T) \in Nat
  BY <1>1, FS_Intersection, FS_CardinalityType
<1>5. S \subseteq T => Cardinality(S) <= Cardinality(T)
  BY <1>1, FS_Subset
<1>6. ASSUME T \subseteq S PROVE Cardinality(S \ T) = Cardinality(S) - Cardinality(T)
  <2>1. IsFiniteSet(S \ T) /\ Cardinality(S \ T) \in Nat
    BY <1>1, FS_Difference, FS_CardinalityType
  <2>2. (S \ T) \cup T = S /\ (S \ T) \cap T = {}
    BY <1>6
  <2>3. Cardinality((S \ T) \cup T) = Cardinality(S \ T) + Cardinality(T) - Cardinality((S \ T) \cap T)
    BY <1>1, <2>1, FS_Union
  <2> QED
    BY <1>2, <2>1, <2>2, <2>3, FS_EmptySet
<1>7. Cardinality(S \cup T) \in Nat
  BY <1>3, FS_CardinalityType
<1> QED
  BY <1>1, <1>2, <1>3, <1>4, <1>5, <1>6, <1>7

\* What deliverMembership goes through are connections.
LEMMA SetsOfConnections ==
  /\ \A u \in User : OpenOf(u) \in SUBSET Connection
  /\ \A u \in User, c \in Channel : Losers(u, c) \in SUBSET Connection
  /\ \A c \in Channel : Holders(c) \in SUBSET Connection /\ Waiters(c) \in SUBSET Connection
BY DEF OpenOf, Losers, Holders, Waiters

\* Holders and waiting additions can be counted.
LEMMA Numbers ==
  \A c \in Channel : Cardinality(Holders(c)) \in Nat /\ Cardinality(Waiters(c)) \in Nat
BY SetsOfConnections, ConnectionSets

(***************************************************************************)
(* deliverMembership, from one state of the fabric to the next.             *)
(***************************************************************************)
\* deliverMembership keeps the types.
LEMMA DeliverKeepsShape ==
  ASSUME MembershipShape, NEW u \in User, NEW gone \in SUBSET Channel, NEW new \in SUBSET Channel,
         Deliver(u, gone, new)
  PROVE  /\ held' \in [Connection -> SUBSET Channel] /\ count' \in [Channel -> Nat]
         /\ subject' \in [Channel -> SubjectState] /\ waiting' \in SUBSET (Connection \X Channel)
<1> DEFINE fresh == {c \in new : count[c] = 0 /\ Gainers(u, c) # {}}
<1>1. PICK first \in OpenOf(u) \cup {CHOOSE k \in Connection : TRUE} :
       /\ OpenOf(u) # {} => first \in OpenOf(u)
       /\ held' = [k \in Connection |->
            IF k \in OpenOf(u)
            THEN (held[k] \ gone) \cup {c \in new : c \notin fresh \/ k # first}
            ELSE held[k]]
       /\ waiting' = waiting \cup ({first} \X fresh)
       /\ count' = [c \in Channel |->
            IF c \in gone THEN Released(c, Cardinality(Losers(u, c)))
            ELSE IF c \in new THEN count[c] + Cardinality(Gainers(u, c))
            ELSE count[c]]
       /\ subject' = [c \in Channel |->
            IF c \in fresh THEN "pending"
            ELSE IF c \in gone /\ Losers(u, c) # {} /\ count'[c] = 0 THEN "off"
            ELSE subject[c]]
  BY DEF Deliver
<1>2. held' \in [Connection -> SUBSET Channel]
  BY <1>1 DEF MembershipShape
<1>3. waiting' \in SUBSET (Connection \X Channel)
  <2>1. fresh = {} \/ first \in Connection
    BY <1>1 DEF Gainers, OpenOf
  <2> QED
    BY <1>1, <2>1 DEF MembershipShape
<1>4. subject' \in [Channel -> SubjectState]
  BY <1>1 DEF MembershipShape, SubjectState
<1>5. ASSUME NEW c \in Channel PROVE count'[c] \in Nat
  <2>1. Cardinality(Losers(u, c)) \in Nat /\ Cardinality(Gainers(u, c)) \in Nat
    BY SetsOfConnections, ConnectionSets DEF Gainers
  <2>2. count[c] \in Nat
    BY DEF MembershipShape
  <2>3. count'[c] = IF c \in gone THEN Released(c, Cardinality(Losers(u, c)))
                    ELSE IF c \in new THEN count[c] + Cardinality(Gainers(u, c))
                    ELSE count[c]
    BY <1>1
  <2> QED
    BY <2>1, <2>2, <2>3 DEF Released
<1>6. count' \in [Channel -> Nat]
  <2>1. count' = [c \in Channel |-> count'[c]]
    BY <1>1
  <2> QED
    BY <1>5, <2>1
<1> QED
  BY <1>2, <1>3, <1>4, <1>6

\* deliverMembership releases what its losers held and counts its gainers, the first of
\* which may be waiting for the SUBSCRIBE: the counts go on covering both.
LEMMA DeliverKeepsFabric ==
  ASSUME MembershipShape, FabricInv, UNCHANGED <<pc, failures>>,
         NEW u \in User, NEW gone \in SUBSET Channel, NEW new \in SUBSET Channel,
         gone \cap new = {}, Deliver(u, gone, new)
  PROVE  FabricInv'
<1> DEFINE fresh == {c \in new : count[c] = 0 /\ Gainers(u, c) # {}}
<1>1. PICK first \in OpenOf(u) \cup {CHOOSE k \in Connection : TRUE} :
       /\ OpenOf(u) # {} => first \in OpenOf(u)
       /\ held' = [k \in Connection |->
            IF k \in OpenOf(u)
            THEN (held[k] \ gone) \cup {c \in new : c \notin fresh \/ k # first}
            ELSE held[k]]
       /\ waiting' = waiting \cup ({first} \X fresh)
       /\ count' = [c \in Channel |->
            IF c \in gone THEN Released(c, Cardinality(Losers(u, c)))
            ELSE IF c \in new THEN count[c] + Cardinality(Gainers(u, c))
            ELSE count[c]]
       /\ subject' = [c \in Channel |->
            IF c \in fresh THEN "pending"
            ELSE IF c \in gone /\ Losers(u, c) # {} /\ count'[c] = 0 THEN "off"
            ELSE subject[c]]
  BY DEF Deliver
<1>2. ASSUME NEW c \in Channel
      PROVE  /\ Cardinality(Holders(c)') + Cardinality(Waiters(c)') <= count'[c]
             /\ failures = 0 /\ count'[c] > 0 => subject'[c] # "off"
             /\ Waiters(c)' # {} => subject'[c] = "pending"
  <2> DEFINE H == Holders(c)
             W == Waiters(c)
             L == Losers(u, c)
             G == OpenOf(u)
  <2>1. /\ Cardinality(H) + Cardinality(W) <= count[c] /\ count[c] \in Nat
        /\ Cardinality(H) \in Nat /\ Cardinality(W) \in Nat
        /\ Cardinality(L) \in Nat /\ Cardinality(G) \in Nat
    BY SetsOfConnections, ConnectionSets DEF FabricInv, CountsCover, MembershipShape
  <2>2. /\ failures = 0 /\ count[c] > 0 => subject[c] # "off"
        /\ W # {} => subject[c] = "pending"
    BY DEF FabricInv, ListensInv, AwaitedInv
  <2>3. CASE c \in gone
    <3>1. c \notin new /\ c \notin fresh
      BY <2>3
    <3>2. Waiters(c)' = W
      BY <1>1, <3>1 DEF Waiters
    <3>3. Holders(c)' = H \ L /\ L \subseteq H
      BY <1>1, <2>3, <3>1 DEF Holders, Losers, OpenOf
    <3>4. Cardinality(H \ L) = Cardinality(H) - Cardinality(L)
      BY <3>3, SetsOfConnections, ConnectionSets
    <3>5. count'[c] = IF Cardinality(L) < count[c] THEN count[c] - Cardinality(L) ELSE 0
      BY <1>1, <2>3 DEF Released
    <3>6. Cardinality(L) <= Cardinality(H)
      BY <3>3, SetsOfConnections, ConnectionSets
    <3>7. Cardinality(H) - Cardinality(L) + Cardinality(W) <= count'[c] /\ count'[c] <= count[c]
      BY <2>1, <3>5, <3>6
    <3>8. subject'[c] = IF L # {} /\ count'[c] = 0 THEN "off" ELSE subject[c]
      BY <1>1, <2>3, <3>1
    <3>9. W # {} => Cardinality(W) # 0
      BY SetsOfConnections, ConnectionSets, FS_EmptySet
    <3>10. W # {} => count'[c] # 0
      BY <2>1, <3>6, <3>7, <3>9
    <3>11. failures = 0 /\ count'[c] > 0 => subject'[c] # "off"
      BY <2>1, <2>2, <3>5, <3>8
    <3> QED
      BY <2>2, <3>2, <3>3, <3>4, <3>7, <3>8, <3>10, <3>11
  <2>4. CASE c \in fresh
    <3>1. count[c] = 0 /\ G # {} /\ first \in G /\ c \notin gone
      BY <1>1, <2>4 DEF Gainers
    <3>2. Cardinality(H) = 0 /\ Cardinality(W) = 0
      BY <2>1, <3>1
    <3>3. H = {} /\ W = {}
      BY <3>2, SetsOfConnections, ConnectionSets, FS_EmptySet
    <3>4. Waiters(c)' = {first}
      BY <1>1, <2>4, <3>1, <3>3, SetsOfConnections DEF Waiters
    <3>5. Holders(c)' \subseteq G \ {first}
      BY <1>1, <2>4, <3>1, <3>3 DEF Holders
    <3>6. /\ Cardinality(G \ {first}) = Cardinality(G) - 1
          /\ Cardinality(Holders(c)') <= Cardinality(G \ {first}) /\ Cardinality({first}) = 1
          /\ Cardinality(Holders(c)') \in Nat
      <4>1. IsFiniteSet(G) /\ IsFiniteSet(G \ {first})
        BY SetsOfConnections, ConnectionSets, FS_RemoveElement
      <4>2. Cardinality(G \ {first}) = Cardinality(G) - 1
        BY <3>1, <4>1, FS_RemoveElement
      <4>3. IsFiniteSet(Holders(c)') /\ Cardinality(Holders(c)') <= Cardinality(G \ {first})
        BY <3>5, <4>1, FS_Subset
      <4> QED
        BY <4>2, <4>3, FS_CardinalityType, FS_Singleton
    <3>7. count'[c] = Cardinality(G) /\ subject'[c] = "pending"
      BY <1>1, <2>1, <2>4, <3>1 DEF Gainers
    <3> QED
      BY <2>1, <3>4, <3>6, <3>7
  <2>5. CASE c \in new /\ c \notin fresh
    <3>1. c \notin gone
      BY <2>5
    <3>2. Waiters(c)' = W
      BY <1>1, <2>5 DEF Waiters
    <3>3. Holders(c)' \subseteq H \cup G
      BY <1>1 DEF Holders
    <3>4. /\ Cardinality(Holders(c)') <= Cardinality(H) + Cardinality(G)
          /\ Cardinality(Holders(c)') \in Nat
      <4>1. /\ Holders(c)' \in SUBSET Connection /\ H \cup G \in SUBSET Connection
        BY <3>3, SetsOfConnections
      <4>2. /\ Cardinality(Holders(c)') <= Cardinality(H \cup G)
            /\ Cardinality(Holders(c)') \in Nat /\ Cardinality(H \cup G) \in Nat
        BY <3>3, <4>1, ConnectionSets
      <4>3. Cardinality(H \cup G) <= Cardinality(H) + Cardinality(G)
        BY SetsOfConnections, ConnectionSets
      <4> QED
        BY <2>1, <4>2, <4>3
    <3>5. count'[c] = count[c] + Cardinality(G) /\ subject'[c] = subject[c]
      BY <1>1, <2>5, <3>1 DEF Gainers
    <3>6. count[c] > 0 \/ Cardinality(G) = 0
      BY <2>1, <2>5, FS_EmptySet DEF Gainers
    <3>7. Cardinality(Holders(c)') + Cardinality(W) <= count'[c]
      BY <2>1, <3>4, <3>5
    <3>8. count'[c] > 0 => count[c] > 0
      BY <2>1, <3>5, <3>6
    <3> QED
      BY <2>2, <3>2, <3>5, <3>7, <3>8
  <2>6. CASE c \notin gone /\ c \notin new
    <3>1. Waiters(c)' = W
      BY <1>1, <2>6 DEF Waiters
    <3>2. Holders(c)' = H
      BY <1>1, <2>6 DEF Holders, OpenOf
    <3>3. count'[c] = count[c] /\ subject'[c] = subject[c]
      BY <1>1, <2>6
    <3> QED
      BY <2>1, <2>2, <3>1, <3>2, <3>3
  <2> QED
    BY <2>3, <2>4, <2>5, <2>6
<1> QED
  BY <1>2 DEF FabricInv, CountsCover, ListensInv, AwaitedInv

\* A step that leaves the connections, the counts and the subjects alone.
LEMMA FabricUntouched ==
  ASSUME FabricInv, UNCHANGED <<pc, held, count, subject, waiting>>, failures' = failures
  PROVE  FabricInv'
<1>1. \A c \in Channel : Holders(c)' = Holders(c) /\ Waiters(c)' = Waiters(c)
  BY DEF Holders, Waiters
<1> QED
  BY <1>1 DEF FabricInv, CountsCover, ListensInv, AwaitedInv

\* Every action keeps the types.
LEMMA ShapePreservedByMembers ==
  MembershipShape /\ [MembershipNext]_membershipVars => MembershipShape'
<1> SUFFICES ASSUME MembershipShape, [MembershipNext]_membershipVars PROVE MembershipShape'
  OBVIOUS
<1> USE UserAssumption, ChangesAssumption DEF MembershipShape, storeVars, fabricVars, rereadVars,
        boundVars, gatewayVars, ChannelsOf
<1>1. ASSUME NEW u \in User, NEW c \in Channel, AddMember(u, c) PROVE MembershipShape'
  <2>1. [user : {u}, channels : {{c}}, kind : {"added"}, via : {"channel", "user"}] \subseteq Change
    BY DEF Change
  <2> QED
    BY <1>1, <2>1 DEF AddMember
<1>2. ASSUME NEW u \in User, NEW c \in Channel, RemoveMember(u, c) PROVE MembershipShape'
  <2>1. [user : {u}, channels : {{c}}, kind : {"removed"}, via : {"channel"}] \subseteq Change
    BY DEF Change
  <2> QED
    BY <1>2, <2>1 DEF RemoveMember
<1>3. ASSUME NEW u \in User, Ban(u) PROVE MembershipShape'
  <2>1. [user : {u}, channels : {Channel}, kind : {"removed"}, via : {"user"}] \subseteq Change
    BY DEF Change
  <2> QED
    BY <1>3, <2>1 DEF Ban
<1>4. ASSUME NEW u \in User, Unban(u) PROVE MembershipShape'
  BY <1>4 DEF Unban
<1>5. ASSUME NEW n \in news, LoseChange(n) PROVE MembershipShape'
  BY <1>5 DEF LoseChange
<1>6. ASSUME NEW n \in news, PublishChange(n) PROVE MembershipShape'
  <2>1. n.user \in User /\ n.channels \in SUBSET Channel
    BY DEF Change
  <2>2. /\ held' \in [Connection -> SUBSET Channel] /\ count' \in [Channel -> Nat]
        /\ subject' \in [Channel -> SubjectState] /\ waiting' \in SUBSET (Connection \X Channel)
    <3>1. CASE UNCHANGED <<held, fabricVars>>
      BY <3>1
    <3> {} \in SUBSET Channel
      OBVIOUS
    <3>2. CASE Deliver(n.user, {}, n.channels)
      BY ONLY <2>1, <3>2, {} \in SUBSET Channel, MembershipShape, DeliverKeepsShape
    <3>3. CASE Deliver(n.user, n.channels, {})
      BY ONLY <2>1, <3>3, {} \in SUBSET Channel, MembershipShape, DeliverKeepsShape
    <3> QED
      BY <1>6, <3>1, <3>2, <3>3 DEF PublishChange
  <2> QED
    BY <1>6, <2>2 DEF PublishChange
<1>7. ASSUME NEW c \in Channel, SubscribeLands(c) PROVE MembershipShape'
  BY <1>7 DEF SubscribeLands, SubjectState
<1>8. ASSUME NEW c \in Channel, SubscribeFails(c) PROVE MembershipShape'
  BY <1>8 DEF SubscribeFails, SubjectState
<1>9. ASSUME NEW k \in Connection, LookUpSession(k) PROVE MembershipShape'
  <2>1. ChannelsOf(UserOf[k]) \in SUBSET Channel
    BY DEF ChannelsOf
  <2>2. pc' \in [Connection -> {"new", "looked", "open", "closed"}]
    BY <1>9 DEF LookUpSession
  <2>3. held' \in [Connection -> SUBSET Channel]
    BY <1>9, <2>1 DEF LookUpSession
  <2> QED
    BY <1>9, <2>2, <2>3 DEF LookUpSession
<1>10. ASSUME NEW k \in Connection, OpenConnection(k) PROVE MembershipShape'
  BY <1>10 DEF OpenConnection, SubjectState
<1>11. ASSUME NEW k \in Connection, CloseConnection(k) PROVE MembershipShape'
  <2>1. \A c \in Channel : Released(c, 1) \in Nat
    BY DEF Released
  <2> QED
    BY <1>11, <2>1 DEF CloseConnection, SubjectState
<1>12. ASSUME NEW k \in Connection, ReadMemberships(k) PROVE MembershipShape'
  BY <1>12 DEF ReadMemberships
<1>13. ASSUME NEW k \in Connection, ApplyReread(k) PROVE MembershipShape'
  <2>1. UserOf[k] \in User /\ Gone(k) \in SUBSET Channel /\ Gained(k) \in SUBSET Channel
    BY DEF Gone, Gained
  <2>2. /\ held' \in [Connection -> SUBSET Channel] /\ count' \in [Channel -> Nat]
        /\ subject' \in [Channel -> SubjectState] /\ waiting' \in SUBSET (Connection \X Channel)
    BY <1>13, <2>1, DeliverKeepsShape DEF ApplyReread
  <2> QED
    BY <1>13, <2>2 DEF ApplyReread
<1>14. CASE UNCHANGED membershipVars
  BY <1>14 DEF membershipVars
<1> QED
  BY <1>1, <1>2, <1>3, <1>4, <1>5, <1>6, <1>7, <1>8, <1>9, <1>10, <1>11, <1>12, <1>13, <1>14
     DEF MembershipNext, RereadStep

\* Every action keeps the counts above what is held and awaited, and the instance
\* listening for what is counted.
LEMMA FabricPreserved ==
  MembershipShape /\ FabricInv /\ [MembershipNext]_membershipVars => FabricInv'
<1> SUFFICES ASSUME MembershipShape, FabricInv, [MembershipNext]_membershipVars PROVE FabricInv'
  OBVIOUS
<1> USE DEF storeVars, fabricVars, rereadVars, boundVars, gatewayVars
<1>1. ASSUME NEW u \in User, NEW c \in Channel, AddMember(u, c) PROVE FabricInv'
  BY <1>1, FabricUntouched DEF AddMember
<1>2. ASSUME NEW u \in User, NEW c \in Channel, RemoveMember(u, c) PROVE FabricInv'
  BY <1>2, FabricUntouched DEF RemoveMember
<1>3. ASSUME NEW u \in User, Ban(u) PROVE FabricInv'
  BY <1>3, FabricUntouched DEF Ban
<1>4. ASSUME NEW u \in User, Unban(u) PROVE FabricInv'
  BY <1>4, FabricUntouched DEF Unban
<1>5. ASSUME NEW n \in news, LoseChange(n) PROVE FabricInv'
  BY <1>5, FabricUntouched DEF LoseChange
<1>6. ASSUME NEW n \in news, PublishChange(n) PROVE FabricInv'
  <2>1. n.user \in User /\ n.channels \in SUBSET Channel
    BY DEF MembershipShape, Change
  <2>2. UNCHANGED <<pc, failures>>
    BY <1>6 DEF PublishChange
  <2>3. CASE UNCHANGED <<held, fabricVars>>
    BY <2>2, <2>3, FabricUntouched
  <2>4. CASE Deliver(n.user, {}, n.channels)
    BY <2>1, <2>2, <2>4, DeliverKeepsFabric
  <2>5. CASE Deliver(n.user, n.channels, {})
    BY <2>1, <2>2, <2>5, DeliverKeepsFabric
  <2> QED
    BY <1>6, <2>3, <2>4, <2>5 DEF PublishChange
<1>7. ASSUME NEW c \in Channel, SubscribeLands(c) PROVE FabricInv'
  <2>1. /\ subject[c] = "pending" /\ subject' = [subject EXCEPT ![c] = "on"]
        /\ held' = [k \in Connection |-> IF <<k, c>> \in waiting THEN held[k] \cup {c} ELSE held[k]]
        /\ waiting' = {w \in waiting : w[2] # c} /\ UNCHANGED <<pc, count, failures>>
    BY <1>7 DEF SubscribeLands
  <2>2. Holders(c)' \subseteq Holders(c) \cup Waiters(c) /\ Waiters(c)' = {}
    BY <2>1 DEF Holders, Waiters
  <2>3. Cardinality(Holders(c)') + Cardinality(Waiters(c)') <= count'[c]
    <3>1. /\ Holders(c)' \in SUBSET Connection
          /\ Holders(c) \cup Waiters(c) \in SUBSET Connection
      BY <2>2, SetsOfConnections
    <3>2. /\ Cardinality(Holders(c)') <= Cardinality(Holders(c) \cup Waiters(c))
          /\ Cardinality(Holders(c)') \in Nat /\ Cardinality(Holders(c) \cup Waiters(c)) \in Nat
      BY <2>2, <3>1, ConnectionSets
    <3>3. Cardinality(Holders(c) \cup Waiters(c)) <= Cardinality(Holders(c)) + Cardinality(Waiters(c))
      BY SetsOfConnections, ConnectionSets
    <3>4. Cardinality(Holders(c)) + Cardinality(Waiters(c)) <= count[c] /\ count[c] \in Nat
      BY DEF FabricInv, CountsCover, MembershipShape
    <3>5. Cardinality(Waiters(c)') = 0
      BY <2>2, FS_EmptySet
    <3> QED
      BY <2>1, <3>2, <3>3, <3>4, <3>5, Numbers
  <2>4. \A d \in Channel : d # c => Holders(d)' = Holders(d) /\ Waiters(d)' = Waiters(d)
    BY <2>1 DEF Holders, Waiters, MembershipShape
  <2>5. CountsCover'
    BY <2>1, <2>3, <2>4 DEF FabricInv, CountsCover
  <2>6. ListensInv' /\ AwaitedInv'
    BY <2>1, <2>2, <2>4 DEF FabricInv, ListensInv, AwaitedInv, MembershipShape
  <2> QED
    BY <2>5, <2>6 DEF FabricInv
<1>8. ASSUME NEW c \in Channel, SubscribeFails(c) PROVE FabricInv'
  <2>1. /\ subject' = [subject EXCEPT ![c] = "off"] /\ waiting' = {w \in waiting : w[2] # c}
        /\ failures' = failures + 1 /\ failures \in Nat /\ UNCHANGED <<pc, held, count>>
    BY <1>8 DEF SubscribeFails, MembershipShape
  <2>2. \A d \in Channel : Holders(d)' = Holders(d) /\ Waiters(d)' \subseteq Waiters(d)
    BY <2>1 DEF Holders, Waiters
  <2>3. CountsCover'
    <3> SUFFICES ASSUME NEW d \in Channel
                 PROVE  Cardinality(Holders(d)') + Cardinality(Waiters(d)') <= count'[d]
      BY DEF CountsCover
    <3>1. Waiters(d)' \in SUBSET Connection /\ Waiters(d) \in SUBSET Connection
      BY <2>2, SetsOfConnections
    <3>2. Cardinality(Waiters(d)') <= Cardinality(Waiters(d)) /\ Cardinality(Waiters(d)') \in Nat
      BY <2>2, <3>1, ConnectionSets
    <3>3. Cardinality(Holders(d)) + Cardinality(Waiters(d)) <= count[d] /\ count[d] \in Nat
      BY DEF FabricInv, CountsCover, MembershipShape
    <3> QED
      BY <2>1, <2>2, <3>2, <3>3, Numbers
  <2>4. ListensInv'
    BY <2>1 DEF ListensInv
  <2>5. Waiters(c)' = {}
    BY <2>1 DEF Waiters
  <2>6. AwaitedInv'
    BY <2>1, <2>2, <2>5 DEF FabricInv, AwaitedInv, MembershipShape
  <2> QED
    BY <2>3, <2>4, <2>6 DEF FabricInv
<1>9. ASSUME NEW k \in Connection, LookUpSession(k) PROVE FabricInv'
  <2>1. \A c \in Channel : Holders(c)' = Holders(c) /\ Waiters(c)' = Waiters(c)
    BY <1>9 DEF LookUpSession, Holders, Waiters, MembershipShape
  <2> QED
    BY <1>9, <2>1 DEF LookUpSession, FabricInv, CountsCover, ListensInv, AwaitedInv
<1>10. ASSUME NEW k \in Connection, OpenConnection(k) PROVE FabricInv'
  <2>1. /\ pc[k] = "looked" /\ pc' = [pc EXCEPT ![k] = "open"]
        /\ count' = [c \in Channel |-> IF c \in held[k] THEN count[c] + 1 ELSE count[c]]
        /\ subject' = [c \in Channel |->
             IF c \in held[k] /\ count[c] = 0 THEN "pending" ELSE subject[c]]
        /\ UNCHANGED <<held, waiting, failures>>
    BY <1>10 DEF OpenConnection
  <2> SUFFICES ASSUME NEW c \in Channel
               PROVE  /\ Cardinality(Holders(c)') + Cardinality(Waiters(c)') <= count'[c]
                      /\ failures = 0 /\ count'[c] > 0 => subject'[c] # "off"
                      /\ Waiters(c)' # {} => subject'[c] = "pending"
    BY <2>1 DEF FabricInv, CountsCover, ListensInv, AwaitedInv
  <2>2. /\ Cardinality(Holders(c)) + Cardinality(Waiters(c)) <= count[c] /\ count[c] \in Nat
        /\ Cardinality(Holders(c)) \in Nat /\ Cardinality(Waiters(c)) \in Nat
        /\ failures = 0 /\ count[c] > 0 => subject[c] # "off"
        /\ Waiters(c) # {} => subject[c] = "pending"
    BY Numbers DEF FabricInv, CountsCover, ListensInv, AwaitedInv, MembershipShape
  <2>3. Waiters(c)' = Waiters(c)
    BY <2>1 DEF Waiters
  <2>4. CASE c \in held[k]
    <3>1. Holders(c)' = Holders(c) \cup {k} /\ k \notin Holders(c)
      BY <2>1, <2>4 DEF Holders, MembershipShape
    <3>2. Cardinality(Holders(c)') = Cardinality(Holders(c)) + 1
      BY <3>1, SetsOfConnections, ConnectionSets, FS_AddElement
    <3>3. count'[c] = count[c] + 1
          /\ subject'[c] = IF count[c] = 0 THEN "pending" ELSE subject[c]
      BY <2>1, <2>4
    <3> QED
      BY <2>2, <2>3, <3>2, <3>3
  <2>5. CASE c \notin held[k]
    <3>1. Holders(c)' = Holders(c)
      BY <2>1, <2>5 DEF Holders, MembershipShape
    <3> QED
      BY <2>1, <2>2, <2>3, <2>5, <3>1
  <2> QED
    BY <2>4, <2>5
<1>11. ASSUME NEW k \in Connection, CloseConnection(k) PROVE FabricInv'
  <2>1. /\ pc[k] = "open" /\ pc' = [pc EXCEPT ![k] = "closed"]
        /\ count' = [c \in Channel |-> IF c \in held[k] THEN Released(c, 1) ELSE count[c]]
        /\ subject' = [c \in Channel |-> IF c \in held[k] /\ count'[c] = 0 THEN "off" ELSE subject[c]]
        /\ UNCHANGED <<held, waiting, failures>>
    BY <1>11 DEF CloseConnection
  <2> SUFFICES ASSUME NEW c \in Channel
               PROVE  /\ Cardinality(Holders(c)') + Cardinality(Waiters(c)') <= count'[c]
                      /\ failures = 0 /\ count'[c] > 0 => subject'[c] # "off"
                      /\ Waiters(c)' # {} => subject'[c] = "pending"
    BY <2>1 DEF FabricInv, CountsCover, ListensInv, AwaitedInv
  <2>2. /\ Cardinality(Holders(c)) + Cardinality(Waiters(c)) <= count[c] /\ count[c] \in Nat
        /\ Cardinality(Holders(c)) \in Nat /\ Cardinality(Waiters(c)) \in Nat
        /\ failures = 0 /\ count[c] > 0 => subject[c] # "off"
        /\ Waiters(c) # {} => subject[c] = "pending"
    BY Numbers DEF FabricInv, CountsCover, ListensInv, AwaitedInv, MembershipShape
  <2>3. Waiters(c)' = Waiters(c)
    BY <2>1 DEF Waiters
  <2>4. CASE c \in held[k]
    <3>1. Holders(c)' = Holders(c) \ {k} /\ k \in Holders(c)
      BY <2>1, <2>4 DEF Holders, MembershipShape
    <3>2. IsFiniteSet(Holders(c)) /\ Cardinality(Holders(c)') = Cardinality(Holders(c)) - 1
      BY <3>1, SetsOfConnections, ConnectionSets, FS_RemoveElement
    <3>3. Cardinality(Holders(c)) # 0
      BY <3>1, <3>2, FS_EmptySet
    <3>4. /\ count'[c] = count[c] - 1
          /\ subject'[c] = IF count[c] - 1 = 0 THEN "off" ELSE subject[c]
      BY <2>1, <2>2, <2>4, <3>3 DEF Released
    <3>5. Waiters(c) # {} => Cardinality(Waiters(c)) # 0
      BY SetsOfConnections, ConnectionSets, FS_EmptySet
    <3>6. Waiters(c) # {} => count[c] - 1 # 0
      BY <2>2, <3>3, <3>5
    <3> QED
      BY <2>2, <2>3, <3>2, <3>4, <3>6
  <2>5. CASE c \notin held[k]
    <3>1. Holders(c)' = Holders(c)
      BY <2>1, <2>5 DEF Holders, MembershipShape
    <3> QED
      BY <2>1, <2>2, <2>3, <2>5, <3>1
  <2> QED
    BY <2>4, <2>5
<1>12. ASSUME NEW k \in Connection, ReadMemberships(k) PROVE FabricInv'
  BY <1>12, FabricUntouched DEF ReadMemberships
<1>13. ASSUME NEW k \in Connection, ApplyReread(k) PROVE FabricInv'
  <2>1. /\ UserOf[k] \in User /\ Gone(k) \in SUBSET Channel /\ Gained(k) \in SUBSET Channel
        /\ Gone(k) \cap Gained(k) = {}
    BY UserAssumption DEF Gone, Gained, MembershipShape
  <2>2. Deliver(UserOf[k], Gone(k), Gained(k)) /\ UNCHANGED <<pc, failures>>
    BY <1>13 DEF ApplyReread
  <2> QED
    BY <2>1, <2>2, DeliverKeepsFabric
<1>14. CASE UNCHANGED membershipVars
  BY <1>14, FabricUntouched DEF membershipVars
<1> QED
  BY <1>1, <1>2, <1>3, <1>4, <1>5, <1>6, <1>7, <1>8, <1>9, <1>10, <1>11, <1>12, <1>13, <1>14
     DEF MembershipNext, RereadStep

\* The inductive invariant of the gateway's subscriptions holds in every reachable state.
THEOREM FabricInvariant == MembershipSpec => [](MembershipShape /\ FabricInv)
<1>1. MembershipInit => MembershipShape
  BY ChangesAssumption DEF MembershipInit, MembershipShape, SubjectState
<1>2. MembershipInit => FabricInv
  <2> SUFFICES ASSUME MembershipInit PROVE FabricInv
    OBVIOUS
  <2>1. \A c \in Channel : Holders(c) = {} /\ Waiters(c) = {}
    BY DEF MembershipInit, Holders, Waiters
  <2>2. CountsCover
    <3>1. Cardinality({}) = 0 /\ IsFiniteSet({})
      BY FS_EmptySet
    <3>2. \A c \in Channel : count[c] = 0
      BY DEF MembershipInit
    <3> QED
      BY ONLY <2>1, <3>1, <3>2 DEF CountsCover
  <2>3. ListensInv
    BY DEF ListensInv, MembershipInit
  <2>4. AwaitedInv
    BY <2>1 DEF AwaitedInv
  <2> QED
    BY <2>2, <2>3, <2>4 DEF FabricInv
<1> QED
  BY <1>1, <1>2, ShapePreservedByMembers, FabricPreserved, PTL DEF MembershipSpec

\* Every variable has its type in every reachable state; for what is awaited that is
\* AwaitedInv.
THEOREM MembershipTypeCorrect == MembershipSpec => []MembershipTypeOK
<1>1. MembershipShape /\ FabricInv => MembershipTypeOK
  <2> SUFFICES ASSUME MembershipShape, FabricInv PROVE MembershipTypeOK
    OBVIOUS
  <2>1. \A w \in waiting : subject[w[2]] = "pending"
    <3> TAKE w \in waiting
    <3>1. w[1] \in Connection /\ w[2] \in Channel /\ <<w[1], w[2]>> \in waiting
      BY DEF MembershipShape
    <3>2. w[1] \in Waiters(w[2])
      BY <3>1 DEF Waiters
    <3> QED
      BY <3>1, <3>2 DEF FabricInv, AwaitedInv
  <2>2. losses \in 0..MaxFaults /\ failures \in 0..MaxFaults
    BY ChangesAssumption DEF MembershipShape
  <2> QED
    BY <2>1, <2>2 DEF MembershipShape, MembershipTypeOK
<1> QED
  BY <1>1, FabricInvariant, PTL

\* acquire and release: as long as no SUBSCRIBE fails, a connection that holds a channel
\* is on an instance that listens to it, for any number of users, channels and
\* connections, additions and re-reads that overlap included.
THEOREM HeldStaysSubscribed == MembershipSpec => []HeldIsSubscribed
<1>1. MembershipShape /\ FabricInv => HeldIsSubscribed
  <2> SUFFICES ASSUME MembershipShape, FabricInv, failures = 0, NEW k \in Connection,
                      pc[k] = "open", NEW c \in held[k]
               PROVE  subject[c] # "off"
    BY DEF HeldIsSubscribed
  <2>1. c \in Channel
    BY DEF MembershipShape
  <2>2. IsFiniteSet(Holders(c)) /\ k \in Holders(c)
    BY <2>1, SetsOfConnections, ConnectionSets DEF Holders
  <2>3. Cardinality(Holders(c)) # 0
    BY <2>2, FS_EmptySet
  <2>4. count[c] > 0
    BY <2>1, <2>3, Numbers DEF FabricInv, CountsCover, MembershipShape
  <2> QED
    BY <2>1, <2>4 DEF FabricInv, ListensInv
<1> QED
  BY <1>1, FabricInvariant, PTL

--------------------------------------------------------------------------------
(* RateLimits *)

Todos == {<<>>, <<"auth">>, <<"rest">>, <<"rest", "send">>, <<"send">>}
Requests == [at : Process \cup {NoProcess}, step : {"idle", "check", "count", "expire"},
             window : Window, todo : Todos, over : BOOLEAN, spent : SUBSET Counter]

\* What is under way: a login is checked and then counted, by an api; what was counted
\* was counted under the keys of a window that has begun.
UnderWay(r, now) ==
  /\ r.step \in {"check", "count", "expire"} /\ r.at \in Process /\ r.todo # <<>>
  /\ r.window <= now /\ \A k \in r.spent : k[2] <= now
  /\ r.step = "check" => r.todo = <<"auth">>
  /\ r.todo = <<"auth">> => r.at \in Api /\ r.spent = {}
RequestInv == \A s \in Slot : request[s] = NoRequest \/ UnderWay(request[s], window)

RatesShape ==
  /\ window \in Window /\ up \in BOOLEAN
  /\ counter \in [Counter -> Nat] /\ expiring \subseteq Counter
  /\ down \in [Process -> BOOLEAN] /\ local \in [Api -> Nat]
  /\ request \in [Slot -> Requests]
  /\ passed \in [Window -> Nat] /\ served \in [Counter -> Nat]
  /\ wiped \in Nat /\ broken \in Nat /\ begun \in 0..MaxRequests /\ outages \in 0..MaxOutages

\* The operations of a request, and which come after which.
LEMMA TodoFacts ==
  /\ Len(<<"auth">>) = 1 /\ Len(<<"rest">>) = 1 /\ Len(<<"send">>) = 1
  /\ Len(<<"rest", "send">>) = 2 /\ Tail(<<"rest", "send">>) = <<"send">>
  /\ Head(<<"auth">>) = "auth" /\ Head(<<"rest">>) = "rest" /\ Head(<<"send">>) = "send"
  /\ Head(<<"rest", "send">>) = "rest"
  /\ <<"auth">> # <<>> /\ <<"rest">> # <<>> /\ <<"send">> # <<>> /\ <<"rest", "send">> # <<>>
  /\ <<"auth">> # <<"rest">> /\ <<"auth">> # <<"send">> /\ <<"auth">> # <<"rest", "send">>
OBVIOUS

\* No request is one, of which nothing is to be done.
LEMMA NoRequestIs ==
  /\ NoRequest \in Requests /\ NoRequest.step = "idle" /\ NoRequest.at = NoProcess
  /\ NoRequest.todo = <<>> /\ NoRequest.over = FALSE /\ NoRequest.spent = {}
BY RatesAssumption DEF NoRequest, Requests, Todos, Window

\* A request that is under way, taken apart.
LEMMA RequestParts ==
  ASSUME RatesShape, RequestInv, NEW s \in Slot, request[s].step # "idle"
  PROVE  /\ request[s] \in Requests /\ UnderWay(request[s], window) /\ request[s].at \in Process
         /\ request[s].todo \in {<<"auth">>, <<"rest">>, <<"rest", "send">>, <<"send">>}
         /\ Operation(s) \in {"auth", "rest", "send"}
         /\ IsLogin(s) <=> request[s].todo = <<"auth">>
         /\ IsLogin(s) => request[s].at \in Api /\ request[s].spent = {}
         /\ CounterOf(s) \in Counter /\ CounterOf(s)[2] <= window
         /\ <<Operation(s), request[s].window>> \in Counter
<1>1. request[s] \in Requests /\ UnderWay(request[s], window)
  BY NoRequestIs DEF RatesShape, RequestInv
<1>2. request[s].todo \in {<<"auth">>, <<"rest">>, <<"rest", "send">>, <<"send">>}
      /\ request[s].window \in Window
  BY <1>1 DEF Requests, Todos, UnderWay
<1>3. Operation(s) \in {"auth", "rest", "send"} /\ (IsLogin(s) <=> request[s].todo = <<"auth">>)
  BY <1>2, TodoFacts DEF Operation, IsLogin
<1>4. window \in Window /\ request[s].window <= window
  BY <1>1 DEF RatesShape, UnderWay
<1>5. CounterOf(s) \in Counter /\ CounterOf(s)[2] <= window
  BY <1>2, <1>3, <1>4, RatesAssumption DEF CounterOf, Counter, Window
<1>6. <<Operation(s), request[s].window>> \in Counter
  BY <1>2, <1>3 DEF Counter
<1> QED
  BY <1>1, <1>2, <1>3, <1>5, <1>6 DEF UnderWay

\* What is written about a request that goes on, as the code puts it and spelled out.
Rewritten(r, over, spent) ==
  [r EXCEPT !.step = "count", !.todo = <<"send">>, !.over = over, !.spent = spent]
SecondBudget(r, over, spent) ==
  [at |-> r.at, step |-> "count", window |-> r.window, todo |-> <<"send">>, over |-> over,
   spent |-> spent]

\* The two are the same request.
LEMMA RequestGoesOn ==
  ASSUME NEW r \in Requests, NEW over \in BOOLEAN, NEW spent \in SUBSET Counter
  PROVE  Rewritten(r, over, spent) = SecondBudget(r, over, spent)
<1> USE DEF Rewritten, SecondBudget
<1> SUFFICES ASSUME NEW f, f = [r EXCEPT !.step = "count", !.todo = <<"send">>, !.over = over,
                                         !.spent = spent]
             PROVE  f = [at |-> r.at, step |-> "count", window |-> r.window,
                         todo |-> <<"send">>, over |-> over, spent |-> spent]
  OBVIOUS
<1>1. /\ f.at = r.at /\ f.step = "count" /\ f.window = r.window /\ f.todo = <<"send">>
      /\ f.over = over /\ f.spent = spent
  BY DEF Requests
<1>2. f \in Requests
  BY DEF Requests, Todos
<1>3. f = [at |-> f.at, step |-> f.step, window |-> f.window,
           todo |-> f.todo, over |-> f.over, spent |-> f.spent]
  BY ONLY <1>2 DEF Requests
<1> QED
  BY ONLY <1>1, <1>3

\* A request ends, served or not, or goes on with the second of its two budgets.
LEMMA GoesOnCases ==
  ASSUME RatesShape, RequestInv, NEW s \in Slot, request[s].step # "idle",
         NEW over \in BOOLEAN, NEW spent \in SUBSET Counter, GoesOn(s, over, spent)
  PROVE  \/ /\ request[s].todo = <<"rest", "send">>
            /\ request' = [request EXCEPT ![s] = SecondBudget(request[s], over, spent)]
            /\ served' = served
         \/ /\ request' = [request EXCEPT ![s] = NoRequest]
            /\ over => served' = served
            /\ ~over => served' = [k \in Counter |->
                          IF k \in spent /\ k[2] = window THEN served[k] + 1 ELSE served[k]]
<1>1. request[s] \in Requests
      /\ request[s].todo \in {<<"auth">>, <<"rest">>, <<"rest", "send">>, <<"send">>}
  BY RequestParts
<1>2. CASE request[s].todo = <<"rest", "send">>
  <2>1. Len(request[s].todo) > 1 /\ Tail(request[s].todo) = <<"send">>
    BY <1>2, TodoFacts
  <2>2. PICK r \in Requests : r = request[s]
    BY <1>1
  <2>3. request' = [request EXCEPT ![s] = Rewritten(r, over, spent)] /\ served' = served
    BY <2>1, <2>2 DEF GoesOn, Rewritten
  <2>4. Rewritten(r, over, spent) = SecondBudget(r, over, spent)
    BY RequestGoesOn
  <2> QED
    BY <1>2, <2>2, <2>3, <2>4
<1>3. CASE request[s].todo # <<"rest", "send">>
  <2>1. ~(Len(request[s].todo) > 1)
    BY <1>1, <1>3, TodoFacts
  <2>2. /\ request' = [request EXCEPT ![s] = NoRequest]
        /\ served' = IF over THEN served
                     ELSE [k \in Counter |-> IF k \in {q \in spent : q[2] = window}
                                             THEN served[k] + 1 ELSE served[k]]
    BY <2>1 DEF GoesOn
  <2> QED
    BY <2>2
<1> QED
  BY <1>2, <1>3

\* GoesOn keeps the types, and what it leaves under way is as it must be.
LEMMA GoesOnShape ==
  ASSUME RatesShape, RequestInv, NEW s \in Slot, request[s].step # "idle", window' = window,
         NEW over \in BOOLEAN, NEW spent \in SUBSET Counter, \A k \in spent : k[2] <= window,
         GoesOn(s, over, spent)
  PROVE  /\ request' \in [Slot -> Requests] /\ served' \in [Counter -> Nat] /\ RequestInv'
<1>1. /\ request[s] \in Requests /\ UnderWay(request[s], window) /\ request \in [Slot -> Requests]
      /\ served \in [Counter -> Nat]
  BY RequestParts DEF RatesShape
<1> DEFINE next == SecondBudget(request[s], over, spent)
<1>2. next \in Requests
  BY <1>1 DEF Requests, Todos, SecondBudget
<1>3. UnderWay(next, window)
  BY <1>1, TodoFacts DEF UnderWay, Requests, SecondBudget
<1>4. \A q \in Slot : request[q] = NoRequest \/ UnderWay(request[q], window)
  BY DEF RequestInv
<1>7. (\A q \in Slot : request'[q] = NoRequest \/ UnderWay(request'[q], window)) => RequestInv'
  BY DEF RequestInv, UnderWay
<1>5. CASE request' = [request EXCEPT ![s] = next] /\ served' = served
  BY <1>1, <1>2, <1>3, <1>4, <1>5 DEF RequestInv
<1>6. CASE request' = [request EXCEPT ![s] = NoRequest]
  <2>1. request' \in [Slot -> Requests] /\ RequestInv'
    BY <1>1, <1>4, <1>6, NoRequestIs DEF RequestInv
  <2>2. served' \in [Counter -> Nat]
    BY <1>1, GoesOnCases
  <2> QED
    BY <2>1, <2>2
<1> QED
  BY <1>1, <1>5, <1>6, GoesOnCases

\* The kinds of requests, and who serves them.
LEMMA KindFacts ==
  ASSUME NEW kind \in DOMAIN Kinds, NEW p \in ServedBy(kind)
  PROVE  /\ Kinds[kind] \in {<<"auth">>, <<"rest">>, <<"rest", "send">>, <<"send">>}
         /\ kind = "login" <=> Kinds[kind] = <<"auth">>
         /\ p \in Process /\ (kind = "login" => p \in Api)
<1>1. kind \in {"login", "call", "post", "frame"}
  BY DEF Kinds
<1>2. /\ Kinds["login"] = <<"auth">> /\ Kinds["call"] = <<"rest">>
      /\ Kinds["post"] = <<"rest", "send">> /\ Kinds["frame"] = <<"send">>
  BY DEF Kinds
<1>3. p \in Process /\ (kind = "login" => p \in Api)
  BY DEF ServedBy, Process
<1> QED
  BY <1>1, <1>2, <1>3, TodoFacts

\* A request that begins.
LEMMA BeginShape ==
  ASSUME RatesShape, RequestInv, NEW s \in Slot, NEW kind \in DOMAIN Kinds,
         NEW p \in ServedBy(kind), BeginRequest(s, kind, p)
  PROVE  RatesShape' /\ RequestInv'
<1> DEFINE r == [at |-> p, step |-> IF kind = "login" THEN "check" ELSE "count",
                 window |-> window, todo |-> Kinds[kind], over |-> FALSE, spent |-> {}]
<1>1. r \in Requests
  BY KindFacts DEF Requests, Todos, RatesShape
<1>2. UnderWay(r, window)
  <2>1. /\ r.at = p /\ r.window = window /\ r.todo = Kinds[kind] /\ r.spent = {}
        /\ r.step = IF kind = "login" THEN "check" ELSE "count"
    OBVIOUS
  <2>2. window <= window
    BY DEF RatesShape, Window
  <2> HIDE DEF r
  <2>3. r.todo # <<>>
    BY <2>1, KindFacts, TodoFacts
  <2>4. r.step \in {"check", "count"} /\ (r.step = "check" => r.todo = <<"auth">>)
    BY <2>1, KindFacts
  <2> QED
    BY <2>1, <2>2, <2>3, <2>4, KindFacts DEF UnderWay
<1>3. request' = [request EXCEPT ![s] = r] /\ window' = window
  BY DEF BeginRequest
<1> HIDE DEF r
<1>4. RequestInv'
  BY <1>2, <1>3 DEF RequestInv, RatesShape, UnderWay
<1>5. request' \in [Slot -> Requests]
  BY <1>1, <1>3 DEF RatesShape
<1>6. begun' \in 0..MaxRequests
  BY RatesAssumption DEF RatesShape, BeginRequest
<1> QED
  BY <1>4, <1>5, <1>6 DEF RatesShape, BeginRequest

LEMMA GivesUpShape ==
  ASSUME RatesShape, NEW p \in Process, GivesUp(p)
  PROVE  down' \in [Process -> BOOLEAN] /\ broken' \in Nat
BY DEF RatesShape, GivesUp

LEMMA OutageShape ==
  ASSUME RatesShape, Outage
  PROVE  outages' \in 0..MaxOutages
BY RatesAssumption DEF RatesShape, Outage

\* A login that was checked is to be counted.
LEMMA CheckShape ==
  ASSUME RatesShape, RequestInv, NEW s \in Slot, Check(s)
  PROVE  RatesShape' /\ RequestInv'
<1>1. /\ request[s].step = "check" /\ UnderWay(request[s], window) /\ request[s] \in Requests
      /\ request[s].todo = <<"auth">> /\ request[s].at \in Process
  BY RequestParts DEF Check, UnderWay
<1>2. request' = [request EXCEPT ![s].step = "count"] /\ window' = window
  BY DEF Check
<1>3. /\ request'[s] \in Requests /\ request'[s].step = "count" /\ request'[s].at = request[s].at
      /\ request'[s].window = request[s].window /\ request'[s].todo = <<"auth">>
      /\ request'[s].spent = request[s].spent
      /\ request' \in [Slot -> Requests] /\ \A q \in Slot : q # s => request'[q] = request[q]
  BY <1>1, <1>2 DEF RatesShape, Requests
<1>4. RequestInv'
  BY <1>1, <1>2, <1>3 DEF RequestInv, UnderWay
<1>5. passed' \in [Window -> Nat]
  BY DEF Check, RatesShape
<1>6. down' \in [Process -> BOOLEAN] /\ broken' \in Nat
  BY <1>1, GivesUpShape DEF Check, RatesShape, ServerOf
<1> QED
  BY <1>3, <1>4, <1>5, <1>6 DEF Check, RatesShape, boundedVars

\* What is counted belongs to a window that has begun.
LEMMA CountedShape ==
  ASSUME RatesShape, RequestInv, NEW s \in Slot, request[s].step # "idle", window' = window,
         NEW k \in Counter, k[2] <= window, NEW n \in Nat, Counted(s, k, n)
  PROVE  request' \in [Slot -> Requests] /\ served' \in [Counter -> Nat] /\ RequestInv'
<1> DEFINE over == request[s].over \/ (~IsLogin(s) /\ OverLimit(n))
           spent == IF IsLogin(s) THEN {} ELSE request[s].spent \cup {k}
<1>1. request[s] \in Requests /\ UnderWay(request[s], window)
  BY RequestParts
<1>2. over \in BOOLEAN
  BY <1>1 DEF Requests, OverLimit
<1>3. spent \in SUBSET Counter /\ \A q \in spent : q[2] <= window
  BY <1>1 DEF Requests, UnderWay
<1>4. GoesOn(s, over, spent)
  BY DEF Counted
<1> HIDE DEF over, spent
<1> QED
  BY <1>2, <1>3, <1>4, GoesOnShape

LEMMA UncountedShape ==
  ASSUME RatesShape, RequestInv, NEW s \in Slot, request[s].step # "idle", window' = window,
         Uncounted(s)
  PROVE  /\ request' \in [Slot -> Requests] /\ served' \in [Counter -> Nat] /\ RequestInv'
         /\ local' \in [Api -> Nat]
<1>1. /\ request[s] \in Requests /\ UnderWay(request[s], window)
      /\ IsLogin(s) => request[s].at \in Api
  BY RequestParts
<1>2. request[s].over \in BOOLEAN /\ request[s].spent \in SUBSET Counter
      /\ \A q \in request[s].spent : q[2] <= window
  BY <1>1 DEF Requests, UnderWay
<1>3. GoesOn(s, request[s].over, request[s].spent)
  BY DEF Uncounted
<1>4. local' \in [Api -> Nat]
  BY <1>1 DEF Uncounted, RatesShape, ServerOf
<1> QED
  BY <1>2, <1>3, <1>4, GoesOnShape

\* An INCR, the first of its key or a later one.
LEMMA CountShape ==
  ASSUME RatesShape, RequestInv, NEW s \in Slot, Count(s)
  PROVE  RatesShape' /\ RequestInv'
<1> DEFINE key == CounterOf(s)
<1>1. /\ request[s].step = "count" /\ UnderWay(request[s], window) /\ request[s] \in Requests
      /\ key \in Counter /\ key[2] <= window /\ key[2] \in Window
  BY RequestParts DEF Count, Counter
<1>2. /\ counter' = [counter EXCEPT ![key] = @ + 1] /\ window' = window
      /\ IF counter[key] = 0
           THEN /\ request' = [request EXCEPT ![s].step = "expire", ![s].window = key[2]]
                /\ UNCHANGED served
           ELSE Counted(s, key, counter[key] + 1)
  BY DEF Count
<1>3. counter' \in [Counter -> Nat] /\ counter[key] + 1 \in Nat
  BY <1>1, <1>2 DEF RatesShape
<1> HIDE DEF key
<1>4. CASE counter[key] = 0
  <2>1. request' = [request EXCEPT ![s].step = "expire", ![s].window = key[2]]
        /\ served' = served
    BY <1>2, <1>4
  <2>2. /\ request'[s] \in Requests /\ request'[s].step = "expire"
        /\ request'[s].at = request[s].at
        /\ request'[s].window = key[2] /\ request'[s].todo = request[s].todo
        /\ request'[s].spent = request[s].spent
        /\ request' \in [Slot -> Requests] /\ \A q \in Slot : q # s => request'[q] = request[q]
    BY <1>1, <2>1 DEF RatesShape, Requests
  <2>3. RequestInv'
    BY <1>1, <1>2, <2>2 DEF RequestInv, UnderWay
  <2> QED
    BY <1>3, <2>1, <2>2, <2>3 DEF RatesShape, Count, boundedVars
<1>5. CASE counter[key] # 0
  <2>1. request' \in [Slot -> Requests] /\ served' \in [Counter -> Nat] /\ RequestInv'
    BY <1>1, <1>2, <1>3, <1>5, CountedShape
  <2> QED
    BY <1>3, <2>1 DEF RatesShape, Count, boundedVars
<1> QED
  BY <1>4, <1>5

LEMMA ExpireShape ==
  ASSUME RatesShape, RequestInv, NEW s \in Slot, Expire(s)
  PROVE  RatesShape' /\ RequestInv'
<1> DEFINE key == <<Operation(s), request[s].window>>
<1>1. /\ request[s].step = "expire" /\ UnderWay(request[s], window) /\ request[s] \in Requests
      /\ key \in Counter /\ request[s].at \in Process
  BY RequestParts DEF Expire
<1>2. key[2] <= window
  BY <1>1 DEF UnderWay
<1>3. Counted(s, key, 1) /\ window' = window
  BY DEF Expire
<1>4. expiring' \subseteq Counter
  BY <1>1 DEF Expire, RatesShape
<1> HIDE DEF key
<1>5. request' \in [Slot -> Requests] /\ served' \in [Counter -> Nat] /\ RequestInv'
  BY <1>1, <1>2, <1>3, CountedShape
<1>6. down' \in [Process -> BOOLEAN]
  BY <1>1 DEF Expire, RatesShape, ServerOf
<1> QED
  BY <1>4, <1>5, <1>6 DEF RatesShape, Expire, boundedVars

LEMMA FailShape ==
  ASSUME RatesShape, RequestInv, NEW s \in Slot, CountFails(s) \/ AnswerLost(s)
  PROVE  RatesShape' /\ RequestInv'
<1>1. /\ request[s].step \in {"count", "expire"} /\ GivesUp(ServerOf(s)) /\ Uncounted(s)
      /\ UNCHANGED <<window, up, passed, wiped, begun>>
  BY DEF CountFails, AnswerLost, boundedVars
<1>2. /\ request[s].at \in Process /\ CounterOf(s) \in Counter
      /\ <<Operation(s), request[s].window>> \in Counter
  BY <1>1, RequestParts
<1>3. /\ request' \in [Slot -> Requests] /\ served' \in [Counter -> Nat] /\ RequestInv'
      /\ local' \in [Api -> Nat]
  BY <1>1, UncountedShape
<1>4. down' \in [Process -> BOOLEAN] /\ broken' \in Nat
  BY <1>1, <1>2, GivesUpShape DEF ServerOf
<1>5. counter' \in [Counter -> Nat] /\ expiring' \subseteq Counter
  BY <1>2 DEF CountFails, AnswerLost, RatesShape
<1>6. outages' \in 0..MaxOutages
  BY OutageShape DEF CountFails, AnswerLost, boundedVars, RatesShape
<1> QED
  BY <1>1, <1>3, <1>4, <1>5, <1>6 DEF RatesShape

\* Processes, Redis and time.
LEMMA RestShape ==
  ASSUME RatesShape, RequestInv,
         \/ \E p \in Process : AsksAgain(p) \/ Restart(p)
         \/ GoDown \/ GoUp \/ WindowTurns
         \/ \E k \in Counter : KeyExpires(k)
         \/ UNCHANGED ratesVars
  PROVE  RatesShape' /\ RequestInv'
<1>0. (request' = request /\ window' = window) => RequestInv'
  BY DEF RequestInv, UnderWay
<1>1. ASSUME NEW p \in Process, AsksAgain(p) PROVE RatesShape' /\ RequestInv'
  BY <1>0, <1>1 DEF AsksAgain, RatesShape, boundedVars
<1>2. ASSUME NEW p \in Process, Restart(p) PROVE RatesShape' /\ RequestInv'
  <2>1. request' = [s \in Slot |-> IF request[s].at = p THEN NoRequest ELSE request[s]]
        /\ window' = window
    BY <1>2 DEF Restart, ServerOf
  <2>2. request' \in [Slot -> Requests]
    BY <2>1, NoRequestIs DEF RatesShape
  <2>3. RequestInv'
    BY <2>1 DEF RequestInv, UnderWay
  <2>4. outages' \in 0..MaxOutages
    BY <1>2, OutageShape DEF Restart
  <2>5. local' \in [Api -> Nat] /\ down' \in [Process -> BOOLEAN] /\ broken' \in Nat
    BY <1>2 DEF Restart, RatesShape
  <2> QED
    BY <1>2, <2>2, <2>3, <2>4, <2>5 DEF Restart, RatesShape
<1>3. CASE GoDown
  <2>1. outages' \in 0..MaxOutages
    BY <1>3, OutageShape DEF GoDown
  <2> QED
    BY <1>0, <1>3, <2>1 DEF GoDown, RatesShape
<1>4. CASE GoUp
  <2>1. counter' \in [Counter -> Nat] /\ expiring' \subseteq Counter /\ wiped' \in Nat
    BY <1>4 DEF GoUp, RatesShape
  <2> QED
    BY <1>0, <1>4, <2>1 DEF GoUp, RatesShape
<1>5. CASE WindowTurns
  <2>1. window' \in Window /\ window <= window' /\ window \in Window
    BY <1>5, RatesAssumption DEF WindowTurns, RatesShape, Window
  <2>2. RequestInv'
    <3> SUFFICES ASSUME NEW s \in Slot, request[s] # NoRequest PROVE UnderWay(request[s], window')
      BY <1>5 DEF WindowTurns, RequestInv, UnderWay
    <3>1. UnderWay(request[s], window)
      BY DEF RequestInv
    <3>2. request[s] \in Requests
      BY DEF RatesShape
    <3>3. request[s].window \in Nat /\ \A k \in request[s].spent : k[2] \in Nat
      BY <3>2 DEF Requests, Window, Counter
    <3> QED
      BY <2>1, <3>1, <3>3 DEF UnderWay, Window
  <2> QED
    BY <1>5, <2>1, <2>2 DEF WindowTurns, RatesShape, boundedVars
<1>6. ASSUME NEW k \in Counter, KeyExpires(k) PROVE RatesShape' /\ RequestInv'
  BY <1>0, <1>6 DEF KeyExpires, RatesShape, boundedVars
<1>7. CASE UNCHANGED ratesVars
  BY <1>0, <1>7 DEF ratesVars, RatesShape
<1> QED
  BY <1>1, <1>2, <1>3, <1>4, <1>5, <1>6, <1>7

\* Every action keeps the types, and what is under way as it must be.
LEMMA RatesShapePreserved ==
  RatesShape /\ RequestInv /\ [RatesNext]_ratesVars => RatesShape' /\ RequestInv'
BY BeginShape, CheckShape, CountShape, ExpireShape, FailShape, RestShape
   DEF RatesNext, RequestStep

\* Every variable has its type in every reachable state.
THEOREM RatesTypeCorrect == RatesSpec => []RatesTypeOK
<1>1. RatesInit => RatesShape /\ RequestInv
  BY NoRequestIs, RatesAssumption DEF RatesInit, RatesShape, RequestInv, Window
<1>2. RatesShape => RatesTypeOK
  BY DEF RatesShape, RatesTypeOK, Requests, Todos
<1> QED
  BY <1>1, <1>2, RatesShapePreserved, PTL DEF RatesSpec

(***************************************************************************)
(* Requests that are counted and in time.  A request that has a place in a  *)
(* budget, and is not over another, is booked on it until it is served.     *)
(***************************************************************************)
Books(r, k) == ~r.over /\ (k \in r.spent \/ (r.step = "expire" /\ k = <<Head(r.todo), r.window>>))
Booked(k) == {s \in Slot : Books(request[s], k)}

\* In the window that the clocks are in, each request that was or may be served has a
\* count of its own, up to the limit; what Redis has lost allowed as many again.
FutureServed == \A k \in Counter : k[2] > window => served[k] = 0
NowServed ==
  \A k \in Counter : k[2] = window =>
    /\ served[k] + Cardinality(Booked(k)) <= Limit * wiped + counter[k]
    /\ served[k] + Cardinality(Booked(k)) <= Limit * wiped + Limit
ServedInv == FutureServed /\ NowServed /\ CountedWithinLimit

\* Requests that are booked can be counted.
LEMMA BookedNumbers ==
  \A k \in Counter : Cardinality(Booked(k)) \in Nat /\ IsFiniteSet(Booked(k))
<1> TAKE k \in Counter
<1>1. IsFiniteSet(Booked(k))
  BY RatesAssumption, FS_Subset DEF Booked
<1> QED
  BY <1>1, FS_CardinalityType

\* One request changes.
LEMMA BookedStep ==
  ASSUME NEW s \in Slot, NEW k \in Counter, \A q \in Slot : q # s => request'[q] = request[q]
  PROVE  /\ Cardinality(Booked(k)') \in Nat
         /\ Cardinality(Booked(k)') + (IF Books(request[s], k) THEN 1 ELSE 0)
            = Cardinality(Booked(k)) + (IF Books(request'[s], k) THEN 1 ELSE 0)
<1> DEFINE rest == Booked(k) \ {s}
<1>1. IsFiniteSet(Booked(k)) /\ Cardinality(Booked(k)) \in Nat
  BY BookedNumbers
<1>2. IsFiniteSet(rest) /\ Cardinality(rest) \in Nat
  BY <1>1, FS_RemoveElement, FS_CardinalityType
<1>3. Cardinality(Booked(k)) = Cardinality(rest) + (IF Books(request[s], k) THEN 1 ELSE 0)
  <2>1. Cardinality(rest) = IF s \in Booked(k) THEN Cardinality(Booked(k)) - 1
                            ELSE Cardinality(Booked(k))
    BY <1>1, FS_RemoveElement
  <2>2. s \in Booked(k) <=> Books(request[s], k)
    BY DEF Booked
  <2> QED
    BY <1>1, <1>2, <2>1, <2>2
<1>4. Booked(k)' = IF Books(request'[s], k) THEN rest \cup {s} ELSE rest
  <2>1. \A q \in Slot : q \in Booked(k)' <=> Books(request'[q], k)
    BY DEF Booked, Books
  <2>2. \A q \in Slot : q \in Booked(k) <=> Books(request[q], k)
    BY DEF Booked
  <2>3. Booked(k)' \subseteq Slot /\ Booked(k) \subseteq Slot
    BY DEF Booked
  <2> QED
    BY <2>1, <2>2, <2>3
<1>5. s \notin rest
  OBVIOUS
<1> HIDE DEF rest
<1>6. Cardinality(rest \cup {s}) = Cardinality(rest) + 1
  BY <1>2, <1>5, FS_AddElement
<1> QED
  BY <1>1, <1>2, <1>3, <1>4, <1>6

\* What an action has to do for the invariant to stay, within a window.
LEMMA ServedKept ==
  ASSUME RatesShape, RatesShape', ServedInv, window' = window, wiped' = wiped,
         \A k \in Counter : k[2] # window => served'[k] = served[k],
         \A k \in Counter : k[2] = window =>
           /\ counter'[k] >= counter[k]
           /\ \/ served'[k] + Cardinality(Booked(k)') <= served[k] + Cardinality(Booked(k))
              \/ /\ served'[k] + Cardinality(Booked(k)') <= served[k] + Cardinality(Booked(k)) + 1
                 /\ counter'[k] = counter[k] + 1 /\ counter'[k] <= Limit
  PROVE  ServedInv'
<1> DEFINE base == Limit * wiped
<1>1. base \in Nat /\ Limit \in Nat /\ base' = base
  BY RatesAssumption DEF RatesShape
<1>2. \A k \in Counter : /\ served[k] \in Nat /\ served'[k] \in Nat /\ counter[k] \in Nat
                         /\ counter'[k] \in Nat /\ Cardinality(Booked(k)) \in Nat
  BY BookedNumbers DEF RatesShape
<1>3. \A k \in Counter : Cardinality(Booked(k)') \in Nat
  BY BookedNumbers, RatesAssumption, FS_Subset, FS_CardinalityType DEF Booked
<1>4. \A k \in Counter : k[2] = window =>
        /\ served[k] + Cardinality(Booked(k)) <= base + counter[k]
        /\ served[k] + Cardinality(Booked(k)) <= base + Limit
  BY DEF ServedInv, NowServed
<1>5. Limit * (1 + wiped) = base + Limit
  BY RatesAssumption DEF RatesShape
<1>6. \A k \in Counter : served[k] <= base + Limit
  BY <1>5 DEF ServedInv, CountedWithinLimit
<1> HIDE DEF base
<1>7. \A k \in Counter : k[2] = window =>
        /\ served'[k] + Cardinality(Booked(k)') <= base + counter'[k]
        /\ served'[k] + Cardinality(Booked(k)') <= base + Limit
  BY <1>1, <1>2, <1>3, <1>4
<1>8. \A k \in Counter : served'[k] <= base + Limit
  BY <1>1, <1>2, <1>3, <1>6, <1>7
<1>9. FutureServed'
  <2> SUFFICES ASSUME NEW k \in Counter, k[2] > window PROVE served'[k] = 0
    BY DEF FutureServed
  <2>1. k[2] \in Nat /\ window \in Nat
    BY DEF Counter, Window, RatesShape
  <2>2. k[2] # window
    BY <2>1
  <2> QED
    BY <2>2 DEF ServedInv, FutureServed
<1>10. NowServed'
  BY <1>7 DEF NowServed, base
<1>11. CountedWithinLimit'
  BY <1>5, <1>8 DEF CountedWithinLimit
<1> QED
  BY <1>9, <1>10, <1>11 DEF ServedInv

\* A request that goes on, or ends, keeps the places it had, but for what it is booked on
\* anew.
LEMMA GoesOnServed ==
  ASSUME RatesShape, RequestInv, NEW s \in Slot, request[s].step # "idle",
         NEW over \in BOOLEAN, NEW spent \in SUBSET Counter, GoesOn(s, over, spent),
         NEW k \in Counter
  PROVE  /\ \A q \in Slot : q # s => request'[q] = request[q]
         /\ k[2] # window => served'[k] = served[k]
         /\ k[2] = window =>
              served'[k] + Cardinality(Booked(k)') + (IF Books(request[s], k) THEN 1 ELSE 0)
              = served[k] + Cardinality(Booked(k)) + (IF ~over /\ k \in spent THEN 1 ELSE 0)
<1>1. request \in [Slot -> Requests] /\ served \in [Counter -> Nat]
  BY DEF RatesShape
<1>2. Cardinality(Booked(k)) \in Nat
  BY BookedNumbers
<1>3. CASE /\ request' = [request EXCEPT ![s] = SecondBudget(request[s], over, spent)]
           /\ served' = served
  <2>1. Books(request'[s], k) <=> ~over /\ k \in spent
    BY <1>1, <1>3 DEF Books, SecondBudget
  <2>2. \A q \in Slot : q # s => request'[q] = request[q]
    BY <1>1, <1>3
  <2>3. Cardinality(Booked(k)') \in Nat
        /\ Cardinality(Booked(k)') + (IF Books(request[s], k) THEN 1 ELSE 0)
           = Cardinality(Booked(k)) + (IF Books(request'[s], k) THEN 1 ELSE 0)
    BY <2>2, BookedStep
  <2>4. served'[k] = served[k] /\ served[k] \in Nat
    BY <1>1, <1>3
  <2> QED
    BY <1>2, <2>1, <2>2, <2>3, <2>4
<1>4. CASE /\ request' = [request EXCEPT ![s] = NoRequest]
           /\ over => served' = served
           /\ ~over => served' = [c \in Counter |->
                         IF c \in spent /\ c[2] = window THEN served[c] + 1 ELSE served[c]]
  <2>1. ~Books(request'[s], k)
    BY <1>1, <1>4, NoRequestIs DEF Books
  <2>2. \A q \in Slot : q # s => request'[q] = request[q]
    BY <1>1, <1>4
  <2>3. Cardinality(Booked(k)') \in Nat
        /\ Cardinality(Booked(k)') + (IF Books(request[s], k) THEN 1 ELSE 0)
           = Cardinality(Booked(k)) + (IF Books(request'[s], k) THEN 1 ELSE 0)
    BY <2>2, BookedStep
  <2>4. /\ served[k] \in Nat
        /\ served'[k] = IF ~over /\ k \in spent /\ k[2] = window THEN served[k] + 1 ELSE served[k]
    BY <1>1, <1>4
  <2> QED
    BY <1>2, <2>1, <2>2, <2>3, <2>4
<1> QED
  BY <1>3, <1>4, GoesOnCases

\* An INCR within the limit is what books a request; the first of a key books it at its PEXPIRE.
LEMMA CountServed ==
  ASSUME RatesShape, RatesShape', RequestInv, ServedInv, NEW s \in Slot, Count(s)
  PROVE  ServedInv'
<1> DEFINE key == CounterOf(s)
<1>1. /\ request[s].step = "count" /\ request[s] \in Requests /\ key \in Counter
      /\ key = <<Operation(s), key[2]>>
      /\ IsLogin(s) => request[s].spent = {}
  BY RequestParts DEF Count, CounterOf
<1>2. /\ counter' = [counter EXCEPT ![key] = @ + 1] /\ window' = window /\ wiped' = wiped
      /\ IF counter[key] = 0
           THEN /\ request' = [request EXCEPT ![s].step = "expire", ![s].window = key[2]]
                /\ UNCHANGED served
           ELSE Counted(s, key, counter[key] + 1)
  BY DEF Count, boundedVars
<1>3. counter \in [Counter -> Nat] /\ served \in [Counter -> Nat] /\ request \in [Slot -> Requests]
  BY DEF RatesShape
<1>4. /\ counter[key] \in Nat /\ counter'[key] = counter[key] + 1
      /\ \A k \in Counter : k # key => counter'[k] = counter[k]
      /\ \A k \in Counter : counter'[k] >= counter[k]
  BY <1>1, <1>2, <1>3
<1> HIDE DEF key
<1>5. CASE counter[key] = 0
  <2>1. request' = [request EXCEPT ![s].step = "expire", ![s].window = key[2]] /\ served' = served
    BY <1>2, <1>5
  <2>2. /\ request'[s].step = "expire" /\ request'[s].window = key[2]
        /\ request'[s].todo = request[s].todo /\ request'[s].over = request[s].over
        /\ request'[s].spent = request[s].spent
        /\ \A q \in Slot : q # s => request'[q] = request[q]
    BY <1>1, <1>3, <2>1 DEF Requests
  <2>3. \A k \in Counter : k # key => (Books(request'[s], k) <=> Books(request[s], k))
    BY <1>1, <2>2 DEF Books, Operation
  <2>4. \A k \in Counter :
          /\ Cardinality(Booked(k)') \in Nat
          /\ Cardinality(Booked(k)') + (IF Books(request[s], k) THEN 1 ELSE 0)
             = Cardinality(Booked(k)) + (IF Books(request'[s], k) THEN 1 ELSE 0)
    BY <2>2, BookedStep
  <2>5. \A k \in Counter : served[k] \in Nat /\ Cardinality(Booked(k)) \in Nat
    BY <1>3, BookedNumbers
  <2>6. \A k \in Counter : served'[k] + Cardinality(Booked(k)')
                             <= served[k] + Cardinality(Booked(k)) + 1
    BY <2>1, <2>4, <2>5
  <2>7. \A k \in Counter : k # key => served'[k] + Cardinality(Booked(k)')
                                        <= served[k] + Cardinality(Booked(k))
    <3> SUFFICES ASSUME NEW k \in Counter, k # key
                 PROVE  served'[k] + Cardinality(Booked(k)') <= served[k] + Cardinality(Booked(k))
      OBVIOUS
    <3>1. Books(request'[s], k) <=> Books(request[s], k)
      BY <2>3
    <3>2. Cardinality(Booked(k)') = Cardinality(Booked(k))
      BY <2>4, <2>5, <3>1
    <3> QED
      BY <2>1, <2>5, <3>2
  <2>8. counter'[key] = counter[key] + 1 /\ counter'[key] <= Limit
    BY <1>4, <1>5, RatesAssumption
  <2> QED
    BY <1>2, <1>4, <2>1, <2>6, <2>7, <2>8, ServedKept
<1>6. CASE counter[key] # 0
  <2> DEFINE over == request[s].over \/ (~IsLogin(s) /\ OverLimit(counter[key] + 1))
             spent == IF IsLogin(s) THEN {} ELSE request[s].spent \cup {key}
  <2>1. over \in BOOLEAN /\ spent \in SUBSET Counter
    BY <1>1, <1>4 DEF Requests, OverLimit
  <2>2. GoesOn(s, over, spent)
    BY <1>2, <1>6 DEF Counted
  <2>3. \A k \in Counter : ~over /\ k \in spent /\ k # key => Books(request[s], k)
    BY DEF Books
  <2>4. ~over /\ key \in spent => counter[key] + 1 <= Limit
    BY <1>4, RatesAssumption DEF OverLimit
  <2> HIDE DEF over, spent
  <2>5. \A k \in Counter :
          /\ k[2] # window => served'[k] = served[k]
          /\ k[2] = window =>
               served'[k] + Cardinality(Booked(k)') + (IF Books(request[s], k) THEN 1 ELSE 0)
               = served[k] + Cardinality(Booked(k)) + (IF ~over /\ k \in spent THEN 1 ELSE 0)
    BY <1>1, <2>1, <2>2, GoesOnServed
  <2>6. \A k \in Counter : /\ served[k] \in Nat /\ Cardinality(Booked(k)) \in Nat
                           /\ served'[k] \in Nat /\ Cardinality(Booked(k)') \in Nat
    BY <1>3, BookedNumbers, RatesAssumption, FS_Subset, FS_CardinalityType DEF RatesShape, Booked
  <2>7. \A k \in Counter : k[2] = window /\ (~over /\ k \in spent => Books(request[s], k)) =>
          served'[k] + Cardinality(Booked(k)') <= served[k] + Cardinality(Booked(k))
    BY <2>5, <2>6
  <2>8. \A k \in Counter : k[2] = window =>
          served'[k] + Cardinality(Booked(k)') <= served[k] + Cardinality(Booked(k)) + 1
    BY <2>5, <2>6
  <2>9. \A k \in Counter : k[2] = window =>
          \/ served'[k] + Cardinality(Booked(k)') <= served[k] + Cardinality(Booked(k))
          \/ /\ served'[k] + Cardinality(Booked(k)') <= served[k] + Cardinality(Booked(k)) + 1
             /\ counter'[k] = counter[k] + 1 /\ counter'[k] <= Limit
    BY <1>4, <2>3, <2>4, <2>7, <2>8
  <2> QED
    BY <1>2, <1>4, <2>5, <2>9, ServedKept
<1> QED
  BY <1>5, <1>6

\* Nothing is booked anew by what fails, and by what expires only what was booked.
LEMMA NothingBookedAnew ==
  ASSUME RatesShape, RatesShape', RequestInv, ServedInv, NEW s \in Slot,
         request[s].step # "idle", window' = window, wiped' = wiped,
         \A k \in Counter : counter'[k] >= counter[k],
         NEW over \in BOOLEAN, NEW spent \in SUBSET Counter, GoesOn(s, over, spent),
         \A k \in Counter : ~over /\ k \in spent => Books(request[s], k)
  PROVE  ServedInv'
<1>1. \A k \in Counter :
        /\ k[2] # window => served'[k] = served[k]
        /\ k[2] = window =>
             served'[k] + Cardinality(Booked(k)') + (IF Books(request[s], k) THEN 1 ELSE 0)
             = served[k] + Cardinality(Booked(k)) + (IF ~over /\ k \in spent THEN 1 ELSE 0)
  BY GoesOnServed
<1>2. \A k \in Counter : /\ served[k] \in Nat /\ Cardinality(Booked(k)) \in Nat
                         /\ served'[k] \in Nat /\ Cardinality(Booked(k)') \in Nat
  BY BookedNumbers, RatesAssumption, FS_Subset, FS_CardinalityType DEF RatesShape, Booked
<1>3. \A k \in Counter : k[2] = window =>
        served'[k] + Cardinality(Booked(k)') <= served[k] + Cardinality(Booked(k))
  BY <1>1, <1>2
<1> QED
  BY <1>1, <1>3, ServedKept

\* The request that was first is booked, or served.
LEMMA ExpireServed ==
  ASSUME RatesShape, RatesShape', RequestInv, ServedInv, NEW s \in Slot, Expire(s)
  PROVE  ServedInv'
<1> DEFINE key == <<Operation(s), request[s].window>>
           over == request[s].over \/ (~IsLogin(s) /\ OverLimit(1))
           spent == IF IsLogin(s) THEN {} ELSE request[s].spent \cup {key}
<1>1. /\ request[s].step = "expire" /\ request[s] \in Requests /\ key \in Counter
  BY RequestParts DEF Expire
<1>2. over \in BOOLEAN /\ spent \in SUBSET Counter
  BY <1>1 DEF Requests, OverLimit
<1>3. GoesOn(s, over, spent)
  BY DEF Expire, Counted
<1>4. \A k \in Counter : ~over /\ k \in spent => Books(request[s], k)
  BY <1>1 DEF Books, Operation
<1>5. /\ window' = window /\ wiped' = wiped /\ counter' = counter
      /\ \A k \in Counter : counter[k] \in Nat
  BY DEF Expire, boundedVars, RatesShape
<1>6. \A k \in Counter : counter'[k] >= counter[k]
  BY <1>5
<1> HIDE DEF over, spent, key
<1> QED
  BY <1>1, <1>2, <1>3, <1>4, <1>5, <1>6, NothingBookedAnew

\* A failure books nothing: the request goes uncounted.
LEMMA FailServed ==
  ASSUME RatesShape, RatesShape', RequestInv, ServedInv, NEW s \in Slot,
         CountFails(s) \/ AnswerLost(s)
  PROVE  ServedInv'
<1>1. /\ request[s].step \in {"count", "expire"} /\ Uncounted(s)
      /\ window' = window /\ wiped' = wiped
  BY DEF CountFails, AnswerLost, boundedVars
<1>2. request[s] \in Requests /\ CounterOf(s) \in Counter
  BY <1>1, RequestParts
<1>3. request[s].over \in BOOLEAN /\ request[s].spent \in SUBSET Counter
  BY <1>2 DEF Requests
<1>4. GoesOn(s, request[s].over, request[s].spent)
  BY <1>1 DEF Uncounted
<1>5. \A k \in Counter : ~request[s].over /\ k \in request[s].spent => Books(request[s], k)
  BY DEF Books
<1>6. \A k \in Counter : counter'[k] >= counter[k]
  BY <1>2 DEF CountFails, AnswerLost, RatesShape
<1> QED
  BY <1>1, <1>3, <1>4, <1>5, <1>6, NothingBookedAnew

\* What changes neither what is booked nor what was counted.
LEMMA StartServed ==
  ASSUME RatesShape, RatesShape', RequestInv, ServedInv, NEW s \in Slot,
         \/ Check(s)
         \/ \E kind \in DOMAIN Kinds : \E p \in ServedBy(kind) : BeginRequest(s, kind, p)
  PROVE  ServedInv'
<1>1. /\ window' = window /\ wiped' = wiped /\ counter' = counter /\ served' = served
      /\ request \in [Slot -> Requests]
  BY DEF Check, BeginRequest, boundedVars, RatesShape
<1>2. /\ \A q \in Slot : q # s => request'[q] = request[q]
      /\ \A k \in Counter : Books(request'[s], k) <=> Books(request[s], k)
  <2>1. CASE Check(s)
    <3>1. /\ \A q \in Slot : q # s => request'[q] = request[q]
          /\ request'[s].step = "count" /\ request[s].step = "check"
          /\ request'[s].over = request[s].over /\ request'[s].spent = request[s].spent
      BY <1>1, <2>1 DEF Check, Requests
    <3> QED
      BY <3>1 DEF Books
  <2>2. ASSUME NEW kind \in DOMAIN Kinds, NEW p \in ServedBy(kind), BeginRequest(s, kind, p)
        PROVE  /\ \A q \in Slot : q # s => request'[q] = request[q]
               /\ \A k \in Counter : Books(request'[s], k) <=> Books(request[s], k)
    <3>1. /\ \A q \in Slot : q # s => request'[q] = request[q]
          /\ request[s] = NoRequest /\ request'[s].spent = {} /\ request'[s].step # "expire"
      BY <1>1, <2>2 DEF BeginRequest
    <3> QED
      BY <3>1, NoRequestIs DEF Books
  <2> QED
    BY <2>1, <2>2
<1>3. \A k \in Counter :
        /\ Cardinality(Booked(k)') \in Nat
        /\ Cardinality(Booked(k)') + (IF Books(request[s], k) THEN 1 ELSE 0)
           = Cardinality(Booked(k)) + (IF Books(request'[s], k) THEN 1 ELSE 0)
  BY <1>2, BookedStep
<1>4. \A k \in Counter : /\ Cardinality(Booked(k)) \in Nat /\ served[k] \in Nat /\ counter[k] \in Nat
  BY BookedNumbers DEF RatesShape
<1>5. \A k \in Counter : Cardinality(Booked(k)') = Cardinality(Booked(k))
  BY <1>2, <1>3, <1>4
<1>6. \A k \in Counter :
        /\ counter'[k] >= counter[k]
        /\ served'[k] + Cardinality(Booked(k)') <= served[k] + Cardinality(Booked(k))
  BY <1>1, <1>4, <1>5
<1> QED
  BY <1>1, <1>6, ServedKept

\* Processes, Redis and time.  An empty Redis allows the limit once more; when the window
\* turns nothing is booked on the next one yet.
LEMMA RestServed ==
  ASSUME RatesShape, RatesShape', RequestInv, ServedInv,
         \/ \E p \in Process : AsksAgain(p) \/ Restart(p)
         \/ GoDown \/ GoUp \/ WindowTurns
         \/ \E k \in Counter : KeyExpires(k)
         \/ UNCHANGED ratesVars
  PROVE  ServedInv'
<1>0. \A k \in Counter : /\ Cardinality(Booked(k)) \in Nat /\ served[k] \in Nat
                         /\ counter[k] \in Nat /\ k[2] \in Nat /\ window \in Nat
  BY BookedNumbers DEF RatesShape, Counter, Window
<1>1. ASSUME UNCHANGED <<window, wiped, served, request>>,
             \A k \in Counter : k[2] = window => counter'[k] >= counter[k]
      PROVE  ServedInv'
  <2>1. \A k \in Counter : Booked(k)' = Booked(k)
    BY <1>1 DEF Booked
  <2>2. \A k \in Counter : served'[k] + Cardinality(Booked(k)') <= served[k] + Cardinality(Booked(k))
    BY <1>0, <1>1, <2>1
  <2> QED
    BY <1>1, <2>2, ServedKept
<1>2. ASSUME NEW p \in Process, AsksAgain(p) PROVE ServedInv'
  BY <1>0, <1>1, <1>2 DEF AsksAgain, boundedVars
<1>3. ASSUME NEW p \in Process, Restart(p) PROVE ServedInv'
  <2>1. /\ request' = [s \in Slot |-> IF request[s].at = p THEN NoRequest ELSE request[s]]
        /\ UNCHANGED <<window, wiped, served, counter>>
    BY <1>3 DEF Restart, ServerOf
  <2>2. ASSUME NEW k \in Counter
        PROVE  Cardinality(Booked(k)') \in Nat /\ Cardinality(Booked(k)') <= Cardinality(Booked(k))
    <3>1. Booked(k)' \subseteq Booked(k)
      BY <2>1, NoRequestIs DEF Booked, Books
    <3> QED
      BY <3>1, BookedNumbers, FS_Subset, FS_CardinalityType
  <2>3. \A k \in Counter :
          /\ counter'[k] >= counter[k]
          /\ served'[k] + Cardinality(Booked(k)') <= served[k] + Cardinality(Booked(k))
    BY <1>0, <2>1, <2>2
  <2> QED
    BY <2>1, <2>3, ServedKept
<1>4. CASE GoDown
  BY <1>0, <1>1, <1>4 DEF GoDown
<1>5. CASE GoUp
  <2>1. CASE UNCHANGED <<counter, expiring, wiped>>
    BY <1>0, <1>1, <1>5, <2>1 DEF GoUp
  <2>2. CASE counter' = [k \in Counter |-> 0] /\ wiped' = wiped + 1
    <3>1. /\ UNCHANGED <<window, served, request>> /\ wiped \in Nat /\ Limit \in Nat
          /\ \A k \in Counter : Booked(k)' = Booked(k)
      BY <1>5, RatesAssumption DEF GoUp, Booked, RatesShape
    <3>2. /\ Limit * wiped' = Limit * wiped + Limit
          /\ Limit * (1 + wiped') = Limit * (1 + wiped) + Limit
          /\ Limit * wiped \in Nat /\ Limit * (1 + wiped) \in Nat
      BY <2>2, <3>1
    <3>3. FutureServed'
      BY <3>1 DEF ServedInv, FutureServed
    <3>4. NowServed'
      <4> SUFFICES ASSUME NEW k \in Counter, k[2] = window
                   PROVE  /\ served[k] + Cardinality(Booked(k)) <= Limit * wiped' + counter'[k]
                          /\ served[k] + Cardinality(Booked(k)) <= Limit * wiped' + Limit
        BY <3>1 DEF NowServed
      <4>1. served[k] + Cardinality(Booked(k)) <= Limit * wiped + Limit
        BY DEF ServedInv, NowServed
      <4>2. counter'[k] = 0
        BY <2>2
      <4> QED
        BY <1>0, <3>1, <3>2, <4>1, <4>2
    <3>5. CountedWithinLimit'
      BY <1>0, <3>1, <3>2 DEF ServedInv, CountedWithinLimit
    <3> QED
      BY <3>3, <3>4, <3>5 DEF ServedInv
  <2> QED
    BY <1>5, <2>1, <2>2 DEF GoUp
<1>6. CASE WindowTurns
  <2>1. UNCHANGED <<wiped, served, request, counter>> /\ window' = window + 1
    BY <1>6 DEF WindowTurns, boundedVars
  <2>2. FutureServed'
    BY <1>0, <2>1 DEF ServedInv, FutureServed
  <2>3. NowServed'
    <3> SUFFICES ASSUME NEW k \in Counter, k[2] = window + 1
                 PROVE  /\ served[k] + Cardinality(Booked(k)') <= Limit * wiped + counter[k]
                        /\ served[k] + Cardinality(Booked(k)') <= Limit * wiped + Limit
      BY <2>1 DEF NowServed
    <3>1. served[k] = 0
      BY <1>0 DEF ServedInv, FutureServed
    <3>2. \A s \in Slot : ~Books(request[s], k)
      <4> SUFFICES ASSUME NEW s \in Slot, Books(request[s], k) PROVE FALSE
        OBVIOUS
      <4>1. k \in request[s].spent \/ (request[s].step = "expire" /\ k[2] = request[s].window)
        BY DEF Books
      <4>2. UnderWay(request[s], window)
        BY <4>1, NoRequestIs DEF RequestInv
      <4>3. k[2] <= window
        BY <4>1, <4>2 DEF UnderWay
      <4> QED
        BY <1>0, <4>3
    <3>3. Booked(k)' = {}
      BY <2>1, <3>2 DEF Booked
    <3>4. Limit * wiped \in Nat /\ Limit \in Nat
      BY RatesAssumption DEF RatesShape
    <3> QED
      BY <1>0, <3>1, <3>3, <3>4, FS_EmptySet
  <2>4. CountedWithinLimit'
    BY <2>1 DEF ServedInv, CountedWithinLimit
  <2> QED
    BY <2>2, <2>3, <2>4 DEF ServedInv
<1>7. ASSUME NEW k \in Counter, KeyExpires(k) PROVE ServedInv'
  <2>1. \A q \in Counter : q[2] = window => counter'[q] >= counter[q]
    BY <1>0, <1>7 DEF KeyExpires, RatesShape
  <2> QED
    BY <1>1, <1>7, <2>1 DEF KeyExpires, boundedVars
<1>8. CASE UNCHANGED ratesVars
  BY <1>0, <1>1, <1>8 DEF ratesVars
<1> QED
  BY <1>2, <1>3, <1>4, <1>5, <1>6, <1>7, <1>8

\* Every action keeps the requests served and booked within what Redis has counted.
LEMMA ServedPreserved ==
  RatesShape /\ RequestInv /\ ServedInv /\ [RatesNext]_ratesVars => ServedInv'
BY RatesShapePreserved, StartServed, CountServed, ExpireServed, FailServed, RestServed
   DEF RatesNext, RequestStep

\* Nothing has been counted.
LEMMA ServedInitially == RatesInit => ServedInv
<1> SUFFICES ASSUME RatesInit PROVE ServedInv
  OBVIOUS
<1>1. \A k \in Counter : Booked(k) = {}
  BY NoRequestIs DEF RatesInit, Booked, Books
<1>2. wiped = 0 /\ Limit \in Nat /\ \A k \in Counter : served[k] = 0 /\ counter[k] = 0
  BY RatesAssumption DEF RatesInit
<1>3. Limit * wiped = 0 /\ Limit * (1 + wiped) = Limit
  BY <1>2
<1>4. \A k \in Counter : Cardinality(Booked(k)) = 0
  BY <1>1, FS_EmptySet
<1>5. FutureServed /\ CountedWithinLimit
  BY <1>2, <1>3 DEF FutureServed, CountedWithinLimit
<1>6. NowServed
  BY <1>2, <1>3, <1>4 DEF NowServed
<1> QED
  BY <1>5, <1>6 DEF ServedInv

(***************************************************************************)
(* Logins that fail.  Whoever counts, the store or a process that does not   *)
(* ask it, has let through what it has counted and what is still to be       *)
(* counted there, as long as that is less than what is allowed, and so has   *)
(* used Share at the most by the time it refuses.  The store starts again    *)
(* when its keys are gone, and when a process that asked it dies; the count  *)
(* of a process, when its breaker opens, and then takes over what the store  *)
(* let through for it and will not hear of.                                  *)
(***************************************************************************)
Share == Allowed - 1 + Cardinality(Slot)
Fallen == {p \in Api : down[p]}
Unrecorded == {s \in Slot : request[s].step = "count" /\ request[s].todo = <<"auth">>}
ToItself(p) == {s \in Unrecorded : request[s].at = p}
ToStore == {s \in Unrecorded : request[s].at \notin Fallen}
AuthKey == <<"auth", window>>

\* own[p] tickets for each process that has fallen back on itself.
Tickets(fallen, own) == {t \in fallen \X (1..Share) : t[2] <= own[t[1]]}

Account(shared, own) ==
  /\ passed[window] <= Share * ((wiped + broken) - Cardinality(Fallen))
                       + shared + Cardinality(Tickets(Fallen, own))
  /\ counter[AuthKey] < Allowed => shared <= counter[AuthKey] + Cardinality(ToStore)
  /\ \A p \in Fallen : local[p] < Allowed => own[p] <= local[p] + Cardinality(ToItself(p))

FallenInv == Cardinality(Fallen) <= broken
AccountInv == \E shared \in 0..Share, own \in [Api -> 0..Share] : Account(shared, own)
FuturePassed == \A w \in Window : w > window => passed[w] = 0
PassInv == FallenInv /\ AccountInv /\ FuturePassed /\ FailuresAreBounded

\* A Share covers whoever is being verified.
LEMMA ShareIsNat == Cardinality(Slot) \in Nat /\ Share \in Nat /\ Cardinality(Slot) <= Share
<1>1. Cardinality(Slot) \in Nat
  BY RatesAssumption, FS_CardinalityType
<1> QED
  BY <1>1, RatesAssumption DEF Share

\* What the proofs need of sums and products, on numbers: the provers do not follow it on the
\* terms of the state after a step.
LEMMA SharesOf ==
  \A a \in Nat, b, c \in Int : a * (b + c) = a * b + a * c /\ a * 1 = a
OBVIOUS

LEMMA Monotone == \A a, b, c \in Nat : b <= c => a * b <= a * c
<1> SUFFICES ASSUME NEW a \in Nat, NEW b \in Nat, NEW c \in Nat, b <= c PROVE a * b <= a * c
  OBVIOUS
<1>1. PICK d \in Nat : c = b + d
  <2>1. c - b \in Nat /\ c = b + (c - b)
    OBVIOUS
  <2> QED
    BY <2>1
<1>2. a * c = a * b + a * d /\ a * d \in Nat /\ a * b \in Nat
  BY <1>1, SharesOf
<1> QED
  BY <1>2

\* One payment more is a Share more.
LEMMA SharesGrow ==
  \A a, b, c \in Nat : /\ c >= b => a * c >= a * b
                       /\ c >= b + 1 => a * c >= a * b + a
<1> SUFFICES ASSUME NEW a \in Nat, NEW b \in Nat, NEW c \in Nat
             PROVE  /\ c >= b => a * c >= a * b
                    /\ c >= b + 1 => a * c >= a * b + a
  OBVIOUS
<1>1. c >= b => a * c >= a * b
  BY Monotone
<1>2. c >= b + 1 => a * c >= a * (b + 1)
  BY Monotone
<1>3. a * (b + 1) = a * b + a
  OBVIOUS
<1> QED
  BY <1>1, <1>2, <1>3

LEMMA SumsGrow ==
  \A a, b, c, d \in Nat :
    /\ a + b \in Nat /\ 1 + a + b \in Nat /\ 1 + (a + b) = 1 + a + b
    /\ a <= b => a <= c + b
    /\ c >= a /\ d >= b => a + b <= c + d /\ 1 + a + b <= 1 + c + d
OBVIOUS

LEMMA AtMost ==
  \A a, b, c, d, e \in Nat :
    /\ 0 <= a + b
    /\ e <= a + b /\ a + b <= c + d => e <= c + d
OBVIOUS

\* A number that stays below another, and one that grows with it.
LEMMA AtMostAfter ==
  \A f, f2, b, b2 \in Nat :
    /\ f <= b /\ f2 <= f /\ b2 >= b => f2 <= b2
    /\ f <= b /\ f2 = f + 1 /\ b2 = b + 1 => f2 <= b2
OBVIOUS

\* What is paid for and not yet used, against who has fallen back on itself.
LEMMA PaymentsGrow ==
  \A w, b, w2, b2, f, f2 \in Nat :
    w2 >= w /\ b2 >= b =>
      /\ f >= f2 => w2 + b2 + f >= w + b + f2
      /\ f >= f2 /\ (w2 > w \/ b2 > b) => w2 + b2 + f >= w + b + f2 + 1
      /\ f = f2 + 1 => w2 + b2 + f >= w + b + f2 + 1
      /\ f2 = f + 1 /\ b2 > b => w2 + b2 + f >= w + b + f2
OBVIOUS

LEMMA Least == \A a, b \in Nat : \E n \in Nat : n <= a /\ n <= b /\ (n = a \/ n = b)
OBVIOUS

\* The store's line, when n of shared are taken from c of those who are still to record.
LEMMA LineAfter ==
  \A shared, n, c, k, k2, r, r2 \in Nat :
    /\ (k < Allowed => shared <= k + r) /\ k2 >= k /\ r = r2 + c
    /\ n <= shared /\ (n = shared \/ n = c)
    => (k2 < Allowed => shared - n <= k2 + r2)
<1>1. Allowed \in Nat
  BY RatesAssumption
<1> QED
  BY <1>1

\* A line whose count and whose unrecorded change.
LEMMA LineGrows ==
  \A k, r, k2, r2 \in Nat :
    /\ k2 >= k /\ r2 >= r => (k2 < Allowed => k < Allowed /\ k + r <= k2 + r2)
    /\ k2 = k + 1 /\ r = r2 + 1 => (k2 < Allowed => k < Allowed /\ k + r <= k2 + r2)
<1>1. Allowed \in Nat
  BY RatesAssumption
<1> QED
  BY <1>1

\* Recorded with the process, or not there to be recorded.
LEMMA RecordedThere ==
  \A c, c2, l, l2 \in Nat :
    /\ c = c2 + 1 /\ l2 = l + 1 => c + 0 <= l2 + c2
    /\ c = c2 => c + 0 <= l2 + c2
OBVIOUS

\* Tickets can be counted, a Share for a process at the most.
LEMMA TicketNumbers ==
  ASSUME NEW fallen \in SUBSET Api, NEW own \in [Api -> 0..Share]
  PROVE  /\ IsFiniteSet(fallen) /\ Cardinality(fallen) \in Nat
         /\ IsFiniteSet(Tickets(fallen, own)) /\ Cardinality(Tickets(fallen, own)) \in Nat
         /\ Cardinality(Tickets(fallen, own)) <= Cardinality(fallen) * Share
<1>1. IsFiniteSet(fallen) /\ Cardinality(fallen) \in Nat
  BY RatesAssumption, FS_Subset, FS_CardinalityType
<1>2. IsFiniteSet(1..Share) /\ Cardinality(1..Share) = Share
  BY ShareIsNat, FS_Interval
<1>3. /\ IsFiniteSet(fallen \X (1..Share))
      /\ Cardinality(fallen \X (1..Share)) = Cardinality(fallen) * Share
  BY <1>1, <1>2, FS_Product
<1>4. Tickets(fallen, own) \subseteq fallen \X (1..Share)
  BY DEF Tickets
<1> QED
  BY <1>1, <1>3, <1>4, FS_Subset, FS_CardinalityType

\* One more is let through by a process that counts for itself ...
LEMMA TicketTaken ==
  ASSUME NEW fallen \in SUBSET Api, NEW own \in [Api -> 0..Share], NEW p \in fallen,
         own[p] < Share
  PROVE  Cardinality(Tickets(fallen, [own EXCEPT ![p] = own[p] + 1]))
         = Cardinality(Tickets(fallen, own)) + 1
<1> DEFINE t == <<p, own[p] + 1>>
<1>1. own[p] \in Nat /\ own[p] + 1 \in 1..Share
  BY ShareIsNat
<1>2. Tickets(fallen, [own EXCEPT ![p] = own[p] + 1]) = Tickets(fallen, own) \cup {t}
  <2> SUFFICES ASSUME NEW q \in fallen, NEW n \in 1..Share
               PROVE  n <= [own EXCEPT ![p] = own[p] + 1][q] <=> n <= own[q] \/ <<q, n>> = t
    BY <1>1 DEF Tickets
  <2> QED
    BY <1>1
<1>3. t \notin Tickets(fallen, own)
  BY <1>1 DEF Tickets
<1> HIDE DEF t
<1> QED
  BY <1>2, <1>3, TicketNumbers, FS_AddElement

\* ... the breaker of another opens, with n that the store let through for it ...
LEMMA TicketsOpened ==
  ASSUME NEW fallen \in SUBSET Api, NEW own \in [Api -> 0..Share], NEW p \in Api \ fallen,
         NEW n \in 0..Share
  PROVE  Cardinality(Tickets(fallen \cup {p}, [own EXCEPT ![p] = n]))
         = Cardinality(Tickets(fallen, own)) + n
<1> DEFINE new == {p} \X (1..n)
<1>1. n \in Nat
  BY ShareIsNat
<1>2. /\ IsFiniteSet(new) /\ Cardinality(new) = n
  <2>1. IsFiniteSet(1..n) /\ Cardinality(1..n) = n
    BY <1>1, FS_Interval
  <2>2. IsFiniteSet({p}) /\ Cardinality({p}) = 1
    BY FS_Singleton
  <2>3. IsFiniteSet(new) /\ Cardinality(new) = 1 * n
    BY <2>1, <2>2, FS_Product
  <2> QED
    BY <1>1, <2>3
<1>3. Tickets(fallen \cup {p}, [own EXCEPT ![p] = n]) = Tickets(fallen, own) \cup new
  <2>1. \A q \in fallen : [own EXCEPT ![p] = n][q] = own[q]
    OBVIOUS
  <2>2. [own EXCEPT ![p] = n][p] = n
    OBVIOUS
  <2>3. 1..n \subseteq 1..Share /\ \A i \in 1..Share : i <= n <=> i \in 1..n
    BY <1>1, ShareIsNat
  <2> QED
    BY <2>1, <2>2, <2>3 DEF Tickets
<1>4. Tickets(fallen, own) \cap new = {}
  BY DEF Tickets
<1>5. IsFiniteSet(Tickets(fallen, own)) /\ Cardinality(Tickets(fallen, own)) \in Nat
  BY TicketNumbers
<1> HIDE DEF new
<1>6. Cardinality(Tickets(fallen, own) \cup new)
      = Cardinality(Tickets(fallen, own)) + Cardinality(new)
        - Cardinality(Tickets(fallen, own) \cap new)
  BY <1>2, <1>5, FS_Union
<1>7. Cardinality(Tickets(fallen, own) \cap new) = 0
  BY <1>4, FS_EmptySet
<1>8. Cardinality(Tickets(fallen, own) \cup new) = Cardinality(Tickets(fallen, own)) + n
  BY ONLY <1>1, <1>2, <1>5, <1>6, <1>7
<1> QED
  BY ONLY <1>3, <1>8

\* ... and it closes.
LEMMA TicketsClosed ==
  ASSUME NEW fallen \in SUBSET Api, NEW own \in [Api -> 0..Share], NEW p \in fallen
  PROVE  Cardinality(Tickets(fallen, own)) <= Cardinality(Tickets(fallen \ {p}, own)) + Share
<1> DEFINE rest == fallen \ {p}
           same == [own EXCEPT ![p] = own[p]]
<1>1. rest \in SUBSET Api /\ own[p] \in 0..Share /\ p \in Api \ rest
  OBVIOUS
<1>2. fallen = rest \cup {p} /\ own = same
  OBVIOUS
<1>3. Cardinality(Tickets(rest \cup {p}, same)) = Cardinality(Tickets(rest, own)) + own[p]
  BY <1>1, TicketsOpened
<1>4. Cardinality(Tickets(rest, own)) \in Nat
  BY <1>1, TicketNumbers
<1> HIDE DEF rest, same
<1>5. Cardinality(Tickets(fallen, own)) = Cardinality(Tickets(rest, own)) + own[p]
  BY ONLY <1>2, <1>3
<1>6. Cardinality(Tickets(fallen, own)) <= Cardinality(Tickets(rest, own)) + Share
  BY <1>1, <1>4, <1>5, ShareIsNat
<1> QED
  BY <1>6 DEF rest

\* Sets of requests can be counted.
LEMMA SlotNumbers ==
  ASSUME NEW S \in SUBSET Slot, NEW T \in SUBSET Slot
  PROVE  /\ IsFiniteSet(S) /\ Cardinality(S) \in Nat /\ Cardinality(S) <= Cardinality(Slot)
         /\ Cardinality(Slot) \in Nat
         /\ S \subseteq T => Cardinality(S) <= Cardinality(T)
         /\ S \subseteq T => Cardinality(T \ S) = Cardinality(T) - Cardinality(S)
         /\ \A s \in Slot \ S : Cardinality(S \cup {s}) = Cardinality(S) + 1
         /\ \A s \in S : Cardinality(S \ {s}) = Cardinality(S) - 1
<1>1. /\ IsFiniteSet(S) /\ Cardinality(S) \in Nat /\ IsFiniteSet(T) /\ Cardinality(T) \in Nat
      /\ Cardinality(S) <= Cardinality(Slot) /\ Cardinality(Slot) \in Nat
  BY RatesAssumption, FS_Subset, FS_CardinalityType
<1>2. S \subseteq T => Cardinality(S) <= Cardinality(T)
  BY <1>1, FS_Subset
<1>3. ASSUME S \subseteq T PROVE Cardinality(T \ S) = Cardinality(T) - Cardinality(S)
  <2>1. T = (T \ S) \cup S /\ (T \ S) \cap S = {}
    BY <1>3
  <2>2. IsFiniteSet(T \ S) /\ Cardinality(T \ S) \in Nat
    BY <1>1, FS_Difference, FS_CardinalityType
  <2>3. Cardinality((T \ S) \cup S) = Cardinality(T \ S) + Cardinality(S) - Cardinality((T \ S) \cap S)
    BY <1>1, <2>2, FS_Union
  <2>4. Cardinality((T \ S) \cap S) = 0
    BY <2>1, FS_EmptySet
  <2>5. Cardinality((T \ S) \cup S) = Cardinality(T)
    BY ONLY <2>1
  <2> QED
    BY ONLY <1>1, <2>2, <2>3, <2>4, <2>5
<1>4. \A s \in Slot \ S : Cardinality(S \cup {s}) = Cardinality(S) + 1
  BY <1>1, FS_AddElement
<1>5. \A s \in S : Cardinality(S \ {s}) = Cardinality(S) - 1
  BY <1>1, FS_RemoveElement
<1> QED
  BY <1>1, <1>2, <1>3, <1>4, <1>5

\* Who is still to record is a request, and who has fallen back an api.
LEMMA LoginSets ==
  /\ Unrecorded \in SUBSET Slot /\ ToStore \in SUBSET Slot /\ Fallen \in SUBSET Api
  /\ \A p : ToItself(p) \in SUBSET Slot
BY DEF Unrecorded, ToStore, Fallen, ToItself

LEMMA LoginSetsAfter ==
  /\ Unrecorded' \in SUBSET Slot /\ ToStore' \in SUBSET Slot /\ Fallen' \in SUBSET Api
  /\ \A p : ToItself(p)' \in SUBSET Slot
BY DEF Unrecorded, ToStore, Fallen, ToItself

\* An account that holds comes to a Share for each payment, and one.
LEMMA AccountComesTo ==
  ASSUME NEW f \in Nat, NEW b \in Nat, NEW t \in Nat, NEW shared \in 0..Share, NEW p \in Nat,
         f <= b, t <= f * Share, p <= Share * (b - f) + shared + t
  PROVE  p <= Share * (1 + b)
<1>1. Share \in Nat
  BY ShareIsNat
<1>2. Share * (b - f) + f * Share = Share * b /\ Share * (1 + b) = Share * b + Share
  BY <1>1
<1>3. Share * (b - f) \in Nat /\ f * Share \in Nat /\ Share * b \in Nat
  BY <1>1
<1> QED
  BY <1>1, <1>2, <1>3

\* What the account comes to, after a step.
LEMMA AccountBounds ==
  ASSUME RatesShape', FallenInv', AccountInv'
  PROVE  passed'[window'] <= Share * (1 + wiped' + broken')
<1>1. PICK shared \in 0..Share, own \in [Api -> 0..Share] : Account(shared, own)'
  BY DEF AccountInv
<1> DEFINE f == Cardinality(Fallen')
           t == Cardinality(Tickets(Fallen', own))
<1>2. f \in Nat /\ t \in Nat /\ t <= f * Share
  BY LoginSetsAfter, TicketNumbers
<1>3. /\ wiped' \in Nat /\ broken' \in Nat /\ f <= broken' /\ passed'[window'] \in Nat
  BY DEF RatesShape, FallenInv
<1>4. wiped' + broken' \in Nat /\ f <= wiped' + broken'
  BY ONLY <1>2, <1>3, SumsGrow
<1>5. passed'[window'] <= Share * ((wiped' + broken') - f) + shared + t
  BY <1>1 DEF Account, Tickets
<1> HIDE DEF f, t
<1>6. passed'[window'] <= Share * (1 + (wiped' + broken'))
  BY <1>2, <1>3, <1>4, <1>5, AccountComesTo
<1>7. 1 + (wiped' + broken') = 1 + wiped' + broken'
  BY <1>3
<1> QED
  BY <1>6, <1>7

\* What an action has to do within a window.
LEMMA PassedKept ==
  ASSUME RatesShape, RatesShape', PassInv, window' = window, wiped' >= wiped, broken' >= broken,
         \A w \in Window : w # window => passed'[w] = passed[w],
         FallenInv', AccountInv'
  PROVE  PassInv'
<1>1. FuturePassed'
  <2> SUFFICES ASSUME NEW w \in Window, w > window PROVE passed'[w] = 0
    BY DEF FuturePassed
  <2>1. w # window
    BY DEF RatesShape, Window
  <2> QED
    BY <2>1 DEF PassInv, FuturePassed
<1>2. FailuresAreBounded'
  <2> SUFFICES ASSUME NEW w \in Window PROVE passed'[w] <= Share * (1 + wiped' + broken')
    BY DEF FailuresAreBounded, Share
  <2>1. CASE w = window
    <3>1. passed'[window'] <= Share * (1 + wiped' + broken')
      BY AccountBounds
    <3> QED
      BY <2>1, <3>1
  <2>2. CASE w # window
    <3>1. passed[w] <= Share * (1 + wiped + broken)
      BY DEF PassInv, FailuresAreBounded, Share
    <3>2. /\ 1 + wiped + broken \in Nat /\ 1 + wiped' + broken' \in Nat
          /\ 1 + wiped + broken <= 1 + wiped' + broken'
      <4>1. wiped \in Nat /\ broken \in Nat /\ wiped' \in Nat /\ broken' \in Nat
        BY DEF RatesShape
      <4>2. wiped' >= wiped /\ broken' >= broken
        OBVIOUS
      <4> QED
        BY ONLY <4>1, <4>2, SumsGrow
    <3>3. Share * (1 + wiped + broken) <= Share * (1 + wiped' + broken')
      BY <3>2, ShareIsNat, Monotone
    <3>4. passed'[w] \in Nat /\ passed'[w] = passed[w]
      BY <2>2 DEF RatesShape
    <3>5. Share * (1 + wiped + broken) \in Nat /\ Share * (1 + wiped' + broken') \in Nat
      BY <3>2, ShareIsNat
    <3> QED
      BY <3>1, <3>3, <3>4, <3>5
  <2> QED
    BY <2>1, <2>2
<1> QED
  BY <1>1, <1>2 DEF PassInv

\* A step within a window, which adds to the logins of no other ...
Within ==
  /\ RatesShape /\ RatesShape' /\ PassInv /\ FallenInv'
  /\ window' = window /\ wiped' >= wiped /\ broken' >= broken
  /\ \A w \in Window : w # window => passed'[w] = passed[w]

\* ... and what it has to show of the account it leaves: the store's line, the line of each
\* process, and that what was let through is within what is counted or paid for.
Covers(shared, own, shared2, own2) ==
  LET before == wiped + broken + Cardinality(Fallen')
      after == wiped' + broken' + Cardinality(Fallen)
      t == Cardinality(Tickets(Fallen, own))
      t2 == Cardinality(Tickets(Fallen', own2))
  IN
  /\ counter'[AuthKey] < Allowed => shared2 <= counter'[AuthKey] + Cardinality(ToStore')
  /\ \A p \in Fallen' : local'[p] < Allowed => own2[p] <= local'[p] + Cardinality(ToItself(p)')
  /\ \/ after >= before /\ passed'[window] + shared + t <= passed[window] + shared2 + t2
     \/ after >= before + 1
        /\ passed'[window] + shared + t <= passed[window] + shared2 + t2 + Share

\* The account is kept in other numbers.
LEMMA Reaccount ==
  ASSUME Within,
         NEW shared \in 0..Share, NEW own \in [Api -> 0..Share], Account(shared, own),
         NEW shared2 \in 0..Share, NEW own2 \in [Api -> 0..Share],
         Covers(shared, own, shared2, own2)
  PROVE  PassInv'
<1> DEFINE t == Cardinality(Tickets(Fallen, own))
           t2 == Cardinality(Tickets(Fallen', own2))
<1>0. t \in Nat /\ t2 \in Nat
  BY LoginSets, LoginSetsAfter, TicketNumbers
<1> DEFINE f == Cardinality(Fallen)
           f2 == Cardinality(Fallen')
<1>1. f \in Nat /\ f2 \in Nat /\ f <= broken /\ f2 <= broken'
  BY LoginSets, LoginSetsAfter, TicketNumbers DEF Within, PassInv, FallenInv
<1>2. /\ passed[window] \in Nat /\ passed'[window] \in Nat /\ wiped \in Nat /\ broken \in Nat
      /\ wiped' \in Nat /\ broken' \in Nat
  BY DEF Within, RatesShape
<1>3. /\ wiped + broken \in Nat /\ wiped' + broken' \in Nat
      /\ f <= wiped + broken /\ f2 <= wiped' + broken'
  BY ONLY <1>1, <1>2, SumsGrow
<1>4. passed[window] <= Share * ((wiped + broken) - f) + shared + t
  BY DEF Account
<1>5. shared \in Nat /\ shared2 \in Nat
  BY ShareIsNat
<1>6. \/ /\ wiped' + broken' + f >= wiped + broken + f2
         /\ passed'[window] + shared + t <= passed[window] + shared2 + t2
      \/ /\ wiped' + broken' + f >= wiped + broken + f2 + 1
         /\ passed'[window] + shared + t <= passed[window] + shared2 + t2 + Share
  BY DEF Covers
<1> HIDE DEF f, f2, t, t2
<1>7. passed'[window] <= Share * ((wiped' + broken') - f2) + shared2 + t2
  <2> DEFINE b == wiped + broken
             b2 == wiped' + broken'
             q == passed[window]
             q2 == passed'[window]
  <2>1. b \in Nat /\ b2 \in Nat /\ q \in Nat /\ q2 \in Nat /\ f <= b /\ f2 <= b2
    BY <1>2, <1>3
  <2>2. q <= Share * (b - f) + shared + t
    BY <1>4
  <2>3. \/ b2 + f >= b + f2 /\ q2 + shared + t <= q + shared2 + t2
        \/ b2 + f >= b + f2 + 1 /\ q2 + shared + t <= q + shared2 + t2 + Share
    BY <1>6
  <2> HIDE DEF b, b2, q, q2
  <2> DEFINE d == b - f
             d2 == b2 - f2
  <2>4. d \in Nat /\ d2 \in Nat
    BY <1>1, <2>1
  <2>5. /\ q <= Share * d + shared + t
        /\ \/ d2 >= d /\ q2 + shared + t <= q + shared2 + t2
           \/ d2 >= d + 1 /\ q2 + shared + t <= q + shared2 + t2 + Share
    BY ONLY <1>1, <2>1, <2>2, <2>3
  <2> HIDE DEF d, d2
  <2>6. Share * d \in Nat /\ Share * d2 \in Nat /\ Share \in Nat
    BY <2>4, ShareIsNat
  <2>7. /\ d2 >= d => Share * d2 >= Share * d
        /\ d2 >= d + 1 => Share * d2 >= Share * d + Share
    BY <2>4, ShareIsNat, SharesGrow
  <2> DEFINE x == Share * d
             x2 == Share * d2
  <2>8. /\ x \in Nat /\ x2 \in Nat /\ q <= x + shared + t
        /\ \/ x2 >= x /\ q2 + shared + t <= q + shared2 + t2
           \/ x2 >= x + Share /\ q2 + shared + t <= q + shared2 + t2 + Share
    BY <2>5, <2>6, <2>7
  <2> HIDE DEF x, x2
  <2>9. q2 <= x2 + shared2 + t2
    BY ONLY <1>0, <1>5, <2>1, <2>6, <2>8
  <2> QED
    BY <2>9 DEF x2, d2, b2, q2
<1>8. Account(shared2, own2)'
  BY <1>7 DEF Account, Covers, Within, AuthKey, f2, t2, Tickets
<1> QED
  BY <1>8, PassedKept DEF AccountInv, Within

\* The lines that a step leaves as they are, or looser.
StoreKept ==
  counter'[AuthKey] < Allowed =>
    /\ counter[AuthKey] < Allowed
    /\ counter[AuthKey] + Cardinality(ToStore) <= counter'[AuthKey] + Cardinality(ToStore')
OwnKept(p) ==
  local'[p] < Allowed =>
    /\ local[p] < Allowed
    /\ local[p] + Cardinality(ToItself(p)) <= local'[p] + Cardinality(ToItself(p)')

\* Lines that are kept hold of the account as it was.
LEMMA LinesKept ==
  ASSUME Within, NEW shared \in Nat, NEW own \in [Api -> 0..Share], Account(shared, own)
  PROVE  /\ StoreKept => (counter'[AuthKey] < Allowed
                            => shared <= counter'[AuthKey] + Cardinality(ToStore'))
         /\ \A p \in Fallen : OwnKept(p) =>
              (local'[p] < Allowed => own[p] <= local'[p] + Cardinality(ToItself(p)'))
<1>1. AuthKey \in Counter
  BY RatesAssumption DEF Within, RatesShape, AuthKey, Counter
<1>2. counter[AuthKey] \in Nat /\ counter'[AuthKey] \in Nat
  BY <1>1 DEF Within, RatesShape
<1>3. Cardinality(ToStore) \in Nat /\ Cardinality(ToStore') \in Nat
  BY LoginSets, LoginSetsAfter, SlotNumbers
<1>4. ASSUME StoreKept, counter'[AuthKey] < Allowed
      PROVE  shared <= counter'[AuthKey] + Cardinality(ToStore')
  <2>1. shared <= counter[AuthKey] + Cardinality(ToStore)
    BY <1>4 DEF StoreKept, Account
  <2>2. counter[AuthKey] + Cardinality(ToStore) <= counter'[AuthKey] + Cardinality(ToStore')
    BY <1>4 DEF StoreKept
  <2> QED
    BY ONLY <1>2, <1>3, <2>1, <2>2, shared \in Nat, AtMost
<1>5. ASSUME NEW p \in Fallen, OwnKept(p), local'[p] < Allowed
      PROVE  own[p] <= local'[p] + Cardinality(ToItself(p)')
  <2>1. p \in Api
    BY DEF Fallen
  <2>2. local[p] \in Nat /\ local'[p] \in Nat /\ own[p] \in Nat
    BY <2>1, ShareIsNat DEF Within, RatesShape
  <2>3. Cardinality(ToItself(p)) \in Nat /\ Cardinality(ToItself(p)') \in Nat
    BY LoginSets, LoginSetsAfter, SlotNumbers
  <2>4. own[p] <= local[p] + Cardinality(ToItself(p))
    BY <1>5 DEF OwnKept, Account
  <2>5. local[p] + Cardinality(ToItself(p)) <= local'[p] + Cardinality(ToItself(p)')
    BY <1>5 DEF OwnKept
  <2> QED
    BY ONLY <2>2, <2>3, <2>4, <2>5, AtMost
<1> QED
  BY <1>4, <1>5

\* A step that lets nobody through and turns nobody to another count.
LEMMA NobodyTurns ==
  ASSUME Within, Fallen' = Fallen, passed' = passed, StoreKept, \A p \in Fallen : OwnKept(p)
  PROVE  PassInv'
<1>1. PICK shared \in 0..Share, own \in [Api -> 0..Share] : Account(shared, own)
  BY DEF Within, PassInv, AccountInv
<1>2. shared \in Nat
  BY ShareIsNat
<1>3. wiped' + broken' + Cardinality(Fallen) >= wiped + broken + Cardinality(Fallen')
  <2>1. wiped \in Nat /\ broken \in Nat /\ wiped' \in Nat /\ broken' \in Nat
        /\ wiped' >= wiped /\ broken' >= broken
    BY DEF Within, RatesShape
  <2>2. Cardinality(Fallen) \in Nat /\ Cardinality(Fallen') = Cardinality(Fallen)
    BY LoginSets, TicketNumbers
  <2> QED
    BY ONLY <2>1, <2>2, PaymentsGrow
<1>4. passed'[window] + shared + Cardinality(Tickets(Fallen, own))
      <= passed[window] + shared + Cardinality(Tickets(Fallen', own))
  <2>1. /\ passed[window] \in Nat /\ passed'[window] = passed[window]
        /\ Cardinality(Tickets(Fallen, own)) \in Nat
        /\ Cardinality(Tickets(Fallen', own)) = Cardinality(Tickets(Fallen, own))
    BY LoginSets, TicketNumbers DEF Within, RatesShape
  <2> QED
    BY <1>2, <2>1
<1>5. Covers(shared, own, shared, own)
  BY <1>1, <1>2, <1>3, <1>4, LinesKept DEF Covers
<1> QED
  BY <1>1, <1>5, Reaccount

\* The store's count starts again, at the price of a loss of its keys or of a restart.
LEMMA StoreForgets ==
  ASSUME Within, Fallen' = Fallen, passed' = passed, wiped' > wiped \/ broken' > broken,
         \A p \in Fallen : OwnKept(p)
  PROVE  PassInv'
<1>1. PICK shared \in 0..Share, own \in [Api -> 0..Share] : Account(shared, own)
  BY DEF Within, PassInv, AccountInv
<1>2. shared \in Nat /\ shared <= Share /\ Share \in Nat /\ 0 \in 0..Share
  BY ShareIsNat
<1>3. wiped' + broken' + Cardinality(Fallen) >= wiped + broken + Cardinality(Fallen') + 1
  <2>1. wiped \in Nat /\ broken \in Nat /\ wiped' \in Nat /\ broken' \in Nat
        /\ wiped' >= wiped /\ broken' >= broken /\ (wiped' > wiped \/ broken' > broken)
    BY DEF Within, RatesShape
  <2>2. Cardinality(Fallen) \in Nat /\ Cardinality(Fallen') = Cardinality(Fallen)
    BY LoginSets, TicketNumbers
  <2> QED
    BY ONLY <2>1, <2>2, PaymentsGrow
<1>4. passed'[window] + shared + Cardinality(Tickets(Fallen, own))
      <= passed[window] + 0 + Cardinality(Tickets(Fallen', own)) + Share
  <2>1. /\ passed[window] \in Nat /\ passed'[window] = passed[window]
        /\ Cardinality(Tickets(Fallen, own)) \in Nat
        /\ Cardinality(Tickets(Fallen', own)) = Cardinality(Tickets(Fallen, own))
    BY LoginSets, TicketNumbers DEF Within, RatesShape
  <2> QED
    BY <1>2, <2>1
<1>5. counter'[AuthKey] < Allowed => 0 <= counter'[AuthKey] + Cardinality(ToStore')
  <2>1. counter'[AuthKey] \in Nat /\ Cardinality(ToStore') \in Nat
    BY RatesAssumption, LoginSetsAfter, SlotNumbers DEF Within, RatesShape, AuthKey, Counter
  <2> QED
    BY ONLY <2>1, AtMost
<1>6. Covers(shared, own, 0, own)
  BY <1>1, <1>2, <1>3, <1>4, <1>5, LinesKept DEF Covers
<1> QED
  BY <1>1, <1>2, <1>6, Reaccount

\* A process turns back to the store, and its own count is paid for.
LEMMA TurnsBack ==
  ASSUME Within, NEW p \in Fallen, Fallen' = Fallen \ {p}, passed' = passed, StoreKept,
         \A q \in Fallen \ {p} : OwnKept(q)
  PROVE  PassInv'
<1>1. PICK shared \in 0..Share, own \in [Api -> 0..Share] : Account(shared, own)
  BY DEF Within, PassInv, AccountInv
<1>2. shared \in Nat /\ Share \in Nat
  BY ShareIsNat
<1>3. wiped' + broken' + Cardinality(Fallen) >= wiped + broken + Cardinality(Fallen') + 1
  <2>1. wiped \in Nat /\ broken \in Nat /\ wiped' \in Nat /\ broken' \in Nat
        /\ wiped' >= wiped /\ broken' >= broken
    BY DEF Within, RatesShape
  <2>2. IsFiniteSet(Fallen) /\ Cardinality(Fallen) \in Nat /\ Cardinality(Fallen') \in Nat
    BY LoginSets, LoginSetsAfter, TicketNumbers
  <2>3. Cardinality(Fallen') = Cardinality(Fallen) - 1
    BY <2>2, FS_RemoveElement
  <2>4. Cardinality(Fallen) = Cardinality(Fallen') + 1
    BY <2>2, <2>3
  <2> QED
    BY ONLY <2>1, <2>2, <2>4, PaymentsGrow
<1>4. passed'[window] + shared + Cardinality(Tickets(Fallen, own))
      <= passed[window] + shared + Cardinality(Tickets(Fallen', own)) + Share
  <2>1. /\ passed[window] \in Nat /\ passed'[window] = passed[window]
        /\ Cardinality(Tickets(Fallen, own)) \in Nat
        /\ Cardinality(Tickets(Fallen', own)) \in Nat
    BY LoginSets, LoginSetsAfter, TicketNumbers DEF Within, RatesShape
  <2>2. Cardinality(Tickets(Fallen, own)) <= Cardinality(Tickets(Fallen', own)) + Share
    BY LoginSets, TicketsClosed
  <2> QED
    BY ONLY <1>2, <2>1, <2>2
<1>5. Covers(shared, own, shared, own)
  BY <1>1, <1>2, <1>3, <1>4, LinesKept DEF Covers
<1> QED
  BY <1>1, <1>5, Reaccount

\* A process turns away from the store, which let through n for it that the process will
\* record with itself.
LEMMA TurnsAway ==
  ASSUME Within, NEW p \in Api \ Fallen, Fallen' = Fallen \cup {p}, broken' > broken,
         NEW m \in 0..1, passed'[window] = passed[window] + m,
         counter'[AuthKey] >= counter[AuthKey], ToStore' = ToStore \ ToItself(p),
         Cardinality(ToItself(p)) + m <= Share,
         local'[p] < Allowed
           => Cardinality(ToItself(p)) + m <= local'[p] + Cardinality(ToItself(p)'),
         \A q \in Fallen : OwnKept(q)
  PROVE  PassInv'
<1>1. PICK shared \in 0..Share, own \in [Api -> 0..Share] : Account(shared, own)
  BY DEF Within, PassInv, AccountInv
<1> DEFINE c == Cardinality(ToItself(p))
<1>2. c \in Nat /\ shared \in Nat /\ Share \in Nat /\ m \in Nat
  BY LoginSets, SlotNumbers, ShareIsNat
<1>3. PICK n \in Nat : n <= shared /\ n <= c /\ (n = shared \/ n = c)
  BY <1>2, Least
<1>4. n + m \in 0..Share /\ shared - n \in 0..Share /\ shared - n \in Nat
  BY <1>2, <1>3
<1> DEFINE own2 == [own EXCEPT ![p] = n + m]
           rest == shared - n
<1>5. own2 \in [Api -> 0..Share]
  BY <1>4
<1>6. wiped' + broken' + Cardinality(Fallen) >= wiped + broken + Cardinality(Fallen')
  <2>1. wiped \in Nat /\ broken \in Nat /\ wiped' \in Nat /\ broken' \in Nat
        /\ wiped' >= wiped /\ broken' > broken /\ broken' >= broken
    BY DEF Within, RatesShape
  <2>2. IsFiniteSet(Fallen) /\ Cardinality(Fallen) \in Nat /\ Cardinality(Fallen') \in Nat
    BY LoginSets, LoginSetsAfter, TicketNumbers
  <2>3. Cardinality(Fallen') = Cardinality(Fallen) + 1
    BY <2>2, FS_AddElement
  <2> QED
    BY ONLY <2>1, <2>2, <2>3, PaymentsGrow
<1>7. passed'[window] + shared + Cardinality(Tickets(Fallen, own))
      <= passed[window] + rest + Cardinality(Tickets(Fallen', own2))
  <2>1. passed[window] \in Nat /\ Cardinality(Tickets(Fallen, own)) \in Nat
    BY LoginSets, TicketNumbers DEF Within, RatesShape
  <2>2. Cardinality(Tickets(Fallen', own2)) = Cardinality(Tickets(Fallen, own)) + (n + m)
    BY <1>4, LoginSets, TicketsOpened
  <2>3. passed'[window] = passed[window] + m
    OBVIOUS
  <2> QED
    BY ONLY <1>2, <1>3, <2>1, <2>2, <2>3
<1>8. counter'[AuthKey] < Allowed => rest <= counter'[AuthKey] + Cardinality(ToStore')
  <2>1. AuthKey \in Counter
    BY RatesAssumption DEF Within, RatesShape, AuthKey, Counter
  <2>2. counter[AuthKey] \in Nat /\ counter'[AuthKey] \in Nat /\ Allowed \in Nat
        /\ counter'[AuthKey] >= counter[AuthKey]
    BY <2>1, RatesAssumption DEF Within, RatesShape
  <2>3. counter[AuthKey] < Allowed => shared <= counter[AuthKey] + Cardinality(ToStore)
    BY <1>1 DEF Account
  <2>4. ToItself(p) \subseteq ToStore
    BY DEF ToItself, ToStore
  <2>5. Cardinality(ToStore') = Cardinality(ToStore) - c
    BY <2>4, LoginSets, SlotNumbers
  <2>6. Cardinality(ToStore') \in Nat /\ Cardinality(ToStore) \in Nat
    BY LoginSets, LoginSetsAfter, SlotNumbers
  <2>7. Cardinality(ToStore) = Cardinality(ToStore') + c
    BY <1>2, <2>5, <2>6
  <2> HIDE DEF c
  <2> QED
    BY ONLY <1>2, <1>3, <2>2, <2>3, <2>6, <2>7, LineAfter
<1>9. ASSUME NEW q \in Fallen', local'[q] < Allowed
      PROVE  own2[q] <= local'[q] + Cardinality(ToItself(q)')
  <2>1. CASE q = p
    <3>1. own2[q] = n + m /\ n + m <= c + m
      BY <1>2, <1>3, <2>1
    <3>2. c + m <= local'[q] + Cardinality(ToItself(q)')
      BY <1>9, <2>1
    <3>3. local'[q] \in Nat /\ Cardinality(ToItself(q)') \in Nat
      BY <2>1, LoginSetsAfter, SlotNumbers DEF Within, RatesShape
    <3> HIDE DEF c, own2
    <3> QED
      BY ONLY <1>2, <1>3, <3>1, <3>2, <3>3, AtMost
  <2>2. CASE q # p
    <3>1. q \in Fallen /\ own2[q] = own[q]
      BY <1>9, <2>2 DEF Fallen
    <3> QED
      BY <1>1, <1>2, <1>9, <3>1, LinesKept
  <2> QED
    BY <2>1, <2>2
<1> HIDE DEF own2, rest
<1>10. Covers(shared, own, rest, own2)
  BY <1>6, <1>7, <1>8, <1>9 DEF Covers
<1>11. rest \in 0..Share
  BY <1>4 DEF rest
<1> QED
  BY <1>1, <1>5, <1>10, <1>11, Reaccount

\* A line is kept when nobody leaves it, and when somebody does who is counted.
LEMMA LineIsKept ==
  ASSUME RatesShape, RatesShape', window' = window
  PROVE  /\ counter'[AuthKey] >= counter[AuthKey] /\ ToStore \subseteq ToStore' => StoreKept
         /\ \A s \in ToStore :
              counter'[AuthKey] = counter[AuthKey] + 1 /\ ToStore' = ToStore \ {s} => StoreKept
         /\ \A q \in Api :
              local'[q] >= local[q] /\ ToItself(q) \subseteq ToItself(q)' => OwnKept(q)
         /\ \A q \in Api : \A s \in ToItself(q) :
              local'[q] = local[q] + 1 /\ ToItself(q)' = ToItself(q) \ {s} => OwnKept(q)
<1>1. AuthKey \in Counter
  BY RatesAssumption DEF RatesShape, AuthKey, Counter
<1>2. counter[AuthKey] \in Nat /\ counter'[AuthKey] \in Nat
  BY <1>1 DEF RatesShape
<1>3. Cardinality(ToStore) \in Nat /\ Cardinality(ToStore') \in Nat
  BY LoginSets, LoginSetsAfter, SlotNumbers
<1>4. ASSUME counter'[AuthKey] >= counter[AuthKey], ToStore \subseteq ToStore' PROVE StoreKept
  <2>1. Cardinality(ToStore') >= Cardinality(ToStore)
    BY <1>3, <1>4, LoginSets, LoginSetsAfter, SlotNumbers
  <2>2. counter'[AuthKey] < Allowed =>
          counter[AuthKey] < Allowed
          /\ counter[AuthKey] + Cardinality(ToStore) <= counter'[AuthKey] + Cardinality(ToStore')
    BY ONLY <1>2, <1>3, <1>4, <2>1, LineGrows
  <2> QED
    BY <2>2 DEF StoreKept
<1>5. ASSUME NEW s \in ToStore, counter'[AuthKey] = counter[AuthKey] + 1, ToStore' = ToStore \ {s}
      PROVE  StoreKept
  <2>1. Cardinality(ToStore \ {s}) = Cardinality(ToStore) - 1
    BY LoginSets, SlotNumbers
  <2>2. Cardinality(ToStore) = Cardinality(ToStore') + 1
    BY <1>3, <1>5, <2>1
  <2>3. counter'[AuthKey] < Allowed =>
          counter[AuthKey] < Allowed
          /\ counter[AuthKey] + Cardinality(ToStore) <= counter'[AuthKey] + Cardinality(ToStore')
    BY ONLY <1>2, <1>3, <1>5, <2>2, LineGrows
  <2> QED
    BY <2>3 DEF StoreKept
<1>6. ASSUME NEW q \in Api
      PROVE  /\ Cardinality(ToItself(q)) \in Nat /\ Cardinality(ToItself(q)') \in Nat
             /\ local[q] \in Nat /\ local'[q] \in Nat
  BY LoginSets, LoginSetsAfter, SlotNumbers DEF RatesShape
<1>7. ASSUME NEW q \in Api, local'[q] >= local[q], ToItself(q) \subseteq ToItself(q)'
      PROVE  OwnKept(q)
  <2>1. Cardinality(ToItself(q)') >= Cardinality(ToItself(q))
    BY <1>6, <1>7, LoginSets, LoginSetsAfter, SlotNumbers
  <2>2. local'[q] < Allowed =>
          local[q] < Allowed
          /\ local[q] + Cardinality(ToItself(q)) <= local'[q] + Cardinality(ToItself(q)')
    BY ONLY <1>6, <1>7, <2>1, LineGrows, q \in Api
  <2> QED
    BY <2>2 DEF OwnKept
<1>8. ASSUME NEW q \in Api, NEW s \in ToItself(q), local'[q] = local[q] + 1,
             ToItself(q)' = ToItself(q) \ {s}
      PROVE  OwnKept(q)
  <2>1. Cardinality(ToItself(q) \ {s}) = Cardinality(ToItself(q)) - 1
    BY LoginSets, SlotNumbers
  <2>2. Cardinality(ToItself(q)) = Cardinality(ToItself(q)') + 1
    BY <1>6, <1>8, <2>1
  <2>3. local'[q] < Allowed =>
          local[q] < Allowed
          /\ local[q] + Cardinality(ToItself(q)) <= local'[q] + Cardinality(ToItself(q)')
    BY ONLY <1>6, <1>8, <2>2, LineGrows, q \in Api
  <2> QED
    BY <2>3 DEF OwnKept
<1> QED
  BY <1>4, <1>5, <1>7, <1>8

\* Who is still to record, after a step of one request.
LEMMA RequestsApart ==
  ASSUME NEW s \in Slot, \A q \in Slot \ {s} : request'[q] = request[q]
  PROVE  /\ s \notin Unrecorded /\ s \notin Unrecorded' =>
              Unrecorded' = Unrecorded /\ \A p : ToItself(p)' = ToItself(p)
         /\ s \in Unrecorded /\ s \notin Unrecorded' =>
              Unrecorded' = Unrecorded \ {s} /\ \A p : ToItself(p)' = ToItself(p) \ {s}
         /\ s \notin Unrecorded /\ s \in Unrecorded' =>
              /\ Unrecorded' = Unrecorded \cup {s}
              /\ \A p : p = request'[s].at => ToItself(p)' = ToItself(p) \cup {s}
              /\ \A p : p # request'[s].at => ToItself(p)' = ToItself(p)
<1>1. Unrecorded' \ {s} = Unrecorded \ {s}
  BY DEF Unrecorded
<1>2. \A p : ToItself(p)' \ {s} = ToItself(p) \ {s}
  <2> SUFFICES ASSUME NEW p, NEW q, q # s PROVE q \in ToItself(p)' <=> q \in ToItself(p)
    OBVIOUS
  <2>1. q \in Unrecorded' <=> q \in Unrecorded
    BY <1>1
  <2>2. q \in Unrecorded => request'[q] = request[q]
    BY LoginSets
  <2> QED
    BY <2>1, <2>2 DEF ToItself
<1>3. \A p : ToItself(p) \subseteq Unrecorded /\ ToItself(p)' \subseteq Unrecorded'
  BY DEF ToItself
<1>4. s \in Unrecorded' => \A p : s \in ToItself(p)' <=> p = request'[s].at
  BY DEF ToItself
<1>5. s \notin Unrecorded /\ s \notin Unrecorded' =>
         Unrecorded' = Unrecorded /\ \A p : ToItself(p)' = ToItself(p)
  BY <1>1, <1>2, <1>3
<1>6. s \in Unrecorded /\ s \notin Unrecorded' =>
         Unrecorded' = Unrecorded \ {s} /\ \A p : ToItself(p)' = ToItself(p) \ {s}
  BY <1>1, <1>2, <1>3
<1>7. ASSUME s \notin Unrecorded, s \in Unrecorded'
      PROVE  /\ Unrecorded' = Unrecorded \cup {s}
             /\ \A p : p = request'[s].at => ToItself(p)' = ToItself(p) \cup {s}
             /\ \A p : p # request'[s].at => ToItself(p)' = ToItself(p)
  <2>1. \A p : s \notin ToItself(p)
    BY <1>3, <1>7
  <2>2. ASSUME NEW p PROVE p # request'[s].at => ToItself(p)' = ToItself(p)
    <3>1. p # request'[s].at => s \notin ToItself(p)'
      BY <1>4, <1>7
    <3> QED
      BY <1>2, <2>1, <3>1
  <2>3. ASSUME NEW p, p = request'[s].at PROVE ToItself(p)' = ToItself(p) \cup {s}
    <3>1. s \in ToItself(p)'
      BY <1>4, <1>7, <2>3
    <3> QED
      BY <1>2, <2>1, <3>1
  <2> QED
    BY <1>1, <1>7, <2>2, <2>3
<1> QED
  BY <1>5, <1>6, <1>7

\* The store's line, in terms of the processes' lines.
LEMMA ToStoreIs ==
  /\ ToStore = {s \in Unrecorded : request[s].at \notin Fallen}
  /\ ToStore' = {s \in Unrecorded' : request'[s].at \notin Fallen'}
  /\ \A p : p \notin Fallen => ToItself(p) \subseteq ToStore
  /\ \A s : s \in Unrecorded => s \in Slot /\ s \in ToItself(request[s].at)
BY DEF ToStore, ToItself, Unrecorded

\* A login that was checked, and is counted next under the key of this window.
LEMMA UnrecordedIs ==
  ASSUME RatesShape, RequestInv, NEW s \in Slot
  PROVE  /\ s \in Unrecorded <=> request[s].step = "count" /\ IsLogin(s)
         /\ s \in Unrecorded => request[s].at \in Api /\ CounterOf(s) = AuthKey
<1>1. CASE request[s].step = "idle"
  BY <1>1 DEF Unrecorded
<1>2. CASE request[s].step # "idle"
  <2>1. IsLogin(s) <=> request[s].todo = <<"auth">>
    BY <1>2, RequestParts
  <2>2. IsLogin(s) => request[s].at \in Api
    BY <1>2, RequestParts
  <2>3. IsLogin(s) => CounterOf(s) = AuthKey
    BY DEF IsLogin, CounterOf, AuthKey
  <2> QED
    BY <2>1, <2>2, <2>3 DEF Unrecorded
<1> QED
  BY <1>1, <1>2

\* What the actions do within a window.
LEMMA StepIsWithin ==
  ASSUME RatesShape, RatesShape', PassInv, window' = window,
         wiped' = wiped \/ wiped' = wiped + 1, broken' = broken \/ broken' = broken + 1,
         passed' = passed \/ passed' = [passed EXCEPT ![window] = @ + 1],
         \/ Fallen' \subseteq Fallen
         \/ \E p \in Api \ Fallen : Fallen' = Fallen \cup {p} /\ broken' = broken + 1
  PROVE  Within
<1>1. wiped \in Nat /\ broken \in Nat /\ wiped' \in Nat /\ broken' \in Nat
  BY DEF RatesShape
<1>2. wiped' >= wiped /\ broken' >= broken
  BY <1>1
<1>3. \A w \in Window : w # window => passed'[w] = passed[w]
  BY DEF RatesShape
<1>4. /\ IsFiniteSet(Fallen) /\ Cardinality(Fallen) \in Nat /\ Cardinality(Fallen') \in Nat
      /\ Cardinality(Fallen) <= broken
  <2>1. IsFiniteSet(Fallen) /\ Cardinality(Fallen) \in Nat
    BY LoginSets, RatesAssumption, FS_Subset, FS_CardinalityType
  <2>2. Cardinality(Fallen') \in Nat
    BY LoginSetsAfter, RatesAssumption, FS_Subset, FS_CardinalityType
  <2> QED
    BY <2>1, <2>2 DEF PassInv, FallenInv
<1>5. CASE Fallen' \subseteq Fallen
  <2>1. Cardinality(Fallen') <= Cardinality(Fallen)
    BY <1>4, <1>5, FS_Subset
  <2>2. Cardinality(Fallen') <= broken'
    BY ONLY <1>1, <1>2, <1>4, <2>1, AtMostAfter
  <2> QED
    BY <1>2, <1>3, <2>2 DEF Within, FallenInv
<1>6. ASSUME NEW p \in Api \ Fallen, Fallen' = Fallen \cup {p}, broken' = broken + 1 PROVE Within
  <2>1. Cardinality(Fallen') = Cardinality(Fallen) + 1
    BY <1>4, <1>6, FS_AddElement
  <2>2. Cardinality(Fallen') <= broken'
    BY ONLY <1>1, <1>4, <1>6, <2>1, AtMostAfter
  <2> QED
    BY <1>2, <1>3, <2>2 DEF Within, FallenInv
<1> QED
  BY <1>5, <1>6

\* A step that changes none of what the account is of.
LEMMA QuietStep ==
  ASSUME RatesShape, RatesShape', PassInv, UNCHANGED <<window, passed, local, wiped>>,
         broken' = broken \/ broken' = broken + 1,
         Fallen' = Fallen, Unrecorded' = Unrecorded,
         \A s \in Unrecorded : request'[s] = request[s],
         counter'[AuthKey] >= counter[AuthKey]
  PROVE  PassInv'
<1>1. Within
  BY StepIsWithin
<1>2. ToStore' = ToStore /\ \A p : ToItself(p)' = ToItself(p)
  BY DEF ToStore, ToItself
<1>3. StoreKept
  BY <1>2, LineIsKept
<1>4. \A p \in Fallen : OwnKept(p)
  <2> SUFFICES ASSUME NEW p \in Fallen PROVE OwnKept(p)
    OBVIOUS
  <2>1. p \in Api /\ local[p] \in Nat /\ local'[p] = local[p]
    BY DEF Fallen, RatesShape
  <2>2. local'[p] >= local[p]
    BY <2>1
  <2> QED
    BY <1>2, <2>1, <2>2, LineIsKept
<1> QED
  BY <1>1, <1>3, <1>4, NobodyTurns

\* A request begins, of which nothing is to be recorded yet.
LEMMA BeginPasses ==
  ASSUME RatesShape, RatesShape', RequestInv, PassInv,
         NEW s \in Slot, NEW kind \in DOMAIN Kinds, NEW p \in ServedBy(kind), BeginRequest(s, kind, p)
  PROVE  PassInv'
<1>1. Fallen' = Fallen
  BY DEF BeginRequest, Fallen
<1>2. \A q \in Slot \ {s} : request'[q] = request[q]
  BY DEF BeginRequest, RatesShape
<1>3. s \notin Unrecorded
  BY NoRequestIs DEF BeginRequest, Unrecorded
<1>4. /\ request'[s].step = (IF kind = "login" THEN "check" ELSE "count")
      /\ request'[s].todo = Kinds[kind]
  BY DEF BeginRequest, RatesShape
<1>5. kind # "login" => Kinds[kind] # <<"auth">>
  BY KindFacts, TodoFacts
<1>6. s \notin Unrecorded'
  BY <1>4, <1>5 DEF Unrecorded
<1>7. Unrecorded' = Unrecorded /\ \A q \in Unrecorded : request'[q] = request[q]
  BY <1>2, <1>3, <1>6, RequestsApart, LoginSets
<1>8. counter[AuthKey] \in Nat /\ counter' = counter
  BY RatesAssumption DEF BeginRequest, RatesShape, AuthKey, Counter
<1>9. counter'[AuthKey] >= counter[AuthKey]
  BY <1>8
<1> QED
  BY <1>1, <1>7, <1>9, QuietStep DEF BeginRequest, boundedVars

\* What a check does, whatever it finds.
LEMMA CheckDoes ==
  ASSUME RatesShape, RatesShape', RequestInv, PassInv, NEW s \in Slot, Check(s)
  PROVE  /\ request[s].at \in Api /\ s \notin Unrecorded
         /\ Unrecorded' = Unrecorded \cup {s}
         /\ \A p : p = request[s].at => ToItself(p)' = ToItself(p) \cup {s}
         /\ \A p : p # request[s].at => ToItself(p)' = ToItself(p)
         /\ \A q \in Unrecorded : request'[q] = request[q]
         /\ request'[s].at = request[s].at
         /\ counter' = counter /\ local' = local /\ window' = window /\ wiped' = wiped
         /\ \A p \in Api : local[p] \in Nat
         /\ counter[AuthKey] \in Nat
<1>1. request[s].step = "check" /\ request[s].step # "idle"
  BY DEF Check
<1>2. request[s].todo = <<"auth">> /\ request[s].at \in Api
  BY <1>1, RequestParts DEF UnderWay
<1>3. /\ \A q \in Slot \ {s} : request'[q] = request[q]
      /\ request'[s].at = request[s].at /\ request'[s].step = "count"
      /\ request'[s].todo = request[s].todo
  <2>1. request[s] \in Requests
    BY DEF RatesShape
  <2> QED
    BY <2>1 DEF Check, RatesShape, Requests
<1>4. s \notin Unrecorded /\ s \in Unrecorded'
  BY <1>1, <1>2, <1>3 DEF Unrecorded
<1>5. AuthKey \in Counter
  BY RatesAssumption DEF RatesShape, AuthKey, Counter
<1>6. \A q \in Unrecorded : request'[q] = request[q]
  BY <1>3, <1>4, LoginSets
<1>7. counter' = counter /\ local' = local /\ window' = window /\ wiped' = wiped
  BY DEF Check, boundedVars
<1>8. (\A p \in Api : local[p] \in Nat) /\ counter[AuthKey] \in Nat
  BY <1>5 DEF RatesShape
<1>9. /\ Unrecorded' = Unrecorded \cup {s}
      /\ \A p : p = request[s].at => ToItself(p)' = ToItself(p) \cup {s}
      /\ \A p : p # request[s].at => ToItself(p)' = ToItself(p)
  BY <1>3, <1>4, RequestsApart
<1> QED
  BY <1>2, <1>3, <1>4, <1>6, <1>7, <1>8, <1>9

\* The store is asked, and answers.
LEMMA StoreLetsThrough ==
  ASSUME RatesShape, RatesShape', RequestInv, PassInv, NEW s \in Slot, Check(s),
         Answers(request[s].at)
  PROVE  PassInv'
<1> DEFINE p == request[s].at
<1>0. p \in Api /\ p \notin Fallen /\ down' = down /\ broken' = broken /\ Fallen' = Fallen
  BY CheckDoes DEF Check, ServerOf, Answers, Fallen
<1>1. ToStore' = ToStore \cup {s} /\ s \notin ToStore
  BY <1>0, CheckDoes DEF ToStore
<1>2. \A q \in Fallen : q # p /\ q \in Api /\ ToItself(q)' = ToItself(q) /\ local'[q] = local[q]
  BY <1>0, CheckDoes DEF Fallen
<1>3. \A q \in Fallen : OwnKept(q)
  <2> SUFFICES ASSUME NEW q \in Fallen PROVE OwnKept(q)
    OBVIOUS
  <2>1. q \in Api /\ local'[q] >= local[q] /\ ToItself(q) \subseteq ToItself(q)'
    BY <1>2, CheckDoes
  <2> QED
    BY <2>1, CheckDoes, LineIsKept
<1>4. passed' = (IF counter[AuthKey] >= Allowed THEN passed
                 ELSE [passed EXCEPT ![window] = @ + 1])
  BY DEF Check, ServerOf, IsOverThreshold, AuthKey
<1>5. Within
  <2>1. passed' = passed \/ passed' = [passed EXCEPT ![window] = @ + 1]
    BY <1>4
  <2>2. Fallen' \subseteq Fallen
    BY <1>0
  <2> QED
    BY <1>0, <2>1, <2>2, CheckDoes, StepIsWithin
<1>6. CASE counter[AuthKey] >= Allowed
  <2>1. passed' = passed
    BY <1>4, <1>6
  <2>2. StoreKept
    <3>1. counter'[AuthKey] >= counter[AuthKey] /\ ToStore \subseteq ToStore'
      BY <1>1, CheckDoes
    <3> QED
      BY <3>1, CheckDoes, LineIsKept
  <2> QED
    BY <1>0, <1>3, <1>5, <2>1, <2>2, NobodyTurns
<1>7. CASE counter[AuthKey] < Allowed
  <2>1. PICK shared \in 0..Share, own \in [Api -> 0..Share] : Account(shared, own)
    BY DEF PassInv, AccountInv
  <2>2. /\ Cardinality(ToStore) \in Nat /\ Cardinality(ToStore') = Cardinality(ToStore) + 1
        /\ Cardinality(ToStore') <= Cardinality(Slot) /\ Cardinality(Slot) \in Nat
    BY <1>1, LoginSets, LoginSetsAfter, SlotNumbers
  <2>3. shared <= counter[AuthKey] + Cardinality(ToStore)
    BY <1>7, <2>1 DEF Account
  <2>4. Allowed \in Nat /\ counter[AuthKey] \in Nat /\ shared \in Nat /\ Share \in Nat
        /\ Share = Allowed - 1 + Cardinality(Slot)
    BY RatesAssumption, CheckDoes, ShareIsNat DEF Share
  <2>5. shared + 1 <= Share
    BY ONLY <1>7, <2>2, <2>3, <2>4
  <2>6. shared + 1 \in 0..Share
    BY ONLY <2>4, <2>5
  <2>7. counter'[AuthKey] < Allowed => shared + 1 <= counter'[AuthKey] + Cardinality(ToStore')
    <3>1. shared + 1 <= counter[AuthKey] + Cardinality(ToStore')
      BY ONLY <2>2, <2>3, <2>4
    <3>2. counter'[AuthKey] = counter[AuthKey]
      BY CheckDoes
    <3> QED
      BY <3>1, <3>2
  <2>8. \A q \in Fallen' : local'[q] < Allowed => own[q] <= local'[q] + Cardinality(ToItself(q)')
    BY <1>0, <1>3, <1>5, <2>1, <2>4, LinesKept
  <2>9. wiped' + broken' + Cardinality(Fallen) >= wiped + broken + Cardinality(Fallen')
    <3>1. wiped \in Nat /\ broken \in Nat /\ Cardinality(Fallen) \in Nat
      BY LoginSets, TicketNumbers DEF RatesShape
    <3>2. wiped + broken + Cardinality(Fallen) >= wiped + broken + Cardinality(Fallen)
      BY <3>1
    <3> QED
      BY <1>0, <3>2, CheckDoes
  <2>10. passed'[window] + shared + Cardinality(Tickets(Fallen, own))
         <= passed[window] + (shared + 1) + Cardinality(Tickets(Fallen', own))
    <3>1. passed[window] \in Nat /\ Cardinality(Tickets(Fallen, own)) \in Nat
      BY LoginSets, TicketNumbers DEF RatesShape
    <3>2. passed'[window] = passed[window] + 1
      BY <1>4, <1>7, <2>4 DEF RatesShape
    <3>3. Cardinality(Tickets(Fallen', own)) = Cardinality(Tickets(Fallen, own))
      BY <1>0
    <3> QED
      BY ONLY <2>4, <3>1, <3>2, <3>3
  <2>11. Covers(shared, own, shared + 1, own)
    BY <2>7, <2>8, <2>9, <2>10 DEF Covers
  <2> QED
    BY <1>5, <2>1, <2>6, <2>11, Reaccount
<1> QED
  BY <1>6, <1>7, CheckDoes, RatesAssumption

\* The process does not ask, and goes by what it has counted itself.
LEMMA ProcessLetsThrough ==
  ASSUME RatesShape, RatesShape', RequestInv, PassInv, NEW s \in Slot, Check(s),
         down[request[s].at]
  PROVE  PassInv'
<1> PICK p \in Api : p = request[s].at
  BY CheckDoes
<1>0. /\ p \in Fallen /\ down' = down /\ broken' = broken /\ Fallen' = Fallen
  <2>1. p \in Process
    BY DEF Process
  <2>2. down' = down /\ broken' = broken
    BY <2>1 DEF Check, ServerOf, Answers, GivesUp, RatesShape
  <2> QED
    BY <2>1, <2>2 DEF Fallen
<1>1. ToStore' = ToStore /\ ToItself(p)' = ToItself(p) \cup {s} /\ s \notin ToItself(p)
  BY <1>0, CheckDoes DEF ToStore, ToItself
<1>2. \A q \in Fallen : q \in Api /\ ToItself(q) \subseteq ToItself(q)' /\ local'[q] = local[q]
  BY <1>1, CheckDoes DEF Fallen
<1>3. \A q \in Fallen : OwnKept(q)
  <2> SUFFICES ASSUME NEW q \in Fallen PROVE OwnKept(q)
    OBVIOUS
  <2>1. q \in Api /\ local'[q] >= local[q] /\ ToItself(q) \subseteq ToItself(q)'
    BY <1>2, CheckDoes
  <2> QED
    BY <2>1, CheckDoes, LineIsKept
<1>4. passed' = (IF local[p] >= Allowed THEN passed ELSE [passed EXCEPT ![window] = @ + 1])
  BY <1>0 DEF Check, ServerOf, IsOverThreshold, Answers
<1>5. Within
  <2>1. passed' = passed \/ passed' = [passed EXCEPT ![window] = @ + 1]
    BY <1>4
  <2>2. Fallen' \subseteq Fallen
    BY <1>0
  <2> QED
    BY <1>0, <2>1, <2>2, CheckDoes, StepIsWithin
<1>6. StoreKept
  <2>1. counter'[AuthKey] >= counter[AuthKey] /\ ToStore \subseteq ToStore'
    BY <1>1, CheckDoes
  <2> QED
    BY <2>1, CheckDoes, LineIsKept
<1>7. CASE local[p] >= Allowed
  <2>1. passed' = passed
    BY <1>4, <1>7
  <2> QED
    BY <1>0, <1>3, <1>5, <1>6, <2>1, NobodyTurns
<1>8. CASE local[p] < Allowed
  <2>1. PICK shared \in 0..Share, own \in [Api -> 0..Share] : Account(shared, own)
    BY DEF PassInv, AccountInv
  <2> DEFINE own2 == [own EXCEPT ![p] = own[p] + 1]
  <2>2. /\ Cardinality(ToItself(p)) \in Nat
        /\ Cardinality(ToItself(p)') = Cardinality(ToItself(p)) + 1
        /\ Cardinality(ToItself(p)') <= Cardinality(Slot) /\ Cardinality(Slot) \in Nat
    <3>1. ToItself(p) \in SUBSET Slot /\ ToItself(p)' \in SUBSET Slot
      BY LoginSets, LoginSetsAfter
    <3>2. /\ Cardinality(ToItself(p)) \in Nat /\ Cardinality(Slot) \in Nat
          /\ Cardinality(ToItself(p)') <= Cardinality(Slot)
      BY <3>1, SlotNumbers
    <3>3. Cardinality(ToItself(p) \cup {s}) = Cardinality(ToItself(p)) + 1
      BY <1>1, <3>1, SlotNumbers
    <3> QED
      BY <1>1, <3>2, <3>3
  <2>3. own[p] <= local[p] + Cardinality(ToItself(p))
    BY <1>0, <1>8, <2>1 DEF Account
  <2>4. Allowed \in Nat /\ local[p] \in Nat /\ own[p] \in Nat /\ Share \in Nat
        /\ Share = Allowed - 1 + Cardinality(Slot) /\ shared \in Nat
    BY <1>0, RatesAssumption, CheckDoes, ShareIsNat DEF Share
  <2>5. own[p] < Share /\ own[p] + 1 <= local[p] + Cardinality(ToItself(p)')
    BY ONLY <1>8, <2>2, <2>3, <2>4
  <2>6. own2 \in [Api -> 0..Share]
    <3>1. own[p] + 1 \in 0..Share
      BY <2>4, <2>5
    <3> QED
      BY <3>1
  <2>7. counter'[AuthKey] < Allowed => shared <= counter'[AuthKey] + Cardinality(ToStore')
    BY <1>5, <1>6, <2>1, <2>4, LinesKept
  <2>8. ASSUME NEW q \in Fallen', local'[q] < Allowed
        PROVE  own2[q] <= local'[q] + Cardinality(ToItself(q)')
    <3>1. CASE q = p
      <4>1. own2[q] = own[p] + 1 /\ local'[q] = local[p]
        BY <1>2, <2>8, <1>0, <3>1
      <4> QED
        BY <2>5, <3>1, <4>1
    <3>2. CASE q # p
      <4>1. own2[q] = own[q] /\ q \in Fallen
        BY <1>0, <2>8, <3>2 DEF Fallen
      <4> QED
        BY <1>3, <1>5, <2>1, <2>4, <2>8, <4>1, LinesKept
    <3> QED
      BY <3>1, <3>2
  <2>9. wiped' + broken' + Cardinality(Fallen) >= wiped + broken + Cardinality(Fallen')
    <3>1. wiped \in Nat /\ broken \in Nat /\ Cardinality(Fallen) \in Nat
      BY LoginSets, TicketNumbers DEF RatesShape
    <3>2. wiped + broken + Cardinality(Fallen) >= wiped + broken + Cardinality(Fallen)
      BY <3>1
    <3> QED
      BY <1>0, <3>2, CheckDoes
  <2>10. passed'[window] + shared + Cardinality(Tickets(Fallen, own))
         <= passed[window] + shared + Cardinality(Tickets(Fallen', own2))
    <3>1. passed[window] \in Nat /\ Cardinality(Tickets(Fallen, own)) \in Nat
      BY LoginSets, TicketNumbers DEF RatesShape
    <3>2. passed'[window] = passed[window] + 1
      BY <1>4, <1>8, <2>4 DEF RatesShape
    <3>3. Cardinality(Tickets(Fallen', own2)) = Cardinality(Tickets(Fallen, own)) + 1
      BY <1>0, <2>5, LoginSets, TicketTaken
    <3> QED
      BY ONLY <2>4, <3>1, <3>2, <3>3
  <2> HIDE DEF own2
  <2>11. Covers(shared, own, shared, own2)
    BY <2>7, <2>8, <2>9, <2>10 DEF Covers
  <2> QED
    BY <1>5, <2>1, <2>6, <2>11, Reaccount
<1> QED
  <2>1. local[p] \in Nat /\ Allowed \in Nat
    BY <1>0, CheckDoes, RatesAssumption
  <2> QED
    BY <1>7, <1>8, <2>1

\* The store does not answer: the process turns away from it, and goes by its own count.
LEMMA TurnsAwayAtCheck ==
  ASSUME RatesShape, RatesShape', RequestInv, PassInv, NEW s \in Slot, Check(s),
         ~up, ~down[request[s].at]
  PROVE  PassInv'
<1> PICK p \in Api : p = request[s].at
  BY CheckDoes
<1>0. /\ p \notin Fallen /\ Fallen' = Fallen \cup {p}
      /\ broken' = broken + 1 /\ broken' > broken
  <2>1. p \in Process
    BY DEF Process
  <2>2. down' = [down EXCEPT ![p] = TRUE] /\ broken' = broken + 1
    BY DEF Check, ServerOf, Answers, GivesUp
  <2>3. broken \in Nat /\ down \in [Process -> BOOLEAN]
    BY DEF RatesShape
  <2> QED
    BY <2>1, <2>2, <2>3 DEF Fallen, Process
<1>1. /\ ToItself(p)' = ToItself(p) \cup {s} /\ s \notin ToItself(p)
      /\ ToStore' = ToStore \ ToItself(p)
  <2>1. ToItself(p)' = ToItself(p) \cup {s} /\ s \notin ToItself(p)
    BY CheckDoes DEF ToItself
  <2>2. ToStore' = ToStore \ ToItself(p)
    BY <1>0, CheckDoes DEF ToStore, ToItself
  <2> QED
    BY <2>1, <2>2
<1>2. \A q \in Fallen : OwnKept(q)
  <2> SUFFICES ASSUME NEW q \in Fallen PROVE OwnKept(q)
    OBVIOUS
  <2>1. q \in Api /\ q # p
    BY <1>0 DEF Fallen
  <2>2. local'[q] >= local[q] /\ ToItself(q) \subseteq ToItself(q)'
    BY <2>1, CheckDoes
  <2> QED
    BY <2>1, <2>2, CheckDoes, LineIsKept
<1>3. passed' = (IF local[p] >= Allowed THEN passed ELSE [passed EXCEPT ![window] = @ + 1])
  BY DEF Check, ServerOf, IsOverThreshold, Answers
<1>4. Within
  <2>1. passed' = passed \/ passed' = [passed EXCEPT ![window] = @ + 1]
    BY <1>3
  <2> QED
    BY <1>0, <2>1, CheckDoes, StepIsWithin
<1>5. PICK m \in 0..1 : passed'[window] = passed[window] + m
  <2>1. passed[window] \in Nat
    BY DEF RatesShape
  <2>2. passed'[window] = passed[window] \/ passed'[window] = passed[window] + 1
    BY <1>3 DEF RatesShape
  <2> QED
    BY <2>1, <2>2
<1>6. /\ Cardinality(ToItself(p)) \in Nat
      /\ Cardinality(ToItself(p)') = Cardinality(ToItself(p)) + 1
      /\ Cardinality(ToItself(p)') <= Share /\ Share \in Nat
  <2>1. /\ Cardinality(ToItself(p)) \in Nat /\ Cardinality(Slot) \in Nat
        /\ Cardinality(ToItself(p)') = Cardinality(ToItself(p)) + 1
        /\ Cardinality(ToItself(p)') <= Cardinality(Slot)
    <3>1. ToItself(p) \in SUBSET Slot /\ ToItself(p)' \in SUBSET Slot
      BY LoginSets, LoginSetsAfter
    <3>2. /\ Cardinality(ToItself(p)) \in Nat /\ Cardinality(Slot) \in Nat
          /\ Cardinality(ToItself(p)') <= Cardinality(Slot)
      BY <3>1, SlotNumbers
    <3>3. Cardinality(ToItself(p) \cup {s}) = Cardinality(ToItself(p)) + 1
      BY <1>1, <3>1, SlotNumbers
    <3> QED
      BY <1>1, <3>2, <3>3
  <2> QED
    BY <2>1, ShareIsNat
<1>7. Cardinality(ToItself(p)) + m <= Share
  BY <1>6
<1>8. Cardinality(ToItself(p)) + m <= local'[p] + Cardinality(ToItself(p)')
  <2>1. local[p] \in Nat /\ local'[p] = local[p]
    BY <1>0, CheckDoes
  <2>2. Cardinality(ToItself(p)) + m <= local[p] + (Cardinality(ToItself(p)) + 1)
    BY <1>6, <2>1
  <2> QED
    BY <1>6, <2>1, <2>2
<1>9. counter'[AuthKey] >= counter[AuthKey]
  BY CheckDoes
<1> QED
  BY <1>0, <1>1, <1>2, <1>4, <1>5, <1>7, <1>8, <1>9, TurnsAway

\* A check lets through on the account of the store, or of the process.
LEMMA CheckPasses ==
  ASSUME RatesShape, RatesShape', RequestInv, PassInv, NEW s \in Slot, Check(s)
  PROVE  PassInv'
BY StoreLetsThrough, ProcessLetsThrough, TurnsAwayAtCheck DEF Answers

\* Counted or not, an operation is over, and what may follow is not a login.
LEMMA NothingToRecord ==
  ASSUME RatesShape, RequestInv, NEW s \in Slot, request[s].step # "idle",
         Uncounted(s) \/ \E k \in Counter, n \in Nat : Counted(s, k, n)
  PROVE  s \notin Unrecorded' /\ \A q \in Slot \ {s} : request'[q] = request[q]
<1>1. request[s] \in Requests
  BY RequestParts
<1>2. PICK over \in BOOLEAN, spent \in SUBSET Counter : GoesOn(s, over, spent)
  <2>1. CASE Uncounted(s)
    BY <1>1, <2>1 DEF Uncounted, Requests
  <2>2. ASSUME NEW k \in Counter, NEW n \in Nat, Counted(s, k, n)
        PROVE  \E over \in BOOLEAN, spent \in SUBSET Counter : GoesOn(s, over, spent)
    <3> DEFINE over == request[s].over \/ (~IsLogin(s) /\ OverLimit(n))
               spent == IF IsLogin(s) THEN {} ELSE request[s].spent \cup {k}
    <3>1. over \in BOOLEAN /\ spent \in SUBSET Counter /\ GoesOn(s, over, spent)
      BY <1>1, <2>2 DEF Requests, OverLimit, Counted
    <3> HIDE DEF over, spent
    <3> QED
      BY <3>1
  <2> QED
    BY <2>1, <2>2
<1>3. \/ request' = [request EXCEPT ![s] = SecondBudget(request[s], over, spent)]
      \/ request' = [request EXCEPT ![s] = NoRequest]
  BY <1>2, GoesOnCases
<1>4. \A q \in Slot \ {s} : request'[q] = request[q]
  BY <1>3 DEF RatesShape
<1>5. request'[s].step = "count" => request'[s].todo = <<"send">>
  BY <1>3, NoRequestIs DEF RatesShape, SecondBudget
<1> QED
  BY <1>4, <1>5, TodoFacts DEF Unrecorded

\* The failure is recorded in the store, or what was counted there was no failure.
LEMMA CountPasses ==
  ASSUME RatesShape, RatesShape', RequestInv, PassInv, NEW s \in Slot, Count(s)
  PROVE  PassInv'
<1> DEFINE key == CounterOf(s)
<1>1. /\ request[s].step = "count" /\ request[s].step # "idle" /\ key \in Counter
      /\ ~down[request[s].at]
  BY RequestParts DEF Count, Sends, ServerOf
<1>2. /\ counter' = [counter EXCEPT ![key] = @ + 1]
      /\ UNCHANGED <<window, passed, local, wiped, broken, down>> /\ Fallen' = Fallen
  BY DEF Count, boundedVars, Fallen
<1>3. s \notin Unrecorded' /\ \A q \in Slot \ {s} : request'[q] = request[q]
  <2>1. CASE counter[key] = 0
    <3>1. request' = [request EXCEPT ![s].step = "expire", ![s].window = key[2]]
      BY <2>1 DEF Count
    <3>2. request[s] \in Requests
      BY DEF RatesShape
    <3>3. request'[s].step = "expire"
      BY <3>1, <3>2 DEF RatesShape, Requests
    <3>4. \A q \in Slot \ {s} : request'[q] = request[q]
      BY <3>1 DEF RatesShape
    <3> QED
      BY <3>3, <3>4 DEF Unrecorded
  <2>2. CASE counter[key] # 0
    <3>1. Counted(s, key, counter[key] + 1) /\ counter[key] + 1 \in Nat
      BY <1>1, <2>2 DEF Count, RatesShape
    <3> HIDE DEF key
    <3> QED
      BY <1>1, <3>1, NothingToRecord
  <2> QED
    BY <2>1, <2>2
<1> HIDE DEF key
<1>4. AuthKey \in Counter /\ counter[AuthKey] \in Nat
  BY RatesAssumption DEF RatesShape, AuthKey, Counter
<1>5. CASE s \notin Unrecorded
  <2>1. Unrecorded' = Unrecorded /\ \A q \in Unrecorded : request'[q] = request[q]
    BY <1>3, <1>5, RequestsApart, LoginSets
  <2>2. counter'[AuthKey] = counter[AuthKey] \/ counter'[AuthKey] = counter[AuthKey] + 1
    BY <1>1, <1>2, <1>4 DEF RatesShape
  <2>3. counter'[AuthKey] >= counter[AuthKey]
    BY <1>4, <2>2
  <2> QED
    BY <1>2, <2>1, <2>3, QuietStep
<1>6. CASE s \in Unrecorded
  <2>1. PICK p \in Api : p = request[s].at
    BY <1>6, UnrecordedIs
  <2>2. key = AuthKey
    BY <1>6, UnrecordedIs DEF key
  <2>3. counter'[AuthKey] = counter[AuthKey] + 1
    BY <1>2, <1>4, <2>2 DEF RatesShape
  <2>4. Unrecorded' = Unrecorded \ {s} /\ \A q \in Unrecorded \ {s} : request'[q] = request[q]
    BY <1>3, <1>6, RequestsApart, LoginSets
  <2>5. s \in ToStore /\ ToStore' = ToStore \ {s}
    BY <1>1, <1>2, <1>6, <2>1, <2>4 DEF ToStore, Fallen
  <2>6. \A q \in Fallen : ToItself(q)' = ToItself(q)
    <3>1. \A q \in Fallen : s \notin ToItself(q)
      BY <1>1 DEF ToItself, Fallen
    <3> QED
      BY <1>3, <1>6, <3>1, RequestsApart
  <2>7. Within
    BY <1>2, StepIsWithin
  <2>8. \A q \in Fallen : OwnKept(q)
    <3> SUFFICES ASSUME NEW q \in Fallen PROVE OwnKept(q)
      OBVIOUS
    <3>1. q \in Api /\ local[q] \in Nat /\ local'[q] = local[q]
      BY <1>2 DEF Fallen, RatesShape
    <3>2. local'[q] >= local[q] /\ ToItself(q) \subseteq ToItself(q)'
      BY <2>6, <3>1
    <3> QED
      BY <1>2, <3>1, <3>2, LineIsKept
  <2>9. StoreKept
    BY <1>2, <2>3, <2>5, LineIsKept
  <2> QED
    BY <1>2, <2>7, <2>8, <2>9, NobodyTurns
<1> QED
  BY <1>5, <1>6

\* A process turns back to the store; nobody records anything.
LEMMA BackToStore ==
  ASSUME RatesShape, RatesShape', PassInv, UNCHANGED <<window, passed, local, counter, wiped>>,
         broken' = broken, NEW p \in Process, down' = [down EXCEPT ![p] = FALSE],
         Unrecorded' = Unrecorded, \A s \in Unrecorded : request'[s] = request[s]
  PROVE  PassInv'
<1>1. counter'[AuthKey] >= counter[AuthKey] /\ counter[AuthKey] \in Nat
  <2>1. counter[AuthKey] \in Nat
    BY RatesAssumption DEF RatesShape, AuthKey, Counter
  <2>2. counter'[AuthKey] = counter[AuthKey]
    OBVIOUS
  <2> QED
    BY <2>1, <2>2
<1>2. CASE p \notin Fallen
  <2>1. Fallen' = Fallen
    BY <1>2 DEF Fallen, RatesShape, Process
  <2> QED
    BY <1>1, <2>1, QuietStep
<1>3. CASE p \in Fallen
  <2>1. Fallen' = Fallen \ {p}
    BY <1>3 DEF Fallen, RatesShape, Process
  <2>2. ToStore \subseteq ToStore' /\ \A q : ToItself(q)' = ToItself(q)
    BY <2>1 DEF ToStore, ToItself
  <2>3. Within
    BY <2>1, StepIsWithin
  <2>4. StoreKept
    BY <1>1, <2>2, LineIsKept
  <2>5. \A q \in Fallen \ {p} : OwnKept(q)
    <3> SUFFICES ASSUME NEW q \in Fallen PROVE OwnKept(q)
      OBVIOUS
    <3>1. q \in Api /\ local[q] \in Nat /\ local'[q] = local[q]
      BY DEF Fallen, RatesShape
    <3>2. local'[q] >= local[q] /\ ToItself(q) \subseteq ToItself(q)'
      BY <2>2, <3>1
    <3> QED
      BY <3>1, <3>2, LineIsKept
  <2> QED
    BY <1>3, <2>1, <2>3, <2>4, <2>5, TurnsBack
<1> QED
  BY <1>2, <1>3

\* The store has answered, and the process turns back to it.
LEMMA ExpirePasses ==
  ASSUME RatesShape, RatesShape', RequestInv, PassInv, NEW s \in Slot, Expire(s)
  PROVE  PassInv'
<1>1. /\ request[s].step = "expire" /\ request[s].at \in Process
      /\ <<Operation(s), request[s].window>> \in Counter
  BY RequestParts DEF Expire
<1>2. Counted(s, <<Operation(s), request[s].window>>, 1)
  BY DEF Expire
<1>3. s \notin Unrecorded' /\ \A q \in Slot \ {s} : request'[q] = request[q]
  <2> DEFINE key == <<Operation(s), request[s].window>>
  <2>1. key \in Counter /\ Counted(s, key, 1)
    BY <1>1, <1>2
  <2> HIDE DEF key
  <2> QED
    BY <1>1, <2>1, NothingToRecord
<1>4. s \notin Unrecorded
  BY <1>1 DEF Unrecorded
<1>5. Unrecorded' = Unrecorded /\ \A q \in Unrecorded : request'[q] = request[q]
  BY <1>3, <1>4, RequestsApart, LoginSets
<1> QED
  BY <1>1, <1>5, BackToStore DEF Expire, ServerOf, boundedVars

\* What a failure of the store does, to a count or to its expiry.
LEMMA FailDoes ==
  ASSUME RatesShape, RatesShape', RequestInv, NEW s \in Slot, CountFails(s) \/ AnswerLost(s),
         NEW p, p = request[s].at
  PROVE  /\ p \in Process /\ GivesUp(p) /\ UNCHANGED <<window, passed, wiped>>
         /\ counter'[AuthKey] >= counter[AuthKey]
         /\ \A q \in Slot \ {s} : request'[q] = request[q]
         /\ s \notin Unrecorded =>
              Unrecorded' = Unrecorded /\ \A q : ToItself(q)' = ToItself(q)
         /\ s \in Unrecorded =>
              /\ p \in Api /\ local'[p] = local[p] + 1
              /\ Unrecorded' = Unrecorded \ {s} /\ \A q : ToItself(q)' = ToItself(q) \ {s}
         /\ p \notin Api => s \notin Unrecorded /\ local' = local
         /\ \A q \in Api : local[q] \in Nat /\ local'[q] \in Nat /\ local'[q] >= local[q]
         /\ \A q \in Api : q # p => local'[q] = local[q]
<1>1. /\ request[s].step \in {"count", "expire"} /\ request[s].step # "idle"
      /\ GivesUp(p) /\ Uncounted(s) /\ UNCHANGED <<window, passed, wiped>>
  BY DEF CountFails, AnswerLost, boundedVars, ServerOf
<1>2. p \in Process /\ CounterOf(s) \in Counter /\ (IsLogin(s) => p \in Api)
  BY <1>1, RequestParts
<1>3. AuthKey \in Counter /\ counter[AuthKey] \in Nat
  BY RatesAssumption DEF RatesShape, AuthKey, Counter
<1>4. counter'[AuthKey] >= counter[AuthKey]
  <2>1. counter' = counter \/ counter' = [counter EXCEPT ![CounterOf(s)] = @ + 1]
    BY DEF CountFails, AnswerLost
  <2>2. counter'[AuthKey] = counter[AuthKey] \/ counter'[AuthKey] = counter[AuthKey] + 1
    BY <1>2, <1>3, <2>1 DEF RatesShape
  <2> QED
    BY <1>3, <2>2
<1>5. s \notin Unrecorded' /\ \A q \in Slot \ {s} : request'[q] = request[q]
  BY <1>1, NothingToRecord
<1>6. local' = (IF IsLogin(s) THEN [local EXCEPT ![p] = @ + 1] ELSE local)
  BY <1>1 DEF Uncounted, ServerOf
<1>7. ASSUME NEW q \in Api
      PROVE  /\ local[q] \in Nat /\ local'[q] \in Nat /\ local'[q] >= local[q]
             /\ q # p => local'[q] = local[q]
             /\ ~IsLogin(s) => local'[q] = local[q]
             /\ q = p /\ IsLogin(s) => local'[q] = local[q] + 1
  <2>1. local[q] \in Nat /\ local'[q] \in Nat
    BY DEF RatesShape
  <2>2. /\ q # p => local'[q] = local[q]
        /\ ~IsLogin(s) => local'[q] = local[q]
        /\ q = p /\ IsLogin(s) => local'[q] = local[q] + 1
    BY <1>2, <1>6 DEF RatesShape
  <2>3. local'[q] = local[q] \/ local'[q] = local[q] + 1
    BY <2>2
  <2> QED
    BY <2>1, <2>2, <2>3
<1>8. s \in Unrecorded => IsLogin(s)
  BY UnrecordedIs
<1>9. s \in Unrecorded => p \in Api /\ local'[p] = local[p] + 1
  BY <1>2, <1>7, <1>8
<1>10. /\ s \notin Unrecorded =>
            Unrecorded' = Unrecorded /\ \A q : ToItself(q)' = ToItself(q)
       /\ s \in Unrecorded =>
            Unrecorded' = Unrecorded \ {s} /\ \A q : ToItself(q)' = ToItself(q) \ {s}
  BY <1>5, RequestsApart
<1>11. p \notin Api => s \notin Unrecorded /\ local' = local
  BY <1>2, <1>6, <1>8
<1> QED
  BY <1>1, <1>2, <1>4, <1>5, <1>7, <1>9, <1>10, <1>11

\* A failure that is not recorded in the store is, in the process.
LEMMA FailPasses ==
  ASSUME RatesShape, RatesShape', RequestInv, PassInv, NEW s \in Slot,
         CountFails(s) \/ AnswerLost(s)
  PROVE  PassInv'
<1> PICK p : p = request[s].at
  OBVIOUS
<1>1. p \in Process /\ GivesUp(p) /\ broken \in Nat /\ down \in [Process -> BOOLEAN]
  BY FailDoes DEF RatesShape
<1>2. /\ UNCHANGED <<window, passed, wiped>> /\ counter'[AuthKey] >= counter[AuthKey]
      /\ \A q \in Slot \ {s} : request'[q] = request[q]
      /\ s \notin Unrecorded => Unrecorded' = Unrecorded /\ \A q : ToItself(q)' = ToItself(q)
      /\ s \in Unrecorded => /\ p \in Api /\ local'[p] = local[p] + 1
                             /\ Unrecorded' = Unrecorded \ {s}
                             /\ \A q : ToItself(q)' = ToItself(q) \ {s}
      /\ p \notin Api => s \notin Unrecorded /\ local' = local
  BY FailDoes
<1>3. /\ \A q \in Api : local[q] \in Nat /\ local'[q] \in Nat /\ local'[q] >= local[q]
      /\ \A q \in Api : q # p => local'[q] = local[q]
  BY FailDoes
<1>4. \A x \in Unrecorded : x # s => request'[x] = request[x]
  BY <1>2, LoginSets
<1>5. ASSUME NEW q \in Api PROVE OwnKept(q)
  <2>1. CASE s \in ToItself(q)
    <3>1. q = p /\ s \in Unrecorded
      BY <2>1 DEF ToItself
    <3> QED
      BY <1>2, <2>1, <3>1, LineIsKept
  <2>2. CASE s \notin ToItself(q)
    <3>1. ToItself(q) \subseteq ToItself(q)'
      BY <1>2, <2>2
    <3> QED
      BY <1>2, <1>3, <3>1, LineIsKept
  <2> QED
    BY <2>1, <2>2
<1>6. CASE down[p]
  <2>1. down' = down /\ broken' = broken /\ Fallen' = Fallen
    BY <1>1, <1>6 DEF GivesUp, Fallen
  <2>2. ToStore \subseteq ToStore'
    <3>1. s \in Unrecorded => s \notin ToStore
      BY <1>2, <1>6 DEF ToStore, Fallen
    <3> QED
      BY <1>2, <1>4, <2>1, <3>1 DEF ToStore
  <2>3. StoreKept
    BY <1>2, <2>2, LineIsKept
  <2>4. Within
    BY <1>2, <2>1, StepIsWithin
  <2>5. \A q \in Fallen : OwnKept(q)
    BY <1>5 DEF Fallen
  <2> QED
    BY <1>2, <2>1, <2>3, <2>4, <2>5, NobodyTurns
<1>7. CASE ~down[p] /\ p \notin Api
  <2>1. broken' = broken + 1 /\ Fallen' = Fallen
    BY <1>1, <1>7 DEF GivesUp, Fallen, Process
  <2>2. Unrecorded' = Unrecorded /\ \A x \in Unrecorded : request'[x] = request[x]
    BY <1>2, <1>4, <1>7
  <2> QED
    BY <1>2, <1>7, <2>1, <2>2, QuietStep
<1>8. CASE ~down[p] /\ p \in Api
  <2>1. /\ broken' = broken + 1 /\ broken' > broken
        /\ p \in Api \ Fallen /\ Fallen' = Fallen \cup {p}
    BY <1>1, <1>8 DEF GivesUp, Fallen, Process
  <2>2. ToStore' = ToStore \ ToItself(p)
    <3>1. s \in Unrecorded => s \in ToItself(p)
      BY DEF ToItself
    <3>2. Unrecorded' \ ToItself(p) = Unrecorded \ ToItself(p)
      BY <1>2, <3>1
    <3>3. ToStore' \cap ToItself(p) = {}
      BY <1>2, <1>4, <2>1 DEF ToStore, ToItself
    <3>4. \A x \in Unrecorded \ ToItself(p) : request'[x] = request[x] /\ request[x].at # p
      BY <1>4, <3>1 DEF ToItself
    <3>5. \A x \in Unrecorded \ ToItself(p) : x \in ToStore' <=> x \in ToStore
      BY <2>1, <3>2, <3>4 DEF ToStore
    <3>6. ToStore' \subseteq Unrecorded' /\ ToStore \subseteq Unrecorded
      BY DEF ToStore
    <3> QED
      BY <3>2, <3>3, <3>5, <3>6
  <2>3. Within
    BY <1>2, <2>1, StepIsWithin
  <2>4. \A q \in Fallen : OwnKept(q)
    BY <1>5 DEF Fallen
  <2>5. /\ ToItself(p) \in SUBSET Slot /\ ToItself(p)' \in SUBSET Slot
    BY LoginSets, LoginSetsAfter
  <2>6. /\ Cardinality(ToItself(p)) \in Nat /\ Cardinality(ToItself(p)') \in Nat
        /\ Cardinality(ToItself(p)) <= Share /\ Share \in Nat
    <3>1. /\ Cardinality(ToItself(p)) \in Nat /\ Cardinality(ToItself(p)') \in Nat
          /\ Cardinality(ToItself(p)) <= Cardinality(Slot)
      BY <2>5, SlotNumbers
    <3> QED
      BY <3>1, ShareIsNat
  <2>7. Cardinality(ToItself(p)) + 0 <= local'[p] + Cardinality(ToItself(p)')
    <3>1. CASE s \in Unrecorded
      <4>1. s \in ToItself(p) /\ ToItself(p)' = ToItself(p) \ {s}
        BY <1>2, <3>1 DEF ToItself
      <4>2. Cardinality(ToItself(p) \ {s}) = Cardinality(ToItself(p)) - 1
        BY <2>5, <4>1, SlotNumbers
      <4>3. Cardinality(ToItself(p)) = Cardinality(ToItself(p)') + 1
        BY <2>6, <4>1, <4>2
      <4>4. local'[p] = local[p] + 1 /\ local[p] \in Nat /\ local'[p] \in Nat
        BY <1>2, <1>3, <1>8, <3>1
      <4> QED
        BY ONLY <2>6, <4>3, <4>4, RecordedThere
    <3>2. CASE s \notin Unrecorded
      <4>1. ToItself(p)' = ToItself(p) /\ local'[p] \in Nat
        BY <1>2, <1>3, <1>8, <3>2
      <4>2. Cardinality(ToItself(p)) = Cardinality(ToItself(p)')
        BY <4>1
      <4> QED
        BY ONLY <2>6, <4>1, <4>2, RecordedThere
    <3> QED
      BY <3>1, <3>2
  <2>8. 0 \in 0..1 /\ passed'[window] = passed[window] + 0 /\ Cardinality(ToItself(p)) + 0 <= Share
    <3>1. passed[window] \in Nat
      BY DEF RatesShape
    <3> QED
      BY <1>2, <2>6, <3>1
  <2> QED
    BY <1>2, <2>1, <2>2, <2>3, <2>4, <2>7, <2>8, TurnsAway
<1> QED
  BY <1>1, <1>6, <1>7, <1>8

\* A process that dies forgets what it counted, and what it was to record.
LEMMA RestartPasses ==
  ASSUME RatesShape, RatesShape', RequestInv, PassInv, NEW p \in Process, Restart(p)
  PROVE  PassInv'
<1>1. /\ UNCHANGED <<window, counter, passed, wiped>> /\ broken' = broken + 1 /\ broken \in Nat
      /\ down' = [down EXCEPT ![p] = FALSE] /\ down \in [Process -> BOOLEAN]
      /\ local' = [q \in Api |-> IF q = p THEN 0 ELSE local[q]]
      /\ request' = [s \in Slot |-> IF request[s].at = p THEN NoRequest ELSE request[s]]
  BY DEF Restart, ServerOf, RatesShape
<1>2. Unrecorded' = {s \in Unrecorded : request[s].at # p}
      /\ \A s \in Unrecorded' : request'[s] = request[s]
  BY <1>1, NoRequestIs DEF Unrecorded
<1>3. \A q : q # p => ToItself(q)' = ToItself(q)
  BY <1>2 DEF ToItself
<1>4. \A q \in Api : q # p => OwnKept(q)
  <2> SUFFICES ASSUME NEW q \in Api, q # p PROVE OwnKept(q)
    OBVIOUS
  <2>1. local[q] \in Nat /\ local'[q] = local[q]
    BY <1>1 DEF RatesShape
  <2>2. local'[q] >= local[q] /\ ToItself(q) \subseteq ToItself(q)'
    BY <1>3, <2>1
  <2> QED
    BY <1>1, <2>2, LineIsKept
<1>5. CASE p \in Fallen
  <2>1. Fallen' = Fallen \ {p}
    BY <1>1 DEF Fallen, Process
  <2>2. ToStore \subseteq ToStore'
    BY <1>2, <1>5, <2>1 DEF ToStore
  <2>3. counter[AuthKey] \in Nat /\ counter'[AuthKey] = counter[AuthKey]
    BY <1>1, RatesAssumption DEF RatesShape, AuthKey, Counter
  <2>4. counter'[AuthKey] >= counter[AuthKey]
    BY <2>3
  <2>5. StoreKept
    BY <1>1, <2>2, <2>4, LineIsKept
  <2>6. Within
    BY <1>1, <2>1, StepIsWithin
  <2>7. \A q \in Fallen \ {p} : OwnKept(q)
    BY <1>4 DEF Fallen
  <2> QED
    BY <1>1, <1>5, <2>1, <2>5, <2>6, <2>7, TurnsBack
<1>6. CASE p \notin Fallen
  <2>1. Fallen' = Fallen
    BY <1>1, <1>6 DEF Fallen, Process
  <2>2. Within
    BY <1>1, <2>1, StepIsWithin
  <2>3. \A q \in Fallen : OwnKept(q)
    BY <1>4, <1>6 DEF Fallen
  <2>4. broken' > broken
    BY <1>1
  <2> QED
    BY <1>1, <2>1, <2>2, <2>3, <2>4, StoreForgets
<1> QED
  BY <1>5, <1>6

\* Redis comes back with its keys, or without.
LEMMA GoUpPasses ==
  ASSUME RatesShape, RatesShape', PassInv, GoUp
  PROVE  PassInv'
<1>1. /\ UNCHANGED <<window, passed, local, broken, down, request>>
      /\ Fallen' = Fallen /\ Unrecorded' = Unrecorded
      /\ \A q : ToItself(q)' = ToItself(q)
  BY DEF GoUp, Fallen, Unrecorded, ToItself
<1>2. counter[AuthKey] \in Nat /\ wiped \in Nat
  BY RatesAssumption DEF RatesShape, AuthKey, Counter
<1>3. CASE UNCHANGED <<counter, expiring, wiped>>
  <2>1. counter'[AuthKey] = counter[AuthKey]
    BY <1>1, <1>3 DEF AuthKey
  <2>2. counter'[AuthKey] >= counter[AuthKey]
    BY <1>2, <2>1
  <2> QED
    BY <1>1, <1>3, <2>2, QuietStep
<1>4. CASE wiped' = wiped + 1
  <2>1. wiped' > wiped
    BY <1>2, <1>4
  <2>2. Within
    BY <1>1, <1>4, StepIsWithin
  <2>3. \A q \in Fallen : OwnKept(q)
    <3> SUFFICES ASSUME NEW q \in Fallen PROVE OwnKept(q)
      OBVIOUS
    <3>1. q \in Api /\ local[q] \in Nat /\ local'[q] = local[q]
      BY <1>1 DEF Fallen, RatesShape
    <3>2. local'[q] >= local[q] /\ ToItself(q) \subseteq ToItself(q)'
      BY <1>1, <3>1
    <3> QED
      BY <1>1, <3>1, <3>2, LineIsKept
  <2> QED
    BY <1>1, <2>1, <2>2, <2>3, StoreForgets
<1> QED
  BY <1>3, <1>4 DEF GoUp

\* The clocks enter a window of which nothing has been let through yet.
LEMMA TurnPasses ==
  ASSUME RatesShape, RatesShape', PassInv, WindowTurns
  PROVE  PassInv'
<1>1. /\ window \in Window /\ window' \in Window /\ window' = window + 1
      /\ UNCHANGED <<down, request, passed, wiped, broken>>
      /\ local' = [p \in Api |-> 0] /\ counter' = counter
  BY DEF WindowTurns, boundedVars, RatesShape
<1>2. window \in Nat /\ \A w \in Window : w \in Nat
  BY <1>1, RatesAssumption DEF Window
<1>3. FallenInv'
  BY <1>1 DEF PassInv, FallenInv, Fallen
<1>4. FuturePassed' /\ passed'[window'] = 0
  <2>1. window' > window
    BY <1>1, <1>2
  <2>2. passed[window'] = 0
    BY <1>1, <2>1 DEF PassInv, FuturePassed
  <2>3. \A w \in Window : w > window' => w > window
    BY <1>1, <1>2
  <2> QED
    BY <1>1, <2>2, <2>3 DEF PassInv, FuturePassed
<1>5. FailuresAreBounded'
  BY <1>1 DEF PassInv, FailuresAreBounded
<1>6. AccountInv'
  <2> DEFINE none == [p \in Api |-> 0]
  <2>1. 0 \in 0..Share /\ none \in [Api -> 0..Share] /\ Share \in Nat
    BY ShareIsNat
  <2>2. /\ Cardinality(Fallen) \in Nat /\ Cardinality(Tickets(Fallen, none)) \in Nat
        /\ Cardinality(Fallen) <= broken /\ wiped \in Nat /\ broken \in Nat
    BY <2>1, LoginSets, TicketNumbers DEF PassInv, FallenInv, RatesShape
  <2>3. passed'[window'] <= Share * ((wiped + broken) - Cardinality(Fallen)) + 0
                            + Cardinality(Tickets(Fallen, none))
    <3> DEFINE d == (wiped + broken) - Cardinality(Fallen)
               t == Cardinality(Tickets(Fallen, none))
    <3>1. d \in Nat /\ t \in Nat
      BY <2>2
    <3>2. Share * d \in Nat
      BY <2>1, <3>1
    <3> HIDE DEF d, t
    <3>3. 0 <= Share * d + 0 + t
      BY <3>1, <3>2
    <3> QED
      BY <1>4, <3>3 DEF d, t
  <2>4. counter'[AuthKey'] \in Nat /\ Cardinality(ToStore') \in Nat
    <3>1. AuthKey' \in Counter
      BY <1>1 DEF AuthKey, Counter
    <3> QED
      BY <3>1, LoginSetsAfter, SlotNumbers DEF RatesShape
  <2>5. counter'[AuthKey'] < Allowed => 0 <= counter'[AuthKey'] + Cardinality(ToStore')
    BY ONLY <2>4, AtMost
  <2>6. \A p \in Fallen' : local'[p] < Allowed => none[p] <= local'[p] + Cardinality(ToItself(p)')
    <3> SUFFICES ASSUME NEW p \in Fallen'
                 PROVE  none[p] <= local'[p] + Cardinality(ToItself(p)')
      OBVIOUS
    <3>1. p \in Api
      BY DEF Fallen
    <3>2. local'[p] = 0 /\ none[p] = 0
      BY <1>1, <3>1
    <3>3. Cardinality(ToItself(p)') \in Nat
      BY LoginSetsAfter, SlotNumbers
    <3>4. 0 <= 0 + Cardinality(ToItself(p)')
      BY ONLY <3>3, AtMost
    <3> QED
      BY <3>2, <3>4
  <2>7. Fallen' = Fallen
    BY <1>1 DEF Fallen
  <2> HIDE DEF none
  <2>8. Account(0, none)'
    BY <1>1, <2>3, <2>5, <2>6, <2>7 DEF Account, Tickets
  <2> QED
    BY <2>1, <2>8 DEF AccountInv
<1> QED
  BY <1>3, <1>4, <1>5, <1>6 DEF PassInv

\* The rest changes nothing that the account is of, or turns a process back.
LEMMA OthersPass ==
  ASSUME RatesShape, RatesShape', PassInv,
         \/ \E p \in Process : AsksAgain(p)
         \/ GoDown \/ (\E k \in Counter : KeyExpires(k)) \/ UNCHANGED ratesVars
  PROVE  PassInv'
<1>1. AuthKey \in Counter /\ counter[AuthKey] \in Nat
  BY RatesAssumption DEF RatesShape, AuthKey, Counter
<1>2. ASSUME NEW p \in Process, AsksAgain(p) PROVE PassInv'
  <2>1. Unrecorded' = Unrecorded /\ \A s \in Unrecorded : request'[s] = request[s]
    BY <1>2 DEF AsksAgain, Unrecorded
  <2> QED
    BY <1>2, <2>1, BackToStore DEF AsksAgain, boundedVars
<1>3. ASSUME UNCHANGED <<window, down, local, request, passed, wiped, broken>>,
             counter'[AuthKey] = counter[AuthKey]
      PROVE  PassInv'
  <2>1. /\ Fallen' = Fallen /\ Unrecorded' = Unrecorded
        /\ \A s \in Unrecorded : request'[s] = request[s]
    BY <1>3 DEF Fallen, Unrecorded
  <2>2. counter'[AuthKey] >= counter[AuthKey]
    BY <1>1, <1>3
  <2> QED
    BY <1>3, <2>1, <2>2, QuietStep
<1>4. ASSUME NEW k \in Counter, KeyExpires(k) PROVE PassInv'
  <2>1. window \in Nat /\ k # AuthKey
    BY <1>4, RatesAssumption DEF KeyExpires, AuthKey, RatesShape, Window
  <2>2. counter'[AuthKey] = counter[AuthKey]
    BY <1>1, <1>4, <2>1 DEF KeyExpires, RatesShape
  <2> QED
    BY <1>3, <1>4, <2>2 DEF KeyExpires, boundedVars
<1>5. CASE GoDown
  <2>1. counter'[AuthKey] = counter[AuthKey]
    BY <1>5 DEF GoDown, AuthKey
  <2> QED
    BY <1>3, <1>5, <2>1 DEF GoDown
<1>6. CASE UNCHANGED ratesVars
  <2>1. counter'[AuthKey] = counter[AuthKey]
    BY <1>6 DEF ratesVars, AuthKey
  <2> QED
    BY <1>3, <1>6, <2>1 DEF ratesVars
<1> QED
  BY <1>2, <1>4, <1>5, <1>6

\* Every action keeps the account.
LEMMA PassPreserved ==
  RatesShape /\ RatesShape' /\ RequestInv /\ PassInv /\ [RatesNext]_ratesVars => PassInv'
BY BeginPasses, CheckPasses, CountPasses, ExpirePasses, FailPasses, RestartPasses, GoUpPasses,
   TurnPasses, OthersPass
   DEF RatesNext, RequestStep

\* Nobody has been let through, and nobody has fallen back.
LEMMA PassInitially == RatesInit => PassInv
<1> SUFFICES ASSUME RatesInit PROVE PassInv
  OBVIOUS
<1>1. Fallen = {} /\ Cardinality(Fallen) = 0
  BY FS_EmptySet DEF RatesInit, Fallen, Process
<1>2. /\ wiped = 0 /\ broken = 0 /\ \A w \in Window : passed[w] = 0
      /\ window \in Window /\ counter[AuthKey] = 0
  BY RatesAssumption DEF RatesInit, Window, AuthKey, Counter
<1>3. Share \in Nat /\ Share * (1 + wiped + broken) = Share
  BY <1>2, ShareIsNat
<1>4. FallenInv /\ FuturePassed
  BY <1>1, <1>2 DEF FallenInv, FuturePassed
<1>5. FailuresAreBounded
  BY <1>2, <1>3 DEF FailuresAreBounded, Share
<1>6. AccountInv
  <2> DEFINE none == [p \in Api |-> 0]
  <2>1. 0 \in 0..Share /\ none \in [Api -> 0..Share]
    BY ShareIsNat
  <2>2. Cardinality(Tickets(Fallen, none)) \in Nat /\ Cardinality(ToStore) \in Nat
    BY <2>1, LoginSets, TicketNumbers, SlotNumbers
  <2>3. Share * ((wiped + broken) - Cardinality(Fallen)) = 0
    BY <1>1, <1>2, <1>3
  <2> HIDE DEF none
  <2>4. Account(0, none)
    BY <1>1, <1>2, <2>2, <2>3 DEF Account
  <2> QED
    BY <2>1, <2>4 DEF AccountInv
<1> QED
  BY <1>4, <1>5, <1>6 DEF PassInv

\* The two limits hold, however requests, outages, restarts and the clocks interleave.
THEOREM LimitsAreKept == RatesSpec => []LimitsHold
<1>1. RatesInit => RatesShape /\ RequestInv
  BY NoRequestIs, RatesAssumption DEF RatesInit, RatesShape, RequestInv, Window
<1>2. RatesShape /\ RequestInv /\ ServedInv /\ PassInv /\ [RatesNext]_ratesVars
      => (RatesShape /\ RequestInv /\ ServedInv /\ PassInv)'
  BY RatesShapePreserved, ServedPreserved, PassPreserved
<1>3. ServedInv /\ PassInv => LimitsHold
  BY DEF ServedInv, PassInv, LimitsHold
<1> QED
  BY <1>1, <1>2, <1>3, ServedInitially, PassInitially, PTL DEF RatesSpec
================================================================================
