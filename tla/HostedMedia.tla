------------------------------ MODULE HostedMedia ------------------------------
(* Uploaded media from its slot to its destruction: reserveMediaSlot,             *)
(* assertAttachableMedia, recordMediaVerdict, unreferencedAmong and               *)
(* destroyMediaObjects in db/repository.ts, internal/media.controller.ts,         *)
(* retention/sweep.ts, metering/storage-event.ts and the media worker's sweep.ts, *)
(* verify.ts and rendition.ts.                                                    *)
(*                                                                                *)
(* One environment.  The store, the database and the meter change by themselves:  *)
(* nothing commits over two of them, and a process may stop between any two.  An  *)
(* object and a thumbnail count one unit of storage each.                         *)
EXTENDS Naturals, FiniteSets, Sequences

CONSTANTS
  Object,        \* slots that are asked for
  Cap,           \* the hard cap on stored bytes, in units
  Message,
  MediaOf,       \* the object a message attaches
  Worker,        \* media workers
  MaxKeys,       \* keys of renditions an object may have in the store
  Nobody, None,  \* no holder, no value
  MaxTrouble     \* crashes, unreachable scanners and stores, lost records: together

ASSUME MediaAssumption ==
  /\ IsFiniteSet(Object) /\ Cap \in Nat /\ Nobody \notin Object /\ None \notin Object
  /\ MediaOf \in [Message -> Object]
\* An object and a rendition never have one key.
ASSUME KeyAssumption == \A o \in Object : o \notin Object \X Nat
ASSUME BoundAssumption == MaxTrouble \in Nat /\ MaxKeys \in Nat

VARIABLES
  row,           \* state of an object's media_objects row; "gone" when deleted
  thumb,         \* its rendition's row, by the number in the rendition's key
  aged,          \* pending ones older than a day
  envLock,       \* the slot request that holds the environment's row
  slot, sum,     \* where a slot request is, and the committed units it read
  stored,        \* keys with bytes in the store: objects, and <<object, number>>
  meter,         \* storage deltas published, by media id and cause
  announced,     \* verdicts of an object broadcast to its channels, in order
  job,           \* the object a worker is at
  message,       \* where a message is
  sweep,         \* the retention sweep
  late,          \* messages on their way in while a sweep was past its reference check
  trouble

rowVars == <<row, thumb>>
slotVars == <<envLock, slot, sum>>
messageVars == <<message, late>>
vars == <<rowVars, aged, slotVars, stored, meter, announced, job, messageVars, sweep, trouble>>

Verdict == {"ready", "rejected"}
NoJob == [stage |-> "idle", object |-> None, verdict |-> "ready", thumb |-> 0]
NoSweep == [stage |-> "idle", objects |-> {}, keys |-> {}]
Key == Object \cup (Object \X Nat)

TypeOK ==
  /\ row \in [Object -> {"none", "pending", "ready", "rejected", "gone"}]
  /\ thumb \in [Object -> Nat] /\ aged \subseteq Object
  /\ envLock \in Object \cup {Nobody}
  /\ slot \in [Object -> {"new", "summed", "done"}]
  /\ sum \in [Object -> Nat]
  /\ stored \subseteq Key
  /\ meter \subseteq Key \X {"reserved", "rejected", "rendition", "deleted"}
  /\ announced \in [Object -> Seq(Verdict)]
  /\ job \in [Worker -> [stage : {"idle", "judged", "rendered", "applied", "settled"},
                         object : Object \cup {None}, verdict : Verdict, thumb : Nat]]
  /\ message \in [Message -> {"new", "checked", "sent", "refused", "destroyed"}]
  /\ sweep \in [stage : {"idle", "destroyed", "checked", "read", "deleted"},
                objects : SUBSET Object, keys : SUBSET Key]
  /\ late \subseteq Message /\ trouble \in 0..MaxTrouble

Init ==
  /\ row = [o \in Object |-> "none"] /\ thumb = [o \in Object |-> 0]
  /\ aged = {} /\ envLock = Nobody
  /\ slot = [o \in Object |-> "new"] /\ sum = [o \in Object |-> 0]
  /\ stored = {} /\ meter = {}
  /\ announced = [o \in Object |-> <<>>]
  /\ job = [w \in Worker |-> NoJob]
  /\ message = [m \in Message |-> "new"] /\ sweep = NoSweep /\ late = {} /\ trouble = 0

--------------------------------------------------------------------------------
Charged == {o \in Object : row[o] \in {"pending", "ready"}}
Thumbs == {o \in Object : thumb[o] # 0}

\* sum(declared_bytes) of the rows that are not rejected, renditions' rows too.
Committed == Cardinality(Charged) + Cardinality(Thumbs)

Attempt(condition) ==
  /\ condition /\ trouble < MaxTrouble
  /\ trouble' = trouble + 1

--------------------------------------------------------------------------------
(* A slot *)

\* Wrong: without FOR UPDATE.
SumCommitted_PlainRead(o) ==
  /\ slot[o] = "new"
  /\ sum' = [sum EXCEPT ![o] = Committed]
  /\ slot' = [slot EXCEPT ![o] = "summed"]
  /\ UNCHANGED <<rowVars, aged, envLock, stored, meter, announced, job, messageVars, sweep, trouble>>

\* The cap is read from the environment's row FOR UPDATE, then the rows are summed.
SumCommitted(o) ==
  /\ slot[o] = "new" /\ envLock = Nobody
  /\ envLock' = o
  /\ sum' = [sum EXCEPT ![o] = Committed]
  /\ slot' = [slot EXCEPT ![o] = "summed"]
  /\ UNCHANGED <<rowVars, aged, stored, meter, announced, job, messageVars, sweep, trouble>>

UnlockEnvironment(o) == envLock' = IF envLock = o THEN Nobody ELSE envLock

\* publishStorageDelta follows the commit; what the broker does not take is lost for
\* good, which is left out.
Publish(deltas) == meter' = meter \cup deltas

InsertSlot(o) ==
  /\ slot[o] = "summed" /\ sum[o] + 1 <= Cap
  /\ row' = [row EXCEPT ![o] = "pending"]
  /\ slot' = [slot EXCEPT ![o] = "done"] /\ sum' = [sum EXCEPT ![o] = 0]
  /\ UnlockEnvironment(o)
  /\ Publish({<<o, "reserved">>})
  /\ UNCHANGED <<thumb, aged, stored, announced, job, messageVars, sweep, trouble>>

RefuseSlot(o) ==
  /\ slot[o] = "summed" /\ sum[o] + 1 > Cap
  /\ slot' = [slot EXCEPT ![o] = "done"] /\ sum' = [sum EXCEPT ![o] = 0]
  /\ UnlockEnvironment(o)
  /\ UNCHANGED <<rowVars, aged, stored, meter, announced, job, messageVars, sweep, trouble>>

\* The client holds the signed URL: it may upload late or never.  What it uploads once
\* more after the verdict overwrites bytes or stays unread.
Upload(o) ==
  /\ row[o] = "pending" /\ o \notin stored
  /\ stored' = stored \cup {o}
  /\ UNCHANGED <<rowVars, aged, slotVars, meter, announced, job, messageVars, sweep, trouble>>

Age(o) ==
  /\ row[o] = "pending" /\ o \notin aged
  /\ aged' = aged \cup {o}
  /\ UNCHANGED <<rowVars, slotVars, stored, meter, announced, job, messageVars, sweep, trouble>>

--------------------------------------------------------------------------------
(* The media worker, and the api's handler of its verdicts *)

\* The list reaches a day back; its pages and the order of the objects are left out.
Listed == {o \in Object : row[o] = "pending" /\ o \notin aged}

\* probe and judge: size, type and scan of the bytes decide; no bytes, or no answer of
\* the scanner, and the object is left to a later sweep.  The list is read anew for
\* every object: what an older list adds are verdicts that come too late.
Judge(w, o) ==
  /\ job[w] = NoJob /\ o \in Listed \cap stored
  /\ \E v \in Verdict :
       job' = [job EXCEPT ![w] = [stage |-> "judged", object |-> o, verdict |-> v, thumb |-> 0]]
  /\ UNCHANGED <<rowVars, aged, slotVars, stored, meter, announced, messageVars, sweep, trouble>>

Becomes(w, stage) == job' = [job EXCEPT ![w].stage = stage]

\* Too small, of another type, or it could not be rendered: the verdict goes without.
RenderNone(w) ==
  /\ job[w].stage = "judged"
  /\ Becomes(w, "rendered")
  /\ UNCHANGED <<rowVars, aged, slotVars, stored, meter, announced, messageVars, sweep, trouble>>

\* A key of its own for every rendition.
FreshKeys(o) == {n \in 1..MaxKeys : <<o, n>> \notin stored /\ \A k \in 1..n - 1 : <<o, k>> \in stored}

\* Wrong: the verdict is sent while the rendition's bytes are not written yet.
Render_Later(w) ==
  LET o == job[w].object IN
  /\ job[w].stage = "judged" /\ job[w].verdict = "ready" /\ o \in stored
  /\ \E n \in FreshKeys(o) : job' = [job EXCEPT ![w].stage = "rendered", ![w].thumb = n]
  /\ UNCHANGED <<rowVars, aged, slotVars, stored, meter, announced, messageVars, sweep, trouble>>

\* The bytes under a key of their own, before the row that names them.
Render(w) ==
  LET o == job[w].object IN
  /\ job[w].stage = "judged" /\ job[w].verdict = "ready" /\ o \in stored
  /\ \E n \in FreshKeys(o) :
       /\ stored' = stored \cup {<<o, n>>}
       /\ job' = [job EXCEPT ![w].stage = "rendered", ![w].thumb = n]
  /\ UNCHANGED <<rowVars, aged, slotVars, meter, announced, messageVars, sweep, trouble>>

\* Wrong: without state = 'pending' in the predicate.
Applies_Anyway(o) == row[o] # "gone"

Applies(o) == row[o] = "pending"

\* The state and the rendition's row, in one transaction.
RecordVerdict(w) ==
  LET o == job[w].object IN
  /\ job[w].stage = "rendered" /\ Applies(o)
  /\ row' = [row EXCEPT ![o] = job[w].verdict]
  /\ thumb' = [thumb EXCEPT ![o] = job[w].thumb]
  /\ aged' = aged \ {o}
  /\ Becomes(w, "applied")
  /\ UNCHANGED <<slotVars, stored, meter, announced, messageVars, sweep, trouble>>

\* 404, 422, or an answer that nothing was applied.
VerdictTooLate(w) ==
  /\ job[w].stage = "rendered" /\ ~Applies(job[w].object)
  /\ job' = [job EXCEPT ![w] = NoJob]
  /\ UNCHANGED <<rowVars, aged, slotVars, stored, meter, announced, messageVars, sweep, trouble>>

\* The row first, then the bytes of what was rejected.
DropRejected(w) ==
  /\ job[w].stage = "applied"
  /\ stored' = IF job[w].verdict = "rejected" THEN stored \ {job[w].object} ELSE stored
  /\ Becomes(w, "settled")
  /\ UNCHANGED <<rowVars, aged, slotVars, meter, announced, messageVars, sweep, trouble>>

\* The store did not delete: logged.
KeepRejected(w) ==
  /\ Attempt(job[w].stage = "applied")
  /\ Becomes(w, "settled")
  /\ UNCHANGED <<rowVars, aged, slotVars, stored, meter, announced, messageVars, sweep>>

DeltaOf(j) ==
  IF j.verdict = "rejected" THEN {<<j.object, "rejected">>}
  ELSE IF j.thumb # 0 THEN {<<<<j.object, j.thumb>>, "rendition">>} ELSE {}

\* announce, then meterStorage.
Announce(w) ==
  /\ job[w].stage = "settled"
  /\ announced' = [announced EXCEPT ![job[w].object] = Append(@, job[w].verdict)]
  /\ Publish(DeltaOf(job[w]))
  /\ job' = [job EXCEPT ![w] = NoJob]
  /\ UNCHANGED <<rowVars, aged, slotVars, stored, messageVars, sweep, trouble>>

\* The worker or the api's process under its request dies.
VerdictLost(w) ==
  /\ Attempt(job[w] # NoJob)
  /\ job' = [job EXCEPT ![w] = NoJob]
  /\ UNCHANGED <<rowVars, aged, slotVars, stored, meter, announced, messageVars, sweep>>
--------------------------------------------------------------------------------
(* Messages *)

\* assertAttachableMedia: a plain read in the transaction of the send.
CheckAttachable(m) ==
  /\ message[m] = "new"
  /\ message' = [message EXCEPT ![m] = IF MediaOf[m] \in Charged THEN "checked" ELSE "refused"]
  /\ late' = IF sweep.stage \in {"checked", "read"} THEN late \cup {m} ELSE late
  /\ UNCHANGED <<rowVars, aged, slotVars, stored, meter, announced, job, sweep, trouble>>

CommitMessage(m) ==
  /\ message[m] = "checked"
  /\ message' = [message EXCEPT ![m] = "sent"]
  /\ UNCHANGED <<rowVars, aged, slotVars, stored, meter, announced, job, late, sweep, trouble>>

--------------------------------------------------------------------------------
(* The retention sweep, a process of its own *)

NamedBy(messages) == {MediaOf[m] : m \in messages}
Sent == {m \in Message : message[m] = "sent"}

\* A page of messages past the retention of their environment.
DestroyExpired ==
  /\ sweep = NoSweep
  /\ \E page \in SUBSET Sent :
       /\ page # {}
       /\ message' = [m \in Message |-> IF m \in page THEN "destroyed" ELSE message[m]]
       /\ sweep' = [NoSweep EXCEPT !.stage = "destroyed", !.objects = NamedBy(page)]
  /\ UNCHANGED <<rowVars, aged, slotVars, stored, meter, announced, job, late, trouble>>

\* Wrong: whatever the page named goes.
Unreferenced_All(objects) == objects

\* unreferencedAmong, over the messages that are still there.
Unreferenced(objects) == objects \ NamedBy(Sent)

CheckReferences ==
  /\ sweep.stage = "destroyed"
  /\ sweep' = [sweep EXCEPT !.stage = "checked", !.objects = Unreferenced(@)]
  /\ late' = late \cup {m \in Message : message[m] = "checked"}
  /\ UNCHANGED <<rowVars, aged, slotVars, stored, meter, announced, job, message, trouble>>

\* destroyMediaObjects reads the parents and their renditions' keys ...
ReadKeys ==
  /\ sweep.stage = "checked"
  /\ LET parents == {o \in sweep.objects : row[o] # "gone"} IN
     sweep' = [stage |-> "read", objects |-> parents,
               keys |-> parents \cup {<<o, thumb[o]>> : o \in parents \cap Thumbs}]
  /\ UNCHANGED <<rowVars, aged, slotVars, stored, meter, announced, job, messageVars, trouble>>

\* ... and deletes the parents, the renditions' rows going by cascade.
DeleteRows ==
  /\ sweep.stage = "read"
  /\ row' = [o \in Object |-> IF o \in sweep.objects THEN "gone" ELSE row[o]]
  /\ thumb' = [o \in Object |-> IF o \in sweep.objects THEN 0 ELSE thumb[o]]
  /\ aged' = aged \ sweep.objects
  /\ sweep' = [sweep EXCEPT !.stage = "deleted"]
  /\ UNCHANGED <<slotVars, stored, meter, announced, job, messageVars, trouble>>

\* deleteObjectWithRenditions and the "deleted" delta, object after object.
DeleteBytes ==
  /\ sweep.stage = "deleted"
  /\ stored' = stored \ sweep.keys
  /\ Publish({<<o, "deleted">> : o \in sweep.objects})
  /\ sweep' = NoSweep
  /\ UNCHANGED <<rowVars, aged, slotVars, announced, job, messageVars, trouble>>

SweepCrashes ==
  /\ Attempt(sweep # NoSweep)
  /\ sweep' = NoSweep
  /\ UNCHANGED <<rowVars, aged, slotVars, stored, meter, announced, job, messageVars>>

--------------------------------------------------------------------------------
SlotStep(o) == SumCommitted(o) \/ InsertSlot(o) \/ RefuseSlot(o)
Settle(w) ==
  RenderNone(w) \/ Render(w) \/ RecordVerdict(w) \/ VerdictTooLate(w) \/ DropRejected(w) \/ Announce(w)
SweepStep == CheckReferences \/ ReadKeys \/ DeleteRows \/ DeleteBytes

Next ==
  \/ \E o \in Object : SlotStep(o) \/ Upload(o) \/ Age(o)
  \/ \E w \in Worker : (\E o \in Object : Judge(w, o)) \/ Settle(w) \/ KeepRejected(w) \/ VerdictLost(w)
  \/ \E m \in Message : CheckAttachable(m) \/ CommitMessage(m)
  \/ DestroyExpired \/ SweepStep \/ SweepCrashes

Spec == Init /\ [][Next]_vars

--------------------------------------------------------------------------------
(* Properties *)

\* What was granted stays under the cap, since no slot request is ahead of a sum it
\* read: sum and insert are two statements with other slots, verdicts and sweeps
\* between them.
CapIsKept ==
  /\ Cardinality(Charged) <= Cap
  /\ \A o \in Object : slot[o] = "summed" => Cardinality(Charged) <= sum[o]

\* An object that is ready, and the thumbnail its row names, have their bytes: no
\* late verdict of a second worker and no destruction takes them away.
ReadyHasBytes ==
  \A o \in Object :
    row[o] = "ready" => o \in stored /\ (thumb[o] # 0 => <<o, thumb[o]>> \in stored)

\* However many workers judge an object, and differently, its channels hear of it at
\* most once, and what they hear is what the row says while there is a row.
HeardOnce ==
  \A o \in Object :
    /\ Len(announced[o]) <= 1
    /\ announced[o] # <<>> => row[o] \in {announced[o][1], "gone"}

\* A surviving message keeps its object through a sweep, unless its own check and its
\* commit lay around the sweep's: that check and the deletion are not one statement.
DanglesOnlyWhenLate ==
  \A m \in Sent \ late : row[MediaOf[m]] # "gone"

\* What storage-event.ts says of the meter: its deltas are the quota's quantity.  At
\* rest, with no record lost, they add up to what the rows charge.
MeterIsTheQuota ==
  /\ trouble = 0 /\ sweep = NoSweep
  /\ \A w \in Worker : job[w] = NoJob
  => Cardinality({d \in meter : d[2] \in {"reserved", "rendition"}})
       = Committed + Cardinality({d \in meter : d[2] \in {"rejected", "deleted"}})
================================================================================
