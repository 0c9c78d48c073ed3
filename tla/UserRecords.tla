------------------------------ MODULE UserRecords ------------------------------
(* What the api keeps of one end user - the row in users, the membership of one *)
(* channel and the read position there - under the calls that create, revive,   *)
(* add, remove, delete and erase them (users.service.ts, channels.service.ts,   *)
(* db/repository.ts).                                                           *)
(*                                                                              *)
(* One external id, one channel.  An erasure replaces the external id, so the   *)
(* next call that names it may create a second row.  A call finds the row in    *)
(* one statement and writes it by its id in a later one.  The three calls that   *)
(* take members away delete two rows in a transaction, each locked from its     *)
(* DELETE to the commit; the steps of a transaction after which nothing makes   *)
(* it wait are one with its commit.  Every upsert and patch brings profile data;   *)
(* kinds, roles, bans and the media an erasure destroys are left out.            *)
EXTENDS FiniteSets, Naturals

CONSTANTS
  Caller,         \* requests under way at once
  Record,         \* rows of users that may be created for the external id
  NoRecord,
  MaxCalls,       \* requests made
  MaxLost         \* requests that die with their connection

VARIABLES
  name,           \* name[r]: no such row, it holds the external id, or "erased:<id>"
  profile,        \* rows with a display name, an avatar or metadata
  gone,           \* rows with deleted_at set
  joined,         \* rows with a membership
  positions,      \* rows with a read position
  call,           \* call[c]: its verb, where it is and the row it found
  took,           \* took[c]: rows its open transaction has deleted, and so locked
  calls, lost,    \* requests made, and requests that died
  told,           \* history: the last membership event in the outbox
  silent,         \* history: rows whose membership went with a deletion or an erasure
  late            \* history: <<r, thing>> written by a call the leaving had overtaken

recordVars == <<name, profile, gone, joined, positions>>
historyVars == <<told, silent, late>>
userVars == <<recordVars, call, took, calls, lost, historyVars>>

Verbs == {"upsert", "add", "join", "remove", "read", "patch", "delete", "erase"}
Leaving == {"delete", "erase"}
Idle == [verb |-> "none", step |-> "idle", on |-> NoRecord]

UsersInit ==
  /\ name = [r \in Record |-> "unused"]
  /\ profile = {} /\ gone = {} /\ joined = {} /\ positions = {}
  /\ call = [c \in Caller |-> Idle]
  /\ took = [c \in Caller |-> {}]
  /\ calls = 0 /\ lost = 0
  /\ told = [r \in Record |-> "nothing"]
  /\ silent = {} /\ late = {}

Holder == {r \in Record : name[r] = "held"}
At(c, step) == call[c].step = step

Goes(c, step, r) ==
  call' = [call EXCEPT ![c].step = step, ![c].on = r]

\* The request is answered, and its transaction committed or rolled back.
Ends(c) ==
  /\ call' = [call EXCEPT ![c] = Idle]
  /\ took' = [took EXCEPT ![c] = {}]

\* Another open transaction has deleted this row: a write of it waits for the outcome.
Locked(c, row) ==
  \E d \in Caller \ {c} : row \in took[d] /\ call[d].on = call[c].on

Note(r, thing, overtaken) == IF overtaken THEN late \cup {<<r, thing>>} ELSE late

Calls(c, verb) ==
  /\ At(c, "idle") /\ calls < MaxCalls
  /\ calls' = calls + 1
  /\ call' = [call EXCEPT ![c] =
       [verb |-> verb, step |-> IF verb \in {"upsert", "add"} THEN "insert" ELSE "find",
        on |-> NoRecord]]
  /\ UNCHANGED <<recordVars, took, lost, historyVars>>

\* INSERT ... ON CONFLICT DO NOTHING: upsertUser's profile goes in with the row.
Inserts(c) ==
  /\ At(c, "insert")
  /\ \/ /\ Holder # {}
        /\ Goes(c, "find", NoRecord)
        /\ UNCHANGED <<recordVars, took>>
     \/ \E r \in Record :
          /\ Holder = {} /\ name[r] = "unused"
          /\ name' = [name EXCEPT ![r] = "held"]
          /\ profile' = IF call[c].verb = "upsert" THEN profile \cup {r} ELSE profile
          /\ IF call[c].verb = "upsert" THEN Ends(c)
             ELSE Goes(c, "join", r) /\ UNCHANGED took
          /\ UNCHANGED <<gone, joined, positions>>
  /\ UNCHANGED <<calls, lost, historyVars>>

Then(verb) ==
  CASE verb \in {"upsert", "patch"} -> "write"
    [] verb \in {"add", "join"}     -> "join"
    [] verb = "remove"              -> "members"
    [] verb \in Leaving             -> "positions"
    [] verb = "read"                -> "check"

\* getUserByExternalId.  Reading a profile's owner or moving a position refuses a
\* deleted user (requireUser); the other callers take the row as it is.
Finds(c) ==
  /\ At(c, "find")
  /\ LET found == {r \in Holder : call[c].verb \in {"read", "patch"} => r \notin gone}
     IN \/ \E r \in found : Goes(c, Then(call[c].verb), r) /\ UNCHANGED took
        \/ found = {} /\ Ends(c)
  /\ UNCHANGED <<recordVars, calls, lost, historyVars>>

\* upsertUser's UPDATE, by id and whatever has become of the row, unless the kind it
\* asks for cannot be had; the pre-image said only whether to call it a revival.
Upserts(c) ==
  LET r == call[c].on IN
  /\ At(c, "write") /\ call[c].verb = "upsert"
  /\ \/ UNCHANGED <<profile, gone, late>>
     \/ /\ profile' = profile \cup {r}
        /\ gone' = gone \ {r}
        /\ late' = Note(r, "profile", name[r] = "erased")
  /\ Ends(c)
  /\ UNCHANGED <<name, joined, positions, calls, lost, told, silent>>

\* Wrong: the UPDATE goes by the id alone.
Patches_ById(c) ==
  /\ At(c, "write") /\ call[c].verb = "patch"
  /\ profile' = profile \cup {call[c].on}
  /\ Ends(c)
  /\ UNCHANGED <<name, gone, joined, positions, calls, lost, historyVars>>

\* updateUserProfile, whose UPDATE asks for the row not to be deleted.
Patches(c) ==
  LET r == call[c].on IN
  /\ At(c, "write") /\ call[c].verb = "patch"
  /\ profile' = IF r \in gone THEN profile ELSE profile \cup {r}
  /\ Ends(c)
  /\ UNCHANGED <<name, gone, joined, positions, calls, lost, historyVars>>

\* addMember: the membership and its event, or neither.
Joins(c) ==
  LET r == call[c].on IN
  /\ At(c, "join") /\ ~Locked(c, "member")
  /\ IF r \in joined THEN UNCHANGED <<joined, historyVars>>
     ELSE /\ joined' = joined \cup {r}
          /\ told' = [told EXCEPT ![r] = "added"]
          /\ silent' = silent \ {r}
          /\ late' = Note(r, "member", name[r] = "erased")
  /\ Ends(c)
  /\ UNCHANGED <<name, profile, gone, positions, calls, lost>>

\* isMember, a statement of its own before setReadPosition's transaction.
Checks(c) ==
  /\ At(c, "check")
  /\ IF call[c].on \in joined THEN Goes(c, "put", call[c].on) /\ UNCHANGED took ELSE Ends(c)
  /\ UNCHANGED <<recordVars, calls, lost, historyVars>>

\* A deletion or an erasure of r that has deleted its read positions already.
LeavingNow(r) ==
  \E d \in Caller : At(d, "last") /\ call[d].verb \in Leaving /\ call[d].on = r

PutsPosition(c) ==
  LET r == call[c].on IN
  /\ At(c, "put") /\ ~Locked(c, "position")
  /\ positions' = positions \cup {r}
  /\ late' = Note(r, "position", r \notin joined \/ name[r] = "erased" \/ LeavingNow(r))
  /\ Ends(c)
  /\ UNCHANGED <<name, profile, gone, joined, calls, lost, told, silent>>

\* removeMembers: the membership first, with its event, then the position.
TakesMembership(c) ==
  LET r == call[c].on IN
  /\ At(c, "members") /\ call[c].verb = "remove" /\ ~Locked(c, "member")
  /\ took' = [took EXCEPT ![c] = IF r \in joined THEN {"member"} ELSE {}]
  /\ Goes(c, "last", r)
  /\ UNCHANGED <<recordVars, calls, lost, historyVars>>

\* Wrong: a removal is announced for whoever was asked for, not for who RETURNING names.
Removes_AnnouncesAll(c) ==
  LET r == call[c].on IN
  /\ At(c, "last") /\ call[c].verb = "remove" /\ ~Locked(c, "position")
  /\ joined' = IF "member" \in took[c] THEN joined \ {r} ELSE joined
  /\ told' = [told EXCEPT ![r] = "removed"]
  /\ positions' = positions \ {r}
  /\ late' = late \ {<<r, "position">>}
  /\ Ends(c)
  /\ UNCHANGED <<name, profile, gone, calls, lost, silent>>

\* Wrong: the position is left to be deleted by a statement of its own, which may not run.
Removes_NotThePosition(c) ==
  LET r == call[c].on IN
  /\ At(c, "last") /\ call[c].verb = "remove"
  /\ IF "member" \in took[c]
     THEN joined' = joined \ {r} /\ told' = [told EXCEPT ![r] = "removed"]
     ELSE UNCHANGED <<joined, told>>
  /\ Ends(c)
  /\ UNCHANGED <<name, profile, gone, positions, calls, lost, silent, late>>

Removes(c) ==
  LET r == call[c].on IN
  /\ At(c, "last") /\ call[c].verb = "remove" /\ ~Locked(c, "position")
  /\ IF "member" \in took[c]
     THEN joined' = joined \ {r} /\ told' = [told EXCEPT ![r] = "removed"]
     ELSE UNCHANGED <<joined, told>>
  /\ positions' = positions \ {r}
  /\ late' = late \ {<<r, "position">>}
  /\ Ends(c)
  /\ UNCHANGED <<name, profile, gone, calls, lost, silent>>

\* deleteUser and eraseUser: the position first, then the membership, with no event;
\* last the row itself, which an erasure also takes the external id from.
TakesPosition(c) ==
  LET r == call[c].on IN
  /\ At(c, "positions") /\ call[c].verb \in Leaving /\ ~Locked(c, "position")
  /\ took' = [took EXCEPT ![c] = IF r \in positions THEN {"position"} ELSE {}]
  /\ Goes(c, "last", r)
  /\ UNCHANGED <<recordVars, calls, lost, historyVars>>

Leaves(c) ==
  LET r == call[c].on IN
  /\ At(c, "last") /\ call[c].verb \in Leaving /\ ~Locked(c, "member")
  /\ positions' = IF "position" \in took[c] THEN positions \ {r} ELSE positions
  /\ joined' = joined \ {r}
  /\ silent' = IF r \in joined THEN silent \cup {r} ELSE silent
  /\ profile' = profile \ {r}
  /\ gone' = gone \cup {r}
  /\ name' = IF call[c].verb = "erase" THEN [name EXCEPT ![r] = "erased"] ELSE name
  /\ late' = late \ ({<<r, "member">>, <<r, "profile">>} \cup
                     (IF "position" \in took[c] THEN {<<r, "position">>} ELSE {}))
  /\ Ends(c)
  /\ UNCHANGED <<calls, lost, told>>

\* Two transactions that each wait for a row the other has deleted: PostgreSQL ends one.
Crossed(remover, leaver) ==
  /\ call[remover].on = call[leaver].on
  /\ At(remover, "last") /\ call[remover].verb = "remove" /\ "member" \in took[remover]
  /\ At(leaver, "last") /\ call[leaver].verb \in Leaving /\ "position" \in took[leaver]

DeadlockEnds(c) ==
  /\ \E d \in Caller : Crossed(c, d) \/ Crossed(d, c)
  /\ Ends(c)
  /\ UNCHANGED <<recordVars, calls, lost, historyVars>>

\* A request dies between two statements: an open transaction is rolled back, what was
\* written outside one stays.
Dies(c) ==
  /\ ~At(c, "idle") /\ lost < MaxLost
  /\ lost' = lost + 1
  /\ Ends(c)
  /\ UNCHANGED <<recordVars, calls, historyVars>>

Proceeds(c) ==
  \/ Inserts(c) \/ Finds(c) \/ Upserts(c) \/ Patches(c) \/ Joins(c) \/ Checks(c)
  \/ PutsPosition(c) \/ TakesMembership(c) \/ Removes(c) \/ TakesPosition(c) \/ Leaves(c)
  \/ DeadlockEnds(c)

UsersNext ==
  \E c \in Caller : Proceeds(c) \/ Dies(c) \/ \E verb \in Verbs : Calls(c, verb)

UsersSpec == UsersInit /\ [][UsersNext]_userVars

CallRecords ==
  [verb : Verbs \cup {"none"}, on : Record \cup {NoRecord},
   step : {"idle", "insert", "find", "write", "join", "check", "put",
           "members", "positions", "last"}]

\* Types; no second row holds the external id, and a call past its first reads is about
\* a row that exists.
UsersTypeOK ==
  /\ name \in [Record -> {"unused", "held", "erased"}]
  /\ profile \subseteq Record /\ gone \subseteq Record
  /\ joined \subseteq Record /\ positions \subseteq Record
  /\ call \in [Caller -> CallRecords]
  /\ took \in [Caller -> SUBSET {"member", "position"}]
  /\ told \in [Record -> {"nothing", "added", "removed"}]
  /\ silent \subseteq Record
  /\ late \subseteq Record \X {"profile", "member", "position"}
  /\ calls \in Nat /\ lost \in Nat
  /\ \A r, q \in Holder : r = q
  /\ \A c \in Caller : ~At(c, "idle") => call[c].verb \in Verbs
  /\ \A c \in Caller :
       call[c].step \notin {"idle", "insert", "find"} =>
         call[c].on \in Record /\ name[call[c].on] # "unused"

\* Whatever calls were under way beside it, an erased row is deleted and holds no profile,
\* no membership and no position - but for what a call wrote that had found the row
\* before the erasure was committed (db/repository.ts, eraseUser: "the row becomes a
\* tombstone holding nothing").
ErasedIsGone ==
  \A r \in Record : name[r] = "erased" =>
    /\ <<r, "profile">> \notin late => r \in gone /\ r \notin profile
    /\ <<r, "member">> \notin late => r \notin joined
    /\ <<r, "position">> \notin late => r \notin positions

\* A read position goes with the membership, by whichever call the member leaves: only a
\* position that was checked before the membership went and written after it is left over.
PositionsFollowMembership ==
  \A r \in positions : r \in joined \/ <<r, "position">> \in late

\* The events tell who is a member: whoever is one was last announced as added, and of a
\* member announced as added who is none any more the user was deleted or erased, which
\* announces nothing.
EventsTellMembership ==
  \A r \in Record :
    /\ r \in joined => told[r] = "added"
    /\ told[r] = "added" /\ r \notin joined => r \in silent

\* What eraseUser says of the row it leaves, without the exception.
TombstoneHoldsNothing ==
  \A r \in Record : name[r] = "erased" => r \notin profile \cup joined \cup positions
================================================================================
