------------------------------- MODULE RateLimits -------------------------------
(* Who may do how much in a minute: the limits of the api (limits/store.ts,        *)
(* auth-limiter.ts, fallback.ts and rate-limit.middleware.ts) and the gateway's     *)
(* limits.ts, which count in the same keys of Redis.                               *)
(*                                                                                *)
(* One environment and one source address, from which every login fails.  A tick   *)
(* is a window.  A process whose store failed asks it again after five seconds,    *)
(* which may be any moment of the window.                                          *)
EXTENDS Naturals, FiniteSets, Sequences

CONSTANTS
  Api, Gateway,   \* processes
  Slot,           \* requests at a time
  Allowed,        \* failed authentications a window
  Limit,          \* requests a window, and messages
  MaxWindow, MaxRequests,
  MaxOutages,     \* times Redis goes, processes that restart, answers that are lost
  NoProcess

ASSUME RatesAssumption ==
  /\ Api \cap Gateway = {} /\ NoProcess \notin Api \cup Gateway
  /\ IsFiniteSet(Api) /\ IsFiniteSet(Slot)
  /\ Allowed \in Nat \ {0} /\ Limit \in Nat \ {0}
  /\ MaxWindow \in Nat /\ MaxRequests \in Nat /\ MaxOutages \in Nat

VARIABLES
  window,        \* the one the clocks are in
  up,
  counter,       \* counter[k]: the count under a key
  expiring,      \* keys with an expiry
  down,          \* down[p]: until its downUntil, p does not ask the store
  local,         \* local[p]: failures counted in p for this window
  request,       \* request[s]: one under way
  passed,        \* passed[w]: history: logins of window w that were not over the threshold
  served,        \* served[k]: history: requests counted in time, and served
  wiped, broken, \* history: times Redis lost its keys; breakers that opened and restarts
  begun, outages

ratesVars == <<window, up, counter, expiring, down, local, request, passed, served,
               wiped, broken, begun, outages>>
boundedVars == <<wiped, begun, outages>>

Process == Api \cup Gateway
Window == 0..MaxWindow
Counter == {"auth", "rest", "send"} \X Window
NoRequest == [at |-> NoProcess, step |-> "idle", window |-> 0, todo |-> <<>>,
              over |-> FALSE, spent |-> {}]

\* A login is counted when it fails; a message sent by REST against both budgets.
Kinds == [login |-> <<"auth">>, call |-> <<"rest">>, post |-> <<"rest", "send">>,
          frame |-> <<"send">>]
ServedBy(kind) == IF kind = "frame" THEN Gateway ELSE Api

RatesTypeOK ==
  /\ window \in Window /\ up \in BOOLEAN
  /\ counter \in [Counter -> Nat] /\ expiring \subseteq Counter
  /\ down \in [Process -> BOOLEAN] /\ local \in [Api -> Nat]
  /\ request \in [Slot -> [at : Process \cup {NoProcess},
                           step : {"idle", "check", "count", "expire"}, window : Window,
                           todo : {<<>>, <<"auth">>, <<"rest">>, <<"rest", "send">>, <<"send">>},
                           over : BOOLEAN, spent : SUBSET Counter]]
  /\ passed \in [Window -> Nat] /\ served \in [Counter -> Nat]
  /\ wiped \in Nat /\ broken \in Nat /\ begun \in 0..MaxRequests /\ outages \in 0..MaxOutages

RatesInit ==
  /\ window = 0 /\ up = TRUE
  /\ counter = [k \in Counter |-> 0] /\ expiring = {}
  /\ down = [p \in Process |-> FALSE] /\ local = [p \in Api |-> 0]
  /\ request = [s \in Slot |-> NoRequest]
  /\ passed = [w \in Window |-> 0] /\ served = [k \in Counter |-> 0]
  /\ wiped = 0 /\ broken = 0 /\ begun = 0 /\ outages = 0

ServerOf(s) == request[s].at
Operation(s) == Head(request[s].todo)
IsLogin(s) == Operation(s) = "auth"

\* The key of a failure is computed as it is recorded, that of a request once.
CounterOf(s) == <<Operation(s), IF IsLogin(s) THEN window ELSE request[s].window>>

--------------------------------------------------------------------------------
(* The store's guard *)

Answers(p) == up /\ ~down[p]

\* It did not, or was not asked: "we are not counting".
GivesUp(p) ==
  /\ down' = [down EXCEPT ![p] = TRUE]
  /\ broken' = IF down[p] THEN broken ELSE broken + 1

Outage == outages < MaxOutages /\ outages' = outages + 1

--------------------------------------------------------------------------------
(* Requests *)

BeginRequest(s, kind, p) ==
  /\ request[s] = NoRequest /\ begun < MaxRequests
  /\ begun' = begun + 1
  /\ request' = [request EXCEPT ![s] =
       [at |-> p, step |-> IF kind = "login" THEN "check" ELSE "count",
        window |-> window, todo |-> Kinds[kind], over |-> FALSE, spent |-> {}]]
  /\ UNCHANGED <<window, up, counter, expiring, down, local, passed, served, wiped, broken,
                 outages>>

\* Wrong: nobody is over the threshold while the store is gone.
IsOverThreshold_Open(p, shared) == Answers(p) /\ shared >= Allowed

\* isOverThreshold: from the store, or else from the process's own count.
IsOverThreshold(p, shared) == IF Answers(p) THEN shared >= Allowed ELSE local[p] >= Allowed

\* Whatever it says the credential is verified, and the failure recorded after that.
Check(s) ==
  LET p == ServerOf(s) IN
  /\ request[s].step = "check"
  /\ passed' = IF IsOverThreshold(p, counter[<<"auth", window>>]) THEN passed
               ELSE [passed EXCEPT ![window] = @ + 1]
  /\ IF Answers(p) THEN UNCHANGED <<down, broken>> ELSE GivesUp(p)
  /\ request' = [request EXCEPT ![s].step = "count"]
  /\ UNCHANGED <<window, up, counter, expiring, local, served, boundedVars>>

\* What is left to count is counted, over the limit or not, and the request answered
\* then; it is served if no count was over.
GoesOn(s, over, spent) ==
  LET r == request[s]
      now == {k \in spent : k[2] = window}
  IN IF Len(r.todo) > 1
     THEN /\ request' = [request EXCEPT ![s] =
               [r EXCEPT !.step = "count", !.todo = Tail(@), !.over = over, !.spent = spent]]
          /\ UNCHANGED served
     ELSE /\ request' = [request EXCEPT ![s] = NoRequest]
          /\ served' = IF over THEN served
                       ELSE [k \in Counter |-> IF k \in now THEN served[k] + 1 ELSE served[k]]

\* Wrong: one too many.
OverLimit_Past(n) == n > Limit + 1

OverLimit(n) == n > Limit

Counted(s, k, n) ==
  GoesOn(s, request[s].over \/ (~IsLogin(s) /\ OverLimit(n)),
           IF IsLogin(s) THEN {} ELSE request[s].spent \cup {k})

\* A failure is counted in the process, and a request goes uncounted.
Uncounted(s) ==
  /\ local' = IF IsLogin(s) THEN [local EXCEPT ![ServerOf(s)] = @ + 1] ELSE local
  /\ GoesOn(s, request[s].over, request[s].spent)

\* The command that is next reaches Redis; an operation asks no more once it has begun.
Sends(s) == up /\ (request[s].step = "expire" \/ ~down[ServerOf(s)])

\* INCR, whose answer is the count.
Count(s) ==
  LET key == CounterOf(s) IN
  /\ request[s].step = "count" /\ Sends(s)
  /\ counter' = [counter EXCEPT ![key] = @ + 1]
  /\ IF counter[key] = 0
       THEN /\ request' = [request EXCEPT ![s].step = "expire", ![s].window = key[2]]
            /\ UNCHANGED served
       ELSE Counted(s, key, counter[key] + 1)
  /\ UNCHANGED <<window, up, expiring, down, local, passed, broken, boundedVars>>

\* PEXPIRE, after the first INCR of a key; the store has answered.
Expire(s) ==
  LET key == <<Operation(s), request[s].window>> IN
  /\ request[s].step = "expire" /\ Sends(s)
  /\ expiring' = IF counter[key] = 0 THEN expiring ELSE expiring \cup {key}
  /\ down' = [down EXCEPT ![ServerOf(s)] = FALSE]
  /\ Counted(s, key, 1)
  /\ UNCHANGED <<window, up, counter, local, passed, broken, boundedVars>>

CountFails(s) ==
  /\ request[s].step \in {"count", "expire"} /\ ~Sends(s)
  /\ GivesUp(ServerOf(s)) /\ Uncounted(s)
  /\ UNCHANGED <<window, up, counter, expiring, passed, boundedVars>>

\* The INCR or the PEXPIRE is done and its answer lost.
AnswerLost(s) ==
  LET key == CounterOf(s)
      first == <<Operation(s), request[s].window>>
  IN
  /\ request[s].step \in {"count", "expire"} /\ Sends(s) /\ Outage
  /\ \/ /\ request[s].step = "count"
        /\ counter' = [counter EXCEPT ![key] = @ + 1] /\ UNCHANGED expiring
     \/ /\ request[s].step = "expire" /\ counter[first] > 0
        /\ expiring' = expiring \cup {first} /\ UNCHANGED counter
  /\ GivesUp(ServerOf(s)) /\ Uncounted(s)
  /\ UNCHANGED <<window, up, passed, wiped, begun>>

--------------------------------------------------------------------------------
(* Processes, Redis and time *)

\* downUntil is past.
AsksAgain(p) ==
  /\ down[p]
  /\ down' = [down EXCEPT ![p] = FALSE]
  /\ UNCHANGED <<window, up, counter, expiring, local, request, passed, served, broken, boundedVars>>

\* What it counted itself is gone, and so is what it was at.
Restart(p) ==
  /\ Outage
  /\ local' = [q \in Api |-> IF q = p THEN 0 ELSE local[q]]
  /\ request' = [s \in Slot |-> IF ServerOf(s) = p THEN NoRequest ELSE request[s]]
  /\ down' = [down EXCEPT ![p] = FALSE]
  /\ broken' = broken + 1
  /\ UNCHANGED <<window, up, counter, expiring, passed, served, wiped, begun>>

GoDown ==
  /\ up /\ Outage /\ up' = FALSE
  /\ UNCHANGED <<window, counter, expiring, down, local, request, passed, served, broken, wiped, begun>>

GoUp ==
  /\ ~up /\ up' = TRUE
  /\ \/ UNCHANGED <<counter, expiring, wiped>>
     \/ /\ counter' = [k \in Counter |-> 0] /\ expiring' = {} /\ wiped' = wiped + 1
  /\ UNCHANGED <<window, down, local, request, passed, served, broken, begun, outages>>

\* A key that was first counted in a window expires in the next one.
KeyExpires(k) ==
  /\ up /\ k \in expiring /\ k[2] < window
  /\ counter' = [counter EXCEPT ![k] = 0]
  /\ expiring' = expiring \ {k}
  /\ UNCHANGED <<window, up, down, local, request, passed, served, broken, boundedVars>>

\* The entry of a window that is over counts for nothing.
WindowTurns ==
  /\ window < MaxWindow /\ window' = window + 1
  /\ local' = [p \in Api |-> 0]
  /\ UNCHANGED <<up, counter, expiring, down, request, passed, served, broken, boundedVars>>

--------------------------------------------------------------------------------
RequestStep(s) == Check(s) \/ Count(s) \/ Expire(s) \/ CountFails(s)

RatesNext ==
  \/ \E s \in Slot :
       \/ \E kind \in DOMAIN Kinds : \E p \in ServedBy(kind) : BeginRequest(s, kind, p)
       \/ RequestStep(s) \/ AnswerLost(s)
  \/ \E p \in Process : AsksAgain(p) \/ Restart(p)
  \/ GoDown \/ GoUp \/ WindowTurns
  \/ \E k \in Counter : KeyExpires(k)

RatesSpec == RatesInit /\ [][RatesNext]_ratesVars

--------------------------------------------------------------------------------
(* Properties *)

\* auth-limiter.ts: the guarantee gets weaker, not absent.  The store lets through what
\* is allowed and what was being verified when that was used up, and as much again for
\* each loss of its keys; so does a process's own count each time the process turns to
\* it, and a restart, which forgets what was being verified.
FailuresAreBounded ==
  \A w \in Window :
    passed[w] <= (Allowed - 1 + Cardinality(Slot)) * (1 + wiped + broken)

\* The environment's requests and messages stay within their limits whichever processes
\* serve them, REST and sockets together, as long as they are counted and Redis keeps
\* its keys.
CountedWithinLimit == \A k \in Counter : served[k] <= Limit * (1 + wiped)

\* The two limits together.
LimitsHold == FailuresAreBounded /\ CountedWithinLimit

\* What auth-limiter.ts makes of its guarantee: so many per window per instance.
AllowedPerInstance == \A w \in Window : passed[w] <= Allowed * Cardinality(Api)

\* What store.ts says of a key: it dies when its window ends, and nothing accumulates.
KeysDie == \A k \in Counter : (counter[k] > 0 /\ k[2] < window) ~> counter[k] = 0
================================================================================
