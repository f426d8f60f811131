---------------------------- MODULE RateLimiting ----------------------------
(***************************************************************************)
(* The in-memory rate limiter (src/rate-limit/limiter.ts, rate-limiter.ts) *)
(* and the queue a blocked request may wait in (queue.ts).  A bucket is a  *)
(* key with a window; a request passes a list of buckets, one await each,  *)
(* so requests of one batch interleave between two buckets.  Promises that *)
(* are ready run before any timer: no tick and no poll splits a list.      *)
(*                                                                         *)
(* The pipeline consumes the client's buckets, looks the cache up, and on  *)
(* a miss consumes the server's.  consumeWithQueue() takes all of them.    *)
(* evictIfFull() is left out: there are fewer buckets than its cap.        *)
(***************************************************************************)
EXTENDS Filtering, Sequences, Functions

CONSTANTS
    Requests,       \* calls in progress at one time; each may be used again
    Buckets,
    KeyOf,          \* KeyOf[b]: the key of a bucket, which names its queue
    Window,         \* Window[b]: window_ms, in ticks
    Limit,          \* Limit[b]
    ClientChecks,   \* ClientChecks[r]: getClientChecks(), global first
    ServerChecks,   \* ServerChecks[r]: getServerChecks()
    ResetScopes,    \* the sets of buckets that an admin's reset empties
    MaxWait,        \* max_wait_ms, in ticks
    MaxQueue,       \* max_queue_size
    NoBucket

ASSUME RateAssumption ==
    /\ Window \in [Buckets -> Nat] /\ Limit \in [Buckets -> Nat]
    /\ ClientChecks \in [Requests -> Seq(Buckets)]
    /\ ServerChecks \in [Requests -> Seq(Buckets)]
    /\ ResetScopes \subseteq SUBSET Buckets
    /\ MaxWait \in Nat /\ MaxQueue \in Nat
    /\ NoBucket \notin Buckets

VARIABLES
    used,       \* used[b][a]: timestamps of bucket b at most a ticks old
    phase,      \* where request r is
    todo,       \* todo[r]: the buckets r has still to pass
    queue,      \* queue[k]: the requests waiting on key k, in order
    watched,    \* watched[k]: the bucket queue k was created for
    left,       \* left[r]: ticks to the deadline of r's entry
    polling,    \* the poll timer is set
    charged,    \* history: the buckets r consumed since it began
    waited      \* history: the keys r has waited for since it began

rateVars == <<used, phase, todo, queue, watched, left, polling, charged, waited>>

QueueKeys == {KeyOf[b] : b \in Buckets}
AllChecks(r) == ClientChecks[r] \o ServerChecks[r]

Consuming == {"client", "server", "all", "rest"}
Evaluating == Consuming \union {"preview"}
Answered == {"served", "hit", "refused"}
Phases == Evaluating \union Answered \union {"idle", "lookup", "queued"}

Lesser(m, n) == IF m <= n THEN m ELSE n

\* No promise is ready: the event loop turns to its timers.
Settled == \A r \in Requests : phase[r] \notin Evaluating

RateInit ==
    /\ used = [b \in Buckets |-> [a \in 0..Window[b] |-> 0]]
    /\ phase = [r \in Requests |-> "idle"]
    /\ todo = [r \in Requests |-> <<>>]
    /\ queue = [k \in QueueKeys |-> <<>>]
    /\ watched = [k \in QueueKeys |-> NoBucket]
    /\ left = [r \in Requests |-> 0]
    /\ polling = FALSE
    /\ charged = [r \in Requests |-> {}]
    /\ waited = [r \in Requests |-> {}]

----------------------------------------------------------------------------
(* The sliding window.                                                     *)

\* getValid(): the timestamps no older than the window.
Count(b) == used[b][Window[b]]
Room(b) == IF Count(b) < Limit[b] THEN Limit[b] - Count(b) ELSE 0

\* check().allowed
Allows(b) == Count(b) < Limit[b]

\* n timestamps of now are pushed.
Pushed(b, n) == [a \in 0..Window[b] |-> used[b][a] + n]

----------------------------------------------------------------------------
(* One request.                                                            *)

\* The calls of a batch begin together, on the pipeline's path ("client") or
\* with a preview of all the buckets.
Begin(batch, p) ==
    /\ Settled
    /\ \A r \in batch : phase[r] \in {"idle"} \union Answered
    /\ phase' = [r \in Requests |-> IF r \in batch THEN p ELSE phase[r]]
    /\ todo' = [r \in Requests |-> IF r \notin batch THEN todo[r]
                                   ELSE IF p = "client" THEN ClientChecks[r]
                                   ELSE AllChecks(r)]
    /\ charged' = [r \in Requests |-> IF r \in batch THEN {} ELSE charged[r]]
    /\ waited' = [r \in Requests |-> IF r \in batch THEN {} ELSE waited[r]]
    /\ UNCHANGED <<used, queue, watched, left, polling>>

\* evaluateChecks(checks, true): the next bucket is consumed, or refuses the
\* request, which keeps the tokens it took from the buckets before.
Consume(r) ==
    /\ phase[r] \in Consuming /\ todo[r] # <<>>
    /\ LET b == Head(todo[r]) IN
       \/ /\ Allows(b)
          /\ used' = [used EXCEPT ![b] = Pushed(b, 1)]
          /\ charged' = [charged EXCEPT ![r] = @ \union {b}]
          /\ todo' = [todo EXCEPT ![r] = Tail(@)]
          /\ UNCHANGED phase
       \/ /\ ~Allows(b)
          /\ phase' = [phase EXCEPT ![r] = "refused"]
          /\ UNCHANGED <<used, charged, todo>>
    /\ UNCHANGED <<queue, watched, left, polling, waited>>

\* Every bucket of the list allowed it.
Pass(r) ==
    /\ phase[r] \in Consuming /\ todo[r] = <<>>
    /\ phase' = [phase EXCEPT ![r] = IF @ = "client" THEN "lookup" ELSE "served"]
    /\ UNCHANGED <<used, todo, queue, watched, left, polling, charged, waited>>

\* The cache is looked up, over the network for its second level.
Lookup(r) ==
    /\ phase[r] = "lookup"
    /\ \/ phase' = [phase EXCEPT ![r] = "hit"] /\ UNCHANGED todo
       \/ /\ phase' = [phase EXCEPT ![r] = "server"]
          /\ todo' = [todo EXCEPT ![r] = ServerChecks[r]]
    /\ UNCHANGED <<used, queue, watched, left, polling, charged, waited>>

\* enqueue(): a queue keeps the bucket it was created for.
Enqueue(r, b) ==
    LET k == KeyOf[b] IN
    /\ Len(queue[k]) < MaxQueue
    /\ queue' = [queue EXCEPT ![k] = Append(@, r)]
    /\ watched' = [watched EXCEPT ![k] = IF @ = NoBucket THEN b ELSE @]
    /\ left' = [left EXCEPT ![r] = MaxWait]
    /\ phase' = [phase EXCEPT ![r] = "queued"]
    /\ polling' = TRUE
    /\ UNCHANGED todo

\* evaluateChecks(checks, false): the first bucket that refuses sends the
\* request to the queue of its key; when none does, all are consumed.
Preview(r) ==
    /\ phase[r] = "preview"
    /\ \/ /\ todo[r] # <<>> /\ Allows(Head(todo[r]))
          /\ todo' = [todo EXCEPT ![r] = Tail(@)]
          /\ UNCHANGED <<phase, queue, watched, left, polling>>
       \/ /\ todo[r] = <<>>
          /\ phase' = [phase EXCEPT ![r] = "all"]
          /\ todo' = [todo EXCEPT ![r] = AllChecks(r)]
          /\ UNCHANGED <<queue, watched, left, polling>>
       \/ /\ todo[r] # <<>> /\ ~Allows(Head(todo[r]))
          /\ Enqueue(r, Head(todo[r]))
       \/ /\ todo[r] # <<>> /\ ~Allows(Head(todo[r]))
          /\ Len(queue[KeyOf[Head(todo[r])]]) >= MaxQueue
          /\ phase' = [phase EXCEPT ![r] = "refused"]
          /\ UNCHANGED <<todo, queue, watched, left, polling>>
    /\ UNCHANGED <<used, charged, waited>>

----------------------------------------------------------------------------
(* The queue.                                                              *)

\* Seeded fault: an entry waits for capacity however long it takes.
LateNever(r) == FALSE

Late(r) == left[r] = 0

InTime(k) == Picked(queue[k], {i \in DOMAIN queue[k] : ~Late(queue[k][i])})

\* Seeded fault: the capacity found by one check serves every entry.
ResolvedAll(k) == IF queue[k] # <<>> /\ Room(watched[k]) > 0 THEN InTime(k)
                  ELSE <<>>

\* The entries there is room for, in the order they came.
Resolved(k) ==
    IF queue[k] = <<>> THEN <<>>
    ELSE SubSeq(InTime(k), 1, Lesser(Len(InTime(k)), Room(watched[k])))

\* What remains of the queue.
Kept(k) == SubSeq(InTime(k), Len(Resolved(k)) + 1, Len(InTime(k)))

\* Seeded fault: the buckets after the one that blocked are not consumed.
RestNone(r, k) == <<>>

\* consumeWithQueue() goes on with the checks of other keys: every window of
\* the key that blocked is taken for consumed.
Rest(r, k) == Picked(AllChecks(r),
                     {i \in DOMAIN AllChecks(r) : KeyOf[AllChecks(r)[i]] # k})

\* Seeded fault: the timer is cleared with the first queue that empties.
AllWaiting(q) == \A k \in QueueKeys : q[k] # <<>>

\* stopPollingIfEmpty()
StillWaiting(q) == \E k \in QueueKeys : q[k] # <<>>

\* Whose promises are resolved, and whose are rejected.
Freed == {r \in Requests : \E k \in QueueKeys : r \in Range(Resolved(k))}
Rejected == {r \in Requests : phase[r] = "queued" /\ Late(r)}

\* The key whose queue request r waits in.
QueueOf(r) == CHOOSE k \in QueueKeys : r \in Range(queue[k])

\* processAllPendingRequests(): late entries are rejected, then each queue
\* consumes for its first entries while its bucket has room.
Poll ==
    /\ polling /\ Settled
    /\ used' = [b \in Buckets |->
                   IF b = watched[KeyOf[b]]
                   THEN Pushed(b, Len(Resolved(KeyOf[b]))) ELSE used[b]]
    /\ charged' = [r \in Requests |->
                      charged[r] \union
                         IF r \in Freed THEN {watched[QueueOf(r)]} ELSE {}]
    /\ waited' = [r \in Requests |->
                     waited[r] \union IF r \in Freed THEN {QueueOf(r)} ELSE {}]
    /\ phase' = [r \in Requests |-> IF r \in Freed THEN "rest"
                                    ELSE IF r \in Rejected THEN "refused"
                                    ELSE phase[r]]
    /\ todo' = [r \in Requests |-> IF r \in Freed THEN Rest(r, QueueOf(r))
                                   ELSE todo[r]]
    /\ queue' = [k \in QueueKeys |-> Kept(k)]
    /\ watched' = [k \in QueueKeys |-> IF Kept(k) = <<>> THEN NoBucket
                                       ELSE watched[k]]
    /\ polling' = StillWaiting(queue')
    /\ UNCHANGED left

\* The gateway stops: whoever waits is rejected, and the timer is cleared.
Stop ==
    /\ phase' = [r \in Requests |-> IF phase[r] = "queued" THEN "refused"
                                    ELSE phase[r]]
    /\ queue' = [k \in QueueKeys |-> <<>>]
    /\ watched' = [k \in QueueKeys |-> NoBucket]
    /\ polling' = FALSE
    /\ UNCHANGED <<used, todo, left, charged, waited>>

\* resetClient() or resetAll(), on an admin's request.
AdminReset(scope) ==
    /\ used' = [b \in Buckets |-> IF b \in scope
                                  THEN [a \in 0..Window[b] |-> 0] ELSE used[b]]
    /\ UNCHANGED <<phase, todo, queue, watched, left, polling, charged, waited>>

\* A timestamp older than the window is filtered out when next looked at.
RateTick ==
    /\ Settled
    /\ used' = [b \in Buckets |-> [a \in 0..Window[b] |->
                                     IF a = 0 THEN 0 ELSE used[b][a - 1]]]
    /\ left' = [r \in Requests |-> IF left[r] > 0 THEN left[r] - 1 ELSE 0]
    /\ UNCHANGED <<phase, todo, queue, watched, polling, charged, waited>>

RateNext ==
    \/ \E batch \in SUBSET Requests \ {{}}, p \in {"client", "preview"} :
          Begin(batch, p)
    \/ \E r \in Requests : Consume(r) \/ Pass(r) \/ Lookup(r) \/ Preview(r)
    \/ \E scope \in ResetScopes : AdminReset(scope)
    \/ Poll \/ Stop \/ RateTick

RateSpec == RateInit /\ [][RateNext]_rateVars

\* Ready promises run and the cache answers; each turn of the event loop ends
\* at its timers, so a poll that is due and the clock are not put off forever.
RateFairness ==
    /\ \A r \in Requests :
          WF_rateVars(Consume(r) \/ Pass(r) \/ Lookup(r) \/ Preview(r))
    /\ SF_rateVars(Poll)
    /\ SF_rateVars(RateTick)

RateFairSpec == RateSpec /\ RateFairness

----------------------------------------------------------------------------
RateTypeOK ==
    /\ DOMAIN used = Buckets
    /\ \A b \in Buckets : used[b] \in [0..Window[b] -> 0..Limit[b]]
    /\ phase \in [Requests -> Phases]
    /\ todo \in [Requests -> Seq(Buckets)]
    /\ queue \in [QueueKeys -> Seq(Requests)]
    /\ \A k \in QueueKeys : Len(queue[k]) <= MaxQueue
    /\ watched \in [QueueKeys -> Buckets \union {NoBucket}]
    /\ left \in [Requests -> 0..MaxWait]
    /\ polling \in BOOLEAN
    /\ charged \in [Requests -> SUBSET Buckets]
    /\ waited \in [Requests -> SUBSET QueueKeys]

Counted(r, b) ==
    \/ b \in charged[r]
    \/ KeyOf[b] \in waited[r] /\ \E a \in charged[r] : KeyOf[a] = KeyOf[b]

\* "toutes verifiees" (rate-limiter.ts:4): a request that is let through was
\* counted in every bucket that applies to it, whichever way it came: at
\* once, or after a wait, between whose end and the checks that are left
\* others take what they find.  The code makes one exception, and the formula
\* no other: of the key it waited for, which may have a limit per minute and
\* one per hour, the request is counted in the window its queue was created
\* for, and the others are taken for consumed (line 162).
CountedEverywhere ==
    \A r \in Requests :
        /\ phase[r] = "served" => \A b \in Range(AllChecks(r)) : Counted(r, b)
        /\ phase[r] = "hit" => Range(ClientChecks[r]) \subseteq charged[r]

\* No window ever holds more than its limit, although requests of a batch, the
\* queue and resets consume the same buckets between each other's awaits.
WithinLimit == \A b \in Buckets : Count(b) <= Limit[b]

\* Whoever waits is in the queue of one key, once, and the timer that will
\* look at it is set: no enqueue, poll or stop loses a waiter.
NobodyForgotten ==
    /\ RateTypeOK
    /\ \A r \in Requests : phase[r] = "queued" =>
        /\ polling
        /\ Cardinality({x \in QueueKeys \X (1..MaxQueue) :
                           x[2] <= Len(queue[x[1]]) /\ queue[x[1]][x[2]] = r}) = 1

\* Every call is answered, however often newcomers take the room a poll could
\* have given to those who wait: a deadline ends the wait.
AllAnswered ==
    \A r \in Requests : phase[r] \in Evaluating \union {"queued", "lookup"}
                            ~> phase[r] \in Answered
=============================================================================
