----------------------------- MODULE StdioClient -----------------------------
(***************************************************************************)
(* The client of a stdio server (src/proxy/stdio-mcp-client.ts): a child   *)
(* process spawned on the first call and again when it has died, a map of  *)
(* pending requests keyed by the JSON-RPC id the caller chose, and a       *)
(* budget of fast respawns.  forward()'s circuit breaker is in McpClient.  *)
(*                                                                         *)
(* A call's timer is armed exactly while it waits, so it needs no state.   *)
(* stdoutBuffer only joins chunks into lines: a line is one message.       *)
(***************************************************************************)
EXTENDS Naturals, FiniteSets

CONSTANTS
    Calls,              \* the calls of _doForward with a trace at one time
    Ids,                \* JSON-RPC ids: the clients', 0 of a check, 1 of a refresh
    NoCall,             \* an id nobody waits on
    MaxFastFailures,    \* MAX_CONSECUTIVE_FAST_FAILURES
    BackoffBase,        \* RESPAWN_BACKOFF_BASE_MS, in ticks
    MaxBackoff          \* MAX_RESPAWN_BACKOFF_MS, in ticks

ASSUME StdioAssumption ==
    /\ NoCall \notin Calls
    /\ MaxFastFailures \in Nat \ {0}
    /\ BackoffBase \in Nat \ {0}
    /\ MaxBackoff \in Nat \ {0}

VARIABLES
    process,        \* the child: none, alive for less than 2 s, or for longer
    stopped,        \* shutdown() was called
    fastFailures,   \* consecutiveFastFailures
    cooldown,       \* ticks until nextRespawnAllowedAt
    pending,        \* pending[id]: the call its entry resolves
    waiting,        \* the calls whose promise is not settled
    number,         \* number[c]: the id call c was sent with
    work,           \* requests the child has not answered
    stdout,         \* requests answered, the answer not yet read; it outlives
                    \* the child
    earlier,        \* history: earlier[c] are the calls that were sent with the
                    \* id of c before it and could still be answered
    shared          \* history: the calls that met another of their id, which
                    \* waited or had not been answered

vars == <<process, stopped, fastFailures, cooldown, pending, waiting, number,
          work, stdout, earlier, shared>>
budget == <<stopped, fastFailures, cooldown>>
history == <<number, earlier, shared>>

Alive == process # "none"

Init ==
    /\ process = "none"
    /\ stopped = FALSE
    /\ fastFailures = 0
    /\ cooldown = 0
    /\ pending = [id \in Ids |-> NoCall]
    /\ waiting = {}
    /\ number \in [Calls -> Ids]
    /\ work = {}
    /\ stdout = {}
    /\ earlier = [c \in Calls |-> {}]
    /\ shared = {}

----------------------------------------------------------------------------
(* Sending.                                                                *)

\* Seeded fault: one fast failure spends the budget.
CanEnsureOnce == Alive \/ (~stopped /\ fastFailures = 0)

\* ensureProcess() returns: a live child is used even after shutdown(), a dead
\* one is replaced within the budget.  When it throws, nothing changes.
CanEnsure ==
    \/ Alive
    \/ ~stopped /\ fastFailures < MaxFastFailures /\ cooldown = 0

Ensured == process' = IF Alive THEN process ELSE "young"

\* Seeded fault: an id that is in use keeps its entry.
EnteredOnce(c, id) ==
    IF pending[id] = NoCall THEN [pending EXCEPT ![id] = c] ELSE pending

\* The entry of a request replaces whatever its id mapped to.
Entered(c, id) == [pending EXCEPT ![id] = c]

\* The other calls with this id, of those in S.
Namesakes(c, id, S) == {d \in S \ {c} : number[d] = id}

\* A request.  Nothing keeps callers from numbers that are in use.
Send(c, id) ==
    /\ c \notin waiting \union work \union stdout
    /\ CanEnsure
    /\ Ensured
    /\ pending' = Entered(c, id)
    /\ waiting' = waiting \union {c}
    /\ number' = [number EXCEPT ![c] = id]
    /\ work' = work \union {c}
    /\ earlier' = [d \in Calls |-> IF d = c THEN Namesakes(c, id, work \union stdout)
                                   ELSE earlier[d] \ {c}]
    /\ shared' = LET met == Namesakes(c, id, waiting \union work)
                 IN  IF met = {} THEN shared \ {c} ELSE shared \union met \union {c}
    /\ UNCHANGED <<budget, stdout>>

\* A notification spawns the child too, and awaits nothing.
Notify ==
    /\ CanEnsure
    /\ Ensured
    /\ UNCHANGED <<budget, pending, waiting, work, stdout, history>>

\* Seeded fault: the whole map is cleared.
AbandonAll(c) ==
    /\ pending' = [id \in Ids |-> NoCall]
    /\ waiting' = waiting \ {c}

\* The entry of the call's id is deleted, whoever owns it, and the call ends.
Abandon(c) ==
    /\ pending' = [pending EXCEPT ![number[c]] = NoCall]
    /\ waiting' = waiting \ {c}

\* The write to stdin fails: there is none, or an error comes while the stream
\* is full, even after the call has ended.
WriteFails(c) ==
    /\ c \in work
    /\ Abandon(c)
    /\ work' = work \ {c}
    /\ UNCHANGED <<process, budget, stdout, history>>

\* The request's own timer fires.
Timeout(c) ==
    /\ c \in waiting
    /\ Abandon(c)
    /\ UNCHANGED <<process, budget, work, stdout, history>>

----------------------------------------------------------------------------
(* Answers.                                                                *)

\* The child answers a request, in any order.
Answer(m) ==
    /\ Alive
    /\ m \in work
    /\ work' = work \ {m}
    /\ stdout' = stdout \union {m}
    /\ UNCHANGED <<process, budget, pending, waiting, history>>

\* processBuffer(): the call the entry of the message's id resolves.
Receiver(m) == {pending[number[m]]} \ {NoCall}

\* An answer is read, possibly after the child that wrote it has exited and
\* another one runs; an orphan is dropped.
Deliver(m) ==
    /\ m \in stdout
    /\ stdout' = stdout \ {m}
    /\ pending' = [pending EXCEPT ![number[m]] = NoCall]
    /\ waiting' = waiting \ Receiver(m)
    /\ UNCHANGED <<process, budget, work, history>>

----------------------------------------------------------------------------
(* The life of the child.                                                  *)

\* Seeded fault: the pending requests are left to their timers.
NobodyRejected == UNCHANGED <<pending, waiting>>

\* rejectAllPending(): whoever has an entry is rejected at once.
RejectAllPending ==
    /\ pending' = [id \in Ids |-> NoCall]
    /\ waiting' = waiting \ {pending[id] : id \in Ids}

\* The delay after the n-th fast failure in a row.
Backoff(n) ==
    LET delay == BackoffBase * 2 ^ (n - 1)
    IN  IF delay \in 0..MaxBackoff THEN delay ELSE MaxBackoff

\* recordExit(): a fast exit is charged to the budget, any other clears it.
RecordExit(fast) ==
    IF fast
    THEN /\ fastFailures' = IF fastFailures < MaxFastFailures
                            THEN fastFailures + 1 ELSE fastFailures
         /\ cooldown' = Backoff(fastFailures')
    ELSE fastFailures' = 0 /\ cooldown' = 0

\* "exit" with a code, or "error".  Its last answers may still be in stdout.
Crash ==
    /\ Alive
    /\ process' = "none"
    /\ RecordExit(process = "young")
    /\ RejectAllPending
    /\ work' = {}
    /\ UNCHANGED <<stopped, stdout, history>>

\* "exit" by a signal: an operator, the system, or killProcess().
Killed ==
    /\ Alive
    /\ process' = "none"
    /\ RecordExit(FALSE)
    /\ RejectAllPending
    /\ work' = {}
    /\ UNCHANGED <<stopped, stdout, history>>

\* shutdown() rejects at once, and signals the child, which is still there.
Shutdown ==
    /\ ~stopped
    /\ stopped' = TRUE
    /\ RejectAllPending
    /\ UNCHANGED <<process, fastFailures, cooldown, work, stdout, history>>

\* The child has lived for FAST_FAILURE_THRESHOLD_MS.
Settle ==
    /\ process = "young"
    /\ process' = "old"
    /\ UNCHANGED <<budget, pending, waiting, work, stdout, history>>

Tick ==
    /\ cooldown > 0
    /\ cooldown' = cooldown - 1
    /\ UNCHANGED <<process, stopped, fastFailures, pending, waiting, work,
                   stdout, history>>

Next ==
    \/ \E c \in Calls, id \in Ids : Send(c, id)
    \/ \E c \in Calls : WriteFails(c) \/ Timeout(c) \/ Answer(c) \/ Deliver(c)
    \/ Notify \/ Crash \/ Killed \/ Shutdown \/ Settle \/ Tick

Spec == Init /\ [][Next]_vars

\* Time passes, timers fire, and what the child wrote is read.  The health
\* check keeps calling, so some call goes out whenever the client lets it.
Fairness ==
    /\ WF_vars(Tick)
    /\ WF_vars(\E c \in Calls, id \in Ids : Send(c, id))
    /\ \A c \in Calls : WF_vars(Timeout(c)) /\ WF_vars(Deliver(c))

FairSpec == Spec /\ Fairness

----------------------------------------------------------------------------
TypeOK ==
    /\ process \in {"none", "young", "old"}
    /\ stopped \in BOOLEAN
    /\ fastFailures \in 0..MaxFastFailures
    /\ cooldown \in 0..MaxBackoff
    /\ pending \in [Ids -> Calls \union {NoCall}]
    /\ waiting \subseteq Calls
    /\ number \in [Calls -> Ids]
    /\ work \subseteq Calls
    /\ stdout \subseteq Calls
    /\ earlier \in [Calls -> SUBSET Calls]
    /\ shared \subseteq Calls

\* A call is resolved with the answer to itself, however late answers, timeouts,
\* exits and respawns interleave, unless its id was in use: then possibly with
\* that to an earlier call of the id, which timed out or waits still, but never
\* with that to a later one (processBuffer, lines 417-430, by the map of lines
\* 181-198; health checks all use the id 0, and clients what they like).
AnswersMatch ==
    [][\A m \in stdout \ stdout' : \A c \in waiting \ waiting' :
          c = m \/ m \in earlier[c]]_vars

\* Audit 3.1#9 (lines 142-150, 309-326): nobody is left waiting on a child
\* that has exited, and every waiting call can be answered: the entry of its
\* id is its own, whatever answers, timeouts, failed writes and exits removed
\* before.  Only a call that met another of its id may have lost its entry.
NobodyStranded ==
    /\ TypeOK
    /\ \A c \in waiting \ shared : Alive /\ pending[number[c]] = c

\* A dead child is replaced (lines 5-6), unless the client was shut down or
\* the budget of fast failures is spent.
Respawns ==
    ~Alive ~> Alive \/ stopped \/ fastFailures = MaxFastFailures
=============================================================================
