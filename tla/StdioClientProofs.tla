------------------------- MODULE StdioClientProofs -------------------------
(***************************************************************************)
(* Proofs about StdioClient: for any calls and ids, whoever shares them,   *)
(* and any budget of respawns.                                             *)
(***************************************************************************)
EXTENDS StdioClient, TLAPS

\* No entry of the map outlives the wait it is for.
EntriesAwaited ==
    \A id \in Ids : pending[id] # NoCall =>
                       pending[id] \in waiting /\ number[pending[id]] = id

\* Whoever has the entry of an id is the last to be sent with it: every other
\* call of the id that may be answered came earlier.
Entitled(c) ==
    \A m \in work \union stdout : number[m] = number[c] => m = c \/ m \in earlier[c]

EntriesLast == \A c \in Calls : pending[number[c]] = c => Entitled(c)

\* A waiting call that met no other of its id can be answered, and no call of
\* that id is left that could delete its entry.
Undisturbed(c) ==
    /\ Alive
    /\ pending[number[c]] = c
    /\ \A d \in work \union waiting : number[d] = number[c] => d = c

NoneLost == \A c \in waiting \ shared : Undisturbed(c)

IInv == TypeOK /\ EntriesAwaited /\ EntriesLast /\ NoneLost

----------------------------------------------------------------------------
LEMMA InitHolds == Init => IInv
  <1> SUFFICES ASSUME Init PROVE IInv
    OBVIOUS
  <1>1. TypeOK
    <2>1. 0 \in 0..MaxFastFailures /\ 0 \in 0..MaxBackoff
      BY StdioAssumption
    <2> QED
      BY <2>1 DEF Init, TypeOK
  <1>2. EntriesAwaited /\ EntriesLast /\ NoneLost
    BY DEF Init, EntriesAwaited, EntriesLast, Entitled, NoneLost
  <1> QED
    BY <1>1, <1>2 DEF IInv

LEMMA BackoffTyped == ASSUME NEW n \in Nat PROVE Backoff(n) \in 0..MaxBackoff
  BY StdioAssumption DEF Backoff

LEMMA RecordExitTyped ==
  ASSUME TypeOK, NEW fast \in BOOLEAN, RecordExit(fast)
  PROVE  fastFailures' \in 0..MaxFastFailures /\ cooldown' \in 0..MaxBackoff
  <1>1. CASE fast
    <2>1. fastFailures' \in 0..MaxFastFailures
      BY <1>1, StdioAssumption DEF RecordExit, TypeOK
    <2>2. PICK n \in Nat : n = fastFailures'
      BY <2>1
    <2>3. cooldown' = Backoff(n)
      BY <1>1, <2>2 DEF RecordExit
    <2> QED
      BY <2>1, <2>3, BackoffTyped
  <1>2. CASE ~fast
    BY <1>2, StdioAssumption DEF RecordExit
  <1> QED
    BY <1>1, <1>2

\* Who still waits when everybody with an entry is rejected had met another
\* call of its id.
LEMMA RejectedKeeps ==
  ASSUME IInv, RejectAllPending, work' \subseteq work, UNCHANGED <<stdout, history>>
  PROVE  /\ pending' \in [Ids -> Calls \union {NoCall}] /\ waiting' \subseteq Calls
         /\ EntriesAwaited' /\ EntriesLast' /\ NoneLost'
  <1>1. /\ pending' \in [Ids -> Calls \union {NoCall}] /\ waiting' \subseteq Calls
        /\ \A id \in Ids : pending'[id] = NoCall
    BY DEF RejectAllPending, IInv, TypeOK
  <1>2. EntriesAwaited'
    BY <1>1 DEF EntriesAwaited
  <1>3. EntriesLast'
    <2>1. ASSUME NEW c \in Calls PROVE pending'[number[c]] # c
      BY <1>1, StdioAssumption DEF IInv, TypeOK
    <2> QED
      BY <2>1 DEF EntriesLast, history
  <1>4. ASSUME NEW c \in waiting' \ shared PROVE FALSE
    <2>1. c \in waiting /\ c \in Calls /\ \A id \in Ids : pending[id] # c
      BY <1>4 DEF RejectAllPending, IInv, TypeOK
    <2> QED
      BY <1>4, <2>1 DEF IInv, TypeOK, NoneLost, Undisturbed
  <1> QED
    BY <1>1, <1>2, <1>3, <1>4 DEF NoneLost, history

----------------------------------------------------------------------------
(* The steps.                                                              *)

LEMMA SendStep ==
  ASSUME IInv, NEW c \in Calls, NEW id \in Ids, Send(c, id)
  PROVE  IInv'
  <1>1. /\ c \notin waiting \union work \union stdout
        /\ process' \in {"young", "old"}
        /\ waiting' = waiting \union {c} /\ work' = work \union {c}
        /\ UNCHANGED <<budget, stdout>>
    BY DEF Send, Ensured, Alive, IInv, TypeOK
  <1>2. /\ pending' \in [Ids -> Calls \union {NoCall}] /\ pending'[id] = c
        /\ \A i \in Ids \ {id} : pending'[i] = pending[i]
    BY DEF Send, Entered, IInv, TypeOK
  <1>3. /\ number' \in [Calls -> Ids] /\ number'[c] = id
        /\ \A d \in Calls \ {c} : number'[d] = number[d]
    BY DEF Send, IInv, TypeOK
  <1>4. /\ earlier' \in [Calls -> SUBSET Calls]
        /\ earlier'[c] = Namesakes(c, id, work \union stdout)
        /\ \A d \in Calls \ {c} : earlier'[d] = earlier[d] \ {c}
    BY DEF Send, Namesakes, IInv, TypeOK
  <1>5. /\ shared' \subseteq Calls
        /\ \A d \in waiting' \ shared' : d = c \/ d \in waiting \ shared
        /\ \A d \in waiting' \ shared' : d # c => number[d] # id
        /\ c \notin shared' => \A d \in (waiting \union work) \ {c} : number[d] # id
    <2> DEFINE met == Namesakes(c, id, waiting \union work)
    <2>1. met = {d \in (waiting \union work) \ {c} : number[d] = id} /\ met \subseteq Calls
      BY DEF Namesakes, IInv, TypeOK
    <2>2. shared' = IF met = {} THEN shared \ {c} ELSE shared \union met \union {c}
      BY DEF Send
    <2> HIDE DEF met
    <2> QED
      BY <1>1, <2>1, <2>2 DEF IInv, TypeOK
  <1>6. TypeOK'
    BY <1>1, <1>2, <1>3, <1>4, <1>5 DEF IInv, TypeOK, budget
  <1>7. EntriesAwaited'
    <2> SUFFICES ASSUME NEW i \in Ids, pending'[i] # NoCall
                 PROVE  pending'[i] \in waiting' /\ number'[pending'[i]] = i
      BY DEF EntriesAwaited
    <2>1. CASE i = id
      BY <1>1, <1>2, <1>3, <2>1
    <2>2. CASE i # id
      BY <1>1, <1>2, <1>3, <2>2 DEF IInv, EntriesAwaited, TypeOK
    <2> QED
      BY <2>1, <2>2
  <1>8. ASSUME NEW d \in Calls, pending'[number'[d]] = d PROVE Entitled(d)'
    <2> SUFFICES ASSUME NEW m \in (work \union stdout)', number'[m] = number'[d], m # d
                 PROVE  m \in earlier'[d]
      BY DEF Entitled
    <2>1. m \in Calls /\ (m = c \/ (m # c /\ m \in work \union stdout))
      BY <1>1 DEF IInv, TypeOK
    <2>2. CASE d = c
      BY <1>3, <1>4, <2>1, <2>2 DEF Namesakes
    <2>3. CASE d # c
      <3>1. number[d] # id /\ pending[number[d]] = d /\ number[d] \in Ids
        BY <1>2, <1>3, <1>8, <2>3 DEF IInv, TypeOK
      <3>2. m # c /\ m \in work \union stdout /\ number[m] = number[d]
        BY <1>3, <2>1, <2>3, <3>1
      <3>3. m \in earlier[d]
        BY <3>1, <3>2 DEF IInv, EntriesLast, Entitled
      <3> QED
        BY <1>4, <2>3, <3>2, <3>3
    <2> QED
      BY <2>2, <2>3
  <1>9. ASSUME NEW d \in waiting' \ shared' PROVE Undisturbed(d)'
    <2>1. d \in Calls /\ Alive'
      BY <1>1, <1>9 DEF IInv, TypeOK, Alive
    <2>2. CASE d = c
      <3>1. \A e \in (waiting \union work) \ {c} : number'[e] # id
        BY <1>3, <1>5, <1>9, <2>2 DEF IInv, TypeOK
      <3> QED
        BY <1>1, <1>2, <1>3, <2>1, <2>2, <3>1 DEF Undisturbed
    <2>3. CASE d # c
      <3>1. d \in waiting \ shared /\ number[d] # id /\ number'[d] = number[d]
        BY <1>3, <1>5, <1>9, <2>1, <2>3
      <3>2. pending[number[d]] = d /\ number[d] \in Ids
            /\ \A e \in work \union waiting : number[e] = number[d] => e = d
        BY <2>1, <3>1 DEF IInv, NoneLost, Undisturbed, TypeOK
      <3>3. pending'[number'[d]] = d
        BY <1>2, <3>1, <3>2
      <3>4. \A e \in work \union waiting : e # c /\ e \in Calls /\ number'[e] = number[e]
        BY <1>1, <1>3 DEF IInv, TypeOK
      <3> QED
        BY <1>1, <1>3, <2>1, <3>1, <3>2, <3>3, <3>4 DEF Undisturbed
    <2> QED
      BY <2>2, <2>3
  <1> QED
    BY <1>6, <1>7, <1>8, <1>9 DEF IInv, EntriesLast, NoneLost

\* An entry is deleted, and waits end: of its owner, or of a call with its id.
LEMMA DeletedKeeps ==
  ASSUME IInv, NEW id \in Ids, pending' = [pending EXCEPT ![id] = NoCall],
         waiting' \subseteq waiting,
         \A c \in Calls : number[c] # id /\ c \in waiting => c \in waiting',
         pending[id] \notin waiting' \ shared,
         (work \union stdout)' \subseteq work \union stdout, work' \subseteq work,
         UNCHANGED <<process, history>>
  PROVE  /\ pending' \in [Ids -> Calls \union {NoCall}]
         /\ EntriesAwaited' /\ EntriesLast' /\ NoneLost'
  <1>1. /\ pending' \in [Ids -> Calls \union {NoCall}] /\ pending'[id] = NoCall
        /\ \A i \in Ids \ {id} : pending'[i] = pending[i]
    BY DEF IInv, TypeOK
  <1>2. EntriesAwaited'
    <2> SUFFICES ASSUME NEW i \in Ids, pending'[i] # NoCall
                 PROVE  pending'[i] \in waiting' /\ number'[pending'[i]] = i
      BY DEF EntriesAwaited
    <2>1. i # id /\ pending'[i] = pending[i] /\ pending[i] \in Calls
      BY <1>1 DEF IInv, TypeOK
    <2>2. pending[i] \in waiting /\ number[pending[i]] = i
      BY <2>1 DEF IInv, EntriesAwaited
    <2> QED
      BY <2>1, <2>2 DEF history
  <1>3. ASSUME NEW c \in Calls, pending'[number'[c]] = c PROVE Entitled(c)'
    <2>1. number'[c] = number[c] /\ number[c] # id /\ pending[number[c]] = c
      BY <1>1, <1>3, StdioAssumption DEF history, IInv, TypeOK
    <2>2. Entitled(c)
      BY <2>1 DEF IInv, EntriesLast
    <2> QED
      BY <2>2 DEF Entitled, history
  <1>4. ASSUME NEW c \in waiting' \ shared' PROVE Undisturbed(c)'
    <2>1. c \in waiting \ shared /\ c \in Calls /\ number[c] \in Ids
      BY <1>4 DEF history, IInv, TypeOK
    <2>2. Undisturbed(c)
      BY <2>1 DEF IInv, NoneLost
    <2>3. number[c] # id
      BY <1>4, <2>1, <2>2 DEF Undisturbed, history
    <2> QED
      BY <1>1, <2>1, <2>2, <2>3 DEF Undisturbed, Alive, history
  <1> QED
    BY <1>1, <1>2, <1>3, <1>4 DEF EntriesLast, NoneLost

LEMMA ReturnStep ==
  ASSUME IInv, NEW c \in Calls, WriteFails(c) \/ Timeout(c)
  PROVE  IInv'
  <1>1. /\ c \in work \union waiting /\ work' \subseteq work
        /\ pending' = [pending EXCEPT ![number[c]] = NoCall] /\ waiting' = waiting \ {c}
        /\ UNCHANGED <<process, budget, stdout, history>>
    BY DEF WriteFails, Timeout, Abandon
  <1>2. number[c] \in Ids
    BY DEF IInv, TypeOK
  <1>3. pending[number[c]] \notin waiting' \ shared
    <2> SUFFICES ASSUME NEW d \in waiting \ shared, d # c, pending[number[c]] = d
                 PROVE  FALSE
      BY <1>1
    <2>1. number[d] = number[c]
      BY <1>2, StdioAssumption DEF IInv, EntriesAwaited, TypeOK
    <2> QED
      BY <1>1, <2>1 DEF IInv, NoneLost, Undisturbed
  <1>4. \A d \in Calls : number[d] # number[c] /\ d \in waiting => d \in waiting'
    BY <1>1
  <1>5. /\ pending' \in [Ids -> Calls \union {NoCall}]
        /\ EntriesAwaited' /\ EntriesLast' /\ NoneLost'
    BY <1>1, <1>2, <1>3, <1>4, DeletedKeeps
  <1>6. TypeOK'
    BY <1>1, <1>5 DEF IInv, TypeOK, budget, history
  <1> QED
    BY <1>5, <1>6 DEF IInv

LEMMA DeliverStep ==
  ASSUME IInv, NEW m \in Calls, Deliver(m)
  PROVE  IInv'
  <1>1. /\ stdout' \subseteq stdout /\ waiting' = waiting \ {pending[number[m]]}
        /\ pending' = [pending EXCEPT ![number[m]] = NoCall]
        /\ UNCHANGED <<process, budget, work, history>>
    BY StdioAssumption DEF Deliver, Receiver, IInv, TypeOK
  <1>2. number[m] \in Ids
    BY DEF IInv, TypeOK
  <1>3. \A d \in Calls : number[d] # number[m] /\ d \in waiting => d \in waiting'
    BY <1>1, <1>2, StdioAssumption DEF IInv, EntriesAwaited
  <1>4. /\ pending' \in [Ids -> Calls \union {NoCall}]
        /\ EntriesAwaited' /\ EntriesLast' /\ NoneLost'
    BY <1>1, <1>2, <1>3, DeletedKeeps
  <1>5. TypeOK'
    BY <1>1, <1>4 DEF IInv, TypeOK, budget, history
  <1> QED
    BY <1>4, <1>5 DEF IInv

\* The other steps leave entries and waits as they are.
LEMMA QuietKeeps ==
  ASSUME IInv, UNCHANGED <<pending, waiting, history>>, Alive => Alive',
         (work \union stdout)' \subseteq work \union stdout, work' \subseteq work
  PROVE  EntriesAwaited' /\ EntriesLast' /\ NoneLost'
  BY DEF IInv, EntriesAwaited, EntriesLast, Entitled, NoneLost, Undisturbed, history

LEMMA AnswerStep == ASSUME IInv, NEW m \in Calls, Answer(m) PROVE IInv'
  <1>1. EntriesAwaited' /\ EntriesLast' /\ NoneLost'
    BY QuietKeeps DEF Answer, Alive
  <1>2. TypeOK'
    BY DEF Answer, IInv, TypeOK, budget, history
  <1> QED
    BY <1>1, <1>2 DEF IInv

\* The child goes, or the client is shut down.
LEMMA RejectStep ==
  ASSUME IInv, RejectAllPending, process' \in {process, "none"}, stopped' \in BOOLEAN,
         fastFailures' \in 0..MaxFastFailures, cooldown' \in 0..MaxBackoff,
         work' \subseteq work, UNCHANGED <<stdout, history>>
  PROVE  IInv'
  <1>1. /\ pending' \in [Ids -> Calls \union {NoCall}] /\ waiting' \subseteq Calls
        /\ EntriesAwaited' /\ EntriesLast' /\ NoneLost'
    BY RejectedKeeps
  <1>2. TypeOK'
    BY <1>1 DEF IInv, TypeOK, history
  <1> QED
    BY <1>1, <1>2 DEF IInv

LEMMA ExitStep == ASSUME IInv, Crash \/ Killed PROVE IInv'
  <1>1. PICK fast \in BOOLEAN : RecordExit(fast)
    <2>1. CASE Crash
      <3>1. CASE process = "young"
        BY <2>1, <3>1 DEF Crash, RecordExit
      <3>2. CASE process # "young"
        BY <2>1, <3>2 DEF Crash, RecordExit
      <3> QED
        BY <3>1, <3>2
    <2>2. CASE Killed
      BY <2>2 DEF Killed
    <2> QED
      BY <2>1, <2>2
  <1>2. fastFailures' \in 0..MaxFastFailures /\ cooldown' \in 0..MaxBackoff
    BY <1>1, RecordExitTyped DEF IInv
  <1> QED
    BY <1>2, RejectStep DEF Crash, Killed, IInv, TypeOK

LEMMA ShutdownStep == ASSUME IInv, Shutdown PROVE IInv'
  BY RejectStep DEF Shutdown, IInv, TypeOK

LEMMA LifeStep == ASSUME IInv, Notify \/ Settle \/ Tick PROVE IInv'
  <1>1. /\ UNCHANGED <<stopped, fastFailures, pending, waiting, work, stdout, history>>
        /\ process' \in {"none", "young", "old"} /\ (Alive => Alive')
    BY DEF Notify, Settle, Tick, Ensured, Alive, IInv, TypeOK, budget
  <1>2. cooldown' \in 0..MaxBackoff
    BY StdioAssumption DEF Notify, Settle, Tick, IInv, TypeOK, budget
  <1>3. EntriesAwaited' /\ EntriesLast' /\ NoneLost'
    BY <1>1, QuietKeeps
  <1>4. TypeOK'
    BY <1>1, <1>2 DEF IInv, TypeOK, history
  <1> QED
    BY <1>3, <1>4 DEF IInv

----------------------------------------------------------------------------
LEMMA NextPreserves == IInv /\ [Next]_vars => IInv'
  <1> SUFFICES ASSUME IInv, [Next]_vars PROVE IInv'
    OBVIOUS
  <1>1. ASSUME NEW c \in Calls, NEW id \in Ids, Send(c, id) PROVE IInv'
    BY <1>1, SendStep
  <1>2. ASSUME NEW c \in Calls, WriteFails(c) \/ Timeout(c) PROVE IInv'
    BY <1>2, ReturnStep
  <1>3. ASSUME NEW m \in Calls, Answer(m) \/ Deliver(m) PROVE IInv'
    BY <1>3, AnswerStep, DeliverStep
  <1>4. CASE Notify \/ Settle \/ Tick
    BY <1>4, LifeStep
  <1>5. CASE Crash \/ Killed
    BY <1>5, ExitStep
  <1>6. CASE Shutdown
    BY <1>6, ShutdownStep
  <1>7. CASE UNCHANGED vars
    <2>1. EntriesAwaited' /\ EntriesLast' /\ NoneLost'
      BY <1>7, QuietKeeps DEF vars, Alive, history
    <2>2. TypeOK'
      BY <1>7 DEF vars, IInv, TypeOK
    <2> QED
      BY <2>1, <2>2 DEF IInv
  <1> QED
    BY <1>1, <1>2, <1>3, <1>4, <1>5, <1>6, <1>7 DEF Next

(***************************************************************************)
(* The inductive invariant, whatever ids the callers choose: no entry      *)
(* outlives its wait, its owner is the last to be sent with the id, and a  *)
(* call that met no other of its id keeps its entry (lines 142-206).       *)
(***************************************************************************)
THEOREM Invariance == Spec => []IInv
  <1> QED
    BY InitHolds, NextPreserves, PTL DEF Spec

\* Only the reading of an answer takes it out of stdout.
LEMMA DeliveredOnly ==
  ASSUME [Next]_vars, NEW m \in stdout \ stdout', IInv
  PROVE  m \in Calls /\ Deliver(m)
  <1>1. m \in Calls
    BY DEF IInv, TypeOK
  <1>2. ASSUME NEW c \in Calls, NEW id \in Ids, Send(c, id) PROVE FALSE
    BY <1>2 DEF Send
  <1>3. ASSUME NEW c \in Calls, WriteFails(c) \/ Timeout(c) \/ Answer(c) PROVE FALSE
    BY <1>3 DEF WriteFails, Timeout, Answer
  <1>4. ASSUME NEW c \in Calls, Deliver(c) PROVE m = c
    BY <1>4 DEF Deliver
  <1>5. CASE Notify \/ Crash \/ Killed \/ Shutdown \/ Settle \/ Tick \/ UNCHANGED vars
    BY <1>5 DEF Notify, Crash, Killed, Shutdown, Settle, Tick, vars
  <1> QED
    BY <1>1, <1>2, <1>3, <1>4, <1>5 DEF Next

(***************************************************************************)
(* A call is resolved with the answer to itself, or to an earlier call of  *)
(* its id that could still be answered when it was sent, and never with    *)
(* that to a later one, however late answers, timeouts, exits and respawns *)
(* interleave (lines 181-198, 417-430).                                    *)
(***************************************************************************)
THEOREM AnswersAlwaysMatch == Spec => AnswersMatch
  <1> DEFINE Matched ==
        \A m \in stdout \ stdout' : \A c \in waiting \ waiting' : c = m \/ m \in earlier[c]
  <1>1. ASSUME IInv, [Next]_vars, NEW m \in stdout \ stdout', NEW c \in waiting \ waiting'
        PROVE  c = m \/ m \in earlier[c]
    <2>1. m \in Calls /\ c \in Calls /\ Deliver(m)
      BY <1>1, DeliveredOnly DEF IInv, TypeOK
    <2>2. pending[number[m]] = c /\ number[m] \in Ids
      BY <1>1, <2>1 DEF Deliver, Receiver, IInv, TypeOK
    <2>3. number[c] = number[m]
      BY <1>1, <2>1, <2>2, StdioAssumption DEF IInv, EntriesAwaited
    <2> QED
      BY <1>1, <2>1, <2>2, <2>3 DEF IInv, EntriesLast, Entitled
  <1>2. IInv /\ [Next]_vars => [Matched]_vars
    BY <1>1
  <1> QED
    BY <1>2, Invariance, PTL DEF Spec, AnswersMatch

(***************************************************************************)
(* And nobody is left waiting on a child that has exited, or on an entry   *)
(* that is no longer theirs, but for calls that met another of their id    *)
(* (lines 142-150, 190-206, 309-326).                                      *)
(***************************************************************************)
THEOREM NobodyEverStranded == Spec => []NobodyStranded
  <1>1. IInv => NobodyStranded
    BY DEF IInv, NoneLost, Undisturbed, NobodyStranded
  <1> QED
    BY <1>1, Invariance, PTL
=============================================================================
