--------------------------- MODULE RoutingProofs ---------------------------
(***************************************************************************)
(* Proofs about what runs on a circuit breaker, for every number of        *)
(* callers and of replicas and every threshold: the breaker's operators,   *)
(* McpClient (one client and its breaker), and ReplicaRouting (the         *)
(* replicas of a server with a breaker each).                              *)
(***************************************************************************)
EXTENDS McpClient, ReplicaRouting, TLAPS, FiniteSetTheorems

\* A breaker whose counters match its mode: the breaker's part of the
\* inductive invariants, for one record.
Sound(b) ==
    /\ b \in BreakerType
    /\ b.state = "closed" => b.failures < FailureThreshold
    /\ b.state = "half-open" =>
          /\ b.probes <= HalfOpenMax
          /\ b.successes = 0 \/ b.successes < SuccessThreshold
    /\ b.state # "half-open" => b.probes = 0 /\ b.successes = 0

----------------------------------------------------------------------------
(* The operators of the breaker.                                           *)

\* A new or reset breaker is sound.
LEMMA NewSound == Sound(NewBreaker)
BY ThresholdAssumption DEF Sound, NewBreaker, BreakerType

\* The clock changes nothing but the age of the last failure.
LEMMA AgeSound ==
    ASSUME NEW b, Sound(b)
    PROVE  /\ Sound(Age(b))
           /\ Age(b).state = b.state
           /\ Age(b).probes = b.probes
BY ThresholdAssumption DEF Sound, BreakerType, Age

\* canExecute() half-opens a circuit, never closes or opens one, and an
\* admission occupies at most one slot more.
LEMMA ExecutedSound ==
    ASSUME NEW b, Sound(b)
    PROVE  /\ Sound(Executed(b))
           /\ \/ Executed(b).state = b.state
              \/ b.state = "open" /\ Executed(b).state = "half-open"
           /\ Executed(b).probes <= b.probes + 1
           /\ Executed(b).state # "half-open" => Executed(b).probes = b.probes
           /\ ~CanExecute(b) => Executed(b).probes <= b.probes
           /\ CanExecute(b) => Executed(b).state # "open"
<1> USE ThresholdAssumption DEF BreakerType
<1> DEFINE r == Ripen(b)
           e == Executed(b)
<1>0. b \in BreakerType
  BY DEF Sound
<1>1. CASE b.state = "open" /\ b.since >= ResetTimeout
  <2>1. /\ r \in BreakerType
        /\ r.state = "half-open" /\ r.probes = 0 /\ r.successes = 0
    BY <1>0, <1>1 DEF Ripen
  <2>2. CASE HalfOpenMax > 0
    <3>1. CanExecute(b)
      BY <2>1, <2>2 DEF CanExecute
    <3>2. e = [r EXCEPT !.probes = 1]
      BY <2>1, <3>1 DEF Executed
    <3>3. /\ e \in BreakerType
          /\ e.state = "half-open" /\ e.probes = 1 /\ e.successes = 0
      BY <2>1, <3>2
    <3> QED BY <1>0, <1>1, <2>2, <3>1, <3>3 DEF Sound
  <2>3. CASE ~(HalfOpenMax > 0)
    <3>1. ~CanExecute(b)
      BY <1>1, <2>1, <2>3 DEF CanExecute
    <3>2. e = r
      BY <3>1 DEF Executed
    <3> QED BY <1>0, <1>1, <2>1, <3>1, <3>2 DEF Sound
  <2> QED BY <2>2, <2>3
<1>2. CASE ~(b.state = "open" /\ b.since >= ResetTimeout)
  <2>1. r = b
    BY <1>2 DEF Ripen
  <2>2. CASE b.state = "half-open" /\ CanExecute(b)
    <3>1. e = [b EXCEPT !.probes = @ + 1] /\ b.probes < HalfOpenMax
      BY <2>1, <2>2 DEF Executed, CanExecute
    <3>2. /\ e \in BreakerType
          /\ e.state = "half-open" /\ e.probes = b.probes + 1
          /\ e.successes = b.successes
      BY <1>0, <2>2, <3>1
    <3> QED BY <1>0, <2>2, <3>1, <3>2 DEF Sound
  <2>3. CASE ~(b.state = "half-open" /\ CanExecute(b))
    <3>1. e = b
      BY <2>1, <2>3 DEF Executed
    <3>2. CanExecute(b) => b.state # "open"
      BY <2>1 DEF CanExecute
    <3> QED BY <1>0, <3>1, <3>2 DEF Sound
  <2> QED BY <2>2, <2>3
<1> QED BY <1>1, <1>2

\* onSuccess() closes a half-open circuit or leaves the mode alone; while
\* the circuit stays half-open it gives one slot back, if one is occupied.
LEMMA SucceededSound ==
    ASSUME NEW b, Sound(b)
    PROVE  /\ Sound(Succeeded(b))
           /\ \/ Succeeded(b).state = b.state
              \/ b.state = "half-open" /\ Succeeded(b).state = "closed"
           /\ \/ Succeeded(b).probes = 0
              \/ Succeeded(b).probes = b.probes - 1
<1> USE ThresholdAssumption DEF BreakerType
<1> DEFINE s == Succeeded(b)
<1>0. b \in BreakerType
  BY DEF Sound
<1>1. CASE b.state = "closed"
  <2>1. s = [b EXCEPT !.failures = 0]
    BY <1>1 DEF Succeeded
  <2>2. /\ s \in BreakerType
        /\ s.state = "closed" /\ s.failures = 0
        /\ s.probes = b.probes /\ s.successes = b.successes
    BY <1>0, <1>1, <2>1
  <2> QED BY <1>1, <2>2 DEF Sound
<1>2. CASE b.state = "open"
  BY <1>0, <1>2 DEF Succeeded, Sound
<1>3. CASE b.state = "half-open" /\ b.successes + 1 >= SuccessThreshold
  <2>1. s = [b EXCEPT !.state = "closed", !.failures = 0,
                      !.successes = 0, !.probes = 0]
    BY <1>3 DEF Succeeded
  <2>2. /\ s \in BreakerType
        /\ s.state = "closed" /\ s.failures = 0
        /\ s.probes = 0 /\ s.successes = 0
    <3>1. 0 \in Nat /\ "closed" \in {"closed", "open", "half-open"}
      OBVIOUS
    <3>2. s \in BreakerType
      BY <1>0, <2>1, <3>1
    <3> QED BY <1>0, <2>1, <3>2
  <2> QED BY <1>3, <2>2 DEF Sound
<1>4. CASE b.state = "half-open" /\ ~(b.successes + 1 >= SuccessThreshold)
  <2>1. s = [b EXCEPT !.successes = @ + 1,
                      !.probes = IF @ > 0 THEN @ - 1 ELSE 0]
    BY <1>4 DEF Succeeded
  <2>2. /\ s \in BreakerType
        /\ s.state = "half-open" /\ s.successes = b.successes + 1
        /\ s.probes = IF b.probes > 0 THEN b.probes - 1 ELSE 0
    <3>1. /\ b.successes + 1 \in Nat
          /\ (IF b.probes > 0 THEN b.probes - 1 ELSE 0) \in Nat
      BY <1>0
    <3>2. s \in BreakerType
      BY <1>0, <2>1, <3>1
    <3> QED BY <1>0, <1>4, <2>1, <3>2
  <2> QED BY <1>0, <1>4, <2>2 DEF Sound
<1> QED BY <1>0, <1>1, <1>2, <1>3, <1>4

\* onFailure() opens the circuit, or leaves a closed one closed; it keeps no
\* slot.
LEMMA FailedSound ==
    ASSUME NEW b, Sound(b)
    PROVE  /\ Sound(Failed(b))
           /\ \/ Failed(b).state = "open"
              \/ b.state = "closed" /\ Failed(b).state = "closed"
           /\ Failed(b).probes = 0
<1> USE ThresholdAssumption DEF BreakerType
<1> DEFINE f == Failed(b)
<1>0. b \in BreakerType
  BY DEF Sound
<1>1. CASE b.state = "closed"
  <2>1. f = [b EXCEPT !.failures = @ + 1, !.since = 0,
                      !.state = IF b.failures + 1 >= FailureThreshold
                                THEN "open" ELSE "closed"]
    BY <1>1 DEF Failed
  <2>2. /\ f \in BreakerType
        /\ f.state = IF b.failures + 1 >= FailureThreshold
                     THEN "open" ELSE "closed"
        /\ f.failures = b.failures + 1
        /\ f.probes = b.probes /\ f.successes = b.successes
    <3>1. /\ b.failures + 1 \in Nat /\ 0 \in 0..ResetTimeout
          /\ (IF b.failures + 1 >= FailureThreshold THEN "open" ELSE "closed")
                \in {"closed", "open", "half-open"}
      BY <1>0
    <3>2. f \in BreakerType
      BY <1>0, <2>1, <3>1
    <3> QED BY <1>0, <2>1, <3>2
  <2> QED BY <1>0, <1>1, <2>2 DEF Sound
<1>2. CASE b.state = "open"
  <2>1. f = [b EXCEPT !.since = 0]
    BY <1>2 DEF Failed
  <2>2. /\ f \in BreakerType
        /\ f.state = "open"
        /\ f.probes = b.probes /\ f.successes = b.successes
    BY <1>0, <1>2, <2>1
  <2> QED BY <1>2, <2>2 DEF Sound
<1>3. CASE b.state = "half-open"
  <2>1. f = [b EXCEPT !.state = "open", !.since = 0,
                      !.successes = 0, !.probes = 0]
    BY <1>3 DEF Failed
  <2>2. /\ f \in BreakerType
        /\ f.state = "open" /\ f.probes = 0 /\ f.successes = 0
    <3>1. /\ 0 \in Nat /\ 0 \in 0..ResetTimeout
          /\ "open" \in {"closed", "open", "half-open"}
      OBVIOUS
    <3>2. f \in BreakerType
      BY <1>0, <2>1, <3>1
    <3> QED BY <1>0, <2>1, <3>2
  <2> QED BY <1>3, <2>2 DEF Sound
<1> QED BY <1>0, <1>1, <1>2, <1>3

----------------------------------------------------------------------------
(* One client.                                                             *)

\* The inductive invariant of a client.
ClientInv ==
    /\ Sound(circuit)
    /\ caller \in [Calls -> CallState]
    /\ SlotsHeld

\* Probing is a finite set, so its cardinality is a number.
LEMMA ProbingFinite ==
    ASSUME NEW P, P \subseteq Calls
    PROVE  IsFiniteSet(P) /\ Cardinality(P) \in Nat
BY CallsAssumption, FS_Subset, FS_CardinalityType

\* Relabelling keeps every caller where it is: in flight or idle.
LEMMA LabelledType ==
    ASSUME NEW calls \in [Calls -> CallState], NEW b
    PROVE  /\ Labelled(calls, b) \in [Calls -> CallState]
           /\ \A d \in Calls : (Labelled(calls, b)[d] = "idle") <=> (calls[d] = "idle")
           /\ b.state = "half-open" => Labelled(calls, b) = calls
BY DEF Labelled, CallState

\* Removing one caller from a finite set costs at most one.
LEMMA RemoveOne ==
    ASSUME NEW P, P \subseteq Calls, NEW c
    PROVE  Cardinality(P \ {c}) >= Cardinality(P) - 1
<1>1. IsFiniteSet(P) /\ Cardinality(P) \in Nat
  BY ProbingFinite
<1>2. CASE c \in P
  <2>1. Cardinality(P \ {c}) = Cardinality(P) - 1
    BY <1>1, <1>2, FS_RemoveElement
  <2> QED BY <1>1, <2>1
<1>3. CASE c \notin P
  <2>1. P \ {c} = P
    BY <1>3
  <2> QED BY <2>1, <1>1
<1> QED BY <1>2, <1>3

----------------------------------------------------------------------------
(* The inductive invariant.                                                *)

\* The initial state satisfies the inductive invariant.
LEMMA ClientInvInit == ClientInit => ClientInv
<1> SUFFICES ASSUME ClientInit PROVE ClientInv
  OBVIOUS
<1>1. Sound(circuit) /\ caller \in [Calls -> CallState]
  BY NewSound DEF ClientInit, CallState
<1>2. circuit.probes <= Cardinality(Probing)
  BY ProbingFinite DEF ClientInit, NewBreaker, Probing
<1> QED BY <1>1, <1>2 DEF ClientInv, SlotsHeld

\* An admitted call occupies the slot it is counted in.
LEMMA AdmitInv ==
    ASSUME ClientInv, NEW c \in Calls, Admit(c)
    PROVE  ClientInv'
<1> USE DEF CallState
<1>1. Sound(circuit) /\ caller \in [Calls -> CallState]
      /\ circuit.probes <= Cardinality(Probing)
  BY DEF ClientInv, SlotsHeld
<1>2. Sound(circuit') /\ caller' \in [Calls -> CallState]
  BY <1>1, ExecutedSound DEF Admit
<1>3. circuit'.probes \in Nat /\ circuit.probes \in Nat
  BY <1>1, <1>2 DEF Sound, BreakerType
<1>4. CASE circuit'.state = "half-open"
  <2>1. Probing' = Probing \union {c} /\ c \notin Probing
    BY <1>1, <1>4 DEF Admit, Probing
  <2>2. IsFiniteSet(Probing) /\ Cardinality(Probing) \in Nat
    BY ProbingFinite DEF Probing
  <2>3. Cardinality(Probing') = Cardinality(Probing) + 1
    BY <2>1, <2>2, FS_AddElement
  <2>4. circuit'.probes <= circuit.probes + 1
    BY <1>1, ExecutedSound DEF Admit
  <2>5. circuit'.probes <= Cardinality(Probing')
    BY <1>1, <1>3, <2>2, <2>3, <2>4
  <2> QED BY <1>2, <2>5 DEF ClientInv, SlotsHeld
<1>5. CASE circuit'.state # "half-open"
  <2>1. circuit'.probes = 0
    BY <1>2, <1>5 DEF Sound
  <2>2. Cardinality(Probing') \in Nat
    BY ProbingFinite DEF Probing
  <2> QED BY <1>2, <2>1, <2>2 DEF ClientInv, SlotsHeld
<1> QED BY <1>4, <1>5

\* A refused call leaves every probe where it is and takes no slot.
LEMMA RefuseInv ==
    ASSUME ClientInv, NEW c \in Calls, Refuse(c)
    PROVE  ClientInv'
<1>1. Sound(circuit) /\ caller \in [Calls -> CallState]
      /\ circuit.probes <= Cardinality(Probing)
  BY DEF ClientInv, SlotsHeld
<1>2. Sound(circuit') /\ circuit'.probes <= circuit.probes
  BY <1>1, ExecutedSound DEF Refuse
<1>3. caller' = caller /\ Probing' = Probing
  BY DEF Refuse, Probing
<1>4. Cardinality(Probing) \in Nat /\ circuit.probes \in Nat /\ circuit'.probes \in Nat
  BY <1>1, <1>2, ProbingFinite DEF Probing, Sound, BreakerType
<1>5. circuit'.probes <= Cardinality(Probing')
  BY <1>1, <1>2, <1>3, <1>4
<1> QED BY <1>1, <1>2, <1>3, <1>5 DEF ClientInv, SlotsHeld

\* A success gives back a slot, whether or not the caller is a probe; a probe
\* that leaves takes one caller from Probing.
LEMMA AnswerInv ==
    ASSUME ClientInv, NEW c \in Calls, Answer(c)
    PROVE  ClientInv'
<1> DEFINE left == [caller EXCEPT ![c] = "idle"]
<1>1. Sound(circuit) /\ caller \in [Calls -> CallState]
      /\ circuit.probes <= Cardinality(Probing)
  BY DEF ClientInv, SlotsHeld
<1>2. left \in [Calls -> CallState]
  BY <1>1 DEF CallState
<1>3. Sound(circuit') /\ caller' \in [Calls -> CallState]
  BY <1>1, <1>2, SucceededSound, LabelledType DEF Answer
<1>4. Cardinality(Probing') \in Nat /\ Cardinality(Probing) \in Nat
      /\ circuit.probes \in Nat /\ circuit'.probes \in Nat
  BY <1>1, <1>3, ProbingFinite DEF Probing, Sound, BreakerType
<1>5. CASE circuit'.probes = 0
  <2>1. circuit'.probes <= Cardinality(Probing')
    BY <1>4, <1>5
  <2> QED BY <1>3, <2>1 DEF ClientInv, SlotsHeld
<1>6. CASE circuit'.probes # 0
  <2>1. circuit'.state = "half-open"
    BY <1>3, <1>6 DEF Sound
  <2>2. caller' = left
    BY <1>2, <2>1, LabelledType DEF Answer
  <2>3. Probing' = Probing \ {c}
    BY <1>1, <2>2 DEF Probing
  <2>4. Cardinality(Probing') >= Cardinality(Probing) - 1
    BY <2>3, RemoveOne DEF Probing
  <2>5. circuit'.probes = circuit.probes - 1
    BY <1>1, <1>6, SucceededSound DEF Answer
  <2>6. circuit'.probes <= Cardinality(Probing')
    BY <1>1, <1>4, <2>4, <2>5
  <2> QED BY <1>3, <2>6 DEF ClientInv, SlotsHeld
<1> QED BY <1>5, <1>6

\* After a failure no slot is occupied.
LEMMA ThrowInv ==
    ASSUME ClientInv, NEW c \in Calls, Throw(c)
    PROVE  ClientInv'
<1>1. Sound(circuit) /\ caller \in [Calls -> CallState]
  BY DEF ClientInv, SlotsHeld
<1>2. [caller EXCEPT ![c] = "idle"] \in [Calls -> CallState]
  BY <1>1 DEF CallState
<1>3. Sound(circuit') /\ caller' \in [Calls -> CallState] /\ circuit'.probes = 0
  BY <1>1, <1>2, FailedSound, LabelledType DEF Throw
<1>4. Cardinality(Probing') \in Nat
  BY ProbingFinite DEF Probing
<1> QED BY <1>3, <1>4 DEF ClientInv, SlotsHeld

\* A forced reset empties the slots, with calls in flight.
LEMMA ResetInv ==
    ASSUME ClientInv, ResetCircuit
    PROVE  ClientInv'
<1>1. caller \in [Calls -> CallState]
  BY DEF ClientInv, SlotsHeld
<1>2. Sound(circuit') /\ caller' \in [Calls -> CallState] /\ circuit'.probes = 0
  BY <1>1, NewSound, LabelledType DEF ResetCircuit, Reset, NewBreaker
<1>3. Cardinality(Probing') \in Nat
  BY ProbingFinite DEF Probing
<1> QED BY <1>2, <1>3 DEF ClientInv, SlotsHeld

\* Every step preserves the inductive invariant.
LEMMA ClientInvNext == ClientInv /\ [ClientNext]_clientVars => ClientInv'
<1> SUFFICES ASSUME ClientInv, [ClientNext]_clientVars PROVE ClientInv'
  OBVIOUS
<1>1. CASE \E c \in Calls : Admit(c) \/ Refuse(c) \/ Answer(c) \/ Throw(c)
  BY <1>1, AdmitInv, RefuseInv, AnswerInv, ThrowInv
<1>2. CASE ResetCircuit
  BY <1>2, ResetInv
<1>3. CASE ClientTick
  <2>1. Sound(circuit) /\ caller \in [Calls -> CallState]
        /\ circuit.probes <= Cardinality(Probing)
    BY DEF ClientInv, SlotsHeld
  <2>2. Sound(circuit') /\ circuit'.probes = circuit.probes
    BY <1>3, <2>1, AgeSound DEF ClientTick
  <2>3. caller' = caller /\ Probing' = Probing
    BY <1>3 DEF ClientTick, Probing
  <2> QED BY <2>1, <2>2, <2>3 DEF ClientInv, SlotsHeld
<1>4. CASE UNCHANGED clientVars
  BY <1>4 DEF clientVars, ClientInv, SlotsHeld, Probing
<1> QED BY <1>1, <1>2, <1>3, <1>4 DEF ClientNext

\* The inductive invariant holds in every reachable state.
THEOREM ClientInvariance == ClientSpec => []ClientInv
<1>1. ClientInit => ClientInv
  BY ClientInvInit
<1>2. ClientInv /\ [ClientNext]_clientVars => ClientInv'
  BY ClientInvNext
<1> QED BY <1>1, <1>2, PTL DEF ClientSpec

\* The breaker's record and the callers' labels keep their types; in
\* particular the slot counter never goes below zero.
THEOREM ClientTypeCorrect == ClientSpec => []ClientTypeOK
<1>1. ClientInv => ClientTypeOK
  BY DEF ClientInv, ClientTypeOK, Sound
<1> QED BY <1>1, ClientInvariance, PTL

\* No half-open slot leaks: every occupied slot belongs to a probe that is
\* still out, whatever order calls end in.
THEOREM NoSlotLeaks == ClientSpec => []SlotsHeld
<1>1. ClientInv => SlotsHeld
  BY DEF ClientInv
<1> QED BY <1>1, ClientInvariance, PTL

\* The counters never carry evidence from one mode into another.
THEOREM EvidenceStaysScoped == ClientSpec => []EvidenceScoped
<1>1. ClientInv => EvidenceScoped
  BY DEF ClientInv, EvidenceScoped, Sound
<1> QED BY <1>1, ClientInvariance, PTL

----------------------------------------------------------------------------
(* The refinement.                                                         *)

\* The client starts where the contract starts.
LEMMA ClientInitContract == ClientInit => ClientContract!Init
BY DEF ClientInit, ClientContract!Init, NewBreaker, InFlight

\* Every step of the client is a step of the contract, or changes neither
\* the mode nor the calls in flight.
LEMMA ClientNextContract ==
    ClientInv /\ [ClientNext]_clientVars => [ClientContract!Next]_(ClientContract!vars)
<1> SUFFICES ASSUME ClientInv, [ClientNext]_clientVars
             PROVE  [ClientContract!Next]_(ClientContract!vars)
  OBVIOUS
<1> USE DEF ClientContract!Next, ClientContract!vars, InFlight
<1>1. Sound(circuit) /\ caller \in [Calls -> CallState]
  BY DEF ClientInv, SlotsHeld
<1>2. ASSUME NEW c \in Calls, Admit(c)
      PROVE  ClientContract!Admit(c)
  <2>1. InFlight' = InFlight \union {c} /\ c \notin InFlight
    BY <1>1, <1>2 DEF Admit
  <2>2. circuit'.state = IF circuit.state = "open" THEN "half-open" ELSE circuit.state
    BY <1>1, <1>2, ExecutedSound DEF Admit
  <2> QED BY <2>1, <2>2 DEF ClientContract!Admit
<1>3. ASSUME NEW c \in Calls, Refuse(c)
      PROVE  ClientContract!Refuse \/ UNCHANGED ClientContract!vars
  BY <1>1, <1>3, ExecutedSound DEF Refuse, ClientContract!Refuse
<1>4. ASSUME NEW c \in Calls, Answer(c)
      PROVE  ClientContract!Succeed(c)
  <2>1. [caller EXCEPT ![c] = "idle"] \in [Calls -> CallState]
    BY <1>1 DEF CallState
  <2>2. InFlight' = InFlight \ {c} /\ c \in InFlight
    BY <1>1, <1>4, <2>1, LabelledType DEF Answer
  <2>3. \/ circuit'.state = circuit.state
        \/ circuit.state = "half-open" /\ circuit'.state = "closed"
    BY <1>1, <1>4, SucceededSound DEF Answer
  <2> QED BY <2>2, <2>3 DEF ClientContract!Succeed
<1>5. ASSUME NEW c \in Calls, Throw(c)
      PROVE  ClientContract!Fail(c)
  <2>1. [caller EXCEPT ![c] = "idle"] \in [Calls -> CallState]
    BY <1>1 DEF CallState
  <2>2. InFlight' = InFlight \ {c} /\ c \in InFlight
    BY <1>1, <1>5, <2>1, LabelledType DEF Throw
  <2>3. \/ circuit'.state = "open"
        \/ circuit.state = "closed" /\ circuit'.state = "closed"
    BY <1>1, <1>5, FailedSound DEF Throw
  <2> QED BY <2>2, <2>3 DEF ClientContract!Fail
<1>6. CASE ResetCircuit
  <2>1. InFlight' = InFlight /\ circuit'.state = "closed"
    BY <1>1, <1>6, LabelledType DEF ResetCircuit, Reset, NewBreaker
  <2> QED BY <2>1 DEF ClientContract!AdminReset
<1>7. CASE ClientTick
  BY <1>1, <1>7, AgeSound DEF ClientTick
<1>8. CASE UNCHANGED clientVars
  BY <1>8 DEF clientVars
<1> QED BY <1>2, <1>3, <1>4, <1>5, <1>6, <1>7, <1>8 DEF ClientNext

\* The client implements the breaker's contract: only a failure opens the
\* circuit, only a half-open success or the administrator closes it, and no
\* call goes out of a circuit that stays open.
THEOREM ClientImplements == ClientSpec => ImplementsContract
<1>1. ClientInit => ClientContract!Init
  BY ClientInitContract
<1>2. ClientInv /\ [ClientNext]_clientVars => [ClientContract!Next]_(ClientContract!vars)
  BY ClientNextContract
<1> QED BY <1>1, <1>2, ClientInvariance, PTL DEF ClientSpec, ImplementsContract, ClientContract!Spec

----------------------------------------------------------------------------
(* Selection.                                                              *)

\* How many elements of S come before r.
Rank(S, r) == Cardinality({x \in S : x < r})

\* A set of replicas is finite, and so are its parts.
LEMMA ReplicasFinite ==
    ASSUME NEW S \in SUBSET Replicas
    PROVE  /\ IsFiniteSet(S)
           /\ Cardinality(S) \in 0..NumReplicas
           /\ S = {} <=> Cardinality(S) = 0
           /\ \A r : Rank(S, r) \in Nat
<1>1. IsFiniteSet(Replicas) /\ Cardinality(Replicas) = NumReplicas
  BY RoutingAssumption, FS_Interval DEF Replicas
<1>2. IsFiniteSet(S) /\ Cardinality(S) <= NumReplicas /\ Cardinality(S) \in Nat
  BY <1>1, FS_Subset, FS_CardinalityType
<1>3. ASSUME NEW r
      PROVE  Rank(S, r) \in Nat
  <2>1. {x \in S : x < r} \in SUBSET S
    OBVIOUS
  <2>2. IsFiniteSet({x \in S : x < r})
    BY <1>2, <2>1, FS_Subset
  <2> QED BY <2>2, FS_CardinalityType DEF Rank
<1>4. S = {} <=> Cardinality(S) = 0
  BY <1>2, FS_EmptySet
<1> QED BY <1>2, <1>3, <1>4, RoutingAssumption

\* The rank counts up along the set, and never reaches its size.
LEMMA RankGrows ==
    ASSUME NEW S \in SUBSET Replicas, NEW r \in S
    PROVE  /\ Rank(S, r) < Cardinality(S)
           /\ \A s \in S : r < s => Rank(S, r) < Rank(S, s)
<1> DEFINE Below(s) == {x \in S : x < s}
<1>0. r \in Int /\ \A s \in S : s \in Int
  BY RoutingAssumption DEF Replicas
<1>1. IsFiniteSet(S) /\ Cardinality(S) \in Nat
  BY ReplicasFinite
<1>2. Below(r) \in SUBSET S /\ r \notin Below(r)
  BY <1>0
<1>3. /\ IsFiniteSet(Below(r)) /\ Cardinality(Below(r)) \in Nat
      /\ Cardinality(Below(r)) <= Cardinality(S)
      /\ Cardinality(Below(r)) # Cardinality(S)
  BY <1>1, <1>2, FS_Subset, FS_CardinalityType
<1>4. Rank(S, r) < Cardinality(S)
  BY <1>1, <1>3 DEF Rank
<1>5. ASSUME NEW s \in S, r < s
      PROVE  Rank(S, r) < Rank(S, s)
  <2>1. Below(s) \in SUBSET S
    OBVIOUS
  <2>2. Below(r) \in SUBSET Below(s) /\ Below(r) # Below(s)
    <3>1. s \in Int /\ r \in Below(s)
      BY <1>0, <1>5
    <3>2. \A x \in S : x \in Int /\ (x < r => x < s)
      BY <1>0, <1>5, <3>1
    <3> QED BY <1>2, <3>1, <3>2
  <2>3. IsFiniteSet(Below(s)) /\ Cardinality(Below(s)) \in Nat
    BY <1>1, <2>1, FS_Subset, FS_CardinalityType
  <2>4. Cardinality(Below(r)) <= Cardinality(Below(s))
        /\ Cardinality(Below(r)) # Cardinality(Below(s))
    BY <2>2, <2>3, FS_Subset
  <2> QED BY <1>3, <2>3, <2>4 DEF Rank
<1> QED BY <1>4, <1>5

\* Two elements of one rank are one.
LEMMA RankInjective ==
    ASSUME NEW S \in SUBSET Replicas, NEW r \in S, NEW s \in S,
           Rank(S, r) = Rank(S, s)
    PROVE  r = s
<1>1. r \in Int /\ s \in Int
  BY RoutingAssumption DEF Replicas
<1>2. Rank(S, r) \in Nat /\ Rank(S, s) \in Nat
  BY ReplicasFinite
<1>3. ~(r < s) /\ ~(s < r)
  BY <1>2, RankGrows
<1> QED BY <1>1, <1>3

\* Every position in the list of the routable replicas has a replica.
LEMMA NthExists ==
    ASSUME NEW S \in SUBSET Replicas, NEW k \in Nat, k < Cardinality(S)
    PROVE  Nth(S, k) \in S /\ Rank(S, Nth(S, k)) = k
<1> DEFINE n == Cardinality(S)
           T == 0..(n - 1)
           f == [r \in S |-> Rank(S, r)]
<1>1. IsFiniteSet(S) /\ n \in Nat
  BY ReplicasFinite
<1>2. IsFiniteSet(T) /\ Cardinality(T) = n
  <2>1. 0 \in Int /\ n - 1 \in Int
    BY <1>1
  <2>2. IsFiniteSet(T) /\ Cardinality(T) = IF 0 > n - 1 THEN 0 ELSE n - 1 - 0 + 1
    BY <2>1, FS_Interval
  <2> QED BY <1>1, <2>2
<1>3. f \in [S -> T]
  BY <1>1, ReplicasFinite, RankGrows
<1>4. f \in Injection(S, T)
  BY <1>3, RankInjective DEF Injection, IsInjective
<1>5. f \in Surjection(S, T)
  BY <1>1, <1>2, <1>4, FS_Injection
<1>6. \E r \in S : Rank(S, r) = k
  <2>1. k \in T
    BY <1>1
  <2>2. \A t \in T : \E r \in S : f[r] = t
    BY <1>5 DEF Surjection
  <2> QED BY <2>1, <2>2
<1>7. \E r \in S : Cardinality({x \in S : x < r}) = k
  BY <1>6 DEF Rank
<1> QED BY <1>7 DEF Nth, Rank

\* A nonempty set of numbers has a smallest one.
LEMMA SmallestExists ==
    ASSUME NEW S, S \subseteq Nat, S # {}
    PROVE  \E m \in S : \A y \in S : m <= y
<1>1. PICK m \in S : \A y \in S : ~(<<y, m>> \in OpToRel(<, Nat))
  BY NatLessThanWellFounded, WFMin
<1>2. ASSUME NEW y \in S
      PROVE  m <= y
  <2>1. y \in Nat /\ m \in Nat
    OBVIOUS
  <2>2. y < m => <<y, m>> \in OpToRel(<, Nat)
    BY <2>1 DEF OpToRel
  <2>3. ~(y < m)
    BY <1>1, <2>2, Zenon
  <2> QED BY <2>1, <2>3
<1> QED BY <1>2

\* Among the routable replicas one has the fewest connections.
LEMMA LeastLoadedExists ==
    ASSUME NEW S \in SUBSET Replicas, S # {}, \A r \in S : Connections(r) \in Nat
    PROVE  LeastLoaded(S) \in S
<1> DEFINE Loads == {Connections(r) : r \in S}
<1>1. PICK m \in Loads : \A y \in Loads : m <= y
  <2>1. Loads \subseteq Nat /\ Loads # {}
    OBVIOUS
  <2> HIDE DEF Loads
  <2> QED BY <2>1, SmallestExists
<1>2. \A r \in S : m <= Connections(r)
  BY <1>1
<1> DEFINE Least == {r \in S : Connections(r) = m}
<1>3. PICK l \in Least : \A y \in Least : l <= y
  <2>1. Least \subseteq Nat
    BY RoutingAssumption DEF Replicas
  <2>2. Least # {}
    BY <1>1
  <2> HIDE DEF Least
  <2> QED BY <2>1, <2>2, SmallestExists
<1>4. \A r \in Least \ {l} : l < r
  <2>1. \A r \in Least : r \in Int
    BY RoutingAssumption DEF Replicas
  <2> QED BY <1>3, <2>1
<1>5. l \in S /\ Connections(l) = m
  BY <1>3
<1>6. \A x \in S \ {l} : \/ Connections(l) < Connections(x)
                         \/ Connections(l) = Connections(x) /\ l < x
  BY <1>2, <1>4, <1>5
<1> QED BY <1>5, <1>6 DEF LeastLoaded

----------------------------------------------------------------------------
(* The replicas of a server: every record is well formed.                  *)

Breakers ==
    /\ breaker \in [Replicas -> BreakerType]
    /\ \A r \in Replicas : Sound(breaker[r])

RoutingInv == TypeOK /\ Breakers

\* The calls in forward() are numbers of finite sets.
LEMMA ConnectionsNat ==
    ASSUME TypeOK, NEW r \in Replicas
    PROVE  Connections(r) \in Nat
<1>1. IsFiniteSet(Callers)
  <2>1. IsFiniteSet({"refresh"})
    BY FS_Singleton
  <2> QED BY <2>1, RoutingAssumption, FS_Union DEF Callers
<1>2. IsFiniteSet(Sent(r))
  <2>1. Sent(r) \in SUBSET Callers
    BY DEF Sent
  <2> QED BY <1>1, <2>1, FS_Subset
<1>3. Cardinality(Sent(r)) \in Nat
  BY <1>2, FS_CardinalityType
<1>4. ChecksSent(r) \in Nat
  BY RoutingAssumption DEF TypeOK, ChecksSent
<1> QED BY <1>3, <1>4 DEF Connections

\* The counter indexes the routable replicas.
LEMMA TurnType ==
    ASSUME TypeOK, Routable # {}
    PROVE  /\ Cardinality(Routable) \in 1..NumReplicas
           /\ counter % Cardinality(Routable) \in 0..Cardinality(Routable) - 1
<1>1. Routable \in SUBSET Replicas
  BY DEF Routable, RoutableIn
<1>2. Cardinality(Routable) \in 1..NumReplicas
  <2>1. Cardinality(Routable) \in 0..NumReplicas /\ Cardinality(Routable) # 0
    BY <1>1, ReplicasFinite
  <2> QED BY <2>1, RoutingAssumption
<1>3. counter \in Nat
  BY RoutingAssumption DEF TypeOK
<1> QED BY <1>2, <1>3, RoutingAssumption

\* Either strategy selects a routable replica; round-robin the one whose turn
\* it is.
LEMMA SelectedRoutable ==
    ASSUME TypeOK, Routable # {}
    PROVE  /\ Selected \in Routable
           /\ strategy = "round-robin" =>
                Rank(Routable, Selected) = counter % Cardinality(Routable)
<1>1. Routable \in SUBSET Replicas
  BY DEF Routable, RoutableIn
<1>2. CASE strategy = "least-connections"
  <2>1. LeastLoaded(Routable) \in Routable
    BY <1>1, ConnectionsNat, LeastLoadedExists
  <2> QED BY <1>2, <2>1 DEF Selected
<1>3. CASE strategy # "least-connections"
  <2> DEFINE k == counter % Cardinality(Routable)
  <2>1. k \in Nat /\ k < Cardinality(Routable)
    BY TurnType, RoutingAssumption
  <2> HIDE DEF k
  <2>2. Nth(Routable, k) \in Routable /\ Rank(Routable, Nth(Routable, k)) = k
    BY <1>1, <2>1, NthExists
  <2> QED BY <1>3, <2>2 DEF Selected, k
<1> QED BY <1>2, <1>3

\* One replica's breaker changes and stays sound.
LEMMA UpdateSound ==
    ASSUME Breakers, NEW r \in Replicas, NEW b, Sound(b),
           breaker' = [breaker EXCEPT ![r] = b]
    PROVE  Breakers'
BY DEF Breakers, Sound

\* Health records stay within their bounds.
LEMMA HealthStays ==
    ASSUME NEW h \in HealthType
    PROVE  Passed(h) \in HealthType /\ Missed(h) \in HealthType
BY RoutingAssumption DEF HealthType, Passed, Missed

LEMMA PassedStays ==
    ASSUME PassedKept, passed \in [Replicas -> SUBSET Replicas]
    PROVE  passed' \in [Replicas -> SUBSET Replicas]
BY DEF PassedKept

\* Each step of a call keeps the records well formed.
LEMMA CallStep ==
    ASSUME RoutingInv, NEW q \in Callers,
           \/ q \in Requests /\ (Select(q) \/ AnswerEarly(q) \/ Forward(q))
           \/ Succeed(q) \/ Fail(q)
    PROVE  RoutingInv'
<1> USE DEF RoutingInv, CallType, Idle, config
<1>0. /\ TypeOK /\ Breakers /\ Primary \in Replicas
      /\ call[q].replica \in Replicas /\ Sound(breaker[call[q].replica])
  BY RoutingAssumption DEF TypeOK, Breakers, Replicas, Primary
<1> DEFINE r == call[q].replica
<1>1. CASE Select(q)
  <2>1. Selected \in Replicas
    BY <1>0, <1>1, SelectedRoutable DEF Select, Routable, RoutableIn
  <2>2. call' \in [Callers -> CallType]
    BY <1>0, <1>1, <2>1 DEF Select, TypeOK
  <2>3. counter' \in 0..CounterPeriod - 1
    BY <1>0, <1>1, RoutingAssumption DEF Select, TypeOK, CounterAdvanced
  <2>4. passed' \in [Replicas -> SUBSET Replicas]
    BY <1>0, <1>1, <2>1 DEF Select, TypeOK, PassedAfter
  <2> QED BY <1>0, <1>1, <2>2, <2>3, <2>4 DEF Select, TypeOK, Breakers
<1>2. CASE AnswerEarly(q)
  BY <1>0, <1>2 DEF AnswerEarly, TypeOK, Breakers
<1>3. CASE Forward(q)
  <2>1. Breakers'
    <3>1. breaker' = [breaker EXCEPT ![r] = Executed(breaker[r])]
      BY <1>3 DEF Forward
    <3> QED BY <1>0, <3>1, ExecutedSound, UpdateSound
  <2>2. call' \in [Callers -> CallType]
    BY <1>0, <1>3 DEF Forward, TypeOK
  <2>3. passed' \in [Replicas -> SUBSET Replicas]
    BY <1>0, <1>3, PassedStays DEF Forward, TypeOK
  <2> QED BY <1>0, <1>3, <2>1, <2>2, <2>3 DEF Forward, TypeOK, Breakers
<1>4. CASE Succeed(q)
  <2>1. Breakers'
    <3>1. breaker' = [breaker EXCEPT ![r] = Succeeded(breaker[r])]
      BY <1>4 DEF Succeed, Answered
    <3> QED BY <1>0, <3>1, SucceededSound, UpdateSound
  <2>2. call' \in [Callers -> CallType]
    BY <1>0, <1>4 DEF Succeed, Answered, TypeOK
  <2>3. passed' \in [Replicas -> SUBSET Replicas]
    BY <1>0, <1>4, PassedStays DEF Succeed, TypeOK
  <2> QED BY <1>0, <1>4, <2>1, <2>2, <2>3 DEF Succeed, TypeOK, Breakers
<1>5. CASE Fail(q)
  <2>1. Breakers'
    <3>1. breaker' = [breaker EXCEPT ![r] = Failed(breaker[r])]
      BY <1>5 DEF Fail
    <3> QED BY <1>0, <3>1, FailedSound, UpdateSound
  <2>2. call' \in [Callers -> CallType]
    BY <1>0, <1>5 DEF Fail, TypeOK
  <2>3. passed' \in [Replicas -> SUBSET Replicas]
    BY <1>0, <1>5, PassedStays DEF Fail, TypeOK
  <2> QED BY <1>0, <1>5, <2>1, <2>2, <2>3 DEF Fail, TypeOK, Breakers
<1> QED BY <1>1, <1>2, <1>3, <1>4, <1>5

\* So does each step of refreshServer.
LEMMA RefreshStep ==
    ASSUME RoutingInv, StartRefresh \/ RefreshListed
    PROVE  RoutingInv'
<1> USE DEF RoutingInv, CallType, Idle, config
<1>0. /\ TypeOK /\ Breakers /\ Primary \in Replicas /\ "refresh" \in Callers
      /\ call["refresh"].replica \in Replicas
      /\ Sound(breaker[Primary]) /\ Sound(breaker[call["refresh"].replica])
  BY RoutingAssumption DEF TypeOK, Breakers, Replicas, Primary, Callers
<1>1. CASE StartRefresh
  <2>1. Breakers'
    <3>1. breaker' = [breaker EXCEPT ![Primary] = Executed(breaker[Primary])]
      BY <1>1 DEF StartRefresh
    <3> QED BY <1>0, <3>1, ExecutedSound, UpdateSound
  <2>2. call' \in [Callers -> CallType]
    BY <1>0, <1>1 DEF StartRefresh, TypeOK
  <2>3. passed' \in [Replicas -> SUBSET Replicas]
    BY <1>0, <1>1, PassedStays DEF StartRefresh, TypeOK
  <2> QED BY <1>0, <1>1, <2>1, <2>2, <2>3 DEF StartRefresh, TypeOK, Breakers
<1>2. CASE RefreshListed
  <2> DEFINE r == call["refresh"].replica
             h == [healthy |-> TRUE, failures |-> 0,
                   successes |-> IF HealthyThreshold > 0 THEN 1 ELSE 0]
  <2>1. Breakers'
    <3>1. breaker' = [breaker EXCEPT ![r] = Succeeded(breaker[r])]
      BY <1>2 DEF RefreshListed, Answered
    <3> QED BY <1>0, <3>1, SucceededSound, UpdateSound
  <2>2. call' \in [Callers -> CallType]
    BY <1>0, <1>2 DEF RefreshListed, Answered, TypeOK
  <2>3. health' \in [Replicas -> HealthType]
    <3>1. h \in HealthType
      BY RoutingAssumption DEF HealthType
    <3>2. health' = [health EXCEPT ![Primary] = h]
      BY <1>2 DEF RefreshListed
    <3> HIDE DEF h
    <3> QED BY <1>0, <3>1, <3>2 DEF TypeOK
  <2>4. passed' \in [Replicas -> SUBSET Replicas]
    BY <1>0, <1>2, PassedStays DEF RefreshListed, TypeOK
  <2> QED BY <1>0, <1>2, <2>1, <2>2, <2>3, <2>4 DEF RefreshListed, TypeOK, Breakers
<1> QED BY <1>1, <1>2

\* The breaker of a replica hears of a check, or nothing changes.
LEMMA ToldSound ==
    ASSUME Breakers, NEW r \in Replicas, NEW b, Sound(b), breaker' = Told(r, b)
    PROVE  Breakers'
<1>1. CASE transport = "stdio"
  <2>1. breaker' = [breaker EXCEPT ![r] = b]
    BY <1>1 DEF Told
  <2> QED BY <2>1, UpdateSound
<1>2. CASE transport # "stdio"
  <2>1. breaker' = breaker
    BY <1>2 DEF Told, Breakers
  <2> QED BY <2>1 DEF Breakers
<1> QED BY <1>1, <1>2

\* One check more, within the bound, or one less.
LEMMA Counted ==
    ASSUME checking \in [Replicas -> 0..MaxChecks], NEW r \in Replicas
    PROVE  /\ MayCheck(r) => [checking EXCEPT ![r] = @ + 1] \in [Replicas -> 0..MaxChecks]
           /\ checking[r] > 0 =>
                [checking EXCEPT ![r] = @ - 1] \in [Replicas -> 0..MaxChecks]
<1>1. checking[r] \in 0..MaxChecks /\ MaxChecks \in Nat \ {0}
  BY RoutingAssumption
<1>2. ASSUME MayCheck(r)
      PROVE  checking[r] + 1 \in 0..MaxChecks
  BY <1>1, <1>2 DEF MayCheck
<1>3. ASSUME checking[r] > 0
      PROVE  checking[r] - 1 \in 0..MaxChecks
  BY <1>1, <1>3
<1> QED BY <1>2, <1>3

\* So does each step of a health check.
LEMMA CheckStep ==
    ASSUME RoutingInv, NEW r \in Replicas,
           \/ CheckHttp(r) \/ CheckStdio(r) \/ CheckRefused(r)
           \/ CheckPassed(r) \/ CheckMissed(r)
    PROVE  RoutingInv'
<1> USE DEF RoutingInv, config
<1>0. /\ TypeOK /\ Breakers /\ Sound(breaker[r]) /\ health[r] \in HealthType
      /\ Passed(health[r]) \in HealthType /\ Missed(health[r]) \in HealthType
  BY HealthStays DEF TypeOK, Breakers
<1>1. CASE CheckHttp(r)
  <2>1. checking' \in [Replicas -> 0..MaxChecks]
    BY <1>0, <1>1, Counted DEF CheckHttp, TypeOK
  <2> QED BY <1>0, <1>1, <2>1 DEF CheckHttp, TypeOK, Breakers
<1>2. CASE CheckStdio(r)
  <2>1. Breakers'
    <3>1. breaker' = [breaker EXCEPT ![r] = Executed(breaker[r])]
      BY <1>2 DEF CheckStdio
    <3> QED BY <1>0, <3>1, ExecutedSound, UpdateSound
  <2>2. passed' \in [Replicas -> SUBSET Replicas]
    BY <1>0, <1>2, PassedStays DEF CheckStdio, TypeOK
  <2>4. checking' \in [Replicas -> 0..MaxChecks]
    BY <1>0, <1>2, Counted DEF CheckStdio, TypeOK
  <2> QED BY <1>0, <1>2, <2>1, <2>2, <2>4 DEF CheckStdio, TypeOK, Breakers
<1>3. CASE CheckRefused(r)
  <2>1. Breakers'
    <3>1. breaker' = [breaker EXCEPT ![r] = Executed(breaker[r])]
      BY <1>3 DEF CheckRefused
    <3> QED BY <1>0, <3>1, ExecutedSound, UpdateSound
  <2>2. health' \in [Replicas -> HealthType]
    BY <1>0, <1>3 DEF CheckRefused, TypeOK
  <2>3. passed' \in [Replicas -> SUBSET Replicas]
    BY <1>0, <1>3, PassedStays DEF CheckRefused, TypeOK
  <2> QED BY <1>0, <1>3, <2>1, <2>2, <2>3 DEF CheckRefused, TypeOK, Breakers
<1>4. CASE CheckPassed(r)
  <2>1. Breakers'
    BY <1>0, <1>4, SucceededSound, ToldSound DEF CheckPassed
  <2>2. health' \in [Replicas -> HealthType]
    BY <1>0, <1>4 DEF CheckPassed, TypeOK
  <2>3. passed' \in [Replicas -> SUBSET Replicas]
    BY <1>0, <1>4, PassedStays DEF CheckPassed, TypeOK
  <2>4. checking' \in [Replicas -> 0..MaxChecks]
    BY <1>0, <1>4, Counted DEF CheckPassed, TypeOK
  <2> QED BY <1>0, <1>4, <2>1, <2>2, <2>3, <2>4 DEF CheckPassed, TypeOK, Breakers
<1>5. CASE CheckMissed(r)
  <2>1. Breakers'
    BY <1>0, <1>5, FailedSound, ToldSound DEF CheckMissed
  <2>2. health' \in [Replicas -> HealthType]
    BY <1>0, <1>5 DEF CheckMissed, TypeOK
  <2>3. passed' \in [Replicas -> SUBSET Replicas]
    BY <1>0, <1>5, PassedStays DEF CheckMissed, TypeOK
  <2>4. checking' \in [Replicas -> 0..MaxChecks]
    <3>1. checking[r] > 0
      BY <1>0, <1>5, RoutingAssumption DEF CheckMissed, TypeOK
    <3> QED BY <1>0, <1>5, <3>1, Counted DEF CheckMissed, TypeOK
  <2> QED BY <1>0, <1>5, <2>1, <2>2, <2>3, <2>4 DEF CheckMissed, TypeOK, Breakers
<1> QED BY <1>1, <1>2, <1>3, <1>4, <1>5

\* So do a reset of any set of breakers, the clock, and the upstreams' peace.
LEMMA OutsideStep ==
    ASSUME RoutingInv, (\E R \in SUBSET Replicas : AdminReset(R)) \/ Tick \/ Calm
    PROVE  RoutingInv'
<1> USE DEF RoutingInv, config
<1>0. TypeOK /\ Breakers
  OBVIOUS
<1>1. ASSUME NEW R \in SUBSET Replicas, AdminReset(R)
      PROVE  RoutingInv'
  <2>1. \A r \in Replicas : breaker'[r] = IF r \in R THEN NewBreaker ELSE breaker[r]
    BY <1>1 DEF AdminReset, Reset
  <2>2. \A r \in Replicas : Sound(breaker'[r])
    BY <1>0, <2>1, NewSound DEF Breakers
  <2>3. breaker' = [r \in Replicas |-> breaker'[r]]
    BY <1>1 DEF AdminReset
  <2>4. Breakers'
    BY <2>2, <2>3 DEF Breakers, Sound
  <2>5. passed' \in [Replicas -> SUBSET Replicas]
    BY <1>0, <1>1, PassedStays DEF AdminReset, TypeOK
  <2> QED BY <1>0, <1>1, <2>4, <2>5 DEF AdminReset, TypeOK, Breakers
<1>2. CASE Tick
  <2>1. \A r \in Replicas : breaker'[r] = Age(breaker[r])
    BY <1>2 DEF Tick
  <2>2. \A r \in Replicas : Sound(breaker'[r])
    BY <1>0, <2>1, AgeSound DEF Breakers
  <2>3. breaker' = [r \in Replicas |-> breaker'[r]]
    BY <1>2 DEF Tick
  <2>4. Breakers'
    BY <2>2, <2>3 DEF Breakers, Sound
  <2> QED BY <1>0, <1>2, <2>4 DEF Tick, TypeOK, Breakers
<1>3. CASE Calm
  BY <1>0, <1>3 DEF Calm, TypeOK, Breakers
<1> QED BY <1>1, <1>2, <1>3

LEMMA RoutingInit == Init => RoutingInv
<1> SUFFICES ASSUME Init PROVE RoutingInv
  OBVIOUS
<1>1. Breakers
  BY NewSound DEF Init, Breakers, Sound
<1>2. [healthy |-> TRUE, failures |-> 0, successes |-> 0] \in HealthType
  BY RoutingAssumption DEF HealthType
<1>3. Idle \in CallType
  BY RoutingAssumption DEF Idle, CallType, Replicas, Primary
<1>4. 0 \in 0..CounterPeriod - 1 /\ 0 \in 0..MaxChecks
  BY RoutingAssumption
<1>5. TypeOK
  BY <1>1, <1>2, <1>3, <1>4 DEF Init, TypeOK, Breakers
<1> QED BY <1>1, <1>5 DEF RoutingInv

LEMMA RoutingNext == RoutingInv /\ [Next]_vars => RoutingInv'
<1> SUFFICES ASSUME RoutingInv, [Next]_vars PROVE RoutingInv'
  OBVIOUS
<1>1. CASE \E q \in Requests : Select(q) \/ AnswerEarly(q) \/ Forward(q)
  BY <1>1, CallStep DEF Callers
<1>2. CASE \E q \in Callers : Succeed(q) \/ Fail(q)
  BY <1>2, CallStep
<1>3. CASE StartRefresh \/ RefreshListed
  BY <1>3, RefreshStep
<1>4. CASE \E r \in Replicas : CheckHttp(r) \/ CheckStdio(r) \/ CheckRefused(r)
                               \/ CheckPassed(r) \/ CheckMissed(r)
  BY <1>4, CheckStep
<1>5. CASE (\E r \in Replicas : AdminReset({r})) \/ AdminReset(Replicas) \/ Tick \/ Calm
  BY <1>5, OutsideStep
<1>6. CASE UNCHANGED vars
  BY <1>6 DEF vars, RoutingInv, TypeOK, Breakers
<1> QED BY <1>1, <1>2, <1>3, <1>4, <1>5, <1>6 DEF Next

\* The router's and the registry's records keep their types, and every
\* replica's breaker has counters that match its mode.
THEOREM RoutingInvariance == Spec => []RoutingInv
<1>1. Init => RoutingInv
  BY RoutingInit
<1>2. RoutingInv /\ [Next]_vars => RoutingInv'
  BY RoutingNext
<1> QED BY <1>1, <1>2, PTL DEF Spec

\* The invariant the runs check.
THEOREM RoutingTypeCorrect == Spec => []TypeOK
<1>1. RoutingInv => TypeOK
  BY DEF RoutingInv
<1> QED BY <1>1, RoutingInvariance, PTL

----------------------------------------------------------------------------
(* No call reaches an open replica.                                        *)

\* An open circuit that has not waited its timeout refuses.
LEMMA OpenRefuses ==
    ASSUME NEW b, IsOpen(b), b.since < ResetTimeout, Sound(b)
    PROVE  ~CanExecute(b)
<1>1. b.since \in Int /\ ResetTimeout \in Int
  BY ThresholdAssumption DEF Sound, BreakerType
<1>2. Ripen(b) = b
  BY <1>1 DEF Ripen
<1> QED BY <1>2 DEF IsOpen, CanExecute

\* Whoever is sent to a replica by a step was in forward() already, or the
\* replica's breaker has just admitted it.
LEMMA SentAdmitted ==
    ASSUME RoutingInv, [Next]_vars, NEW q \in Callers, NEW r \in Replicas,
           call'[q].phase = "sent", call'[q].replica = r
    PROVE  call[q].phase = "sent" \/ CanExecute(breaker[r])
<1> USE DEF RoutingInv, TypeOK, CallType, Idle, MayForward
<1>0. call \in [Callers -> CallType] /\ "refresh" \in Callers
  BY DEF Callers
<1>1. ASSUME NEW p \in Requests, Select(p) \/ AnswerEarly(p) \/ Forward(p)
      PROVE  call[q].phase = "sent" \/ CanExecute(breaker[r])
  BY <1>0, <1>1 DEF Select, AnswerEarly, Forward, Callers
<1>2. ASSUME NEW p \in Callers, Succeed(p) \/ Fail(p)
      PROVE  call[q].phase = "sent" \/ CanExecute(breaker[r])
  BY <1>0, <1>2 DEF Succeed, Fail, Answered
<1>3. CASE StartRefresh
  BY <1>0, <1>3 DEF StartRefresh
<1>4. CASE RefreshListed
  BY <1>0, <1>4 DEF RefreshListed, Answered
<1>5. CASE UNCHANGED call
  BY <1>5
<1>6. ASSUME NEW p \in Replicas,
             \/ CheckHttp(p) \/ CheckStdio(p) \/ CheckRefused(p)
             \/ CheckPassed(p) \/ CheckMissed(p)
      PROVE  UNCHANGED call
  BY <1>6 DEF CheckHttp, CheckStdio, CheckRefused, CheckPassed, CheckMissed
<1>7. CASE (\E p \in Replicas : AdminReset({p})) \/ AdminReset(Replicas) \/ Tick \/ Calm
  BY <1>5, <1>7 DEF AdminReset, Tick, Calm
<1>8. CASE UNCHANGED vars
  BY <1>5, <1>8 DEF vars
<1> QED BY <1>1, <1>2, <1>3, <1>4, <1>5, <1>6, <1>7, <1>8 DEF Next

\* The selection may be stale when the call is forwarded; forward() asks the
\* breaker again, and an open one that has not waited lets no call through.
THEOREM NeverForwardsBlind == Spec => NoBlindForward
<1> DEFINE Guarded ==
      \A r \in Replicas :
          IsOpen(breaker[r]) /\ breaker[r].since < ResetTimeout =>
             Sent(r)' \subseteq {q \in Callers : call[q].phase = "sent"}
<1>1. ASSUME RoutingInv, [Next]_vars, NEW r \in Replicas,
             IsOpen(breaker[r]), breaker[r].since < ResetTimeout,
             NEW q \in Callers, call'[q].phase = "sent", call'[q].replica = r
      PROVE  call[q].phase = "sent"
  <2>1. ~CanExecute(breaker[r])
    BY <1>1, OpenRefuses DEF RoutingInv, Breakers
  <2> QED BY <1>1, <2>1, SentAdmitted
<1>2. RoutingInv /\ [Next]_vars => [Guarded]_vars
  BY <1>1 DEF Sent
<1> QED BY <1>2, RoutingInvariance, PTL DEF Spec, NoBlindForward

----------------------------------------------------------------------------
(* Every replica's breaker is used as its contract demands.                *)

\* The call c comes to those in S, which makes them T.
Joins(c, S, T) ==
    c \in Tagged(Callers, MaxChecks) /\ c \notin S /\ T = S \union {c}

\* How one step may touch the breaker of replica r and its calls: it admits
\* one, refuses one, hears of one, is reset, ages, or is left alone.
BreakerMove(r) ==
    \/ \E c : /\ Joins(c, InForward(r), InForward(r)')
             /\ CanExecute(breaker[r]) /\ breaker'[r] = Executed(breaker[r])
    \/ /\ InForward(r)' = InForward(r)
       /\ ~CanExecute(breaker[r]) /\ breaker'[r] = Executed(breaker[r])
    \/ \E c : /\ Joins(c, InForward(r)', InForward(r))
             /\ \/ breaker'[r] = Succeeded(breaker[r])
                \/ breaker'[r] = Failed(breaker[r])
    \/ /\ InForward(r)' = InForward(r)
       /\ breaker'[r] \in {breaker[r], NewBreaker, Age(breaker[r])}

\* Each of these is a step of the contract, or leaves its variables alone.
LEMMA ContractStep ==
    ASSUME Breakers, NEW r \in Replicas, BreakerMove(r)
    PROVE  [Contract(r)!Next]_(Contract(r)!vars)
<1> DEFINE b == breaker[r]
<1>0. Sound(b)
  BY DEF Breakers
<1>1. ASSUME NEW c, Joins(c, InForward(r), InForward(r)'),
             CanExecute(b), breaker'[r] = Executed(b)
      PROVE  \E d \in Tagged(Callers, MaxChecks) : Contract(r)!Admit(d)
  <2>1. breaker'[r].state = IF b.state = "open" THEN "half-open" ELSE b.state
    BY <1>0, <1>1, ExecutedSound
  <2> QED BY <1>1, <2>1 DEF Contract!Admit, Joins
<1>2. CASE /\ InForward(r)' = InForward(r)
           /\ ~CanExecute(b) /\ breaker'[r] = Executed(b)
  <2>1. \/ breaker'[r].state = b.state
        \/ b.state = "open" /\ breaker'[r].state = "half-open"
    BY <1>0, <1>2, ExecutedSound
  <2> QED BY <1>2, <2>1 DEF Contract!Refuse, Contract!Next, Contract!vars
<1>3. ASSUME NEW c, Joins(c, InForward(r)', InForward(r)),
             breaker'[r] = Succeeded(b)
      PROVE  \E d \in Tagged(Callers, MaxChecks) : Contract(r)!Succeed(d)
  <2>1. \/ breaker'[r].state = b.state
        \/ b.state = "half-open" /\ breaker'[r].state = "closed"
    BY <1>0, <1>3, SucceededSound
  <2> QED BY <1>3, <2>1 DEF Contract!Succeed, Joins
<1>4. ASSUME NEW c, Joins(c, InForward(r)', InForward(r)),
             breaker'[r] = Failed(b)
      PROVE  \E d \in Tagged(Callers, MaxChecks) : Contract(r)!Fail(d)
  <2>1. \/ breaker'[r].state = "open"
        \/ b.state = "closed" /\ breaker'[r].state = "closed"
    BY <1>0, <1>4, FailedSound
  <2> QED BY <1>4, <2>1 DEF Contract!Fail, Joins
<1>5. CASE InForward(r)' = InForward(r) /\ breaker'[r] = NewBreaker
  BY <1>5 DEF Contract!AdminReset, Contract!Next, NewBreaker
<1>6. CASE InForward(r)' = InForward(r) /\ breaker'[r] \in {b, Age(b)}
  <2>1. breaker'[r].state = b.state
    BY <1>0, <1>6, AgeSound
  <2> QED BY <1>6, <2>1 DEF Contract!vars
<1> QED BY <1>1, <1>2, <1>3, <1>4, <1>5, <1>6 DEF BreakerMove, Contract!Next

\* Calls and checks come and go one at a time.
LEMMA TaggedMoves ==
    ASSUME NEW S, S \subseteq Callers, NEW n \in 0..MaxChecks
    PROVE  /\ \A q \in Callers : q \notin S => Joins(<<q, 0>>, Tagged(S, n), Tagged(S \union {q}, n))
           /\ \A q \in Callers : q \in S => Joins(<<q, 0>>, Tagged(S \ {q}, n), Tagged(S, n))
           /\ n < MaxChecks => Joins(<<"check", n + 1>>, Tagged(S, n), Tagged(S, n + 1))
           /\ n > 0 => Joins(<<"check", n>>, Tagged(S, n - 1), Tagged(S, n))
<1>0. MaxChecks \in Nat \ {0} /\ n \in Nat
  BY RoutingAssumption
<1>1. ASSUME NEW q \in Callers, q \notin S
      PROVE  Joins(<<q, 0>>, Tagged(S, n), Tagged(S \union {q}, n))
  <2>1. 0 \notin 1..n
    BY <1>0
  <2> QED BY <1>1, <2>1 DEF Tagged, Joins
<1>2. ASSUME NEW q \in Callers, q \in S
      PROVE  Joins(<<q, 0>>, Tagged(S \ {q}, n), Tagged(S, n))
  <2>1. 0 \notin 1..n
    BY <1>0
  <2> QED BY <1>2, <2>1 DEF Tagged, Joins
<1>3. ASSUME NEW m \in Nat, m < MaxChecks
      PROVE  Joins(<<"check", m + 1>>, Tagged(S, m), Tagged(S, m + 1))
  <2>1. /\ m + 1 \in 1..MaxChecks /\ 1..(m + 1) = (1..m) \union {m + 1}
        /\ m + 1 \notin 1..m /\ m + 1 # 0
    BY <1>0, <1>3
  <2> QED BY <2>1 DEF Tagged, Joins
<1>4. ASSUME n > 0
      PROVE  Joins(<<"check", n>>, Tagged(S, n - 1), Tagged(S, n))
  <2>1. n - 1 \in Nat /\ n - 1 < MaxChecks /\ n - 1 + 1 = n
    BY <1>0, <1>4
  <2> QED BY <1>3, <2>1
<1> QED BY <1>0, <1>1, <1>2, <1>3, <1>4

\* A step that touches neither a replica's breaker nor its calls.
LEMMA LeftAlone ==
    ASSUME NEW r \in Replicas, breaker'[r] = breaker[r], UNCHANGED <<call, checking, transport>>
    PROVE  BreakerMove(r)
BY DEF BreakerMove, InForward, Sent, ChecksSent

\* What is in forward() is a set of calls and a number of checks.
LEMMA ForwardType ==
    ASSUME RoutingInv, NEW r \in Replicas
    PROVE  Sent(r) \subseteq Callers /\ ChecksSent(r) \in 0..MaxChecks
BY RoutingAssumption DEF RoutingInv, TypeOK, Sent, ChecksSent

\* The steps of calls move the breaker of the replica they were given.
LEMMA CallMoves ==
    ASSUME RoutingInv, NEW q \in Callers, NEW r \in Replicas,
           \/ q \in Requests /\ (Select(q) \/ AnswerEarly(q) \/ Forward(q))
           \/ Succeed(q) \/ Fail(q)
    PROVE  BreakerMove(r)
<1> USE DEF CallType, Idle, config, MayForward
<1>0. /\ call \in [Callers -> CallType] /\ breaker \in [Replicas -> BreakerType]
      /\ call[q].replica \in Replicas
      /\ Sent(r) \subseteq Callers /\ ChecksSent(r) \in 0..MaxChecks
  BY ForwardType DEF RoutingInv, TypeOK, Callers
<1>1. CASE Select(q) \/ AnswerEarly(q)
  <2>1. breaker' = breaker /\ checking' = checking /\ transport' = transport
    BY <1>1 DEF Select, AnswerEarly
  <2>2. InForward(r)' = InForward(r)
    <3>1. Sent(r)' = Sent(r)
      BY <1>0, <1>1 DEF Select, AnswerEarly, Sent
    <3> QED BY <2>1, <3>1 DEF InForward, ChecksSent
  <2> QED BY <2>1, <2>2 DEF BreakerMove
<1>2. CASE Forward(q) /\ MayForward(breaker[call[q].replica])
  <2>1. /\ checking' = checking /\ transport' = transport
        /\ call[q].phase = "selected"
        /\ call'[q].phase = "sent" /\ call'[q].replica = call[q].replica
        /\ \A p \in Callers \ {q} : call'[p] = call[p]
    BY <1>0, <1>2 DEF Forward
  <2>2. CASE call[q].replica = r
    <3>1. Joins(<<q, 0>>, InForward(r), InForward(r)')
      <4>1. q \notin Sent(r) /\ Sent(r)' = Sent(r) \union {q}
        BY <1>0, <2>1, <2>2 DEF Sent
      <4>2. ChecksSent(r)' = ChecksSent(r)
        BY <2>1 DEF ChecksSent
      <4> QED BY <1>0, <4>1, <4>2, TaggedMoves DEF InForward
    <3>2. CanExecute(breaker[r]) /\ breaker'[r] = Executed(breaker[r])
      BY <1>0, <1>2, <2>2 DEF Forward
    <3> QED BY <3>1, <3>2 DEF BreakerMove
  <2>3. CASE call[q].replica # r
    <3>1. InForward(r)' = InForward(r)
      BY <1>0, <2>1, <2>3 DEF InForward, Sent, ChecksSent
    <3>2. breaker'[r] = breaker[r]
      BY <1>0, <1>2, <2>3 DEF Forward
    <3> QED BY <3>1, <3>2 DEF BreakerMove
  <2> QED BY <2>2, <2>3
<1>3. CASE Forward(q) /\ ~MayForward(breaker[call[q].replica])
  <2>1. /\ checking' = checking /\ transport' = transport
        /\ call[q].phase = "selected" /\ call' = [call EXCEPT ![q] = Idle]
    BY <1>0, <1>3 DEF Forward
  <2>2. InForward(r)' = InForward(r)
    BY <1>0, <2>1 DEF InForward, Sent, ChecksSent
  <2>3. CASE call[q].replica = r
    <3>1. ~CanExecute(breaker[r]) /\ breaker'[r] = Executed(breaker[r])
      BY <1>0, <1>3, <2>3 DEF Forward
    <3> QED BY <2>2, <3>1 DEF BreakerMove
  <2>4. CASE call[q].replica # r
    <3>1. breaker'[r] = breaker[r]
      BY <1>0, <1>3, <2>4 DEF Forward
    <3> QED BY <2>2, <3>1 DEF BreakerMove
  <2> QED BY <2>3, <2>4
<1>4. CASE Succeed(q) \/ Fail(q)
  <2>1. /\ checking' = checking /\ transport' = transport
        /\ call[q].phase = "sent" /\ call' = [call EXCEPT ![q] = Idle]
    BY <1>4 DEF Succeed, Fail, Answered
  <2>2. CASE call[q].replica = r
    <3>1. Joins(<<q, 0>>, InForward(r)', InForward(r))
      <4>1. q \in Sent(r) /\ Sent(r)' = Sent(r) \ {q}
        BY <1>0, <2>1, <2>2 DEF Sent
      <4>2. ChecksSent(r)' = ChecksSent(r)
        BY <2>1 DEF ChecksSent
      <4> QED BY <1>0, <4>1, <4>2, TaggedMoves DEF InForward
    <3>2. breaker'[r] = Succeeded(breaker[r]) \/ breaker'[r] = Failed(breaker[r])
      BY <1>0, <1>4, <2>2 DEF Succeed, Fail, Answered
    <3> QED BY <3>1, <3>2 DEF BreakerMove
  <2>3. CASE call[q].replica # r
    <3>1. InForward(r)' = InForward(r)
      BY <1>0, <2>1, <2>3 DEF InForward, Sent, ChecksSent
    <3>2. breaker'[r] = breaker[r]
      BY <1>0, <1>4, <2>3 DEF Succeed, Fail, Answered
    <3> QED BY <3>1, <3>2 DEF BreakerMove
  <2> QED BY <2>2, <2>3
<1> QED BY <1>1, <1>2, <1>3, <1>4

\* refreshServer moves the primary's breaker.
LEMMA RefreshMoves ==
    ASSUME RoutingInv, NEW r \in Replicas, StartRefresh \/ RefreshListed
    PROVE  BreakerMove(r)
<1> USE DEF CallType, Idle, config, MayForward
<1> DEFINE q == "refresh"
<1>0. /\ call \in [Callers -> CallType] /\ breaker \in [Replicas -> BreakerType]
      /\ q \in Callers /\ call[q].replica \in Replicas /\ Primary \in Replicas
      /\ Sent(r) \subseteq Callers /\ ChecksSent(r) \in 0..MaxChecks
  <2>1. Sent(r) \subseteq Callers /\ ChecksSent(r) \in 0..MaxChecks
    BY ForwardType
  <2> QED BY <2>1, RoutingAssumption DEF RoutingInv, TypeOK, Callers, Primary, Replicas
<1>1. CASE StartRefresh /\ MayForward(breaker[Primary])
  <2>1. /\ checking' = checking /\ transport' = transport /\ call[q].phase = "idle"
        /\ call' = [call EXCEPT ![q] = [phase |-> "sent", replica |-> Primary]]
    BY <1>0, <1>1 DEF StartRefresh
  <2>2. CASE r = Primary
    <3>1. Joins(<<q, 0>>, InForward(r), InForward(r)')
      <4>1. q \notin Sent(r) /\ Sent(r)' = Sent(r) \union {q}
        BY <1>0, <2>1, <2>2 DEF Sent
      <4>2. ChecksSent(r)' = ChecksSent(r)
        BY <2>1 DEF ChecksSent
      <4> QED BY <1>0, <4>1, <4>2, TaggedMoves DEF InForward
    <3>2. CanExecute(breaker[r]) /\ breaker'[r] = Executed(breaker[r])
      BY <1>0, <1>1, <2>2 DEF StartRefresh
    <3> QED BY <1>0, <3>1, <3>2 DEF BreakerMove
  <2>3. CASE r # Primary
    <3>1. InForward(r)' = InForward(r)
      BY <1>0, <2>1, <2>3 DEF InForward, Sent, ChecksSent
    <3>2. breaker'[r] = breaker[r]
      BY <1>0, <1>1, <2>3 DEF StartRefresh
    <3> QED BY <3>1, <3>2 DEF BreakerMove
  <2> QED BY <2>2, <2>3
<1>2. CASE StartRefresh /\ ~MayForward(breaker[Primary])
  <2>1. checking' = checking /\ transport' = transport /\ call' = call
    BY <1>0, <1>2 DEF StartRefresh
  <2>2. InForward(r)' = InForward(r)
    BY <2>1 DEF InForward, Sent, ChecksSent
  <2>3. CASE r = Primary
    <3>1. ~CanExecute(breaker[r]) /\ breaker'[r] = Executed(breaker[r])
      BY <1>0, <1>2, <2>3 DEF StartRefresh
    <3> QED BY <2>2, <3>1 DEF BreakerMove
  <2>4. CASE r # Primary
    <3>1. breaker'[r] = breaker[r]
      BY <1>0, <1>2, <2>4 DEF StartRefresh
    <3> QED BY <2>2, <3>1 DEF BreakerMove
  <2> QED BY <2>3, <2>4
<1>3. CASE RefreshListed
  <2>1. /\ checking' = checking /\ transport' = transport
        /\ call[q].phase = "sent" /\ call' = [call EXCEPT ![q] = Idle]
    BY <1>3 DEF RefreshListed, Answered
  <2>2. CASE call[q].replica = r
    <3>1. Joins(<<q, 0>>, InForward(r)', InForward(r))
      <4>1. q \in Sent(r) /\ Sent(r)' = Sent(r) \ {q}
        BY <1>0, <2>1, <2>2 DEF Sent
      <4>2. ChecksSent(r)' = ChecksSent(r)
        BY <2>1 DEF ChecksSent
      <4> QED BY <1>0, <4>1, <4>2, TaggedMoves DEF InForward
    <3>2. breaker'[r] = Succeeded(breaker[r])
      BY <1>0, <1>3, <2>2 DEF RefreshListed, Answered
    <3> QED BY <1>0, <3>1, <3>2 DEF BreakerMove
  <2>3. CASE call[q].replica # r
    <3>1. InForward(r)' = InForward(r)
      BY <1>0, <2>1, <2>3 DEF InForward, Sent, ChecksSent
    <3>2. breaker'[r] = breaker[r]
      BY <1>0, <1>3, <2>3 DEF RefreshListed, Answered
    <3> QED BY <3>1, <3>2 DEF BreakerMove
  <2> QED BY <2>2, <2>3
<1> QED BY <1>1, <1>2, <1>3

\* A health check moves the breaker of its replica, when forward() makes it.
LEMMA CheckMoves ==
    ASSUME RoutingInv, NEW s \in Replicas, NEW r \in Replicas,
           \/ CheckHttp(s) \/ CheckStdio(s) \/ CheckRefused(s)
           \/ CheckPassed(s) \/ CheckMissed(s)
    PROVE  BreakerMove(r)
<1> USE DEF config, MayForward
<1>0. /\ breaker \in [Replicas -> BreakerType] /\ checking \in [Replicas -> 0..MaxChecks]
      /\ Sent(r) \subseteq Callers /\ ChecksSent(r) \in 0..MaxChecks
  BY ForwardType DEF RoutingInv, TypeOK, Callers
<1>1. CASE CheckHttp(s)
  <2>1. InForward(r)' = InForward(r) /\ breaker'[r] = breaker[r]
    BY <1>1 DEF CheckHttp, InForward, Sent, ChecksSent
  <2> QED BY <2>1 DEF BreakerMove
<1>2. CASE CheckStdio(s)
  <2>1. /\ call' = call /\ transport' = transport /\ transport = "stdio"
        /\ checking' = [checking EXCEPT ![s] = checking[s] + 1]
        /\ checking[s] < MaxChecks
    BY <1>0, <1>2, RoutingAssumption DEF CheckStdio, MayCheck
  <2>2. CASE r = s
    <3>1. \E c : Joins(c, InForward(r), InForward(r)')
      <4>1. Sent(r)' = Sent(r)
        BY <2>1 DEF Sent
      <4>2. ChecksSent(r)' = ChecksSent(r) + 1 /\ ChecksSent(r) < MaxChecks
        BY <1>0, <2>1, <2>2, RoutingAssumption DEF ChecksSent
      <4> QED BY <1>0, <4>1, <4>2, TaggedMoves DEF InForward
    <3>2. CanExecute(breaker[r]) /\ breaker'[r] = Executed(breaker[r])
      BY <1>0, <1>2, <2>2 DEF CheckStdio
    <3> QED BY <3>1, <3>2 DEF BreakerMove
  <2>3. CASE r # s
    <3>1. InForward(r)' = InForward(r)
      BY <2>1, <2>3 DEF InForward, Sent, ChecksSent
    <3>2. breaker'[r] = breaker[r]
      BY <1>0, <1>2, <2>3 DEF CheckStdio
    <3> QED BY <3>1, <3>2 DEF BreakerMove
  <2> QED BY <2>2, <2>3
<1>3. CASE CheckRefused(s)
  <2>1. InForward(r)' = InForward(r)
    BY <1>3 DEF CheckRefused, InForward, Sent, ChecksSent
  <2>2. CASE r = s
    <3>1. ~CanExecute(breaker[r]) /\ breaker'[r] = Executed(breaker[r])
      BY <1>0, <1>3, <2>2 DEF CheckRefused
    <3> QED BY <2>1, <3>1 DEF BreakerMove
  <2>3. CASE r # s
    <3>1. breaker'[r] = breaker[r]
      BY <1>0, <1>3, <2>3 DEF CheckRefused
    <3> QED BY <2>1, <3>1 DEF BreakerMove
  <2> QED BY <2>2, <2>3
<1>4. CASE CheckPassed(s) \/ CheckMissed(s)
  <2>1. /\ call' = call /\ transport' = transport
        /\ checking' = [checking EXCEPT ![s] = checking[s] - 1] /\ checking[s] > 0
    BY <1>0, <1>4, RoutingAssumption DEF CheckPassed, CheckMissed
  <2>2. CASE r = s /\ transport = "stdio"
    <3>1. \E c : Joins(c, InForward(r)', InForward(r))
      <4>1. Sent(r)' = Sent(r)
        BY <2>1 DEF Sent
      <4>2. ChecksSent(r)' = ChecksSent(r) - 1 /\ ChecksSent(r) > 0
        BY <1>0, <2>1, <2>2 DEF ChecksSent
      <4> QED BY <1>0, <4>1, <4>2, TaggedMoves DEF InForward
    <3>2. breaker'[r] = Succeeded(breaker[r]) \/ breaker'[r] = Failed(breaker[r])
      BY <1>0, <1>4, <2>2 DEF CheckPassed, CheckMissed, Told
    <3> QED BY <3>1, <3>2 DEF BreakerMove
  <2>3. CASE ~(r = s /\ transport = "stdio")
    <3>1. InForward(r)' = InForward(r)
      BY <2>1, <2>3 DEF InForward, Sent, ChecksSent
    <3>2. breaker'[r] = breaker[r]
      BY <1>0, <1>4, <2>3 DEF CheckPassed, CheckMissed, Told
    <3> QED BY <3>1, <3>2 DEF BreakerMove
  <2> QED BY <2>2, <2>3
<1> QED BY <1>1, <1>2, <1>3, <1>4

\* Every step of the gateway is a step of each replica's contract.
LEMMA NextContracts ==
    ASSUME RoutingInv, [Next]_vars, NEW r \in Replicas
    PROVE  [Contract(r)!Next]_(Contract(r)!vars)
<1> SUFFICES BreakerMove(r)
  BY ContractStep DEF RoutingInv
<1>1. CASE \E q \in Requests : Select(q) \/ AnswerEarly(q) \/ Forward(q)
  BY <1>1, CallMoves DEF Callers
<1>2. CASE \E q \in Callers : Succeed(q) \/ Fail(q)
  BY <1>2, CallMoves
<1>3. CASE StartRefresh \/ RefreshListed
  BY <1>3, RefreshMoves
<1>4. CASE \E s \in Replicas : CheckHttp(s) \/ CheckStdio(s) \/ CheckRefused(s)
                               \/ CheckPassed(s) \/ CheckMissed(s)
  BY <1>4, CheckMoves
<1>5. ASSUME NEW R, AdminReset(R)
      PROVE  BreakerMove(r)
  <2>1. InForward(r)' = InForward(r)
    BY <1>5 DEF AdminReset, InForward, Sent, ChecksSent, config
  <2>2. breaker'[r] \in {breaker[r], NewBreaker}
    BY <1>5 DEF AdminReset, Reset
  <2> QED BY <2>1, <2>2 DEF BreakerMove
<1>6. CASE Tick
  <2>1. InForward(r)' = InForward(r) /\ breaker'[r] = Age(breaker[r])
    BY <1>6 DEF Tick, InForward, Sent, ChecksSent, config
  <2> QED BY <2>1 DEF BreakerMove
<1>7. CASE Calm \/ UNCHANGED vars
  BY <1>7, LeftAlone DEF Calm, vars, config
<1> QED BY <1>1, <1>2, <1>3, <1>4, <1>5, <1>6, <1>7 DEF Next

\* Requests, health checks and refreshes together use the breaker of every
\* replica as its contract demands: only a failure opens it, only a success of
\* a half-open one or the administrator closes it, and no call leaves an open
\* one that stays open.
THEOREM RoutingImplements == Spec => ImplementsContracts
<1>1. Init => \A r \in Replicas : Contract(r)!Init
  <2>1. ASSUME Init, NEW r \in Replicas
        PROVE  InForward(r) = {}
    <3>1. Sent(r) = {} /\ ChecksSent(r) = 0
      BY <2>1 DEF Init, Sent, ChecksSent, Idle
    <3> QED BY <3>1 DEF InForward, Tagged
  <2>2. ASSUME Init, NEW r \in Replicas
        PROVE  breaker[r].state = "closed"
    BY <2>2 DEF Init, NewBreaker
  <2> QED BY <2>1, <2>2 DEF Contract!Init
<1>2. RoutingInv /\ [Next]_vars =>
        \A r \in Replicas : [Contract(r)!Next]_(Contract(r)!vars)
  BY NextContracts
<1>3. RoutingInv => TypeOK
  BY DEF RoutingInv
<1> QED BY <1>1, <1>2, <1>3, RoutingInvariance, PTL DEF Spec, ImplementsContracts

----------------------------------------------------------------------------
(* Round-robin is a rotation.                                              *)

\* A remainder determines itself.
LEMMA Remainder ==
    ASSUME NEW c \in Nat, NEW n \in Nat \ {0}, NEW q \in Int, NEW r \in 0..n-1,
           c = n * q + r
    PROVE  c % n = r
OBVIOUS

\* The next number's remainder is the next one, around the circle.
LEMMA RemainderNext ==
    ASSUME NEW c \in Nat, NEW n \in Nat \ {0}
    PROVE  /\ c % n \in 0..n - 1
           /\ (c + 1) % n = IF c % n = n - 1 THEN 0 ELSE (c % n) + 1
<1> DEFINE q == c \div n
           r == c % n
<1>1. q \in Int /\ r \in 0..n - 1
  OBVIOUS
<1>2. c \in Int /\ c = n * q + r
  OBVIOUS
<1> HIDE DEF q, r
<1>3. CASE r = n - 1
  <2>1. c + 1 = n * (q + 1) + 0 /\ q + 1 \in Int /\ c + 1 \in Nat /\ 0 \in 0..n - 1
    BY <1>1, <1>2, <1>3
  <2>2. (c + 1) % n = 0
    BY <2>1, Remainder
  <2> QED BY <1>1, <1>3, <2>2 DEF r
<1>4. CASE r # n - 1
  <2>1. c + 1 = n * q + (r + 1) /\ c + 1 \in Nat /\ r + 1 \in 0..n - 1
    BY <1>1, <1>2, <1>4
  <2>2. (c + 1) % n = r + 1
    BY <1>1, <2>1, Remainder
  <2> QED BY <1>1, <1>4, <2>2 DEF r
<1> QED BY <1>3, <1>4

\* Keeping the counter modulo its period changes no turn.
LEMMA TurnAdvances ==
    ASSUME NEW c \in 0..CounterPeriod - 1, NEW n \in 1..NumReplicas
    PROVE  /\ c % n \in 0..n - 1
           /\ ((c + 1) % CounterPeriod) % n = IF c % n = n - 1 THEN 0 ELSE (c % n) + 1
<1>0. /\ CounterPeriod \in Nat \ {0} /\ n \in Nat \ {0} /\ c \in Nat
      /\ CounterPeriod % n = 0
  BY RoutingAssumption
<1>1. (c + 1) % n = IF c % n = n - 1 THEN 0 ELSE (c % n) + 1
  BY <1>0, RemainderNext
<1>2. CASE c + 1 < CounterPeriod
  <2>1. (c + 1) % CounterPeriod = c + 1
    <3>1. c + 1 = CounterPeriod * 0 + (c + 1) /\ c + 1 \in 0..CounterPeriod - 1
          /\ c + 1 \in Nat
      BY <1>0, <1>2
    <3> QED BY <1>0, <3>1, Remainder
  <2> QED BY <1>0, <1>1, <2>1, RemainderNext
<1>3. CASE c + 1 = CounterPeriod
  <2>1. (c + 1) % CounterPeriod = 0
    <3>1. c + 1 = CounterPeriod * 1 + 0 /\ 0 \in 0..CounterPeriod - 1 /\ c + 1 \in Nat
      BY <1>0, <1>3
    <3> QED BY <1>0, <3>1, Remainder
  <2>2. 0 % n = 0
    <3>1. 0 = n * 0 + 0 /\ 0 \in 0..n - 1
      BY <1>0
    <3> QED BY <1>0, <3>1, Remainder
  <2>3. (c + 1) % n = 0
    BY <1>0, <1>3
  <2> QED BY <1>0, <1>1, <2>1, <2>2, <2>3, RemainderNext
<1> QED BY <1>0, <1>2, <1>3

\* The position whose turn is next, and how many turns r has to wait.
Turn == counter % Cardinality(Routable)

Distance(r) ==
    IF Rank(Routable, r) >= Turn
    THEN Rank(Routable, r) - Turn
    ELSE Rank(Routable, r) + Cardinality(Routable) - Turn

\* Those that wait longer than r were selected since r last was.
RotationInv ==
    strategy = "round-robin" =>
        \A r, s \in Routable : Distance(s) > Distance(r) => s \in passed[r]

\* A replica waits less than a whole rotation.
LEMMA DistanceType ==
    ASSUME TypeOK, NEW r \in Routable
    PROVE  /\ Distance(r) \in 0..Cardinality(Routable) - 1
           /\ Rank(Routable, r) \in 0..Cardinality(Routable) - 1
           /\ Distance(r) = 0 <=> Rank(Routable, r) = Turn
<1>1. Routable \in SUBSET Replicas /\ Routable # {}
  BY DEF Routable, RoutableIn
<1>2. /\ Rank(Routable, r) \in Nat /\ Rank(Routable, r) < Cardinality(Routable)
      /\ Cardinality(Routable) \in Nat
  BY <1>1, ReplicasFinite, RankGrows
<1>3. Turn \in 0..Cardinality(Routable) - 1
  BY <1>1, TurnType DEF Turn
<1> QED BY <1>2, <1>3 DEF Distance

\* Steps that select nobody leave the rotation as it is, or end it.
LEMMA RotationKept ==
    ASSUME RotationInv, UNCHANGED <<strategy, counter>>, PassedKept
    PROVE  RotationInv'
<1>1. CASE Routable' = Routable
  <2>1. passed' = passed
    BY <1>1 DEF PassedKept, Routable
  <2>2. Turn' = Turn
    BY <1>1 DEF Turn
  <2>3. \A r : Distance(r)' = Distance(r)
    BY <1>1, <2>2 DEF Distance
  <2> QED BY <1>1, <2>1, <2>3 DEF RotationInv
<1>2. CASE Routable' # Routable
  <2>1. passed' = [r \in Replicas |-> Replicas]
    BY <1>2 DEF PassedKept, Routable
  <2>2. Routable' \subseteq Replicas
    BY DEF Routable, RoutableIn
  <2> QED BY <2>1, <2>2 DEF RotationInv
<1> QED BY <1>1, <1>2

\* A selection of round-robin is the replica whose turn it is: every other
\* one is a turn closer, and the selected one the farthest.
LEMMA SelectTurns ==
    ASSUME RoutingInv, NEW q \in Requests, Select(q), strategy = "round-robin"
    PROVE  /\ Selected \in Routable /\ Distance(Selected) = 0
           /\ \A r \in Routable \ {Selected} : Distance(r) > 0
           /\ \A r \in Routable :
                 Distance(r)' = IF r = Selected THEN Cardinality(Routable) - 1
                                ELSE Distance(r) - 1
<1> DEFINE n == Cardinality(Routable)
<1>0. TypeOK /\ Routable # {} /\ Routable \in SUBSET Replicas
  BY DEF RoutingInv, Select, Routable, RoutableIn
<1>1. Selected \in Routable /\ Rank(Routable, Selected) = Turn
  BY <1>0, SelectedRoutable DEF Turn
<1>2. Routable' = Routable
  BY DEF Select, Routable
<1>3. n \in 1..NumReplicas /\ counter \in 0..CounterPeriod - 1
  BY <1>0, TurnType DEF TypeOK
<1>4. Turn \in 0..n - 1 /\ Turn' = IF Turn = n - 1 THEN 0 ELSE Turn + 1
  <2>1. counter' = (counter + 1) % CounterPeriod
    BY DEF Select, CounterAdvanced
  <2>2. Turn' = counter' % n
    BY <1>2 DEF Turn
  <2> HIDE DEF n
  <2>3. Turn = counter % n
    BY DEF Turn, n
  <2> QED BY <1>3, <2>1, <2>2, <2>3, TurnAdvances
<1>5. \A r \in Routable : Rank(Routable, r) = Turn => r = Selected
  BY <1>0, <1>1, RankInjective
<1>6. \A r \in Routable : Distance(r) = 0 <=> r = Selected
  BY <1>0, <1>1, <1>5, DistanceType
<1>7. \A r \in Routable : Distance(r) \in 0..n - 1 /\ Rank(Routable, r) \in 0..n - 1
  BY <1>0, DistanceType
<1>8. ASSUME NEW r \in Routable
      PROVE  Distance(r)' = IF r = Selected THEN n - 1 ELSE Distance(r) - 1
  <2>1. Distance(r)' = IF Rank(Routable, r) >= Turn' THEN Rank(Routable, r) - Turn'
                       ELSE Rank(Routable, r) + n - Turn'
    BY <1>2 DEF Distance
  <2>2. Distance(r) = IF Rank(Routable, r) >= Turn THEN Rank(Routable, r) - Turn
                      ELSE Rank(Routable, r) + n - Turn
    BY DEF Distance
  <2>3. r = Selected <=> Rank(Routable, r) = Turn
    BY <1>1, <1>5
  <2>4. Rank(Routable, r) \in 0..n - 1
    BY <1>7
  <2> HIDE DEF n
  <2> QED BY <1>3, <1>4, <2>1, <2>2, <2>3, <2>4
<1>9. \A r \in Routable \ {Selected} : Distance(r) > 0
  BY <1>6, <1>7
<1> QED BY <1>1, <1>6, <1>8, <1>9

\* Everybody else was selected since the replica whose turn it is last was.
LEMMA SelectFresh ==
    ASSUME RoutingInv, RotationInv, NEW q \in Requests, Select(q),
           strategy = "round-robin"
    PROVE  Routable \ {Selected} \subseteq passed[Selected]
<1>1. Selected \in Routable /\ \A s \in Routable \ {Selected} : Distance(s) > Distance(Selected)
  BY SelectTurns
<1> QED BY <1>1 DEF RotationInv

\* A selection brings the others a turn closer, in the same order.
LEMMA RotationSelect ==
    ASSUME RoutingInv, RotationInv, NEW q \in Requests, Select(q)
    PROVE  RotationInv'
<1>0. /\ TypeOK /\ Routable # {} /\ Routable' = Routable
      /\ strategy' = strategy /\ passed' = PassedAfter(Selected)
      /\ Routable \subseteq Replicas
  BY DEF RoutingInv, Select, Routable, RoutableIn, config
<1>1. ASSUME strategy = "round-robin", NEW r \in Routable, NEW s \in Routable,
             Distance(s)' > Distance(r)'
      PROVE  s \in passed'[r]
  <2>1. \A x \in Routable : Distance(x) \in 0..Cardinality(Routable) - 1
    BY <1>0, DistanceType
  <2>2. r # Selected
    <3> SUFFICES ASSUME r = Selected PROVE FALSE
      OBVIOUS
    <3>1. Distance(r)' = Cardinality(Routable) - 1
      BY <1>1, SelectTurns
    <3>2. Distance(s)' = IF s = Selected THEN Cardinality(Routable) - 1
                         ELSE Distance(s) - 1
      BY <1>1, SelectTurns
    <3>3. Cardinality(Routable) \in Int /\ Distance(s) \in 0..Cardinality(Routable) - 1
      BY <1>0, <2>1, TurnType
    <3> QED BY <1>1, <3>1, <3>2, <3>3
  <2>3. passed'[r] = passed[r] \union {Selected}
    BY <1>0, <2>2 DEF PassedAfter
  <2>4. CASE s = Selected
    BY <2>3, <2>4
  <2>5. CASE s # Selected
    <3>1. Distance(s)' = Distance(s) - 1 /\ Distance(r)' = Distance(r) - 1
      BY <1>1, <2>2, <2>5, SelectTurns
    <3>2. Distance(s) \in Int /\ Distance(r) \in Int
      BY <2>1
    <3>3. Distance(s) > Distance(r)
      BY <1>1, <3>1, <3>2
    <3> QED BY <1>1, <2>3, <3>3 DEF RotationInv
  <2> QED BY <2>4, <2>5
<1> QED BY <1>0, <1>1 DEF RotationInv

\* Every step keeps the rotation in order.
LEMMA RotationNext == RoutingInv /\ RotationInv /\ [Next]_vars => RotationInv'
<1> SUFFICES ASSUME RoutingInv, RotationInv, [Next]_vars PROVE RotationInv'
  OBVIOUS
<1> USE DEF config
<1>1. ASSUME NEW q \in Requests, Select(q) PROVE RotationInv'
  BY <1>1, RotationSelect
<1>2. ASSUME UNCHANGED <<strategy, counter, passed, health>>,
             \A r \in Replicas : IsOpen(breaker'[r]) <=> IsOpen(breaker[r])
      PROVE  RotationInv'
  <2>1. RoutableIn(health', breaker') = RoutableIn(health, breaker)
    BY <1>2 DEF RoutableIn
  <2>2. PassedKept
    BY <1>2, <2>1 DEF PassedKept, Routable
  <2> QED BY <1>2, <2>2, RotationKept
<1>3. ASSUME NEW q \in Requests, AnswerEarly(q) \/ Forward(q) PROVE RotationInv'
  BY <1>2, <1>3, RotationKept DEF AnswerEarly, Forward
<1>4. ASSUME NEW q \in Callers, Succeed(q) \/ Fail(q) PROVE RotationInv'
  BY <1>4, RotationKept DEF Succeed, Fail
<1>5. CASE StartRefresh \/ RefreshListed
  BY <1>5, RotationKept DEF StartRefresh, RefreshListed
<1>6. ASSUME NEW r \in Replicas,
             \/ CheckHttp(r) \/ CheckStdio(r) \/ CheckRefused(r)
             \/ CheckPassed(r) \/ CheckMissed(r)
      PROVE  RotationInv'
  <2>1. CASE CheckHttp(r)
    BY <1>2, <2>1 DEF CheckHttp
  <2>2. CASE CheckStdio(r) \/ CheckRefused(r)
    BY <2>2, RotationKept DEF CheckStdio, CheckRefused
  <2>3. CASE CheckPassed(r) \/ CheckMissed(r)
    BY <2>3, RotationKept DEF CheckPassed, CheckMissed
  <2> QED BY <1>6, <2>1, <2>2, <2>3
<1>7. ASSUME NEW R, AdminReset(R) PROVE RotationInv'
  BY <1>7, RotationKept DEF AdminReset
<1>8. CASE Tick
  <2>1. \A r \in Replicas : breaker'[r] = Age(breaker[r])
    BY <1>8 DEF Tick
  <2>2. \A r \in Replicas : IsOpen(breaker'[r]) <=> IsOpen(breaker[r])
    BY <2>1, AgeSound DEF RoutingInv, Breakers, IsOpen
  <2> QED BY <1>2, <1>8, <2>2 DEF Tick
<1>9. CASE Calm \/ UNCHANGED vars
  BY <1>2, <1>9 DEF Calm, vars
<1> QED BY <1>1, <1>3, <1>4, <1>5, <1>6, <1>7, <1>8, <1>9 DEF Next

\* Only a selection takes a call out of the idle state into the selected one.
LEMMA SelectsOnly ==
    ASSUME RoutingInv, [Next]_vars, NEW q \in Requests,
           call[q].phase = "idle", call'[q].phase = "selected"
    PROVE  Select(q)
<1> USE DEF CallType, Idle
<1>0. /\ call \in [Callers -> CallType] /\ q \in Callers /\ q # "refresh"
  BY RoutingAssumption DEF RoutingInv, TypeOK, Callers
<1>1. ASSUME NEW p \in Requests, Select(p) \/ AnswerEarly(p) \/ Forward(p)
      PROVE  Select(q)
  BY <1>0, <1>1 DEF Select, AnswerEarly, Forward, Callers
<1>2. ASSUME NEW p \in Callers, Succeed(p) \/ Fail(p)
      PROVE  FALSE
  BY <1>0, <1>2 DEF Succeed, Fail, Answered
<1>3. CASE StartRefresh \/ RefreshListed
  BY <1>0, <1>3 DEF StartRefresh, RefreshListed, Answered, Callers
<1>4. ASSUME NEW p \in Replicas,
             \/ CheckHttp(p) \/ CheckStdio(p) \/ CheckRefused(p)
             \/ CheckPassed(p) \/ CheckMissed(p)
      PROVE  FALSE
  BY <1>4 DEF CheckHttp, CheckStdio, CheckRefused, CheckPassed, CheckMissed
<1>5. ASSUME NEW R, AdminReset(R) PROVE FALSE
  BY <1>5 DEF AdminReset
<1>6. CASE Tick \/ Calm \/ UNCHANGED vars
  BY <1>6 DEF Tick, Calm, vars
<1> QED BY <1>1, <1>2, <1>3, <1>4, <1>5, <1>6 DEF Next

\* Between two selections of a replica round-robin selects every other routable
\* one, as long as the routable set stays the same, however calls overtake
\* each other between selection and forwarding.
THEOREM RotationIsFair == Spec => RotationFair
<1> DEFINE Fresh ==
      \A q \in Requests :
          /\ strategy = "round-robin"
          /\ call[q].phase = "idle" /\ call'[q].phase = "selected"
          => Routable \ {call'[q].replica} \subseteq passed[call'[q].replica]
<1>1. Init => RotationInv
  BY DEF Init, RotationInv, Routable, RoutableIn
<1>2. ASSUME RoutingInv, RotationInv, [Next]_vars, NEW q \in Requests,
             strategy = "round-robin",
             call[q].phase = "idle", call'[q].phase = "selected"
      PROVE  Routable \ {call'[q].replica} \subseteq passed[call'[q].replica]
  <2>1. Select(q)
    BY <1>2, SelectsOnly
  <2>2. call'[q].replica = Selected
    <3>1. call \in [Callers -> CallType] /\ q \in Callers
      BY <1>2 DEF RoutingInv, TypeOK, Callers
    <3> QED BY <2>1, <3>1 DEF Select
  <2> QED BY <1>2, <2>1, <2>2, SelectFresh
<1>3. RoutingInv /\ RotationInv /\ [Next]_vars => [Fresh]_vars
  BY <1>2
<1> QED BY <1>1, <1>3, RotationNext, RoutingInvariance, PTL DEF Spec, RotationFair
=============================================================================
