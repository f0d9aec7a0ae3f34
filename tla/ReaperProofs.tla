---------------------------- MODULE ReaperProofs ----------------------------
(***************************************************************************)
(* Theorems about Reaper, for any finite set of instances and any number   *)
(* of messages and faults.                                                 *)
(***************************************************************************)
EXTENDS Reaper, FiniteSetTheorems, SequenceTheorems, TLAPS

-----------------------------------------------------------------------------
(* Type correctness                                                        *)

LEMMA TypeInit == Init => TypeOK
<1>1. <<>> \in Seq({Initiate})
  BY EmptySeq
<1>2. /\ [w \in Workers |-> "asleep"] \in [Workers -> ScanSteps]
      /\ [w \in Workers |-> "popping"] \in [Workers -> ReceiverSteps]
  BY DEF ScanSteps, ReceiverSteps
<1>3. Init => ready \in Nat /\ repeats \in Nat /\ faults \in Nat
  BY DEF Init
<1>4. Init => reaperLock \in BOOLEAN /\ shutdownLock \in BOOLEAN /\ overrun \in BOOLEAN
  BY DEF Init
<1> QED
  BY <1>1, <1>2, <1>3, <1>4 DEF Init, TypeOK

\* A pass over the idle conversations keeps the types.
LEMMA TypeScan == ASSUME TypeOK, NEW w \in Workers, Scan(w) PROVE TypeOK'
<1> USE DEF TypeOK, scanVars, ScanStep, ScanSteps
<1>1. CASE FindIdle(w)
  BY <1>1 DEF FindIdle
<1>2. CASE CheckShutdownLock(w)
  BY <1>2 DEF CheckShutdownLock
<1>3. CASE AcquireReaperLock(w)
  BY <1>3 DEF AcquireReaperLock
<1>4. CASE PushShutdown(w)
  <2>1. queue' \in Seq({Initiate})
    BY <1>4, AppendProperties DEF PushShutdown
  <2>2. repeats' \in Nat
    BY <1>4 DEF PushShutdown
  <2> QED
    BY <1>4, <2>1, <2>2 DEF PushShutdown
<1>5. CASE SetShutdownLock(w)
  BY <1>5 DEF SetShutdownLock
<1> QED
  BY <1>1, <1>2, <1>3, <1>4, <1>5 DEF Scan

\* So does the receiver of shutdown_ready.
LEMMA TypeReceive == ASSUME TypeOK, NEW w \in Workers, Receive(w) PROVE TypeOK'
<1> USE DEF TypeOK, scanVars, ReceiverStep, ReceiverSteps
<1>1. CASE PopReady(w)
  <2>1. ready' \in Nat
    BY <1>1 DEF PopReady
  <2> QED
    BY <1>1, <2>1 DEF PopReady
<1>2. CASE TeardownResolves(w)
  BY <1>2 DEF TeardownResolves
<1>3. CASE TeardownRejects(w)
  BY <1>3 DEF TeardownRejects
<1>4. CASE RemoveHeartbeat(w)
  BY <1>4 DEF RemoveHeartbeat
<1> QED
  BY <1>1, <1>2, <1>3, <1>4 DEF Receive

\* And so do failing instances.
LEMMA TypeFailures == ASSUME TypeOK, NEW w \in Workers, Failures(w) PROVE TypeOK'
<1> USE DEF TypeOK, scanVars, ReceiverStep, ReceiverSteps, ScanSteps, Fault
<1>1. CASE PassFails(w)
  BY <1>1 DEF PassFails
<1>2. CASE RemovalFails(w)
  BY <1>2 DEF RemovalFails
<1>3. CASE Restart(w)
  BY <1>3 DEF Restart
<1> QED
  BY <1>1, <1>2, <1>3 DEF Failures

\* The clock, the backend and the agent.
Surroundings ==
  \/ ReaperLockExpires \/ ShutdownLockExpires
  \/ Heartbeat \/ HeartbeatExpires \/ AgentPops \/ AgentAnnounces

LEMMA TypeSurroundings == TypeOK /\ Surroundings => TypeOK'
<1> SUFFICES ASSUME TypeOK, Surroundings PROVE TypeOK'
  OBVIOUS
<1> USE DEF TypeOK, scanVars
<1>1. CASE ReaperLockExpires
  BY <1>1 DEF ReaperLockExpires
<1>2. CASE ShutdownLockExpires
  BY <1>2 DEF ShutdownLockExpires
<1>3. CASE Heartbeat
  BY <1>3 DEF Heartbeat
<1>4. CASE HeartbeatExpires
  BY <1>4 DEF HeartbeatExpires
<1>5. CASE AgentPops
  BY <1>5, HeadTailProperties DEF AgentPops
<1>6. CASE AgentAnnounces
  BY <1>6 DEF AgentAnnounces
<1> QED
  BY <1>1, <1>2, <1>3, <1>4, <1>5, <1>6 DEF Surroundings

LEMMA TypeStep == TypeOK /\ [Next]_vars => TypeOK'
<1> SUFFICES ASSUME TypeOK, [Next]_vars PROVE TypeOK'
  OBVIOUS
<1>1. CASE Next
  BY <1>1, TypeScan, TypeReceive, TypeFailures, TypeSurroundings
     DEF Next, Surroundings
<1>2. CASE UNCHANGED vars
  BY <1>2 DEF vars, scanVars, TypeOK
<1> QED
  BY <1>1, <1>2

\* Every variable of the lifecycle workers keeps its type.
THEOREM TypeCorrect == Spec => []TypeOK
BY TypeInit, TypeStep, PTL DEF Spec

-----------------------------------------------------------------------------
(* One leader                                                              *)

\* Until a reaper lock expires under a leader at work, there is one leader at
\* most and the lock is still its own.
Election ==
  ~overrun => /\ \A v, w \in Leaders : v = w
              /\ Leaders # {} => reaperLock

LEMMA ElectionStep == TypeOK /\ Election /\ [Next]_vars => Election'
<1> SUFFICES ASSUME TypeOK, Election, [Next]_vars PROVE Election'
  OBVIOUS
<1> USE DEF Election, Leaders, TypeOK
<1>1. ASSUME NEW w \in Workers, Scan(w) PROVE Election'
  <2> USE DEF ScanStep
  <2>1. CASE FindIdle(w)
    BY <2>1 DEF FindIdle
  <2>2. CASE CheckShutdownLock(w)
    BY <2>2 DEF CheckShutdownLock
  <2>3. CASE AcquireReaperLock(w)
    BY <2>3 DEF AcquireReaperLock
  <2>4. CASE PushShutdown(w)
    BY <2>4 DEF PushShutdown
  <2>5. CASE SetShutdownLock(w)
    BY <2>5 DEF SetShutdownLock
  <2> QED
    BY <1>1, <2>1, <2>2, <2>3, <2>4, <2>5 DEF Scan
<1>2. ASSUME NEW w \in Workers, Receive(w) PROVE Election'
  BY <1>2 DEF Receive, PopReady, TeardownResolves, TeardownRejects,
              RemoveHeartbeat, scanVars
<1>3. ASSUME NEW w \in Workers, Failures(w) PROVE Election'
  BY <1>3 DEF Failures, PassFails, RemovalFails, Restart, scanVars
<1>4. CASE ReaperLockExpires
  BY <1>4 DEF ReaperLockExpires
<1>5. CASE ShutdownLockExpires
  BY <1>5 DEF ShutdownLockExpires
<1>6. CASE Heartbeat \/ HeartbeatExpires \/ AgentPops \/ AgentAnnounces
  BY <1>6 DEF Heartbeat, HeartbeatExpires, AgentPops, AgentAnnounces, scanVars
<1>7. CASE UNCHANGED vars
  BY <1>7 DEF vars, scanVars
<1> QED
  BY <1>1, <1>2, <1>3, <1>4, <1>5, <1>6, <1>7 DEF Next

\* A set whose members are all equal has at most one.
LEMMA AtMostOne ==
  ASSUME NEW S, \A x, y \in S : x = y
  PROVE  IsFiniteSet(S) /\ Cardinality(S) <= 1
<1>1. CASE S = {}
  BY <1>1, FS_EmptySet
<1>2. CASE S # {}
  <2> PICK x \in S : TRUE
    BY <1>2
  <2>1. S = {x}
    OBVIOUS
  <2>2. IsFiniteSet({x}) /\ Cardinality({x}) = 1
    BY FS_Singleton
  <2> QED
    BY <2>1, <2>2
<1> QED
  BY <1>1, <1>2

\* Leader election: no two instances are between winning the reaper lock and
\* setting the shutdown lock, unless a lock expired under a stalled leader.
THEOREM LeaderElection == Spec => []OneLeader
<1>1. Init => Election
  BY DEF Init, Election, Leaders
<1>2. Election => OneLeader
  BY AtMostOne DEF Election, OneLeader
<1> QED
  BY <1>1, <1>2, TypeInit, TypeStep, ElectionStep, PTL DEF Spec

-----------------------------------------------------------------------------
(* Bounded repeats                                                         *)

\* Instances that have passed the check of the shutdown lock and may push yet.
Late == {w \in Workers : scan[w] \in {"electing", "pushing"}}

\* Under a shutdown lock nobody becomes late any more, and a push ends one's
\* being late; the instance that set the lock is none of them.
Idempotence ==
  /\ ~shutdownLock => repeats = 0
  /\ shutdownLock => repeats + Cardinality(Late) < Cardinality(Workers)

LEMMA Finiteness ==
  /\ IsFiniteSet(Late) /\ Cardinality(Late) \in Nat
  /\ IsFiniteSet(Workers) /\ Cardinality(Workers) \in Nat
BY ReaperAssumption, FS_Subset, FS_CardinalityType DEF Late

\* Where fewer instances are late, the bound is kept.
LEMMA FewerLate ==
  ASSUME TypeOK, Idempotence, Late' \subseteq Late,
         UNCHANGED <<shutdownLock, repeats>>
  PROVE  Idempotence'
<1>1. Cardinality(Late') <= Cardinality(Late) /\ Cardinality(Late') \in Nat
  BY Finiteness, FS_Subset, FS_CardinalityType
<1> QED
  BY <1>1, Finiteness DEF Idempotence, TypeOK

LEMMA IdempotenceStep == TypeOK /\ Idempotence /\ [Next]_vars => Idempotence'
<1> SUFFICES ASSUME TypeOK, Idempotence, [Next]_vars PROVE Idempotence'
  OBVIOUS
<1>1. ASSUME NEW w \in Workers, Scan(w) PROVE Idempotence'
  <2> USE DEF ScanStep, TypeOK
  <2>1. CASE FindIdle(w)
    <3>1. Late' \subseteq Late
      BY <2>1 DEF FindIdle, Late
    <3> QED
      BY <2>1, <3>1, FewerLate DEF FindIdle
  <2>2. CASE CheckShutdownLock(w)
    <3>1. CASE shutdownLock
      <4>1. Late' \subseteq Late
        BY <2>2, <3>1 DEF CheckShutdownLock, Late
      <4> QED
        BY <2>2, <4>1, FewerLate DEF CheckShutdownLock
    <3>2. CASE ~shutdownLock
      BY <2>2, <3>2 DEF CheckShutdownLock, Idempotence
    <3> QED
      BY <3>1, <3>2
  <2>3. CASE AcquireReaperLock(w)
    <3>1. Late' \subseteq Late
      BY <2>3 DEF AcquireReaperLock, Late
    <3> QED
      BY <2>3, <3>1, FewerLate DEF AcquireReaperLock
  <2>4. CASE PushShutdown(w)
    <3>1. w \in Late /\ Late' = Late \ {w}
      BY <2>4 DEF PushShutdown, Late
    <3>2. Cardinality(Late') = Cardinality(Late) - 1 /\ Cardinality(Late') \in Nat
      BY <3>1, Finiteness, FS_RemoveElement, FS_CardinalityType
    <3> QED
      BY <2>4, <3>2, Finiteness DEF PushShutdown, Idempotence
  <2>5. CASE SetShutdownLock(w)
    <3>1. Late' = Late /\ Late \subseteq Workers \ {w}
      BY <2>5 DEF SetShutdownLock, Late
    <3>2. Cardinality(Late) < Cardinality(Workers)
      <4>1. /\ IsFiniteSet(Workers \ {w})
            /\ Cardinality(Workers \ {w}) = Cardinality(Workers) - 1
        BY Finiteness, FS_RemoveElement
      <4>2. Cardinality(Late) <= Cardinality(Workers \ {w})
        BY <3>1, <4>1, FS_Subset
      <4> QED
        BY <4>1, <4>2, Finiteness
    <3> QED
      BY <2>5, <3>1, <3>2, Finiteness DEF SetShutdownLock, Idempotence
  <2> QED
    BY <1>1, <2>1, <2>2, <2>3, <2>4, <2>5 DEF Scan
<1>2. ASSUME NEW w \in Workers, Receive(w) PROVE Idempotence'
  BY <1>2 DEF Receive, PopReady, TeardownResolves, TeardownRejects,
              RemoveHeartbeat, scanVars, Idempotence, Late
<1>3. ASSUME NEW w \in Workers, Failures(w) PROVE Idempotence'
  <2>1. Late' \subseteq Late /\ UNCHANGED <<shutdownLock, repeats>>
    BY <1>3 DEF Failures, PassFails, RemovalFails, Restart, scanVars, Late, TypeOK
  <2> QED
    BY <2>1, FewerLate
<1>4. CASE ReaperLockExpires
  BY <1>4 DEF ReaperLockExpires, Idempotence, Late
<1>5. CASE ShutdownLockExpires
  BY <1>5 DEF ShutdownLockExpires, Idempotence
<1>6. CASE Heartbeat \/ HeartbeatExpires \/ AgentPops \/ AgentAnnounces
  <2>1. UNCHANGED scanVars
    BY <1>6 DEF Heartbeat, HeartbeatExpires, AgentPops, AgentAnnounces
  <2>2. Late' \subseteq Late /\ UNCHANGED <<shutdownLock, repeats>>
    BY <2>1 DEF Late, scanVars
  <2> QED
    BY <2>2, FewerLate
<1>7. CASE UNCHANGED vars
  BY <1>7 DEF vars, scanVars, Idempotence, Late
<1> QED
  BY <1>1, <1>2, <1>3, <1>4, <1>5, <1>6, <1>7 DEF Next

\* While a shutdown lock is held, the conversation gets fewer further
\* initiate_shutdown messages than there are instances.
THEOREM ShutdownIdempotence == Spec => []RepeatsBounded
<1>1. Init => Idempotence
  BY DEF Init, Idempotence
<1>2. TypeOK /\ Idempotence => RepeatsBounded
  BY Finiteness DEF Idempotence, RepeatsBounded, TypeOK
<1> QED
  BY <1>1, <1>2, TypeInit, TypeStep, IdempotenceStep, PTL DEF Spec

=============================================================================
