------------------------------- MODULE Reaper -------------------------------
(***************************************************************************)
(* The conversation-lifecycle-worker, seen by one conversation: several    *)
(* instances that look for idle conversations in the heartbeat sorted set, *)
(* elect a leader with a short lock, push initiate_shutdown and set a      *)
(* longer lock; and, beside it in each instance, the loop that receives    *)
(* shutdown_ready, tears the infrastructure down and drops the heartbeat.  *)
(*                                                                         *)
(* The clock is abstracted: a heartbeat passes its score, and a key its    *)
(* TTL (30 s and 300 s), at any moment.  An instance may stall between two *)
(* awaits for longer than either.                                          *)
(***************************************************************************)
EXTENDS Naturals, Sequences, FiniteSets

CONSTANTS Workers,    \* instances of the lifecycle worker
          MaxQueue,   \* bound on the initiate_shutdown messages in its list
          MaxReady,   \* bound on the shutdown_ready messages
          MaxFaults   \* rejected Redis calls and instance crashes

ASSUME ReaperAssumption ==
  /\ IsFiniteSet(Workers) /\ Workers # {}
  /\ MaxQueue \in Nat /\ MaxReady \in Nat /\ MaxFaults \in Nat

VARIABLES
  heartbeat,     \* entry in the sorted set: "none", "fresh" or "expired"
  reaperLock,    \* key lifecycle:reaper-lock:<id> exists
  shutdownLock,  \* key shutdown:<id> exists
  scan,          \* where each instance's startLifecycleWorker pass is
  receiver,        \* where each instance's listenShutdownReadyMessages is
  queue,         \* the agent's job list (module AgentWorker)
  ready,         \* shutdown_ready messages in lifecycle worker's list
  repeats,       \* history: pushes made while the present shutdown lock held
  overrun,       \* history: a reaper lock expired under a leader at work
  faults

scanVars == <<reaperLock, shutdownLock, scan, repeats, overrun>>
vars == <<heartbeat, scanVars, receiver, queue, ready, faults>>

Initiate == [type |-> "initiate_shutdown", id |-> 0]

ScanSteps   == {"asleep", "checking", "electing", "pushing", "locking"}
ReceiverSteps == {"popping", "tearing", "removing"}

TypeOK ==
  /\ heartbeat \in {"none", "fresh", "expired"}
  /\ reaperLock \in BOOLEAN /\ shutdownLock \in BOOLEAN
  /\ scan \in [Workers -> ScanSteps]
  /\ receiver \in [Workers -> ReceiverSteps]
  /\ queue \in Seq({Initiate})
  /\ ready \in Nat
  /\ repeats \in Nat
  /\ overrun \in BOOLEAN
  /\ faults \in Nat

Init ==
  /\ heartbeat = "none"
  /\ reaperLock = FALSE /\ shutdownLock = FALSE
  /\ scan = [w \in Workers |-> "asleep"]
  /\ receiver = [w \in Workers |-> "popping"]
  /\ queue = <<>>
  /\ ready = 0
  /\ repeats = 0
  /\ overrun = FALSE
  /\ faults = 0

Leaders == {w \in Workers : scan[w] \in {"pushing", "locking"}}

ScanStep(w, from, to) ==
  /\ scan[w] = from
  /\ scan' = [scan EXCEPT ![w] = to]

-----------------------------------------------------------------------------
(* startLifecycleWorker, findIdleConversationIds, tryAcquireReaperLock,    *)
(* sendShutdownMessageToAgent                                              *)

FindIdle(w) ==
  /\ heartbeat = "expired"
  /\ ScanStep(w, "asleep", "checking")
  /\ UNCHANGED <<heartbeat, reaperLock, shutdownLock, repeats, overrun,
                 receiver, queue, ready, faults>>

\* Mutant of CheckShutdownLock: the existing shutdown lock is not consulted.
SkipShutdownLockCheck(w) ==
  /\ ScanStep(w, "checking", "electing")
  /\ UNCHANGED <<heartbeat, reaperLock, shutdownLock, repeats, overrun,
                 receiver, queue, ready, faults>>

CheckShutdownLock(w) ==
  /\ ScanStep(w, "checking", IF shutdownLock THEN "asleep" ELSE "electing")
  /\ UNCHANGED <<heartbeat, reaperLock, shutdownLock, repeats, overrun,
                 receiver, queue, ready, faults>>

\* Mutant of AcquireReaperLock: SET without NX.
AcquireReaperLockWithoutNX(w) ==
  /\ ScanStep(w, "electing", "pushing")
  /\ reaperLock' = TRUE
  /\ UNCHANGED <<heartbeat, shutdownLock, repeats, overrun, receiver, queue,
                 ready, faults>>

\* SET NX: the winner is the leader, the others go on with the next id.
AcquireReaperLock(w) ==
  /\ ScanStep(w, "electing", IF reaperLock THEN "asleep" ELSE "pushing")
  /\ reaperLock' = TRUE
  /\ UNCHANGED <<heartbeat, shutdownLock, repeats, overrun, receiver, queue,
                 ready, faults>>

PushShutdown(w) ==
  /\ ScanStep(w, "pushing", "locking")
  /\ Len(queue) < MaxQueue
  /\ queue' = Append(queue, Initiate)
  /\ repeats' = IF shutdownLock THEN repeats + 1 ELSE repeats
  /\ UNCHANGED <<heartbeat, reaperLock, shutdownLock, overrun, receiver,
                 ready, faults>>

\* SET NX: a lock that exists keeps its own expiry.
SetShutdownLock(w) ==
  /\ ScanStep(w, "locking", "asleep")
  /\ shutdownLock' = TRUE
  /\ UNCHANGED <<heartbeat, reaperLock, repeats, overrun, receiver, queue,
                 ready, faults>>

Scan(w) == \/ FindIdle(w) \/ CheckShutdownLock(w) \/ AcquireReaperLock(w)
           \/ PushShutdown(w) \/ SetShutdownLock(w)

\* Mutant of ReaperLockExpires: SET without EX.
ReaperLockNeverExpires ==
  /\ reaperLock /\ ~reaperLock
  /\ UNCHANGED vars

ReaperLockExpires ==
  /\ reaperLock
  /\ reaperLock' = FALSE
  /\ overrun' = (overrun \/ Leaders # {})
  /\ UNCHANGED <<heartbeat, shutdownLock, scan, repeats, receiver, queue,
                 ready, faults>>

ShutdownLockExpires ==
  /\ shutdownLock
  /\ shutdownLock' = FALSE
  /\ repeats' = 0
  /\ UNCHANGED <<heartbeat, reaperLock, scan, overrun, receiver, queue, ready,
                 faults>>

-----------------------------------------------------------------------------
(* listenShutdownReadyMessages                                             *)

ReceiverStep(w, from, to) ==
  /\ receiver[w] = from
  /\ receiver' = [receiver EXCEPT ![w] = to]

\* Mutant of PopReady: the pop does not wait for a message.
PopReadyWithoutWaiting(w) ==
  /\ ready' = ready - 1
  /\ ReceiverStep(w, "popping", "tearing")
  /\ UNCHANGED <<heartbeat, scanVars, queue, faults>>

PopReady(w) ==
  /\ ready > 0
  /\ ready' = ready - 1
  /\ ReceiverStep(w, "popping", "tearing")
  /\ UNCHANGED <<heartbeat, scanVars, queue, faults>>

TeardownResolves(w) ==
  /\ ReceiverStep(w, "tearing", "removing")
  /\ UNCHANGED <<heartbeat, scanVars, queue, ready, faults>>

\* The rejection is logged, the message is gone, the heartbeat stays.
TeardownRejects(w) ==
  /\ ReceiverStep(w, "tearing", "popping")
  /\ UNCHANGED <<heartbeat, scanVars, queue, ready, faults>>

\* zRem, whatever the entry has become meanwhile.
RemoveHeartbeat(w) ==
  /\ ReceiverStep(w, "removing", "popping")
  /\ heartbeat' = "none"
  /\ UNCHANGED <<scanVars, queue, ready, faults>>

Receive(w) == \/ PopReady(w) \/ TeardownResolves(w) \/ TeardownRejects(w)
             \/ RemoveHeartbeat(w)

-----------------------------------------------------------------------------
(* Failures of an instance                                                 *)

Fault == faults < MaxFaults /\ faults' = faults + 1

\* A rejected call ends the pass (catch, sleep) or the handling of a message.
PassFails(w) ==
  /\ Fault
  /\ scan[w] # "asleep"
  /\ scan' = [scan EXCEPT ![w] = "asleep"]
  /\ UNCHANGED <<heartbeat, reaperLock, shutdownLock, repeats, overrun,
                 receiver, queue, ready>>

RemovalFails(w) ==
  /\ Fault
  /\ ReceiverStep(w, "removing", "popping")
  /\ UNCHANGED <<heartbeat, scanVars, queue, ready>>

\* The process dies and is started again; both loops begin anew.
Restart(w) ==
  /\ Fault
  /\ scan' = [scan EXCEPT ![w] = "asleep"]
  /\ receiver' = [receiver EXCEPT ![w] = "popping"]
  /\ UNCHANGED <<heartbeat, reaperLock, shutdownLock, repeats, overrun, queue,
                 ready>>

Failures(w) == PassFails(w) \/ RemovalFails(w) \/ Restart(w)

-----------------------------------------------------------------------------
(* Environment: backend and agent                                          *)

\* recordHeartbeat: zAdd with a score two minutes ahead.
Heartbeat ==
  /\ heartbeat' = "fresh"
  /\ UNCHANGED <<scanVars, receiver, queue, ready, faults>>

HeartbeatExpires ==
  /\ heartbeat = "fresh"
  /\ heartbeat' = "expired"
  /\ UNCHANGED <<scanVars, receiver, queue, ready, faults>>

\* The agent pops an initiate_shutdown, and announces that it is ready.
AgentPops ==
  /\ queue # <<>>
  /\ queue' = Tail(queue)
  /\ UNCHANGED <<heartbeat, scanVars, receiver, ready, faults>>

AgentAnnounces ==
  /\ ready < MaxReady
  /\ ready' = ready + 1
  /\ UNCHANGED <<heartbeat, scanVars, receiver, queue, faults>>

Next ==
  \/ \E w \in Workers : Scan(w) \/ Receive(w) \/ Failures(w)
  \/ ReaperLockExpires \/ ShutdownLockExpires
  \/ Heartbeat \/ HeartbeatExpires \/ AgentPops \/ AgentAnnounces

\* Passes repeat every 30 seconds, keys expire; faults are finitely many.
Fairness ==
  /\ \A w \in Workers : WF_vars(Scan(w)) /\ WF_vars(Receive(w))
  /\ WF_vars(ReaperLockExpires)
  /\ WF_vars(ShutdownLockExpires)

Spec == Init /\ [][Next]_vars
FairSpec == Spec /\ Fairness

-----------------------------------------------------------------------------
(* Properties                                                              *)

\* Leader election: as long as no reaper lock has expired under a leader that
\* was still at work, at most one instance is between winning the lock and
\* setting the shutdown lock (tryAcquireReaperLock).
OneLeader == ~overrun => Cardinality(Leaders) <= 1

\* The idempotence the shutdown lock does give: while one is held, at most one
\* further initiate_shutdown per other instance is pushed, by an instance that
\* had passed the check before (sendShutdownMessageToAgent).
RepeatsBounded == shutdownLock => repeats < Cardinality(Workers)

\* "if it fails to initiate shutdown, the next leader would be able to pick it
\* up": whatever leader fails, an idle conversation gets its initiate_shutdown,
\* unless it is used again or torn down first.
IdleIsInitiated ==
  (heartbeat = "expired") ~> (heartbeat # "expired" \/ queue # <<>>)

=============================================================================
