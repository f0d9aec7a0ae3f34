----------------------------- MODULE Lifecycle -----------------------------
(***************************************************************************)
(* One conversation from its first message to the teardown of its idle     *)
(* infrastructure and back: the backend's message handler, the agent pod   *)
(* (AgentWorker, which this module extends), the lifecycle workers         *)
(* (Reaper) and the Kubernetes objects (Provisioning), joined through the  *)
(* Redis lists, the heartbeat entry, the pod and the volume they share.    *)
(*                                                                         *)
(* Every step is a step of one component, or a joint step of two, and the  *)
(* contracts at the end say that each component meets, in the others, the  *)
(* environment its own module assumes.                                     *)
(***************************************************************************)
EXTENDS AgentWorker, FiniteSets

CONSTANTS Workers,         \* instances of the lifecycle worker
          Objects,         \* objects created beside the claim
          MaxFaults,       \* of lifecycle workers
          MaxErrors,       \* of Kubernetes calls and their callers
          MaxDisturbances  \* crashes, failures, faults and errors in all

ASSUME LifecycleAssumption ==
  /\ IsFiniteSet(Workers) /\ Workers # {}
  /\ "deployment" \in Objects /\ "pvc" \notin Objects
  /\ (1..MaxTexts) \intersect Workers = {}
  /\ MaxFaults \in Nat /\ MaxErrors \in Nat
  /\ MaxDisturbances \in Nat

VARIABLES
  request,   \* per prompt, where its handleMessage is
  heartbeat, reaperLock, shutdownLock, scan, receiver, repeats, overrun, faults,
  pvc, objects, doomed, claiming, creating, deleting, outcome, disturbed, calls, errors

Messages == 1..MaxTexts

\* A prompt's handler makes one ensure call, an instance one teardown at a time.
MaxCalls == MaxTexts + MaxShutdowns

\* Room in the agent's list for every message that is ever sent to it.
MaxMessages == MaxTexts + MaxTexts + MaxFileRequests + MaxShutdowns

R == INSTANCE Reaper WITH MaxQueue <- MaxMessages, MaxReady <- MaxShutdowns
P == INSTANCE Provisioning WITH Ensures <- Messages, Teardowns <- Workers

agent   == <<reply, listening, chain, active, comms, reading, archive, latest,
             started, lost, asked, answers, served, sent>>
reaper  == <<heartbeat, reaperLock, shutdownLock, scan, receiver, repeats,
             overrun, faults>>
kube    == <<pvc, objects, doomed, claiming, creating, deleting, outcome,
             disturbed, calls, errors>>
lists   == <<queue, ready>>
allVars == <<request, lists, pod, workspace, agent, reaper, kube>>

LifecycleInit ==
  /\ request = [m \in Messages |-> "unsent"]
  /\ Init
  /\ heartbeat = "none"
  /\ reaperLock = FALSE /\ shutdownLock = FALSE
  /\ scan = [w \in Workers |-> "asleep"]
  /\ receiver = [w \in Workers |-> "popping"]
  /\ repeats = 0 /\ overrun = FALSE /\ faults = 0
  /\ P!Init

-----------------------------------------------------------------------------
(* Backend: ConversationService.handleMessage and its neighbours           *)

Handle(m, from, to) ==
  /\ request[m] = from
  /\ request' = [request EXCEPT ![m] = to]

\* saveConversation, or saveMessage once the first answer has given the browser
\* the conversation's id.
SaveMessage(m) ==
  /\ m = 1 \/ request[1] = "answered"
  /\ Handle(m, "unsent", "saved")
  /\ UNCHANGED <<lists, pod, workspace, agent, reaper, kube>>

PushText(m) ==
  /\ Handle(m, "saved", "queued")
  /\ UserSendsText
  /\ UNCHANGED <<reaper, kube>>

\* Mutant of AnswerRequest: the claim is left to the other calls.
AnswerRequestSkipsClaim(m) ==
  /\ Handle(m, "queued", "answered")
  /\ creating' = [creating EXCEPT ![m] = Objects]
  /\ outcome' = [outcome EXCEPT ![m] = "running"]
  /\ calls' = calls + 1
  /\ UNCHANGED <<lists, pod, workspace, agent, reaper, pvc, objects, doomed,
                 claiming, deleting, disturbed, errors>>

\* ensureInfrastructure is begun, not awaited, and the request is answered.
AnswerRequest(m) ==
  /\ Handle(m, "queued", "answered")
  /\ P!BeginEnsure(m)
  /\ UNCHANGED <<lists, workspace, agent, reaper>>

\* The backend dies between the push and the ensure call.
BackendDies(m) ==
  /\ MaxErrors > 0
  /\ Handle(m, "queued", "answered")
  /\ UNCHANGED <<lists, pod, workspace, agent, reaper, kube>>

\* recordHeartbeat, from the browser's interval or from handleMessage; it needs
\* a saved conversation.
RecordHeartbeat ==
  /\ request[1] # "unsent"
  /\ R!Heartbeat
  /\ UNCHANGED <<request, pod, workspace, agent, kube>>

OtherRequests ==
  /\ \/ \E q \in asked : UserAnswers(q)
     \/ request[1] = "answered" /\ UserBrowsesFiles
  /\ UNCHANGED <<request, reaper, kube>>

-----------------------------------------------------------------------------
(* Agent pod                                                               *)

AgentStep ==
  /\ FinishBoot \/ Loop \/ Work
  /\ UNCHANGED <<request, reaper, kube>>

\* The archive of a volume without a project; not obliged to come to an end.
ArchivingFails ==
  /\ NoProject
  /\ UNCHANGED <<request, reaper, kube>>

AgentCrashes ==
  /\ Crash
  /\ UNCHANGED <<request, reaper, kube>>

-----------------------------------------------------------------------------
(* Lifecycle workers                                                       *)

ScanStep(w) ==
  /\ \/ R!FindIdle(w) \/ R!CheckShutdownLock(w) \/ R!AcquireReaperLock(w)
     \/ R!SetShutdownLock(w)
  /\ UNCHANGED <<request, pod, workspace, agent, kube>>

ScanFails(w) ==
  /\ R!PassFails(w)
  /\ UNCHANGED <<request, pod, workspace, agent, kube>>

PushShutdown(w) ==
  /\ R!PushShutdown(w)
  /\ ReaperInitiatesShutdown
  /\ UNCHANGED <<request, kube>>

ClockStep ==
  /\ R!ReaperLockExpires \/ R!ShutdownLockExpires \/ R!HeartbeatExpires
  /\ UNCHANGED <<request, pod, workspace, agent, kube>>

ReceiveReady(w) ==
  /\ R!PopReady(w)
  /\ P!BeginTeardown(w)
  /\ UNCHANGED <<request, workspace, agent>>

EndTeardown(w) ==
  /\ \/ outcome[w] = "resolved" /\ R!TeardownResolves(w)
     \/ outcome[w] = "rejected" /\ R!TeardownRejects(w)
  /\ UNCHANGED <<request, pod, workspace, agent, kube>>

RemoveHeartbeat(w) ==
  /\ R!RemoveHeartbeat(w) \/ R!RemovalFails(w)
  /\ UNCHANGED <<request, pod, workspace, agent, kube>>

WorkerDies(w) ==
  /\ R!Restart(w)
  /\ IF P!TeardownBusy(w) THEN P!AbandonTeardown(w) ELSE UNCHANGED <<pod, kube>>
  /\ UNCHANGED <<request, workspace, agent>>

-----------------------------------------------------------------------------
(* Kubernetes                                                              *)

\* The files go with the claim.
VolumeFollowsClaim == workspace' = IF pvc' = "absent" THEN {} ELSE workspace

KubeCall ==
  /\ \/ \E m \in Messages : P!EnsureStep(m) \/ P!AbandonEnsure(m)
     \/ \E w \in Workers : P!TeardownStep(w)
     \/ P!FinalizePVC
  /\ VolumeFollowsClaim
  /\ UNCHANGED <<request, lists, agent, reaper>>

PodScheduled ==
  /\ P!SchedulePod
  /\ SchedulePod
  /\ UNCHANGED <<request, reaper>>

PodRemoved ==
  /\ P!RemovePod
  /\ RemovePod
  /\ UNCHANGED <<request, reaper>>

-----------------------------------------------------------------------------
Backend == \/ \E m \in Messages : \/ SaveMessage(m) \/ PushText(m)
                                  \/ AnswerRequest(m) \/ BackendDies(m)
           \/ RecordHeartbeat
           \/ OtherRequests

WorkerStep(w) == \/ ScanStep(w) \/ PushShutdown(w)
                 \/ ReceiveReady(w) \/ EndTeardown(w) \/ RemoveHeartbeat(w)

Disturbances == sent["crash"] + sent["failure"] + faults + errors

LifecycleNext ==
  /\ \/ Backend
     \/ AgentStep \/ ArchivingFails \/ AgentCrashes
     \/ \E w \in Workers : WorkerStep(w) \/ ScanFails(w) \/ WorkerDies(w)
     \/ ClockStep
     \/ KubeCall \/ PodScheduled \/ PodRemoved
  /\ Disturbances' <= MaxDisturbances

LifecycleSpec == LifecycleInit /\ [][LifecycleNext]_allVars

\* Processes that are up make progress, Kubernetes answers and reconciles.  The
\* user, the clock and faults are under no obligation.
LifecycleFairness ==
  /\ WF_allVars(AgentStep)
  /\ \A w \in Workers : WF_allVars(ReceiveReady(w) \/ EndTeardown(w) \/ RemoveHeartbeat(w))
  /\ \A w \in Workers : WF_allVars(ScanStep(w) \/ PushShutdown(w))
  /\ WF_allVars(KubeCall \/ PodScheduled \/ PodRemoved)

FairLifecycleSpec == LifecycleSpec /\ LifecycleFairness

-----------------------------------------------------------------------------
(* Properties                                                              *)

\* The lifecycle workers see only their own messages in the agent's list.
ShutdownsIn(list) == Cardinality({i \in DOMAIN list : list[i] = Shutdown})
Initiations == [i \in 1..ShutdownsIn(queue) |-> Shutdown]
RR == INSTANCE Reaper WITH
        queue <- Initiations, MaxQueue <- MaxMessages, MaxReady <- MaxShutdowns

\* Composition: what the rest of the system does to the agent, to the Kubernetes
\* objects and the procedures over them, and to the lifecycle workers is what
\* AgentWorker, Provisioning and Reaper let their environments do, so that their
\* invariants hold here too.
ContractsKept == Spec /\ P!Spec /\ RR!Spec

\* Without crashes and rejected calls of the agent, the volume of an idle
\* conversation is destroyed only after latest.tar.gz holds every edit on it
\* that the archive's filter lets through, however messages, shutdowns,
\* teardowns and new pods interleave (handleShutdownInitiation, shouldInclude,
\* listenShutdownReadyMessages).
Custody == INSTANCE WorkspaceCustody WITH
             Edits <- Included(Messages), workspace <- Included(workspace)
CustodyKept == Custody!Spec

\* An agent that has packed up does not stay: unless something fails on the
\* way, its shutdown_ready brings the teardown and its pod goes
\* (listenShutdownReadyMessages).
ParkedIsTornDown == Parked ~> (~Parked \/ Disturbances > 0)


\* A prompt that was queued reaches the harness or is still under way to it: on
\* initiate_shutdown the agent "would stop taking in any other requests and then
\* packup" (lifecycleWorker.ts), and requests left in Redis "are not lost"
\* (README).
PromptsNotLost == lost = {}

=============================================================================
