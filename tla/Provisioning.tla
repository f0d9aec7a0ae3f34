---------------------------- MODULE Provisioning ----------------------------
(***************************************************************************)
(* The Kubernetes objects of one conversation and the two procedures of    *)
(* packages/k8s that race over them: ensureInfrastructure (the claim       *)
(* first, then deployment, service and ingress in parallel) and            *)
(* teardownInfrastructure (four deletes in parallel).  A create that finds *)
(* the object (409) and a delete that finds none (404) both succeed.       *)
(*                                                                         *)
(* Kubernetes itself is external: a deleted claim that a pod still mounts  *)
(* is "terminating" (its name stays taken) until that pod is gone; a pod   *)
(* is scheduled only when its deployment exists and its claim is bound,    *)
(* and goes with the deployment that owns it, not with a later namesake.   *)
(***************************************************************************)
EXTENDS Naturals, FiniteSets

CONSTANTS Objects,      \* "deployment" and what is created beside it
          Ensures,      \* concurrent calls of ensureInfrastructure
          Teardowns,    \* concurrent calls of teardownInfrastructure
          MaxCalls,     \* calls started in a behaviour
          MaxErrors     \* API calls that fail otherwise, and dying callers

ASSUME CallsAssumption ==
  /\ "deployment" \in Objects /\ "pvc" \notin Objects
  /\ Ensures \intersect Teardowns = {}
  /\ MaxCalls \in Nat /\ MaxErrors \in Nat

VARIABLES
  pvc,       \* "absent", "bound" or "terminating"
  objects,   \* which of deployment, service and ingress exist
  pod,       \* "none" or running ("booting", "up": see AgentWorker)
  doomed,    \* the deployment that owns the pod has been deleted
  claiming,  \* ensure calls awaiting ensureWorkspacePVC
  creating,  \* per ensure call, creations of its Promise.all not yet answered
  deleting,  \* per teardown call, deletions of its Promise.all not yet answered
  outcome,   \* per call: "idle", "running", "resolved" or "rejected"
  disturbed, \* history: ensure calls that met an error, a teardown or a
             \* terminating claim since they began
  calls, errors

k8sVars == <<pvc, objects, doomed, claiming, creating, deleting, outcome,
             disturbed, calls, errors>>
vars == <<k8sVars, pod>>

Resources == Objects \union {"pvc"}
Outcomes  == {"idle", "running", "resolved", "rejected"}
PodStates == {"none", "booting", "up"}

TypeOK ==
  /\ pvc \in {"absent", "bound", "terminating"}
  /\ objects \in SUBSET Objects
  /\ pod \in PodStates
  /\ doomed \in BOOLEAN
  /\ claiming \in SUBSET Ensures
  /\ creating \in [Ensures -> SUBSET Objects]
  /\ deleting \in [Teardowns -> SUBSET Resources]
  /\ outcome \in [Ensures \union Teardowns -> Outcomes]
  /\ disturbed \in SUBSET Ensures
  /\ calls \in Nat /\ errors \in Nat

Init ==
  /\ pvc = "absent"
  /\ objects = {}
  /\ pod = "none"
  /\ doomed = FALSE
  /\ claiming = {}
  /\ creating = [e \in Ensures |-> {}]
  /\ deleting = [t \in Teardowns |-> {}]
  /\ outcome = [c \in Ensures \union Teardowns |-> "idle"]
  /\ disturbed = {}
  /\ calls = 0 /\ errors = 0

EnsureBusy(e)   == e \in claiming \/ creating[e] # {}
TeardownBusy(t) == deleting[t] # {}
TearingDown     == \E t \in Teardowns : TeardownBusy(t)

\* Promise.all resolves when the last of its calls has succeeded.
Settle(c, left) ==
  outcome' = IF left = {} /\ outcome[c] = "running"
               THEN [outcome EXCEPT ![c] = "resolved"] ELSE outcome

-----------------------------------------------------------------------------
(* ensureInfrastructure                                                    *)

BeginEnsure(e) ==
  /\ ~EnsureBusy(e)
  /\ calls < MaxCalls
  /\ calls' = calls + 1
  /\ claiming' = claiming \union {e}
  /\ outcome' = [outcome EXCEPT ![e] = "running"]
  /\ disturbed' = IF TearingDown \/ pvc = "terminating"
                    THEN disturbed \union {e} ELSE disturbed \ {e}
  /\ UNCHANGED <<pvc, objects, pod, doomed, creating, deleting, errors>>

\* Mutant of EnsureWorkspacePVC: an existing claim ends the whole call.
EnsureWorkspacePVCReturnsEarly(e) ==
  /\ e \in claiming
  /\ claiming' = claiming \ {e}
  /\ creating' = [creating EXCEPT ![e] = IF pvc = "absent" THEN Objects ELSE {}]
  /\ outcome' = [outcome EXCEPT ![e] = IF pvc = "absent" THEN @ ELSE "resolved"]
  /\ pvc' = IF pvc = "absent" THEN "bound" ELSE pvc
  /\ UNCHANGED <<objects, pod, doomed, deleting, disturbed, calls, errors>>

\* The claim is created, or found (409, terminating ones included), and the
\* three other creations are issued.
EnsureWorkspacePVC(e) ==
  /\ e \in claiming
  /\ claiming' = claiming \ {e}
  /\ creating' = [creating EXCEPT ![e] = Objects]
  /\ pvc' = IF pvc = "absent" THEN "bound" ELSE pvc
  /\ UNCHANGED <<objects, pod, doomed, deleting, outcome, disturbed, calls,
                 errors>>

EnsureObject(e, o) ==
  /\ o \in creating[e]
  /\ creating' = [creating EXCEPT ![e] = @ \ {o}]
  /\ objects' = objects \union {o}
  /\ Settle(e, creating[e] \ {o})
  /\ UNCHANGED <<pvc, pod, doomed, claiming, deleting, disturbed, calls,
                 errors>>

\* Another error rejects the call; creations already issued go on.
EnsureFails(e) ==
  /\ errors < MaxErrors
  /\ errors' = errors + 1
  /\ \/ e \in claiming /\ claiming' = claiming \ {e} /\ UNCHANGED creating
     \/ \E o \in creating[e] :
          creating' = [creating EXCEPT ![e] = @ \ {o}] /\ UNCHANGED claiming
  /\ outcome' = [outcome EXCEPT ![e] = "rejected"]
  /\ disturbed' = disturbed \union {e}
  /\ UNCHANGED <<pvc, objects, pod, doomed, deleting, calls>>

-----------------------------------------------------------------------------
(* teardownInfrastructure                                                  *)

\* Mutant of BeginTeardown: the deployment is left out.
BeginTeardownKeepsDeployment(t) ==
  /\ ~TeardownBusy(t)
  /\ calls < MaxCalls
  /\ calls' = calls + 1
  /\ deleting' = [deleting EXCEPT ![t] = Resources \ {"deployment"}]
  /\ outcome' = [outcome EXCEPT ![t] = "running"]
  /\ disturbed' = disturbed \union {e \in Ensures : outcome[e] # "idle"}
  /\ UNCHANGED <<pvc, objects, pod, doomed, claiming, creating, errors>>

BeginTeardown(t) ==
  /\ ~TeardownBusy(t)
  /\ calls < MaxCalls
  /\ calls' = calls + 1
  /\ deleting' = [deleting EXCEPT ![t] = Resources]
  /\ outcome' = [outcome EXCEPT ![t] = "running"]
  /\ disturbed' = disturbed \union {e \in Ensures : outcome[e] # "idle"}
  /\ UNCHANGED <<pvc, objects, pod, doomed, claiming, creating, errors>>

\* A claim that a pod mounts stays, terminating, until that pod is gone.
AfterDelete(r) == IF r # "pvc" \/ pvc = "absent" THEN pvc
                  ELSE IF pod = "none" THEN "absent" ELSE "terminating"

\* Mutant of DeleteResource: an object that is gone (404) rejects the call.
DeleteResourceRejects404(t, r) ==
  /\ r \in deleting[t]
  /\ deleting' = [deleting EXCEPT ![t] = @ \ {r}]
  /\ objects' = objects \ {r}
  /\ pvc' = AfterDelete(r)
  /\ doomed' = (doomed \/ r \in objects \intersect {"deployment"})
  /\ IF r \in objects \/ (r = "pvc" /\ pvc # "absent")
       THEN Settle(t, deleting[t] \ {r})
       ELSE outcome' = [outcome EXCEPT ![t] = "rejected"]
  /\ UNCHANGED <<pod, claiming, creating, disturbed, calls, errors>>

DeleteResource(t, r) ==
  /\ r \in deleting[t]
  /\ deleting' = [deleting EXCEPT ![t] = @ \ {r}]
  /\ objects' = objects \ {r}
  /\ pvc' = AfterDelete(r)
  /\ doomed' = (doomed \/ r \in objects \intersect {"deployment"})
  /\ Settle(t, deleting[t] \ {r})
  /\ UNCHANGED <<pod, claiming, creating, disturbed, calls, errors>>

\* Another error rejects the call at once; the other deletions go on.
DeleteFails(t, r) ==
  /\ r \in deleting[t]
  /\ errors < MaxErrors
  /\ errors' = errors + 1
  /\ deleting' = [deleting EXCEPT ![t] = @ \ {r}]
  /\ outcome' = [outcome EXCEPT ![t] = "rejected"]
  /\ UNCHANGED <<pvc, objects, pod, doomed, claiming, creating, disturbed,
                 calls>>

-----------------------------------------------------------------------------
(* The process that made a call dies: requests it had not sent are lost.   *)

AbandonEnsure(e) ==
  /\ EnsureBusy(e)
  /\ errors < MaxErrors
  /\ errors' = errors + 1
  /\ claiming' = claiming \ {e}
  /\ \E sent \in SUBSET creating[e] : creating' = [creating EXCEPT ![e] = sent]
  /\ outcome' = [outcome EXCEPT ![e] = "rejected"]
  /\ disturbed' = disturbed \union {e}
  /\ UNCHANGED <<pvc, objects, pod, doomed, deleting, calls>>

AbandonTeardown(t) ==
  /\ TeardownBusy(t)
  /\ errors < MaxErrors
  /\ errors' = errors + 1
  /\ \E sent \in SUBSET deleting[t] : deleting' = [deleting EXCEPT ![t] = sent]
  /\ outcome' = [outcome EXCEPT ![t] = "rejected"]
  /\ UNCHANGED <<pvc, objects, pod, doomed, claiming, creating, disturbed,
                 calls>>

-----------------------------------------------------------------------------
(* Kubernetes: controllers                                                 *)

\* One pod at a time: the deployment has one replica and replaces it by Recreate.
\* Assumed where a deployment is deleted and created anew: Kubernetes may start its
\* pod while the old one still terminates, ReadWriteOnce keeping it from other nodes
\* only.
CanSchedule == pod = "none" /\ "deployment" \in objects /\ pvc = "bound"
MustRemove  == pod # "none" /\ doomed

SchedulePod ==
  /\ CanSchedule
  /\ pod' = "booting"
  /\ doomed' = FALSE
  /\ UNCHANGED <<pvc, objects, claiming, creating, deleting, outcome,
                 disturbed, calls, errors>>

RemovePod ==
  /\ MustRemove
  /\ pod' = "none"
  /\ UNCHANGED k8sVars

\* The claim's finalizer runs once no pod mounts it.
FinalizePVC ==
  /\ pvc = "terminating" /\ pod = "none"
  /\ pvc' = "absent"
  /\ UNCHANGED <<objects, pod, doomed, claiming, creating, deleting, outcome,
                 disturbed, calls, errors>>

\* The pod's containers come up, restart, or the pod is evicted: module
\* AgentWorker.
PodChanges ==
  /\ pod # "none"
  /\ pod' \in PodStates
  /\ UNCHANGED k8sVars

Controllers == SchedulePod \/ RemovePod \/ FinalizePVC

EnsureStep(e) ==
  \/ EnsureWorkspacePVC(e)
  \/ \E o \in Objects : EnsureObject(e, o)
  \/ EnsureFails(e)

TeardownStep(t) == \E r \in Resources : DeleteResource(t, r) \/ DeleteFails(t, r)

Next ==
  \/ \E e \in Ensures : BeginEnsure(e) \/ EnsureStep(e) \/ AbandonEnsure(e)
  \/ \E t \in Teardowns :
       BeginTeardown(t) \/ TeardownStep(t) \/ AbandonTeardown(t)
  \/ Controllers
  \/ PodChanges

\* Calls in flight are answered and the controllers reconcile; nothing obliges
\* anybody to begin a call.
Fairness ==
  /\ \A e \in Ensures : WF_vars(EnsureStep(e))
  /\ \A t \in Teardowns : WF_vars(TeardownStep(t))
  /\ WF_vars(Controllers)

Spec == Init /\ [][Next]_vars
FairSpec == Spec /\ Fairness

-----------------------------------------------------------------------------
(* Properties                                                              *)

Quiet == ~TearingDown /\ \A e \in Ensures : ~EnsureBusy(e)

\* An ensure call that met no error, no teardown and no terminating claim has
\* its claim from the first await on and, however many other ensure calls run
\* beside it, leaves all the objects its answered creations stand for.
EnsureEstablishes ==
  \A e \in Ensures \ disturbed :
    outcome[e] \in {"running", "resolved"} /\ e \notin claiming
      => pvc = "bound" /\ Objects \ creating[e] \subseteq objects

\* Calls that lose a create race (409) or a delete race (404) do not fail:
\* without other errors no call is ever rejected.
RacesAreNotErrors ==
  errors = 0 => \A c \in Ensures \union Teardowns : outcome[c] # "rejected"

\* An undisturbed ensure call that has resolved brings a pod up, unless a later
\* teardown undoes it (ensureInfrastructure called by handleMessage).
EnsureBringsPodUp ==
  \A e \in Ensures :
    (outcome[e] = "resolved" /\ e \notin disturbed) ~> (pod # "none" \/ TearingDown)

=============================================================================
