------------------------ MODULE ConversationsProofs ------------------------
(***************************************************************************)
(* Theorems about Provisioning and about Conversations, which extends it,  *)
(* for any set of objects and any number of messages, deletions, lifecycle *)
(* workers and concurrent calls: first the calls that race over the        *)
(* infrastructure, by themselves and begun and cut by the backend; then    *)
(* the message history; then who watches over what exists.                 *)
(***************************************************************************)
EXTENDS Conversations, TLAPS

-----------------------------------------------------------------------------
(* Provisioning: type correctness                                          *)

LEMMA KubeTypeInit == Init => TypeOK
<1> SUFFICES ASSUME Init PROVE TypeOK
  OBVIOUS
<1>1. pvc \in {"absent", "bound", "terminating"} /\ pod \in PodStates
  BY DEF Init, PodStates
<1>2. doomed \in BOOLEAN
  BY DEF Init
<1>3. /\ objects \in SUBSET Objects
      /\ claiming \in SUBSET Ensures
      /\ disturbed \in SUBSET Ensures
  BY DEF Init
<1>4. /\ creating \in [Ensures -> SUBSET Objects]
      /\ deleting \in [Teardowns -> SUBSET Resources]
      /\ outcome \in [Ensures \union Teardowns -> Outcomes]
  BY DEF Init, Outcomes
<1>5. calls \in Nat /\ errors \in Nat
  BY DEF Init
<1> QED
  BY <1>1, <1>2, <1>3, <1>4, <1>5 DEF TypeOK

\* Ends of a Promise.all keep the type of outcome.
LEMMA SettleType ==
  ASSUME TypeOK, NEW c \in Ensures \union Teardowns, NEW left, Settle(c, left)
  PROVE  outcome' \in [Ensures \union Teardowns -> Outcomes]
BY DEF TypeOK, Settle, Outcomes

LEMMA EnsureType ==
  ASSUME TypeOK, NEW e \in Ensures, BeginEnsure(e) \/ EnsureStep(e) \/ AbandonEnsure(e)
  PROVE  TypeOK'
<1>0. "running" \in Outcomes /\ "rejected" \in Outcomes
  BY DEF Outcomes
<1> USE DEF TypeOK
<1>1. CASE BeginEnsure(e)
  <2>1. calls' \in Nat
    BY <1>1 DEF BeginEnsure
  <2>2. outcome' \in [Ensures \union Teardowns -> Outcomes]
    BY <1>0, <1>1 DEF BeginEnsure
  <2> QED
    BY <1>1, <2>1, <2>2 DEF BeginEnsure
<1>2. CASE EnsureWorkspacePVC(e)
  BY <1>2 DEF EnsureWorkspacePVC
<1>3. ASSUME NEW o \in Objects, EnsureObject(e, o) PROVE TypeOK'
  <2>1. outcome' \in [Ensures \union Teardowns -> Outcomes]
    BY <1>3, SettleType DEF EnsureObject
  <2> QED
    BY <1>3, <2>1 DEF EnsureObject
<1>4. CASE EnsureFails(e)
  <2>1. errors' \in Nat
    BY <1>4 DEF EnsureFails
  <2>2. creating' \in [Ensures -> SUBSET Objects] /\ claiming' \in SUBSET Ensures
    BY <1>4 DEF EnsureFails
  <2>3. outcome' \in [Ensures \union Teardowns -> Outcomes]
    BY <1>0, <1>4 DEF EnsureFails
  <2> QED
    BY <1>4, <2>1, <2>2, <2>3 DEF EnsureFails
<1>5. CASE AbandonEnsure(e)
  <2>1. errors' \in Nat
    BY <1>5 DEF AbandonEnsure
  <2>2. creating' \in [Ensures -> SUBSET Objects]
    BY <1>5 DEF AbandonEnsure
  <2>3. outcome' \in [Ensures \union Teardowns -> Outcomes]
    BY <1>0, <1>5 DEF AbandonEnsure
  <2> QED
    BY <1>5, <2>1, <2>2, <2>3 DEF AbandonEnsure
<1> QED
  BY <1>1, <1>2, <1>3, <1>4, <1>5 DEF EnsureStep

LEMMA TeardownType ==
  ASSUME TypeOK, NEW t \in Teardowns,
         BeginTeardown(t) \/ TeardownStep(t) \/ AbandonTeardown(t)
  PROVE  TypeOK'
<1>0. "running" \in Outcomes /\ "rejected" \in Outcomes
  BY DEF Outcomes
<1> USE DEF TypeOK
<1>1. CASE BeginTeardown(t)
  <2>1. calls' \in Nat
    BY <1>1 DEF BeginTeardown
  <2>2. outcome' \in [Ensures \union Teardowns -> Outcomes]
    BY <1>0, <1>1 DEF BeginTeardown
  <2>3. disturbed' \in SUBSET Ensures
    BY <1>1 DEF BeginTeardown
  <2>4. deleting' \in [Teardowns -> SUBSET Resources]
    BY <1>1 DEF BeginTeardown
  <2> QED
    BY <1>1, <2>1, <2>2, <2>3, <2>4 DEF BeginTeardown
<1>2. ASSUME NEW r \in Resources, DeleteResource(t, r) PROVE TypeOK'
  <2>1. outcome' \in [Ensures \union Teardowns -> Outcomes]
    BY <1>2, SettleType DEF DeleteResource
  <2>2. pvc' \in {"absent", "bound", "terminating"}
    BY <1>2 DEF DeleteResource, AfterDelete
  <2>3. doomed' \in BOOLEAN
    BY <1>2 DEF DeleteResource
  <2>4. deleting' \in [Teardowns -> SUBSET Resources] /\ objects' \in SUBSET Objects
    BY <1>2 DEF DeleteResource
  <2> QED
    BY <1>2, <2>1, <2>2, <2>3, <2>4 DEF DeleteResource
<1>3. ASSUME NEW r \in Resources, DeleteFails(t, r) PROVE TypeOK'
  <2>1. errors' \in Nat
    BY <1>3 DEF DeleteFails
  <2>2. outcome' \in [Ensures \union Teardowns -> Outcomes]
    BY <1>0, <1>3 DEF DeleteFails
  <2>3. deleting' \in [Teardowns -> SUBSET Resources]
    BY <1>3 DEF DeleteFails
  <2> QED
    BY <1>3, <2>1, <2>2, <2>3 DEF DeleteFails
<1>4. CASE AbandonTeardown(t)
  <2>1. errors' \in Nat
    BY <1>4 DEF AbandonTeardown
  <2>2. outcome' \in [Ensures \union Teardowns -> Outcomes]
    BY <1>0, <1>4 DEF AbandonTeardown
  <2>3. deleting' \in [Teardowns -> SUBSET Resources]
    BY <1>4 DEF AbandonTeardown
  <2> QED
    BY <1>4, <2>1, <2>2, <2>3 DEF AbandonTeardown
<1> QED
  BY <1>1, <1>2, <1>3, <1>4 DEF TeardownStep

LEMMA ControllersType == ASSUME TypeOK, Controllers \/ PodChanges PROVE TypeOK'
<1> USE DEF TypeOK, PodStates
<1>1. CASE SchedulePod
  BY <1>1 DEF SchedulePod
<1>2. CASE RemovePod
  BY <1>2 DEF RemovePod, k8sVars
<1>3. CASE FinalizePVC
  BY <1>3 DEF FinalizePVC
<1>4. CASE PodChanges
  BY <1>4 DEF PodChanges, k8sVars
<1> QED
  BY <1>1, <1>2, <1>3, <1>4 DEF Controllers

-----------------------------------------------------------------------------
(* Provisioning: what undisturbed calls rely on                            *)

\* An ensure call is undisturbed only while nothing is being deleted.
Undisturbed ==
  \A e \in Ensures \ disturbed :
    outcome[e] # "idle" => ~TearingDown /\ pvc # "terminating"

KubeInv == TypeOK /\ Undisturbed /\ EnsureEstablishes /\ RacesAreNotErrors

LEMMA KubeInvInit == Init => KubeInv
<1>1. Init => Undisturbed /\ EnsureEstablishes /\ RacesAreNotErrors
  BY DEF Init, Undisturbed, EnsureEstablishes, RacesAreNotErrors
<1> QED
  BY <1>1, KubeTypeInit DEF KubeInv

\* Nothing is being deleted after a step that begins no deletion.
LEMMA StillNotTearingDown ==
  ASSUME \A t \in Teardowns : deleting'[t] \subseteq deleting[t], ~TearingDown
  PROVE  ~TearingDown'
BY DEF TearingDown, TeardownBusy

LEMMA EnsureKept ==
  ASSUME KubeInv, NEW e \in Ensures, BeginEnsure(e) \/ EnsureStep(e) \/ AbandonEnsure(e)
  PROVE  KubeInv'
<1>0. TypeOK'
  BY EnsureType DEF KubeInv
<1> USE DEF KubeInv
<1>1. CASE BeginEnsure(e)
  <2>1. /\ claiming' = claiming \union {e}
        /\ outcome' = [outcome EXCEPT ![e] = "running"]
        /\ disturbed' = IF TearingDown \/ pvc = "terminating"
                          THEN disturbed \union {e} ELSE disturbed \ {e}
        /\ UNCHANGED <<pvc, objects, creating, deleting, errors>>
        /\ TearingDown' = TearingDown
    BY <1>1 DEF BeginEnsure, TearingDown, TeardownBusy
  <2>2. Undisturbed'
    BY <2>1 DEF Undisturbed, TypeOK
  <2>3. EnsureEstablishes'
    BY <2>1 DEF EnsureEstablishes, TypeOK
  <2>4. RacesAreNotErrors'
    BY <2>1 DEF RacesAreNotErrors, TypeOK
  <2> QED
    BY <1>0, <2>2, <2>3, <2>4
<1>2. CASE EnsureWorkspacePVC(e)
  <2>1. /\ claiming' = claiming \ {e}
        /\ creating' = [creating EXCEPT ![e] = Objects]
        /\ pvc' = IF pvc = "absent" THEN "bound" ELSE pvc
        /\ UNCHANGED <<objects, deleting, outcome, disturbed, errors>>
        /\ TearingDown' = TearingDown
    BY <1>2 DEF EnsureWorkspacePVC, TearingDown, TeardownBusy
  <2>2. Undisturbed'
    BY <2>1 DEF Undisturbed
  <2>3. EnsureEstablishes'
    <3> SUFFICES ASSUME NEW f \in Ensures \ disturbed,
                        outcome[f] \in {"running", "resolved"}, f \notin claiming'
                 PROVE  pvc' = "bound" /\ Objects \ creating'[f] \subseteq objects'
      BY <2>1 DEF EnsureEstablishes
    <3>1. pvc # "terminating"
      BY DEF Undisturbed
    <3>2. CASE f = e
      BY <2>1, <3>1, <3>2 DEF TypeOK
    <3>3. CASE f # e
      BY <2>1, <3>3 DEF EnsureEstablishes, TypeOK
    <3> QED
      BY <3>2, <3>3
  <2>4. RacesAreNotErrors'
    BY <2>1 DEF RacesAreNotErrors
  <2> QED
    BY <1>0, <2>2, <2>3, <2>4
<1>3. ASSUME NEW o \in Objects, EnsureObject(e, o) PROVE KubeInv'
  <2>1. /\ creating' = [creating EXCEPT ![e] = @ \ {o}]
        /\ objects' = objects \union {o}
        /\ UNCHANGED <<pvc, claiming, deleting, disturbed, errors>>
        /\ TearingDown' = TearingDown
    BY <1>3 DEF EnsureObject, TearingDown, TeardownBusy
  <2>2. outcome' = outcome \/ (outcome' = [outcome EXCEPT ![e] = "resolved"] /\ outcome[e] = "running")
    BY <1>3 DEF EnsureObject, Settle
  <2>3. Undisturbed'
    BY <2>1, <2>2 DEF Undisturbed, TypeOK
  <2>4. EnsureEstablishes'
    <3> SUFFICES ASSUME NEW f \in Ensures \ disturbed,
                        outcome'[f] \in {"running", "resolved"}, f \notin claiming
                 PROVE  pvc = "bound" /\ Objects \ creating'[f] \subseteq objects'
      BY <2>1 DEF EnsureEstablishes
    <3>1. outcome[f] \in {"running", "resolved"}
      BY <2>2 DEF TypeOK
    <3>2. pvc = "bound" /\ Objects \ creating[f] \subseteq objects
      BY <3>1 DEF EnsureEstablishes
    <3> QED
      BY <2>1, <3>2 DEF TypeOK
  <2>5. RacesAreNotErrors'
    BY <2>1, <2>2 DEF RacesAreNotErrors, TypeOK
  <2> QED
    BY <1>0, <2>3, <2>4, <2>5
<1>4. CASE EnsureFails(e) \/ AbandonEnsure(e)
  <2>1. /\ outcome' = [outcome EXCEPT ![e] = "rejected"]
        /\ disturbed' = disturbed \union {e}
        /\ UNCHANGED <<pvc, objects, deleting>>
        /\ TearingDown' = TearingDown
    BY <1>4 DEF EnsureFails, AbandonEnsure, TearingDown, TeardownBusy
  <2>2. \A f \in Ensures : f # e => creating'[f] = creating[f] /\ (f \in claiming' <=> f \in claiming)
    BY <1>4 DEF EnsureFails, AbandonEnsure, TypeOK
  <2>3. errors' # 0
    BY <1>4 DEF EnsureFails, AbandonEnsure, TypeOK
  <2>4. Undisturbed'
    BY <2>1 DEF Undisturbed, TypeOK
  <2>5. EnsureEstablishes'
    BY <2>1, <2>2 DEF EnsureEstablishes, TypeOK
  <2>6. RacesAreNotErrors'
    BY <2>3 DEF RacesAreNotErrors
  <2> QED
    BY <1>0, <2>4, <2>5, <2>6
<1> QED
  BY <1>1, <1>2, <1>3, <1>4 DEF EnsureStep

LEMMA TeardownKept ==
  ASSUME KubeInv, NEW t \in Teardowns,
         BeginTeardown(t) \/ TeardownStep(t) \/ AbandonTeardown(t)
  PROVE  KubeInv'
<1>0. TypeOK'
  BY TeardownType DEF KubeInv
<1>d. t \notin Ensures
  BY CallsAssumption
<1> USE DEF KubeInv
<1>1. CASE BeginTeardown(t)
  <2>1. /\ outcome' = [outcome EXCEPT ![t] = "running"]
        /\ disturbed' = disturbed \union {e \in Ensures : outcome[e] # "idle"}
        /\ UNCHANGED <<pvc, objects, claiming, creating, errors>>
    BY <1>1 DEF BeginTeardown
  <2>2. \A e \in Ensures : outcome'[e] = outcome[e]
    BY <1>d, <2>1 DEF TypeOK
  <2>3. \A e \in Ensures \ disturbed' : outcome'[e] = "idle"
    BY <2>1, <2>2
  <2>4. Undisturbed'
    BY <2>3 DEF Undisturbed
  <2>5. EnsureEstablishes'
    BY <2>3 DEF EnsureEstablishes
  <2>6. RacesAreNotErrors'
    BY <2>1 DEF RacesAreNotErrors, TypeOK
  <2> QED
    BY <1>0, <2>4, <2>5, <2>6
<1>2. ASSUME NEW r \in Resources, DeleteResource(t, r) PROVE KubeInv'
  <2>1. TearingDown
    BY <1>2 DEF DeleteResource, TearingDown, TeardownBusy
  <2>2. \A e \in Ensures \ disturbed : outcome[e] = "idle"
    BY <2>1 DEF Undisturbed
  <2>3. disturbed' = disturbed /\ errors' = errors
    BY <1>2 DEF DeleteResource
  <2>4. outcome' = outcome \/ outcome' = [outcome EXCEPT ![t] = "resolved"]
    BY <1>2 DEF DeleteResource, Settle
  <2>5. \A e \in Ensures : outcome'[e] = outcome[e]
    BY <1>d, <2>4 DEF TypeOK
  <2>6. Undisturbed' /\ EnsureEstablishes'
    BY <2>2, <2>3, <2>5 DEF Undisturbed, EnsureEstablishes
  <2>7. RacesAreNotErrors'
    BY <2>3, <2>4 DEF RacesAreNotErrors, TypeOK
  <2> QED
    BY <1>0, <2>6, <2>7
<1>3. CASE AbandonTeardown(t) \/ \E r \in Resources : DeleteFails(t, r)
  <2>1. /\ outcome' = [outcome EXCEPT ![t] = "rejected"]
        /\ UNCHANGED <<pvc, objects, claiming, creating, disturbed>>
    BY <1>3 DEF AbandonTeardown, DeleteFails
  <2>2. \A s \in Teardowns : deleting'[s] \subseteq deleting[s]
    BY <1>3 DEF AbandonTeardown, DeleteFails, TypeOK
  <2>3. \A e \in Ensures : outcome'[e] = outcome[e]
    BY <1>d, <2>1 DEF TypeOK
  <2>4. Undisturbed'
    BY <2>1, <2>2, <2>3, StillNotTearingDown DEF Undisturbed
  <2>5. EnsureEstablishes'
    BY <2>1, <2>3 DEF EnsureEstablishes
  <2>6. errors' # 0
    BY <1>3 DEF AbandonTeardown, DeleteFails, TypeOK
  <2>7. RacesAreNotErrors'
    BY <2>6 DEF RacesAreNotErrors
  <2> QED
    BY <1>0, <2>4, <2>5, <2>7
<1> QED
  BY <1>1, <1>2, <1>3 DEF TeardownStep

LEMMA ControllersKept == ASSUME KubeInv, Controllers \/ PodChanges PROVE KubeInv'
<1>0. TypeOK'
  BY ControllersType DEF KubeInv
<1>1. /\ UNCHANGED <<objects, claiming, creating, deleting, outcome, disturbed, errors>>
      /\ pvc' = pvc \/ (pvc = "terminating" /\ pvc' = "absent")
  BY DEF Controllers, SchedulePod, RemovePod, FinalizePVC, PodChanges, k8sVars
<1>2. TearingDown' = TearingDown
  BY <1>1 DEF TearingDown, TeardownBusy
<1>3. Undisturbed'
  BY <1>1, <1>2 DEF KubeInv, Undisturbed
<1>4. EnsureEstablishes'
  BY <1>1 DEF KubeInv, Undisturbed, EnsureEstablishes
<1>5. RacesAreNotErrors'
  BY <1>1 DEF KubeInv, RacesAreNotErrors
<1> QED
  BY <1>0, <1>3, <1>4, <1>5 DEF KubeInv

\* Steps of others that fail, or leave the infrastructure alone altogether.
LEMMA KubeUntouched ==
  ASSUME KubeInv, NEW more \in Nat,
         UNCHANGED <<pvc, objects, pod, doomed, claiming, creating, deleting, outcome,
                     disturbed, calls>>,
         errors' = errors + more
  PROVE  KubeInv'
<1>1. errors' \in Nat /\ (errors' = 0 => errors = 0)
  BY DEF KubeInv, TypeOK
<1>2. TypeOK'
  BY <1>1 DEF KubeInv, TypeOK
<1>3. Undisturbed' /\ EnsureEstablishes' /\ RacesAreNotErrors'
  BY <1>1 DEF KubeInv, Undisturbed, TearingDown, TeardownBusy, EnsureEstablishes,
    RacesAreNotErrors
<1> QED
  BY <1>2, <1>3 DEF KubeInv

LEMMA KubeInvNext == KubeInv /\ [Next]_vars => KubeInv'
<1> SUFFICES ASSUME KubeInv, [Next]_vars PROVE KubeInv'
  OBVIOUS
<1>1. CASE UNCHANGED vars
  <2>1. errors' = errors + 0
    BY <1>1 DEF vars, k8sVars, KubeInv, TypeOK
  <2> QED
    BY <1>1, <2>1, KubeUntouched DEF vars, k8sVars
<1>2. CASE Next
  BY <1>2, EnsureKept, TeardownKept, ControllersKept DEF Next
<1> QED
  BY <1>1, <1>2

LEMMA KubeInvariance == Spec => []KubeInv
BY KubeInvInit, KubeInvNext, PTL DEF Spec

\* For any objects and calls, an ensure call that met no error, teardown or
\* terminating claim leaves claim and objects in place (ensureInfrastructure).
THEOREM EnsureIsEstablished == Spec => []EnsureEstablishes
<1>1. KubeInv => EnsureEstablishes
  BY DEF KubeInv
<1> QED
  BY <1>1, KubeInvariance, PTL

\* For any objects and calls, losing a race to create (409) or delete (404) an
\* object rejects no call.
THEOREM LostRacesSucceed == Spec => []RacesAreNotErrors
<1>1. KubeInv => RacesAreNotErrors
  BY DEF KubeInv
<1> QED
  BY <1>1, KubeInvariance, PTL

-----------------------------------------------------------------------------
(* The calls that the backend begins, and those it leaves behind           *)

kubeVars == <<pvc, objects, pod, doomed, claiming, creating, deleting, outcome,
              disturbed, calls>>

LEMMA Disjoint == Messages \intersect Deleters = {} /\ First \in Messages /\ First \in Requests
BY CallsAssumption, RequestsAssumption DEF Messages, Requests

LEMMA UntouchedByRequests == ASSUME KubeInv, UNCHANGED vars PROVE KubeInv'
<1>1. errors' = errors + 0
  BY DEF vars, k8sVars, KubeInv, TypeOK
<1> QED
  BY <1>1, KubeUntouched DEF vars, k8sVars

LEMMA UntouchedByFaults ==
  ASSUME KubeInv, UNCHANGED kubeVars, errors' = errors + 1 PROVE KubeInv'
BY KubeUntouched DEF kubeVars

\* The calls under way when the backend dies are disturbed, and none of the
\* others is touched.
LEMMA UntouchedByDeath == ASSUME KubeInv, BackendDies PROVE KubeInv'
<1> DEFINE cut == {m \in Messages : EnsureBusy(m)}
                    \union {d \in Deleters : TeardownBusy(d)}
<1>1. /\ claiming' = {}
      /\ outcome' = [c \in DOMAIN outcome |->
                       IF c \in cut THEN "rejected" ELSE outcome[c]]
      /\ disturbed' = disturbed \union (cut \intersect Messages)
      /\ UNCHANGED <<pvc, objects, pod, doomed, calls>>
      /\ errors' = errors + 1
  BY DEF BackendDies, Fault
<1>2. PICK sent \in SUBSET Objects :
        creating' = [m \in Messages |-> creating[m] \intersect sent]
  BY DEF BackendDies
<1>3. PICK left \in SUBSET Resources :
        deleting' = [t \in Teardowns |->
                       IF t \in Deleters THEN deleting[t] \intersect left
                       ELSE deleting[t]]
  BY DEF BackendDies
<1>4. errors' \in Nat /\ errors' # 0
  BY <1>1 DEF KubeInv, TypeOK
<1>5. DOMAIN outcome = Ensures \union Teardowns
  BY DEF KubeInv, TypeOK
<1>6. "rejected" \in Outcomes
  BY DEF Outcomes
<1>7. \A e \in Ensures : e \in cut <=> EnsureBusy(e)
  BY CallsAssumption, RequestsAssumption DEF Messages
<1>8. TypeOK'
  <2>1. outcome' \in [Ensures \union Teardowns -> Outcomes]
    BY <1>1, <1>5, <1>6 DEF KubeInv, TypeOK
  <2>2. creating' \in [Ensures -> SUBSET Objects]
    BY <1>2 DEF KubeInv, TypeOK, Messages
  <2>3. deleting' \in [Teardowns -> SUBSET Resources]
    BY <1>3 DEF KubeInv, TypeOK
  <2>4. disturbed' \in SUBSET Ensures
    BY <1>1 DEF KubeInv, TypeOK, Messages
  <2> QED
    BY <1>1, <1>4, <2>1, <2>2, <2>3, <2>4 DEF KubeInv, TypeOK
<1> HIDE DEF cut
<1>9. \A e \in Ensures \ disturbed' :
        /\ e \in Ensures \ disturbed /\ ~EnsureBusy(e)
        /\ outcome'[e] = outcome[e]
        /\ creating'[e] = {}
  BY <1>1, <1>2, <1>5, <1>7 DEF Messages, EnsureBusy
<1>10. TearingDown' => TearingDown
  BY <1>3 DEF TearingDown, TeardownBusy
<1>11. Undisturbed'
  BY <1>1, <1>9, <1>10 DEF KubeInv, Undisturbed
<1>12. EnsureEstablishes'
  <2> SUFFICES ASSUME NEW e \in Ensures \ disturbed',
                      outcome'[e] \in {"running", "resolved"}
               PROVE  pvc' = "bound" /\ Objects \ creating'[e] \subseteq objects'
    BY DEF EnsureEstablishes
  <2>1. pvc = "bound" /\ Objects \ creating[e] \subseteq objects
    BY <1>9 DEF KubeInv, EnsureEstablishes, EnsureBusy
  <2>2. creating[e] = {}
    BY <1>9 DEF EnsureBusy
  <2> QED
    BY <1>1, <2>1, <2>2
<1>13. RacesAreNotErrors'
  BY <1>4 DEF RacesAreNotErrors
<1> QED
  BY <1>8, <1>11, <1>12, <1>13 DEF KubeInv

LEMMA KubeInvConversationNext ==
  KubeInv /\ [ConversationNext]_allVars => KubeInv'
<1> SUFFICES ASSUME KubeInv, [ConversationNext]_allVars PROVE KubeInv'
  OBVIOUS
<1>1. CASE UNCHANGED allVars
  BY <1>1, UntouchedByRequests DEF allVars
<1>2. CASE CreateConversation \/ Ping \/ AgentAnswers \/ Announce
  BY <1>2, UntouchedByRequests DEF CreateConversation, Ping, AgentAnswers, Announce
<1>3. ASSUME NEW m \in Messages, BeginMessage(m) \/ MessageStep(m) \/ AddHeartbeat(m)
      PROVE  KubeInv'
  <2>1. CASE PushMessage(m)
    BY <2>1, EnsureKept DEF PushMessage, Messages
  <2>2. CASE ~PushMessage(m)
    BY <1>3, <2>2, UntouchedByRequests
      DEF BeginMessage, MessageStep, InsertMessage, AssertPulse, AddHeartbeat
  <2> QED
    BY <2>1, <2>2
<1>4. ASSUME NEW d \in Deleters, BeginDelete(d) \/ DeleteStep(d) PROVE KubeInv'
  <2>1. CASE DropConversation(d)
    <3>1. d \in Teardowns /\ BeginTeardown(d)
      BY <2>1, RequestsAssumption DEF DropConversation
    <3> QED
      BY <3>1, TeardownKept
  <2>2. CASE ~DropConversation(d)
    BY <1>4, <2>2, UntouchedByRequests
      DEF BeginDelete, DeleteStep, EmptyConversation, DropRejected
  <2> QED
    BY <2>1, <2>2
<1>5. ASSUME NEW t \in Teardowns, RemoveHeartbeat(t) PROVE KubeInv'
  BY <1>5, UntouchedByRequests DEF RemoveHeartbeat
<1>6. ASSUME NEW w \in Reapings, ReceiveReady(w) PROVE KubeInv'
  <2>1. w \in Teardowns /\ BeginTeardown(w)
    BY <1>6 DEF ReceiveReady, Reapings
  <2> QED
    BY <2>1, TeardownKept
<1>7. ASSUME NEW r \in Requests, RequestFails(r) PROVE KubeInv'
  BY <1>7, UntouchedByFaults DEF RequestFails, Fault, kubeVars
<1>8. ASSUME NEW m \in Messages, PulseFails(m) PROVE KubeInv'
  BY <1>8, UntouchedByFaults DEF PulseFails, Fault, kubeVars
<1>9. CASE BackendDies
  BY <1>9, UntouchedByDeath
<1>10. CASE KubeStep
  BY <1>10, EnsureKept, TeardownKept, ControllersKept DEF KubeStep, Messages
<1> QED
  BY <1>1, <1>2, <1>3, <1>4, <1>5, <1>6, <1>7, <1>8, <1>9, <1>10 DEF ConversationNext

LEMMA KubeInvUnderBackend == ConversationSpec => []KubeInv
<1>1. ConversationInit => KubeInv
  BY KubeInvInit DEF ConversationInit
<1> QED
  BY <1>1, KubeInvConversationNext, PTL DEF ConversationSpec

\* Whatever requests, deletions and lifecycle workers do around them, and even
\* if the backend dies, an ensure call of a message that met no error, teardown
\* or terminating claim leaves its claim and objects (ensureInfrastructure).
THEOREM MessageEnsures == ConversationSpec => []EnsureEstablishes
<1>1. KubeInv => EnsureEstablishes
  BY DEF KubeInv
<1> QED
  BY <1>1, KubeInvUnderBackend, PTL

\* The calls that concurrent requests and lifecycle workers leave behind reject
\* one another in no case: every rejection has an error of its own.
THEOREM BackgroundCallsSucceed == ConversationSpec => []RacesAreNotErrors
<1>1. KubeInv => RacesAreNotErrors
  BY DEF KubeInv
<1> QED
  BY <1>1, KubeInvUnderBackend, PTL

-----------------------------------------------------------------------------
(* The history                                                             *)

\* The backend's part of the type, as far as the history rests on it.
StoreTyped ==
  /\ conversation \in {"absent", "present", "deleted"}
  /\ rows \in SUBSET Rows
  /\ stage \in [Requests -> Stages]
  /\ emptied \in [Deleters -> SUBSET Rows]
  /\ queued \in SUBSET Messages

\* A conversation is created once, by its first message, and deleted only after
\* that: a deletion never leaves the way open for a second creation, whose
\* conversation would have messages that lack their rows.
CreatedOnce ==
  /\ conversation = "absent" <=> stage[First] = "new"
  /\ \A d \in Deleters : stage[d] # "new" => conversation # "absent"

StoreInv == StoreTyped /\ CreatedOnce /\ HistoryIsComplete

LEMMA StoreInvInit == ConversationInit => StoreInv
<1> SUFFICES ASSUME ConversationInit PROVE StoreInv
  OBVIOUS
<1>1. StoreTyped
  BY DEF ConversationInit, StoreTyped, Stages
<1>2. CreatedOnce
  BY Disjoint DEF ConversationInit, CreatedOnce, Requests
<1>3. HistoryIsComplete
  BY DEF ConversationInit, HistoryIsComplete, Requests
<1> QED
  BY <1>1, <1>2, <1>3 DEF StoreInv

\* A request that moves on changes its own stage alone.
LEMMA MoveKeeps ==
  ASSUME StoreTyped, NEW r \in Requests, NEW from, NEW to \in Stages, Move(r, from, to)
  PROVE  /\ stage' \in [Requests -> Stages]
         /\ stage'[r] = to
         /\ \A s \in Requests \ {r} : stage'[s] = stage[s]
BY DEF StoreTyped, Move

LEMMA StageNames ==
  /\ {"new", "saving", "pushing", "emptying", "dropping", "answered", "failed"} \subseteq Stages
  /\ \A next \in Stages : AfterAssert(next) \in {next, "failed"}
BY DEF Stages, Done, AfterAssert

LEMMA MessagesStore ==
  ASSUME StoreInv, NEW m \in Messages, BeginMessage(m) \/ MessageStep(m)
  PROVE  StoreInv'
<1>r. m \in Requests /\ \A d \in Deleters : d \in Requests /\ d # m
  BY Disjoint DEF Requests
<1>m. \A n \in Messages : n \in Requests /\ n \in Rows
  BY DEF Requests, Rows
<1>f. First \in Requests /\ First \in Messages
  BY Disjoint
<1> USE DEF StoreInv
<1>1. CASE BeginMessage(m)
  <2>1. /\ Move(m, "new", AfterAssert("saving"))
        /\ AfterAssert("saving") \in {"saving", "failed"}
        /\ AfterAssert("saving") \in Stages
    BY <1>1, StageNames DEF BeginMessage
  <2>2. /\ stage' \in [Requests -> Stages]
        /\ stage'[m] \in {"saving", "failed"}
        /\ \A s \in Requests \ {m} : stage'[s] = stage[s]
    BY <1>r, <2>1, MoveKeeps
  <2>3. UNCHANGED <<conversation, rows, emptied, queued>> /\ m # First
    BY <1>1 DEF BeginMessage
  <2>4. StoreTyped'
    BY <2>2, <2>3 DEF StoreTyped
  <2>5. CreatedOnce'
    BY <1>f, <1>r, <2>2, <2>3 DEF CreatedOnce
  <2>6. HistoryIsComplete'
    BY <1>m, <2>2, <2>3 DEF HistoryIsComplete
  <2> QED
    BY <2>4, <2>5, <2>6
<1>2. CASE InsertMessage(m)
  <2>1. /\ Move(m, "saving", AfterAssert("pushing"))
        /\ AfterAssert("pushing") \in {"pushing", "failed"}
        /\ AfterAssert("pushing") \in Stages
        /\ AfterAssert("pushing") = "pushing" <=> conversation = "present"
    BY <1>2, StageNames DEF InsertMessage, AfterAssert
  <2>2. /\ stage' \in [Requests -> Stages]
        /\ stage[m] = "saving" /\ stage'[m] \in {"pushing", "failed"}
        /\ stage'[m] = "pushing" => conversation = "present"
        /\ \A s \in Requests \ {m} : stage'[s] = stage[s]
    BY <1>r, <2>1, MoveKeeps DEF Move
  <2>3. /\ UNCHANGED <<conversation, emptied, queued>>
        /\ rows' = IF conversation = "present" THEN rows \union {m} ELSE rows
    BY <1>2 DEF InsertMessage
  <2>4. StoreTyped'
    BY <1>m, <2>2, <2>3 DEF StoreTyped
  <2>5. CreatedOnce'
    BY <1>f, <1>r, <2>2, <2>3 DEF CreatedOnce
  <2>6. HistoryIsComplete'
    BY <1>m, <2>2, <2>3 DEF HistoryIsComplete
  <2> QED
    BY <2>4, <2>5, <2>6
<1>3. CASE PushMessage(m)
  <2>1. Move(m, "pushing", "answered") /\ "answered" \in Stages
    BY <1>3, StageNames DEF PushMessage
  <2>2. /\ stage' \in [Requests -> Stages]
        /\ stage[m] = "pushing" /\ stage'[m] = "answered"
        /\ \A s \in Requests \ {m} : stage'[s] = stage[s]
    BY <1>r, <2>1, MoveKeeps DEF Move
  <2>3. UNCHANGED <<conversation, rows, emptied>> /\ queued' = queued \union {m}
    BY <1>3 DEF PushMessage
  <2>4. StoreTyped'
    BY <2>2, <2>3 DEF StoreTyped
  <2>5. CreatedOnce'
    BY <1>f, <1>r, <2>2, <2>3 DEF CreatedOnce
  <2>6. HistoryIsComplete'
    BY <1>m, <2>2, <2>3 DEF HistoryIsComplete
  <2> QED
    BY <2>4, <2>5, <2>6
<1>4. CASE AssertPulse(m)
  BY <1>4 DEF AssertPulse, store, StoreTyped, CreatedOnce, HistoryIsComplete
<1> QED
  BY <1>1, <1>2, <1>3, <1>4 DEF MessageStep

LEMMA CreationStore == ASSUME StoreInv, CreateConversation PROVE StoreInv'
<1>f. First \in Requests /\ First \in Messages /\ First \notin Deleters
  BY Disjoint
<1>m. \A n \in Messages : n \in Requests
  BY DEF Requests
<1>d. \A d \in Deleters : d \in Requests /\ d # First
  BY <1>f DEF Requests
<1> USE DEF StoreInv
<1>1. /\ stage' \in [Requests -> Stages]
      /\ stage[First] = "new" /\ stage'[First] = "saving"
      /\ \A s \in Requests \ {First} : stage'[s] = stage[s]
  BY <1>f, MoveKeeps, StageNames DEF CreateConversation, Move
<1>2. conversation' = "present" /\ UNCHANGED <<rows, emptied, queued>>
  BY DEF CreateConversation
<1>3. conversation = "absent"
  BY <1>1 DEF CreatedOnce
<1>4. StoreTyped'
  BY <1>1, <1>2 DEF StoreTyped
<1>5. CreatedOnce'
  BY <1>1, <1>2 DEF CreatedOnce
<1>6. HistoryIsComplete'
  BY <1>1, <1>2, <1>3, <1>m DEF HistoryIsComplete
<1> QED
  BY <1>4, <1>5, <1>6

LEMMA DeletionStore ==
  ASSUME StoreInv, NEW d \in Deleters, BeginDelete(d) \/ DeleteStep(d)
  PROVE  StoreInv'
<1>r. d \in Requests /\ \A m \in Messages : m \in Requests /\ m # d
  BY Disjoint DEF Requests
<1>d. \A x \in Deleters : x \in Requests
  BY DEF Requests
<1>f. First \in Requests /\ First # d
  BY Disjoint
<1> USE DEF StoreInv
<1>1. ASSUME NEW from, NEW to \in Stages \ {"new"}, Move(d, from, to),
             UNCHANGED <<conversation, rows, queued>>,
             emptied' \in [Deleters -> SUBSET Rows],
             conversation # "absent"
      PROVE  StoreInv'
  <2>1. /\ stage' \in [Requests -> Stages] /\ stage'[d] = to
        /\ \A s \in Requests \ {d} : stage'[s] = stage[s]
    BY <1>1, <1>r, MoveKeeps
  <2>2. StoreTyped'
    BY <1>1, <2>1 DEF StoreTyped
  <2>3. CreatedOnce'
    BY <1>1, <1>f, <2>1 DEF CreatedOnce
  <2>4. HistoryIsComplete'
    BY <1>1, <1>r, <2>1 DEF HistoryIsComplete
  <2> QED
    BY <2>2, <2>3, <2>4
<1>2. CASE BeginDelete(d)
  <2>1. AfterAssert("emptying") \in Stages \ {"new"}
    BY DEF AfterAssert, Stages, Done
  <2> QED
    BY <1>1, <1>2, <2>1 DEF BeginDelete, StoreTyped
<1>3. CASE EmptyConversation(d)
  <2>1. Move(d, "emptying", "dropping") /\ "dropping" \in Stages \ {"new"}
    BY <1>3 DEF EmptyConversation, Stages
  <2>2. conversation # "absent"
    BY <2>1 DEF CreatedOnce, Move
  <2> QED
    BY <1>1, <1>3, <2>1, <2>2 DEF EmptyConversation, StoreTyped
<1>4. CASE DropRejected(d)
  <2>1. Move(d, "dropping", "failed") /\ "failed" \in Stages \ {"new"}
    BY <1>4 DEF DropRejected, Stages, Done
  <2>2. conversation # "absent"
    BY <2>1 DEF CreatedOnce, Move
  <2> QED
    BY <1>1, <1>4, <2>1, <2>2 DEF DropRejected, StoreTyped
<1>5. CASE DropConversation(d)
  <2>1. Move(d, "dropping", "answered") /\ "answered" \in Stages
    BY <1>5, StageNames DEF DropConversation
  <2>2. /\ stage' \in [Requests -> Stages] /\ stage'[d] = "answered"
        /\ \A s \in Requests \ {d} : stage'[s] = stage[s]
    BY <1>r, <2>1, MoveKeeps
  <2>3. conversation # "absent"
    BY <2>1 DEF CreatedOnce, Move
  <2>4. /\ conversation' = "deleted" /\ rows' = {} /\ queued' = queued
        /\ emptied' = [emptied EXCEPT ![d] = {}]
    BY <1>5 DEF DropConversation
  <2>5. StoreTyped'
    BY <2>2, <2>4 DEF StoreTyped
  <2>6. CreatedOnce'
    BY <1>f, <2>2, <2>3, <2>4 DEF CreatedOnce
  <2>7. HistoryIsComplete'
    BY <2>4 DEF HistoryIsComplete
  <2> QED
    BY <2>5, <2>6, <2>7
<1> QED
  BY <1>2, <1>3, <1>4, <1>5 DEF DeleteStep

\* A failure ends requests, undoes open transactions and leaves the rows.
LEMMA FaultStore ==
  ASSUME StoreInv, BackendDies \/ \E r \in Requests : RequestFails(r)
  PROVE  StoreInv'
<1>1. UNCHANGED <<conversation, rows, queued>> /\ emptied' \in [Deleters -> SUBSET Rows]
  BY DEF BackendDies, RequestFails, StoreInv, StoreTyped
<1>2. /\ stage' \in [Requests -> Stages]
      /\ \A r \in Requests : stage'[r] = stage[r] \/ (stage[r] # "new" /\ stage'[r] = "failed")
  <2>1. "failed" \in Stages
    BY DEF Stages, Done
  <2>2. CASE BackendDies
    BY <2>1, <2>2 DEF BackendDies, StoreInv, StoreTyped
  <2>3. ASSUME NEW r \in Requests, RequestFails(r)
        PROVE  /\ stage' \in [Requests -> Stages]
               /\ \A s \in Requests : stage'[s] = stage[s] \/ (stage[s] # "new" /\ stage'[s] = "failed")
    BY <2>1, <2>3 DEF RequestFails, StoreInv, StoreTyped
  <2> QED
    BY <2>2, <2>3
<1>3. StoreTyped'
  BY <1>1, <1>2 DEF StoreInv, StoreTyped
<1>4. CreatedOnce'
  BY <1>1, <1>2, Disjoint DEF StoreInv, CreatedOnce, Requests
<1>5. HistoryIsComplete'
  BY <1>1, <1>2 DEF StoreInv, HistoryIsComplete, Requests
<1> QED
  BY <1>3, <1>4, <1>5 DEF StoreInv

LEMMA StoreInvNext == StoreInv /\ [ConversationNext]_allVars => StoreInv'
<1> SUFFICES ASSUME StoreInv, [ConversationNext]_allVars PROVE StoreInv'
  OBVIOUS
<1>0. ASSUME UNCHANGED store PROVE StoreInv'
  BY <1>0 DEF store, StoreInv, StoreTyped, CreatedOnce, HistoryIsComplete
<1>1. CASE UNCHANGED allVars
  BY <1>0, <1>1 DEF allVars
<1>2. CASE CreateConversation
  BY <1>2, CreationStore
<1>3. CASE \E m \in Messages : BeginMessage(m) \/ MessageStep(m)
  BY <1>3, MessagesStore
<1>4. CASE \E d \in Deleters : BeginDelete(d) \/ DeleteStep(d)
  BY <1>4, DeletionStore
<1>5. CASE BackendDies \/ \E r \in Requests : RequestFails(r)
  BY <1>5, FaultStore
<1>6. CASE AgentAnswers
  <2>1. /\ rows' = rows \union {Answer} /\ Answer \in Rows
        /\ UNCHANGED <<conversation, stage, emptied, queued>>
    BY <1>6 DEF AgentAnswers, Rows
  <2> QED
    BY <2>1 DEF StoreInv, StoreTyped, CreatedOnce, HistoryIsComplete
<1>7. CASE \E m \in Messages : AddHeartbeat(m) \/ PulseFails(m)
  BY <1>0, <1>7 DEF AddHeartbeat, PulseFails
<1>8. CASE \/ \E t \in Teardowns : RemoveHeartbeat(t)
           \/ \E w \in Reapings : ReceiveReady(w)
  BY <1>0, <1>8 DEF RemoveHeartbeat, ReceiveReady
<1>9. CASE Ping \/ Announce \/ KubeStep
  BY <1>0, <1>9 DEF Ping, Announce, KubeStep
<1> QED
  BY <1>1, <1>2, <1>3, <1>4, <1>5, <1>6, <1>7, <1>8, <1>9 DEF ConversationNext

LEMMA StoreInvariance == ConversationSpec => []StoreInv
BY StoreInvInit, StoreInvNext, PTL DEF ConversationSpec

\* However many messages and deletions race, fail or die with the backend, a
\* message that was answered or queued for the agent is in message_history, or
\* its conversation is deleted (saveMessage before lPush, deleteConversation in
\* one transaction).
THEOREM QueuedMessagesAreSaved == ConversationSpec => []HistoryIsComplete
<1>1. StoreInv => HistoryIsComplete
  BY DEF StoreInv
<1> QED
  BY <1>1, StoreInvariance, PTL

-----------------------------------------------------------------------------
(* Infrastructure is watched                                               *)

Provisioned(m) == stage[m] = "pushing" \/ EnsureBusy(m)

\* A lifecycle worker that is bound to tear down meets no message, and what it
\* has not deleted yet is all that is left.
ReapedAlone ==
  /\ Reaping => \A m \in Messages : ~Handling(m)
  /\ \A w \in Reapings \ removed : outcome[w] # "idle" => objects \subseteq deleting[w]
  /\ \A t \in Teardowns : outcome[t] = "resolved" => deleting[t] = {}

\* What exists of a present conversation has its heartbeat, or will have it.
PresentIsWatched ==
  conversation = "present" /\ (objects # {} \/ \E m \in Messages : Provisioned(m))
    => heartbeat \/ \E m \in Messages : PulseBusy(m)

\* Nothing is provisioned before the conversation or after it, and what is left
\* of it is being deleted.
GoneIsTornDown ==
  /\ conversation # "present" => \A m \in Messages : ~Provisioned(m)
  /\ conversation = "absent" => objects = {}
  /\ conversation = "deleted" => \E d \in Deleters : objects \subseteq deleting[d]
  /\ \A d \in Deleters : stage[d] = "answered" => conversation = "deleted"

Watch ==
  ~overlapped /\ errors = 0 => ReapedAlone /\ PresentIsWatched /\ GoneIsTornDown

PulseTyped == pulse \in [Messages -> {"new", "asserting", "adding", "done"}]

\* The three rest on each other: a teardown leaves nothing behind because no
\* message is handled meanwhile, so a removed heartbeat takes away nothing that
\* something exists under.
WatchInv == KubeInv /\ StoreInv /\ PulseTyped /\ Watch

LEMMA WatchImplies == WatchInv => InfrastructureIsWatched
<1> SUFFICES ASSUME WatchInv, Settled, objects # {}, ~overlapped, errors = 0
             PROVE  conversation = "present" /\ heartbeat
  BY DEF InfrastructureIsWatched
<1>1. PresentIsWatched /\ GoneIsTornDown
  BY DEF WatchInv, Watch
<1>2. conversation \in {"absent", "present", "deleted"}
  BY DEF WatchInv, StoreInv, StoreTyped
<1>3. conversation # "deleted"
  <2> SUFFICES ASSUME conversation = "deleted" PROVE FALSE
    OBVIOUS
  <2>1. PICK d \in Deleters : objects \subseteq deleting[d]
    BY <1>1 DEF GoneIsTornDown
  <2>2. deleting[d] = {}
    BY RequestsAssumption DEF Settled, Quiet, TearingDown, TeardownBusy
  <2> QED
    BY <2>1, <2>2
<1>4. conversation = "present"
  BY <1>1, <1>2, <1>3 DEF GoneIsTornDown
<1> QED
  BY <1>1, <1>4 DEF PresentIsWatched, Settled

LEMMA WatchInit == ConversationInit => WatchInv
<1> SUFFICES ASSUME ConversationInit PROVE WatchInv
  OBVIOUS
<1>1. PulseTyped
  BY DEF ConversationInit, PulseTyped
<1>2. ~Reaping
  <2>1. \A w \in Reapings : outcome[w] = "idle"
    BY DEF ConversationInit, Init, Reapings
  <2> QED
    BY <2>1 DEF ConversationInit, Reaping
<1>3. ReapedAlone
  BY <1>2 DEF ConversationInit, Init, ReapedAlone
<1>4. \A m \in Messages : ~Provisioned(m)
  BY DEF ConversationInit, Init, Provisioned, EnsureBusy, Messages, Requests
<1>5. PresentIsWatched
  BY DEF ConversationInit, PresentIsWatched
<1>6. \A d \in Deleters : stage[d] = "new"
  BY DEF ConversationInit, Requests
<1>7. GoneIsTornDown
  BY <1>4, <1>6 DEF ConversationInit, Init, GoneIsTornDown
<1> QED
  BY <1>1, <1>3, <1>5, <1>7, KubeInvInit, StoreInvInit
    DEF WatchInv, Watch, ConversationInit


\* No failure and no overlap so far; both histories only grow.
Untroubled == ~overlapped /\ errors = 0

LEMMA AlwaysUntroubled ==
  ASSUME WatchInv, [ConversationNext]_allVars, Untroubled'
  PROVE  /\ Untroubled /\ ~Fault
         /\ ReapedAlone /\ PresentIsWatched /\ GoneIsTornDown
<1>1. errors \in Nat
  BY DEF WatchInv, KubeInv, TypeOK
<1>2. ~Fault
  BY <1>1 DEF Untroubled, Fault
<1>3. overlapped => overlapped'
  <2> USE DEF store, presence, allVars, vars
  <2>1. CASE UNCHANGED allVars
    BY <2>1
  <2>2. CASE ConversationNext
    BY <2>2 DEF ConversationNext, CreateConversation, BeginMessage, MessageStep,
         InsertMessage, PushMessage, AssertPulse, AddHeartbeat, Ping, BeginDelete,
         DeleteStep, EmptyConversation, DropRejected, DropConversation,
         RemoveHeartbeat, RequestFails, PulseFails, BackendDies, AgentAnswers,
         Announce, ReceiveReady, KubeStep
  <2> QED
    BY <2>1, <2>2
<1>4. errors' = 0 => errors = 0
  <2>1. errors' \in {errors, errors + 1}
    <3>1. CASE UNCHANGED allVars
      BY <3>1 DEF allVars, vars, k8sVars
    <3>2. CASE ConversationNext
      <4> USE DEF vars, k8sVars
      <4>1. \A m \in Messages : BeginMessage(m) \/ MessageStep(m) \/ AddHeartbeat(m) => errors' = errors
        BY DEF BeginMessage, MessageStep, InsertMessage, PushMessage, AssertPulse,
               AddHeartbeat, BeginEnsure
      <4>2. \A d \in Deleters : BeginDelete(d) \/ DeleteStep(d) => errors' = errors
        BY DEF BeginDelete, DeleteStep, EmptyConversation, DropRejected,
               DropConversation, BeginTeardown
      <4>3. CreateConversation \/ Ping \/ AgentAnswers \/ Announce => errors' = errors
        BY DEF CreateConversation, Ping, AgentAnswers, Announce
      <4>4. \A t \in Teardowns : RemoveHeartbeat(t) \/ ReceiveReady(t) => errors' = errors
        BY DEF RemoveHeartbeat, ReceiveReady, BeginTeardown
      <4>5. KubeStep => errors' \in {errors, errors + 1}
        BY DEF KubeStep, EnsureStep, EnsureWorkspacePVC, EnsureObject, EnsureFails,
               TeardownStep, DeleteResource, DeleteFails, Controllers, SchedulePod,
               RemovePod, FinalizePVC, PodChanges
      <4> QED
        BY <1>2, <3>2, <4>1, <4>2, <4>3, <4>4, <4>5
          DEF ConversationNext, RequestFails, PulseFails, BackendDies, Reapings
    <3> QED
      BY <3>1, <3>2
  <2> QED
    BY <1>1, <2>1
<1> QED
  BY <1>2, <1>3, <1>4 DEF Untroubled, WatchInv, Watch

\* Steps that leave the teardowns where they are.
LEMMA ReapedFrame ==
  ASSUME ReapedAlone, UNCHANGED <<objects, deleting, removed, announced>>,
         \A t \in Teardowns : outcome'[t] = outcome[t],
         Reaping => \A m \in Messages : Handling(m)' => Handling(m)
  PROVE  ReapedAlone'
<1>1. Reaping' = Reaping
  BY DEF Reaping, Reapings
<1> QED
  BY <1>1 DEF ReapedAlone, Reapings

\* Steps that provision nothing new, and those that take no pulse away.
LEMMA PresentFrame ==
  ASSUME PresentIsWatched, UNCHANGED conversation, objects' \subseteq objects,
         \A m \in Messages : Provisioned(m)' => Provisioned(m),
         conversation = "present" /\ (heartbeat \/ \E m \in Messages : PulseBusy(m))
           => heartbeat' \/ \E m \in Messages : PulseBusy(m)'
  PROVE  PresentIsWatched'
BY DEF PresentIsWatched

LEMMA GoneFrame ==
  ASSUME GoneIsTornDown, UNCHANGED <<conversation, objects, deleting>>,
         \A m \in Messages : Provisioned(m)' => Provisioned(m),
         \A d \in Deleters : stage'[d] = "answered" => stage[d] = "answered"
  PROVE  GoneIsTornDown'
BY DEF GoneIsTornDown

Parts == ReapedAlone /\ PresentIsWatched /\ GoneIsTornDown

\* A step of a message, which provisions only while its conversation is there
\* and begins only while nothing reaps.
LEMMA WatchMessage ==
  ASSUME WatchInv, Parts, Untroubled, Untroubled',
         NEW m \in Messages,
         BeginMessage(m) \/ MessageStep(m) \/ AddHeartbeat(m)
  PROVE  Parts'
<1> USE DEF Parts
<1>t. /\ stage \in [Requests -> Stages] /\ PulseTyped /\ m \in Requests
      /\ \A d \in Deleters : d \in Requests /\ d # m
      /\ \A n \in Messages : n \in Requests
  BY Disjoint DEF WatchInv, StoreInv, StoreTyped, Requests
<1>1. CASE BeginMessage(m)
  <2>1. /\ AfterAssert("saving") \in {"saving", "failed"}
        /\ stage' = [stage EXCEPT ![m] = AfterAssert("saving")]
        /\ UNCHANGED <<conversation, pulse, heartbeat, removed, announced, vars>>
        /\ ~Reaping
    BY <1>1, StageNames DEF BeginMessage, Move, Untroubled, AfterAssert
  <2>2. UNCHANGED <<objects, deleting, outcome, claiming, creating>>
    BY <2>1 DEF vars, k8sVars
  <2>3. \A n \in Messages : Provisioned(n)' => Provisioned(n)
    BY <1>t, <2>1, <2>2 DEF Provisioned, EnsureBusy
  <2>4. \A n \in Messages : PulseBusy(n)' = PulseBusy(n)
    BY <2>1 DEF PulseBusy
  <2>5. \A d \in Deleters : stage'[d] = stage[d]
    BY <1>t, <2>1
  <2> QED
    BY <2>1, <2>2, <2>3, <2>4, <2>5, ReapedFrame, PresentFrame, GoneFrame
<1>2. CASE InsertMessage(m)
  <2>1. /\ stage[m] = "saving"
        /\ stage' = [stage EXCEPT ![m] = AfterAssert("pushing")]
        /\ UNCHANGED <<conversation, heartbeat, removed, announced, vars>>
    BY <1>2 DEF InsertMessage, Move
  <2>2. UNCHANGED <<objects, deleting, outcome, claiming, creating>>
    BY <2>1 DEF vars, k8sVars
  <2>3. \A d \in Deleters : stage'[d] = stage[d]
    BY <1>t, <2>1
  <2>4. \A n \in Messages : Handling(n)' => Handling(n)
    <3>1. Handling(m)
      BY <2>1 DEF Handling, Done
    <3>2. \A n \in Messages : n # m => stage'[n] = stage[n] /\ pulse'[n] = pulse[n]
      BY <1>t, <1>2, <2>1 DEF InsertMessage, PulseTyped
    <3> QED
      BY <2>2, <3>1, <3>2 DEF Handling, PulseBusy, EnsureBusy
  <2>5. ReapedAlone'
    BY <2>1, <2>2, <2>4, ReapedFrame
  <2>6. CASE conversation = "present"
    <3>1. pulse' = [pulse EXCEPT ![m] = "asserting"]
      BY <1>2, <2>6 DEF InsertMessage
    <3>2. PulseBusy(m)'
      BY <1>t, <3>1 DEF PulseBusy, PulseTyped
    <3>3. PresentIsWatched'
      BY <3>2 DEF PresentIsWatched
    <3>4. GoneIsTornDown'
      BY <2>1, <2>3, <2>6 DEF GoneIsTornDown
    <3> QED
      BY <2>5, <3>3, <3>4
  <2>7. CASE conversation # "present"
    <3>1. stage'[m] = "failed" /\ pulse' = pulse
      BY <1>t, <1>2, <2>1, <2>7 DEF InsertMessage, AfterAssert
    <3>2. \A n \in Messages : Provisioned(n)' => Provisioned(n)
      BY <1>t, <2>1, <2>2, <3>1 DEF Provisioned, EnsureBusy
    <3> QED
      BY <2>1, <2>2, <2>3, <2>5, <2>7, <3>2, PresentFrame, GoneFrame
  <2> QED
    BY <2>6, <2>7
<1>3. CASE PushMessage(m)
  <2>1. /\ stage[m] = "pushing" /\ stage' = [stage EXCEPT ![m] = "answered"]
        /\ BeginEnsure(m)
        /\ UNCHANGED <<conversation, pulse, heartbeat, removed, announced>>
    BY <1>3 DEF PushMessage, Move, presence
  <2>2. /\ UNCHANGED <<objects, deleting, creating>>
        /\ claiming' = claiming \union {m}
        /\ outcome' = [outcome EXCEPT ![m] = "running"]
    BY <2>1 DEF BeginEnsure
  <2>3. \A t \in Teardowns : outcome'[t] = outcome[t]
    BY <2>2, CallsAssumption DEF WatchInv, KubeInv, TypeOK, Messages
  <2>4. \A n \in Messages : n # m => stage'[n] = stage[n] /\ (n \in claiming' <=> n \in claiming)
    BY <1>t, <2>1, <2>2
  <2>5. Provisioned(m) /\ Handling(m)
    BY <2>1 DEF Provisioned, Handling, Done
  <2>6. \A n \in Messages : Provisioned(n)' => Provisioned(n)
    BY <2>2, <2>4, <2>5 DEF Provisioned, EnsureBusy
  <2>7. \A n \in Messages : Handling(n)' => Handling(n)
    BY <2>1, <2>2, <2>4, <2>5 DEF Handling, EnsureBusy, PulseBusy
  <2>8. \A d \in Deleters : stage'[d] = stage[d]
    BY <1>t, <2>1
  <2>9. \A n \in Messages : PulseBusy(n)' = PulseBusy(n)
    BY <2>1 DEF PulseBusy
  <2> QED
    BY <2>1, <2>2, <2>3, <2>6, <2>7, <2>8, <2>9, ReapedFrame, PresentFrame, GoneFrame
<1>4. CASE AssertPulse(m) \/ AddHeartbeat(m)
  <2>1. /\ PulseBusy(m)
        /\ UNCHANGED <<conversation, stage, removed, announced, vars>>
        /\ \A n \in Messages : n # m => pulse'[n] = pulse[n]
    BY <1>4, <1>t DEF AssertPulse, AddHeartbeat, PulseBusy, PulseTyped, store
  <2>2. UNCHANGED <<objects, deleting, outcome, claiming, creating>>
    BY <2>1 DEF vars, k8sVars
  <2>3. \A n \in Messages : Provisioned(n)' => Provisioned(n)
    BY <2>1, <2>2 DEF Provisioned, EnsureBusy
  <2>4. \A n \in Messages : Handling(n)' => Handling(n)
    BY <2>1, <2>2 DEF Handling, EnsureBusy, PulseBusy
  <2>5. conversation = "present" => heartbeat' \/ PulseBusy(m)'
    <3>1. CASE AssertPulse(m)
      BY <1>t, <3>1 DEF AssertPulse, PulseBusy, PulseTyped
    <3>2. CASE AddHeartbeat(m)
      BY <3>2 DEF AddHeartbeat
    <3> QED
      BY <1>4, <3>1, <3>2
  <2>6. ReapedAlone'
    BY <2>1, <2>2, <2>4, ReapedFrame
  <2>7. PresentIsWatched'
    BY <2>1, <2>2, <2>3, <2>5, PresentFrame
  <2>8. GoneIsTornDown'
    BY <2>1, <2>2, <2>3, GoneFrame
  <2> QED
    BY <2>6, <2>7, <2>8
<1> QED
  BY <1>1, <1>2, <1>3, <1>4 DEF MessageStep

LEMMA WatchCreation ==
  ASSUME WatchInv, Parts, Untroubled, Untroubled', CreateConversation PROVE Parts'
<1> USE DEF Parts
<1>1. /\ stage[First] = "new" /\ stage' = [stage EXCEPT ![First] = "saving"]
      /\ conversation = "absent" /\ conversation' = "present" /\ ~Reaping
      /\ UNCHANGED <<pulse, heartbeat, removed, announced, vars>>
  BY DEF CreateConversation, Move, Untroubled, WatchInv, StoreInv, CreatedOnce
<1>2. UNCHANGED <<objects, deleting, outcome, claiming, creating>>
  BY <1>1 DEF vars, k8sVars
<1>3. ReapedAlone'
  BY <1>1, <1>2, ReapedFrame
<1>4. \A m \in Messages : ~Provisioned(m)'
  <2> SUFFICES ASSUME NEW m \in Messages PROVE ~Provisioned(m)'
    OBVIOUS
  <2>1. ~Provisioned(m)
    BY <1>1 DEF GoneIsTornDown
  <2>2. stage'[m] \in {stage[m], "saving"}
    BY <1>1, Disjoint DEF WatchInv, StoreInv, StoreTyped, Requests
  <2> QED
    BY <1>2, <2>1, <2>2 DEF Provisioned, EnsureBusy
<1>5. objects' = {}
  BY <1>1, <1>2 DEF GoneIsTornDown
<1>6. \A d \in Deleters : stage'[d] = stage[d]
  BY <1>1, Disjoint DEF WatchInv, StoreInv, StoreTyped, Requests
<1> QED
  BY <1>1, <1>3, <1>4, <1>5, <1>6 DEF PresentIsWatched, GoneIsTornDown

\* A deletion that commits finds nothing being provisioned and begins a teardown
\* that is to delete everything.
LEMMA WatchDeletion ==
  ASSUME WatchInv, Parts, Untroubled, Untroubled',
         NEW d \in Deleters, BeginDelete(d) \/ DeleteStep(d)
  PROVE  Parts'
<1> USE DEF Parts
<1>t. /\ stage \in [Requests -> Stages] /\ d \in Requests /\ d \in Teardowns
      /\ \A n \in Messages : n \in Requests /\ n # d
      /\ \A x \in Deleters : x \in Requests
  BY Disjoint, RequestsAssumption DEF WatchInv, StoreInv, StoreTyped, Requests
<1>1. CASE BeginDelete(d) \/ EmptyConversation(d) \/ DropRejected(d)
  <2>1. PICK to \in Stages \ {"answered"} : stage' = [stage EXCEPT ![d] = to]
    BY <1>1, StageNames DEF BeginDelete, EmptyConversation, DropRejected, Move, AfterAssert
  <2>2. UNCHANGED <<conversation, pulse, heartbeat, removed, announced, objects,
                    deleting, outcome, claiming, creating>>
    BY <1>1 DEF BeginDelete, EmptyConversation, DropRejected, presence, vars, k8sVars
  <2>3. /\ \A n \in Messages : stage'[n] = stage[n]
        /\ \A x \in Deleters : stage'[x] = "answered" => stage[x] = "answered"
    BY <1>t, <2>1
  <2>4. \A n \in Messages : /\ Provisioned(n)' = Provisioned(n)
                            /\ Handling(n)' = Handling(n)
                            /\ PulseBusy(n)' = PulseBusy(n)
    BY <2>2, <2>3 DEF Provisioned, Handling, PulseBusy, EnsureBusy
  <2> QED
    BY <2>2, <2>3, <2>4, ReapedFrame, PresentFrame, GoneFrame
<1>2. CASE DropConversation(d)
  <2>1. /\ stage[d] = "dropping" /\ stage' = [stage EXCEPT ![d] = "answered"]
        /\ conversation' = "deleted" /\ ~DeletionOverlaps
        /\ UNCHANGED <<pulse, heartbeat, removed, announced>>
    BY <1>2 DEF DropConversation, Move, Untroubled
  <2>2. /\ deleting' = [deleting EXCEPT ![d] = Resources]
        /\ outcome' = [outcome EXCEPT ![d] = "running"]
        /\ UNCHANGED <<objects, claiming, creating>>
    BY <1>2 DEF DropConversation, BeginTeardown
  <2>3. /\ deleting'[d] = Resources /\ outcome'[d] = "running"
        /\ \A t \in Teardowns \ {d} : deleting'[t] = deleting[t] /\ outcome'[t] = outcome[t]
    BY <1>t, <2>2 DEF WatchInv, KubeInv, TypeOK
  <2>4. \A n \in Messages : /\ ~Provisioned(n)'
                            /\ Handling(n)' = Handling(n)
    <3>1. \A n \in Messages : stage'[n] = stage[n]
      BY <1>t, <2>1
    <3> QED
      BY <2>1, <2>2, <3>1
        DEF DeletionOverlaps, Provisioned, EnsureBusy, Handling, PulseBusy
  <2>5. Reaping' = Reaping
    BY <2>1, <2>3 DEF Reaping, Reapings
  <2>6. ReapedAlone'
    BY <2>1, <2>2, <2>3, <2>4, <2>5 DEF ReapedAlone, Reapings
  <2>7. PresentIsWatched'
    BY <2>1 DEF PresentIsWatched
  <2>8. objects' \subseteq deleting'[d]
    BY <2>2, <2>3 DEF WatchInv, KubeInv, TypeOK, Resources
  <2>9. GoneIsTornDown'
    BY <2>1, <2>4, <2>8 DEF GoneIsTornDown
  <2> QED
    BY <2>6, <2>7, <2>9
<1> QED
  BY <1>1, <1>2 DEF DeleteStep

\* A lifecycle worker drops the heartbeat of what its teardown has removed.
LEMMA WatchRemoval ==
  ASSUME WatchInv, Parts, NEW t \in Teardowns, RemoveHeartbeat(t) PROVE Parts'
<1> USE DEF Parts
<1>1. /\ RemovalDue(t) /\ removed' = removed \union {t}
      /\ UNCHANGED <<conversation, stage, pulse, announced, objects, deleting,
                     outcome, claiming, creating>>
  BY DEF RemoveHeartbeat, store, vars, k8sVars
<1>2. Reaping' => Reaping
  BY <1>1 DEF Reaping, Reapings
<1>3. \A n \in Messages : /\ Provisioned(n)' = Provisioned(n)
                          /\ Handling(n)' = Handling(n)
  BY <1>1 DEF Provisioned, Handling, EnsureBusy, PulseBusy
<1>4. ReapedAlone'
  BY <1>1, <1>2, <1>3 DEF ReapedAlone, Reapings
<1>5. GoneIsTornDown'
  BY <1>1, <1>3 DEF GoneIsTornDown
<1>6. CASE t \in Deleters
  <2>1. conversation = "deleted"
    BY <1>1, <1>6 DEF RemovalDue, GoneIsTornDown
  <2> QED
    BY <1>1, <1>4, <1>5, <2>1 DEF PresentIsWatched
<1>7. CASE t \notin Deleters
  <2>1. t \in Reapings \ removed /\ outcome[t] = "resolved" /\ Reaping
    BY <1>1, <1>7 DEF RemovalDue, Reapings, Reaping
  <2>2. objects = {}
    BY <2>1 DEF ReapedAlone, Reapings
  <2>3. \A n \in Messages : ~Provisioned(n)
    BY <2>1 DEF ReapedAlone, Provisioned, Handling, Done
  <2> QED
    BY <1>1, <1>3, <1>4, <1>5, <2>2, <2>3 DEF PresentIsWatched
<1> QED
  BY <1>6, <1>7

LEMMA WatchReception ==
  ASSUME WatchInv, Parts, NEW w \in Reapings, ReceiveReady(w) PROVE Parts'
<1> USE DEF Parts
<1>t. w \in Teardowns /\ w \notin Deleters
  BY DEF Reapings
<1>1. /\ announced /\ announced' = FALSE
      /\ UNCHANGED <<conversation, stage, pulse, heartbeat, removed>>
      /\ deleting' = [deleting EXCEPT ![w] = Resources]
      /\ outcome' = [outcome EXCEPT ![w] = "running"]
      /\ UNCHANGED <<objects, claiming, creating>>
  BY DEF ReceiveReady, BeginTeardown, store
<1>2. /\ deleting'[w] = Resources /\ outcome'[w] = "running"
      /\ \A t \in Teardowns \ {w} : deleting'[t] = deleting[t] /\ outcome'[t] = outcome[t]
  BY <1>t, <1>1 DEF WatchInv, KubeInv, TypeOK
<1>3. Reaping
  BY <1>1 DEF Reaping
<1>4. \A n \in Messages : /\ Provisioned(n)' = Provisioned(n)
                          /\ Handling(n)' = Handling(n)
                          /\ PulseBusy(n)' = PulseBusy(n)
  BY <1>1 DEF Provisioned, Handling, EnsureBusy, PulseBusy
<1>5. objects' \subseteq Resources
  BY <1>1 DEF WatchInv, KubeInv, TypeOK, Resources
<1>6. ReapedAlone'
  BY <1>1, <1>2, <1>3, <1>4, <1>5 DEF ReapedAlone, Reapings
<1>7. PresentIsWatched'
  BY <1>1, <1>4 DEF PresentIsWatched
<1>8. GoneIsTornDown'
  <2>1. \A d \in Deleters : deleting'[d] = deleting[d]
    BY <1>t, <1>2, RequestsAssumption
  <2> QED
    BY <1>1, <1>4, <2>1 DEF GoneIsTornDown
<1> QED
  BY <1>6, <1>7, <1>8

\* Steps that touch neither requests nor teardowns.
LEMMA WatchOthers ==
  ASSUME WatchInv, Parts, Untroubled, Untroubled',
         Ping \/ AgentAnswers \/ Announce \/ UNCHANGED allVars
  PROVE  Parts'
<1> USE DEF Parts
<1>1. /\ UNCHANGED <<conversation, stage, pulse, removed, objects, deleting,
                     outcome, claiming, creating>>
      /\ heartbeat' \in {heartbeat, TRUE}
  BY DEF Ping, AgentAnswers, Announce, allVars, store, presence, vars, k8sVars
<1>2. \A n \in Messages : /\ Provisioned(n)' = Provisioned(n)
                          /\ Handling(n)' = Handling(n)
                          /\ PulseBusy(n)' = PulseBusy(n)
  BY <1>1 DEF Provisioned, Handling, EnsureBusy, PulseBusy
<1>3. PresentIsWatched' /\ GoneIsTornDown'
  BY <1>1, <1>2 DEF PresentIsWatched, GoneIsTornDown
<1>4. CASE Announce
  <2>1. \A m \in Messages : ~Handling(m)
    BY <1>4 DEF Announce, Untroubled
  <2> QED
    BY <1>1, <1>2, <1>3, <2>1 DEF ReapedAlone
<1>5. CASE ~Announce
  <2>1. announced' = announced
    BY <1>5 DEF Ping, AgentAnswers, allVars, presence
  <2> QED
    BY <1>1, <1>2, <1>3, <2>1, ReapedFrame
<1> QED
  BY <1>4, <1>5

\* Creations go on only for messages under way, deletions only for teardowns.
LEMMA WatchKube ==
  ASSUME WatchInv, Parts, ~Fault, errors = 0, errors' = 0, KubeStep PROVE Parts'
<1> USE DEF Parts
<1>t. UNCHANGED <<conversation, stage, pulse, heartbeat, removed, announced>>
  BY DEF KubeStep, store, presence
<1>k. /\ deleting \in [Teardowns -> SUBSET Resources]
      /\ outcome \in [Ensures \union Teardowns -> Outcomes]
      /\ creating \in [Ensures -> SUBSET Objects]
  BY DEF WatchInv, KubeInv, TypeOK
<1>1. ASSUME UNCHANGED <<objects, deleting, outcome>>,
             \A n \in Messages : EnsureBusy(n)' => EnsureBusy(n)
      PROVE  Parts'
  <2>1. \A n \in Messages : /\ Provisioned(n)' => Provisioned(n)
                            /\ Handling(n)' => Handling(n)
                            /\ PulseBusy(n)' = PulseBusy(n)
    BY <1>t, <1>1 DEF Provisioned, Handling, PulseBusy
  <2> QED
    BY <1>1, <1>t, <2>1, ReapedFrame, PresentFrame, GoneFrame
<1>2. ASSUME NEW m \in Messages, EnsureWorkspacePVC(m) PROVE Parts'
  <2>1. EnsureBusy(m) /\ UNCHANGED <<objects, deleting, outcome>>
    BY <1>2 DEF EnsureWorkspacePVC, EnsureBusy
  <2>2. \A n \in Messages : n # m => creating'[n] = creating[n] /\ (n \in claiming' => n \in claiming)
    BY <1>2, <1>k DEF EnsureWorkspacePVC, Messages
  <2>3. \A n \in Messages : EnsureBusy(n)' => EnsureBusy(n)
    BY <2>1, <2>2 DEF EnsureBusy
  <2> QED
    BY <1>1, <2>1, <2>3
<1>3. ASSUME NEW m \in Messages, NEW o \in Objects, EnsureObject(m, o) PROVE Parts'
  <2>1. /\ o \in creating[m] /\ creating' = [creating EXCEPT ![m] = @ \ {o}]
        /\ UNCHANGED <<claiming, deleting>>
        /\ outcome' \in {outcome, [outcome EXCEPT ![m] = "resolved"]}
    BY <1>3 DEF EnsureObject, Settle
  <2>2. Provisioned(m) /\ Handling(m)
    BY <2>1 DEF Provisioned, Handling, EnsureBusy
  <2>3. conversation = "present" /\ ~Reaping
    BY <2>2 DEF GoneIsTornDown, ReapedAlone
  <2>4. \A t \in Teardowns : outcome'[t] = outcome[t]
    BY <1>k, <2>1, CallsAssumption DEF Messages
  <2>5. ~Reaping'
    BY <1>t, <2>3, <2>4 DEF Reaping, Reapings
  <2>6. \A w \in Reapings \ removed' : outcome'[w] = "idle"
    BY <2>5 DEF Reaping
  <2>7. ReapedAlone'
    BY <2>1, <2>4, <2>5, <2>6 DEF ReapedAlone
  <2>8. PresentIsWatched'
    <3>1. heartbeat \/ \E n \in Messages : PulseBusy(n)
      BY <2>2, <2>3 DEF PresentIsWatched
    <3> QED
      BY <1>t, <3>1 DEF PresentIsWatched, PulseBusy
  <2>9. GoneIsTornDown'
    BY <1>t, <2>3 DEF GoneIsTornDown
  <2> QED
    BY <2>7, <2>8, <2>9
<1>4. ASSUME NEW t \in Teardowns, NEW r \in Resources, DeleteResource(t, r) PROVE Parts'
  <2>1. /\ r \in deleting[t] /\ deleting' = [deleting EXCEPT ![t] = @ \ {r}]
        /\ objects' = objects \ {r}
        /\ Settle(t, deleting[t] \ {r})
        /\ UNCHANGED <<claiming, creating>>
    BY <1>4 DEF DeleteResource
  <2>2. /\ deleting'[t] = deleting[t] \ {r}
        /\ \A u \in Teardowns \ {t} : deleting'[u] = deleting[u]
    BY <1>k, <2>1
  <2>3. /\ \A u \in Teardowns : outcome'[u] = "idle" <=> outcome[u] = "idle"
        /\ \A u \in Teardowns \ {t} : outcome'[u] = outcome[u]
        /\ outcome'[t] = "resolved" => outcome[t] = "resolved" \/ deleting'[t] = {}
    BY <1>k, <2>1, <2>2 DEF Settle
  <2>4. \A n \in Messages : /\ Provisioned(n)' = Provisioned(n)
                            /\ Handling(n)' = Handling(n)
                            /\ PulseBusy(n)' = PulseBusy(n)
    BY <1>t, <2>1 DEF Provisioned, Handling, PulseBusy, EnsureBusy
  <2>5. Reaping' = Reaping
    BY <1>t, <2>3 DEF Reaping, Reapings
  <2>6. \A u \in Teardowns : objects \subseteq deleting[u] => objects' \subseteq deleting'[u]
    BY <2>1, <2>2
  <2>7. ReapedAlone'
    <3>1. \A w \in Reapings \ removed' : outcome'[w] # "idle" => objects' \subseteq deleting'[w]
      BY <1>t, <2>3, <2>6 DEF ReapedAlone, Reapings
    <3>2. \A u \in Teardowns : outcome'[u] = "resolved" => deleting'[u] = {}
      BY <2>2, <2>3 DEF ReapedAlone
    <3> QED
      BY <2>4, <2>5, <3>1, <3>2 DEF ReapedAlone
  <2>8. PresentIsWatched'
    BY <1>t, <2>1, <2>4, PresentFrame
  <2>9. GoneIsTornDown'
    BY <1>t, <2>1, <2>4, <2>6, RequestsAssumption DEF GoneIsTornDown
  <2> QED
    BY <2>7, <2>8, <2>9
<1>5. CASE Controllers \/ PodChanges
  <2>1. UNCHANGED <<objects, deleting, outcome, claiming, creating>>
    BY <1>5 DEF Controllers, SchedulePod, RemovePod, FinalizePVC, PodChanges, k8sVars
  <2> QED
    BY <1>1, <2>1 DEF EnsureBusy
<1>6. \A e \in Ensures : ~EnsureFails(e)
  BY DEF EnsureFails
<1>7. \A t \in Teardowns, r \in Resources : ~DeleteFails(t, r)
  BY DEF DeleteFails
<1> QED
  BY <1>2, <1>3, <1>4, <1>5, <1>6, <1>7 DEF KubeStep, EnsureStep, TeardownStep, Messages

LEMMA PulseTypedNext ==
  ASSUME PulseTyped, [ConversationNext]_allVars PROVE PulseTyped'
<1> USE DEF PulseTyped
<1>1. CASE \E m \in Messages : InsertMessage(m) \/ AssertPulse(m) \/ AddHeartbeat(m) \/ PulseFails(m)
  BY <1>1 DEF InsertMessage, AssertPulse, AddHeartbeat, PulseFails
<1>2. CASE BackendDies
  BY <1>2 DEF BackendDies
<1>3. CASE ~BackendDies /\ ~\E m \in Messages : \/ InsertMessage(m) \/ AssertPulse(m)
                                               \/ AddHeartbeat(m) \/ PulseFails(m)
  <2>1. pulse' = pulse
    BY <1>3 DEF allVars, presence, ConversationNext, CreateConversation, BeginMessage,
         MessageStep, PushMessage, Ping, BeginDelete, DeleteStep, EmptyConversation,
         DropRejected, DropConversation, RemoveHeartbeat, RequestFails, AgentAnswers,
         Announce, ReceiveReady, KubeStep
  <2> QED
    BY <2>1
<1> QED
  BY <1>1, <1>2, <1>3

LEMMA WatchNext == WatchInv /\ [ConversationNext]_allVars => WatchInv'
<1> SUFFICES ASSUME WatchInv, [ConversationNext]_allVars PROVE WatchInv'
  OBVIOUS
<1>1. KubeInv' /\ StoreInv' /\ PulseTyped'
  BY KubeInvConversationNext, StoreInvNext, PulseTypedNext DEF WatchInv
<1>2. ASSUME Untroubled' PROVE Parts'
  <2>1. Untroubled /\ ~Fault /\ Parts
    BY <1>2, AlwaysUntroubled DEF Parts
  <2>2. CASE CreateConversation
    BY <1>2, <2>1, <2>2, WatchCreation
  <2>3. CASE \E m \in Messages : BeginMessage(m) \/ MessageStep(m) \/ AddHeartbeat(m)
    BY <1>2, <2>1, <2>3, WatchMessage
  <2>4. CASE \E d \in Deleters : BeginDelete(d) \/ DeleteStep(d)
    BY <1>2, <2>1, <2>4, WatchDeletion
  <2>5. CASE \E t \in Teardowns : RemoveHeartbeat(t)
    BY <2>1, <2>5, WatchRemoval
  <2>6. CASE \E w \in Reapings : ReceiveReady(w)
    BY <2>1, <2>6, WatchReception
  <2>7. CASE Ping \/ AgentAnswers \/ Announce \/ UNCHANGED allVars
    BY <1>2, <2>1, <2>7, WatchOthers
  <2>8. CASE KubeStep
    BY <1>2, <2>1, <2>8, WatchKube DEF Untroubled
  <2>9. /\ \A r \in Requests : ~RequestFails(r)
        /\ \A m \in Messages : ~PulseFails(m)
        /\ ~BackendDies
    BY <2>1 DEF RequestFails, PulseFails, BackendDies
  <2> QED
    BY <2>2, <2>3, <2>4, <2>5, <2>6, <2>7, <2>8, <2>9 DEF ConversationNext
<1> QED
  BY <1>1, <1>2 DEF WatchInv, Watch, Untroubled, Parts

\* For any number of messages, deletions and lifecycle workers: unless a removal
\* meets a message under way or a call fails, what is left in Kubernetes when
\* everything is answered belongs to a conversation that still exists and has
\* its heartbeat, by which alone it is ever found (handleMessage,
\* deleteConversation, listenShutdownReadyMessages).
THEOREM InfrastructureIsAlwaysWatched == ConversationSpec => []InfrastructureIsWatched
BY WatchInit, WatchNext, WatchImplies, PTL DEF ConversationSpec

-----------------------------------------------------------------------------
(* Type correctness                                                        *)

\* What the history and the watch do not rest on.
FlagsTyped ==
  heartbeat \in BOOLEAN /\ removed \in SUBSET Teardowns /\ announced \in BOOLEAN

LEMMA FlagsTypedNext == FlagsTyped /\ [ConversationNext]_allVars => FlagsTyped'
<1> SUFFICES ASSUME FlagsTyped, [ConversationNext]_allVars PROVE FlagsTyped'
  OBVIOUS
<1> USE DEF FlagsTyped
<1>1. CASE \E m \in Messages : AddHeartbeat(m)
  BY <1>1 DEF AddHeartbeat
<1>2. CASE Ping \/ Announce
  BY <1>2 DEF Ping, Announce
<1>3. CASE \E t \in Teardowns : RemoveHeartbeat(t)
  BY <1>3 DEF RemoveHeartbeat
<1>4. CASE \E w \in Reapings : ReceiveReady(w)
  BY <1>4 DEF ReceiveReady
<1>5. CASE BackendDies
  BY <1>5, RequestsAssumption DEF BackendDies
<1>6. CASE \/ CreateConversation \/ AgentAnswers
           \/ \E m \in Messages : BeginMessage(m) \/ MessageStep(m) \/ PulseFails(m)
           \/ \E d \in Deleters : BeginDelete(d) \/ DeleteStep(d)
           \/ \E r \in Requests : RequestFails(r)
           \/ KubeStep \/ UNCHANGED allVars
  <2>1. UNCHANGED <<heartbeat, removed, announced>>
    BY <1>6 DEF allVars, presence, CreateConversation, BeginMessage, MessageStep,
         InsertMessage, PushMessage, AssertPulse, BeginDelete, DeleteStep,
         EmptyConversation, DropRejected, DropConversation, RequestFails, PulseFails,
         AgentAnswers, KubeStep
  <2> QED
    BY <2>1
<1> QED
  BY <1>1, <1>2, <1>3, <1>4, <1>5, <1>6 DEF ConversationNext

OverlapTyped == overlapped \in BOOLEAN

LEMMA OverlapTypedNext ==
  OverlapTyped /\ [ConversationNext]_allVars => OverlapTyped'
BY DEF OverlapTyped, allVars, presence, ConversationNext, CreateConversation, BeginMessage, MessageStep,
     InsertMessage, PushMessage, AssertPulse, AddHeartbeat, BeginDelete, DeleteStep,
     EmptyConversation, DropRejected, DropConversation, RemoveHeartbeat, RequestFails,
     PulseFails, BackendDies, AgentAnswers, Announce, ReceiveReady, Ping, KubeStep

\* Every variable of the objects, the calls and the pod keeps its type.
THEOREM TypeCorrect == Spec => []TypeOK
<1>1. KubeInv => TypeOK
  BY DEF KubeInv
<1> QED
  BY <1>1, KubeInvariance, PTL

\* Every variable of the backend, its rows and what its requests leave behind
\* keeps its type, in whatever order requests, deletions and failures come.
THEOREM ConversationTypeCorrect == ConversationSpec => []ConversationTypeOK
<1>1. ConversationInit => FlagsTyped /\ OverlapTyped
  BY DEF ConversationInit, FlagsTyped, OverlapTyped
<1>2. WatchInv /\ FlagsTyped /\ OverlapTyped => ConversationTypeOK
  BY DEF WatchInv, KubeInv, StoreInv, StoreTyped, PulseTyped, FlagsTyped,
     OverlapTyped, ConversationTypeOK
<1> QED
  BY <1>1, <1>2, WatchInit, WatchNext, FlagsTypedNext, OverlapTypedNext, PTL
     DEF ConversationSpec

=============================================================================
