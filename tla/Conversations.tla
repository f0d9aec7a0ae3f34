---------------------------- MODULE Conversations ----------------------------
(***************************************************************************)
(* One conversation in the backend: its row and its message rows in        *)
(* Postgres, the requests that create, extend, keep alive and delete it,   *)
(* and the calls they leave behind: recordHeartbeat, ensureInfrastructure, *)
(* teardownInfrastructure and zRem are begun with "void" and never         *)
(* awaited, so they race other requests and the lifecycle worker.          *)
(*                                                                         *)
(* A request stops at each await.  A rejection of an unawaited call is an  *)
(* unhandled one, which ends a Node process: one of the crashes here.      *)
(***************************************************************************)
EXTENDS Provisioning

CONSTANTS First,     \* the message that creates the conversation
          Deleters   \* requests that delete it, the other teardowns being
                     \* receptions of a shutdown_ready by a lifecycle worker

ASSUME RequestsAssumption == First \in Ensures /\ Deleters \subseteq Teardowns

VARIABLES
  conversation,  \* its row: "absent", "present" or "deleted"
  rows,          \* its rows in message_history
  stage,         \* per request, the await it is at
  emptied,       \* per deletion, the rows its open transaction has deleted
  pulse,         \* per message, where its recordHeartbeat is
  heartbeat,     \* the sorted set has an entry of it
  removed,       \* teardowns whose zRem has been answered, or lost
  queued,        \* messages pushed to the agent's list
  announced,     \* a shutdown_ready waits for a lifecycle worker
  overlapped     \* history: a removal met a message or heartbeat under way

store       == <<conversation, rows, stage, emptied, queued>>
presence    == <<pulse, heartbeat, removed, announced, overlapped>>
allVars     == <<store, presence, vars>>

Messages == Ensures
Reapings == Teardowns \ Deleters
Requests == Messages \union Deleters
Answer   == "answer"                      \* the row the agent writes
Rows     == Messages \union {Answer}

Done   == {"answered", "failed"}
Stages == {"new", "saving", "pushing", "emptying", "dropping"} \union Done

ConversationTypeOK ==
  /\ TypeOK
  /\ conversation \in {"absent", "present", "deleted"}
  /\ rows \in SUBSET Rows
  /\ stage \in [Requests -> Stages]
  /\ emptied \in [Deleters -> SUBSET Rows]
  /\ pulse \in [Messages -> {"new", "asserting", "adding", "done"}]
  /\ heartbeat \in BOOLEAN
  /\ removed \in SUBSET Teardowns
  /\ queued \in SUBSET Messages
  /\ announced \in BOOLEAN /\ overlapped \in BOOLEAN

ConversationInit ==
  /\ Init
  /\ conversation = "absent"
  /\ rows = {}
  /\ stage = [r \in Requests |-> "new"]
  /\ emptied = [d \in Deleters |-> {}]
  /\ pulse = [m \in Messages |-> "new"]
  /\ heartbeat = FALSE
  /\ removed = {}
  /\ queued = {}
  /\ announced = FALSE /\ overlapped = FALSE

Move(r, from, to) ==
  /\ stage[r] = from
  /\ stage' = [stage EXCEPT ![r] = to]

PulseBusy(m) == pulse[m] \in {"asserting", "adding"}

\* A message from its request to the last call it leaves behind.
Handling(m) ==
  stage[m] \notin Done \union {"new"} \/ PulseBusy(m) \/ EnsureBusy(m)

\* A lifecycle worker is bound to remove the infrastructure and the heartbeat.
Reaping ==
  announced \/ \E w \in Reapings : outcome[w] # "idle" /\ w \notin removed

-----------------------------------------------------------------------------
(* Messages: converse, handleMessage, saveConversation, saveMessage        *)

\* saveConversation: the first of two inserts without a transaction.
CreateConversation ==
  /\ Move(First, "new", "saving")
  /\ conversation' = "present"
  /\ overlapped' = (overlapped \/ Reaping)
  /\ UNCHANGED <<rows, emptied, queued, pulse, heartbeat, removed, announced,
                 vars>>

AfterAssert(next) == IF conversation = "present" THEN next ELSE "failed"

\* assertConversationBelongsToUser.  The sender knows the conversation's id from
\* the first answer or from the list in the sidebar; another tab may have
\* deleted the conversation meanwhile.
BeginMessage(m) ==
  /\ m # First /\ conversation # "absent"
  /\ Move(m, "new", AfterAssert("saving"))
  /\ overlapped' = (overlapped \/ Reaping)
  /\ UNCHANGED <<conversation, rows, emptied, queued, pulse, heartbeat,
                 removed, announced, vars>>

\* Mutant of InsertMessage: no heartbeat is recorded.
InsertMessageUnwatched(m) ==
  /\ Move(m, "saving", AfterAssert("pushing"))
  /\ rows' = IF conversation = "present" THEN rows \union {m} ELSE rows
  /\ UNCHANGED <<conversation, emptied, queued, presence, vars>>

\* The foreign key rejects the row of a conversation deleted since.  The
\* heartbeat is recorded beside the push.
InsertMessage(m) ==
  /\ Move(m, "saving", AfterAssert("pushing"))
  /\ IF conversation = "present"
       THEN /\ rows' = rows \union {m}
            /\ pulse' = [pulse EXCEPT ![m] = "asserting"]
       ELSE UNCHANGED <<rows, pulse>>
  /\ UNCHANGED <<conversation, emptied, queued, heartbeat, removed, announced,
                 overlapped, vars>>

\* lPush; then ensureInfrastructure is begun and the request answered.
PushMessage(m) ==
  /\ Move(m, "pushing", "answered")
  /\ queued' = queued \union {m}
  /\ BeginEnsure(m)
  /\ UNCHANGED <<conversation, rows, emptied, presence>>

-----------------------------------------------------------------------------
(* recordHeartbeat                                                         *)

\* assertConversationBelongsToUser again: a message's conversation may be gone.
AssertPulse(m) ==
  /\ pulse[m] = "asserting"
  /\ pulse' = [pulse EXCEPT ![m] =
                 IF conversation = "present" THEN "adding" ELSE "done"]
  /\ UNCHANGED <<store, heartbeat, removed, announced, overlapped, vars>>

AddHeartbeat(m) ==
  /\ pulse[m] = "adding"
  /\ pulse' = [pulse EXCEPT ![m] = "done"]
  /\ heartbeat' = TRUE
  /\ UNCHANGED <<store, removed, announced, overlapped, vars>>

\* useConversationHeartbeat: every 30 seconds while the conversation is viewed.
\* The query and the zAdd, apart in a message's pulse, are one step here.
Ping ==
  /\ conversation = "present"
  /\ ~heartbeat
  /\ heartbeat' = TRUE
  /\ UNCHANGED <<store, pulse, removed, announced, overlapped, vars>>

-----------------------------------------------------------------------------
(* deleteConversation                                                      *)

BeginDelete(d) ==
  /\ conversation # "absent"
  /\ Move(d, "new", AfterAssert("emptying"))
  /\ UNCHANGED <<conversation, rows, emptied, queued, presence, vars>>

\* Mutant of EmptyConversation: the deletes are not in a transaction.
EmptyConversationAtOnce(d) ==
  /\ Move(d, "emptying", "dropping")
  /\ emptied' = [emptied EXCEPT ![d] = rows]
  /\ rows' = {}
  /\ UNCHANGED <<conversation, queued, presence, vars>>

\* The transaction's first statement; nobody else sees it yet.
EmptyConversation(d) ==
  /\ Move(d, "emptying", "dropping")
  /\ emptied' = [emptied EXCEPT ![d] = rows]
  /\ UNCHANGED <<conversation, rows, queued, presence, vars>>

\* The message rows have no ON DELETE CASCADE: one inserted since the first
\* statement rejects the second, and the transaction is rolled back.
DropRejected(d) ==
  /\ Move(d, "dropping", "failed")
  /\ ~(rows \subseteq emptied[d])
  /\ emptied' = [emptied EXCEPT ![d] = {}]
  /\ UNCHANGED <<conversation, rows, queued, presence, vars>>

\* Work that can put back what this deletion is about to remove.
DeletionOverlaps ==
  \/ \E m \in Messages : stage[m] = "pushing" \/ EnsureBusy(m)
  \/ \E m \in Messages : pulse[m] = "adding"

\* The second statement and the commit; then the teardown is begun, the zRem
\* sent (RemoveHeartbeat) and the request answered, neither awaited.
DropConversation(d) ==
  /\ Move(d, "dropping", "answered")
  /\ rows \subseteq emptied[d]
  /\ conversation' = "deleted"
  /\ rows' = {}
  /\ emptied' = [emptied EXCEPT ![d] = {}]
  /\ overlapped' = (overlapped \/ DeletionOverlaps)
  /\ BeginTeardown(d)
  /\ UNCHANGED <<queued, pulse, heartbeat, removed, announced>>

RemovalDue(t) ==
  /\ t \notin removed
  /\ IF t \in Deleters THEN stage[t] = "answered" ELSE outcome[t] = "resolved"

\* Mutant of RemoveHeartbeat: only the lifecycle worker removes it.
RemoveHeartbeatUnlessDeleted(t) ==
  /\ RemovalDue(t)
  /\ removed' = removed \union {t}
  /\ heartbeat' = IF t \in Deleters THEN heartbeat ELSE FALSE
  /\ UNCHANGED <<store, pulse, announced, overlapped, vars>>

\* zRem, whatever the entry has become meanwhile.
RemoveHeartbeat(t) ==
  /\ RemovalDue(t)
  /\ removed' = removed \union {t}
  /\ heartbeat' = FALSE
  /\ UNCHANGED <<store, pulse, announced, overlapped, vars>>

-----------------------------------------------------------------------------
(* Failures of the backend                                                 *)

Fault == errors < MaxErrors /\ errors' = errors + 1

\* A rejected query or push ends its request with an error; rows already
\* inserted stay, an open transaction is rolled back.
RequestFails(r) ==
  /\ Fault
  /\ stage[r] \notin Done \union {"new"}
  /\ stage' = [stage EXCEPT ![r] = "failed"]
  /\ emptied' = [d \in Deleters |-> IF d = r THEN {} ELSE emptied[d]]
  /\ UNCHANGED <<conversation, rows, queued, presence, pvc, objects,
                 pod, doomed, claiming, creating, deleting, outcome, disturbed,
                 calls>>

PulseFails(m) ==
  /\ Fault
  /\ PulseBusy(m)
  /\ pulse' = [pulse EXCEPT ![m] = "done"]
  /\ UNCHANGED <<store, heartbeat, removed, announced, overlapped, pvc, objects,
                 pod, doomed, claiming, creating, deleting, outcome, disturbed,
                 calls>>

\* The process dies with every request, pulse and call it had under way; calls
\* of the Kubernetes client that were sent still arrive.
BackendDies ==
  /\ Fault
  /\ \E r \in Requests : stage[r] # "new"
  /\ stage' = [r \in Requests |->
                 IF stage[r] \in Done \union {"new"} THEN stage[r] ELSE "failed"]
  /\ emptied' = [d \in Deleters |-> {}]
  /\ pulse' = [m \in Messages |-> IF PulseBusy(m) THEN "done" ELSE pulse[m]]
  /\ removed' = removed \union {d \in Deleters : stage[d] = "answered"}
  /\ claiming' = {}
  /\ \E sent \in SUBSET Objects :
       creating' = [m \in Messages |-> creating[m] \intersect sent]
  /\ \E sent \in SUBSET Resources :
       deleting' = [t \in Teardowns |->
                      IF t \in Deleters THEN deleting[t] \intersect sent
                      ELSE deleting[t]]
  /\ LET cut == {m \in Messages : EnsureBusy(m)}
                  \union {d \in Deleters : TeardownBusy(d)}
     IN /\ outcome' = [c \in DOMAIN outcome |->
                         IF c \in cut THEN "rejected" ELSE outcome[c]]
        /\ disturbed' = disturbed \union (cut \intersect Messages)
  /\ UNCHANGED <<conversation, rows, queued, heartbeat, announced,
                 overlapped, pvc, objects, pod, doomed, calls>>

-----------------------------------------------------------------------------
(* Agent, lifecycle worker and Kubernetes                                  *)

\* saveMessageHistory; an insert that the foreign key rejects is only logged.
AgentAnswers ==
  /\ pod # "none" /\ queued # {}
  /\ conversation = "present"
  /\ Answer \notin rows
  /\ rows' = rows \union {Answer}
  /\ UNCHANGED <<conversation, stage, emptied, queued, presence, vars>>

\* The entry has passed its score, two minutes after it was added, and been
\* found (Reaper); the agent packs up and announces that it is ready.
Announce ==
  /\ heartbeat /\ pod # "none"
  /\ ~announced /\ \E w \in Reapings : outcome[w] = "idle"
  /\ announced' = TRUE
  /\ overlapped' = (overlapped \/ \E m \in Messages : Handling(m))
  /\ UNCHANGED <<store, pulse, heartbeat, removed, vars>>

ReceiveReady(w) ==
  /\ announced
  /\ outcome[w] = "idle"
  /\ announced' = FALSE
  /\ BeginTeardown(w)
  /\ UNCHANGED <<store, pulse, heartbeat, removed, overlapped>>

\* A pod that boots or is up counts as running; it may be evicted.
KubeStep ==
  /\ \/ \E m \in Messages : EnsureStep(m)
     \/ \E t \in Teardowns : TeardownStep(t)
     \/ Controllers
     \/ PodChanges /\ pod' = "none"
  /\ UNCHANGED <<store, presence>>

-----------------------------------------------------------------------------
MessageStep(m) == InsertMessage(m) \/ PushMessage(m) \/ AssertPulse(m)
DeleteStep(d)  == EmptyConversation(d) \/ DropConversation(d) \/ DropRejected(d)

ConversationNext ==
  \/ CreateConversation
  \/ \E m \in Messages : BeginMessage(m) \/ MessageStep(m)
  \/ \E d \in Deleters : BeginDelete(d) \/ DeleteStep(d)
  \/ \E r \in Requests : RequestFails(r)
  \/ \E m \in Messages : AddHeartbeat(m) \/ PulseFails(m)
  \/ \E t \in Teardowns : RemoveHeartbeat(t)
  \/ \E w \in Reapings : ReceiveReady(w)
  \/ Ping \/ BackendDies
  \/ AgentAnswers \/ Announce
  \/ KubeStep

ConversationSpec == ConversationInit /\ [][ConversationNext]_allVars

BackendStep ==
  \/ \E m \in Messages : MessageStep(m)
  \/ \E d \in Deleters : DeleteStep(d)
  \/ \E t \in Teardowns : RemoveHeartbeat(t)

KubeCall ==
  /\ \/ \E m \in Messages : EnsureStep(m)
     \/ \E t \in Teardowns : TeardownStep(t)
  /\ UNCHANGED <<store, presence>>

\* What a live process has begun goes on, and Kubernetes answers and reconciles.
\* The browser and the lifecycle worker are under no obligation.
ConversationFairness ==
  /\ WF_allVars(BackendStep)
  /\ WF_allVars(KubeCall)
  /\ WF_allVars(Controllers /\ UNCHANGED <<store, presence>>)

FairConversationSpec == ConversationSpec /\ ConversationFairness

-----------------------------------------------------------------------------
(* Properties                                                              *)

\* "User messages are saved before agent execution starts" (README.md:247), and
\* a deletion takes all of a conversation or nothing: whatever requests fail,
\* race or die with their process, a message that was answered or queued is in
\* the history unless the conversation itself is gone.
HistoryIsComplete ==
  \A m \in Messages :
    stage[m] \in {"pushing", "answered"} \/ m \in queued
      => m \in rows \/ conversation = "deleted"

Settled ==
  /\ \A r \in Requests : stage[r] \in Done \union {"new"}
  /\ \A m \in Messages : ~PulseBusy(m)
  /\ \A t \in Teardowns : ~RemovalDue(t)
  /\ ~announced /\ Quiet

\* Nothing else finds infrastructure that is idle: once all calls are answered,
\* what exists in Kubernetes belongs to a conversation that has not been deleted
\* and has a heartbeat entry, unless a removal met a message under way (those
\* cases leak) or a call failed.
InfrastructureIsWatched ==
  Settled /\ objects # {} /\ ~overlapped /\ errors = 0
    => conversation = "present" /\ heartbeat

\* A deletion is followed by the removal of everything the conversation has in
\* Kubernetes and Redis, its agent's pod among it, although nobody waits for
\* it; again unless messages overlap it or a call fails.
DeletedIsTornDown ==
  conversation = "deleted" ~>
    \/ pvc = "absent" /\ objects = {} /\ pod = "none" /\ ~heartbeat
    \/ overlapped \/ errors > 0

=============================================================================
