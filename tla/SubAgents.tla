----------------------------- MODULE SubAgents -----------------------------
(***************************************************************************)
(* One call of the delegateSubAgents tool: SubAgentOrchestrator in the     *)
(* agent forks one process per task (subAgent.ts), each works and commits  *)
(* in a Git worktree of its own, writes the diff of its branch to an       *)
(* artifact, removes worktree and branch, and reports over IPC.  The diff  *)
(* is of commits (git diff master..HEAD): a file that was written and not  *)
(* committed is in no artifact, and no variable follows it.                *)
(*                                                                         *)
(* Messages and exits of children reach the parent in any order: a message *)
(* that was sent before a process died may be delivered after its exit.    *)
(***************************************************************************)
EXTENDS Naturals, Sequences

CONSTANTS NumAgents,    \* sub-agents of the call, in the order of its Map
          MaxCommits,   \* commits each makes at most
          MaxFailures   \* kills, Git and LLM errors, failing forks

ASSUME AgentsAssumption ==
  NumAgents \in Nat \ {0} /\ MaxCommits \in Nat /\ MaxFailures \in Nat

VARIABLES
  call,        \* the tool: "new", "waiting", "returned", "error" or "dead"
  status,      \* TAgentStatus of each agent
  path,        \* agents whose artifactPath is set
  handled,     \* agents whose isHandled is TRUE
  evaluations, \* areAllDone calls in their loop, each with the entries so far
  response,    \* what the tool returned
  child,       \* what each child process is doing
  worktree,    \* agents whose worktree and branch exist
  commits,     \* the commits each agent has made
  artifact,    \* each agent's artifact file: the commits its diff is of, or none
  events,      \* messages and exits on their way to the parent
  failures

parent         == <<call, status, path, handled, evaluations, response>>
git            == <<worktree, commits, artifact>>
delegationVars == <<parent, child, git, events, failures>>

Agents   == 1..NumAgents
Statuses == {"PENDING", "IN_PROGRESS", "COMPLETED", "FAILED"}
Children == {"none", "booting", "working", "diffing", "cleaning", "failing",
             "reported", "stuck", "exited"}
Alive    == Children \ {"none", "exited"}
\* What the entry of an agent holds besides its status: the commits in the diff
\* it was read from, or only the logs.
Contents == [kind : {"diff"}, commits : 0..MaxCommits]
              \union [kind : {"logs"}, commits : {0}]
NoDiff   == [kind |-> "logs", commits |-> 0]
DiffOf(a) == [kind |-> "diff", commits |-> commits[a]]
Entries  == [status : Statuses, content : Contents]

DelegationTypeOK ==
  /\ call \in {"new", "waiting", "returned", "error", "dead"}
  /\ status \in [Agents -> Statuses]
  /\ path \subseteq Agents /\ handled \subseteq Agents
  /\ evaluations \in Seq(Seq(Entries))
  /\ response \in Seq(Entries)
  /\ child \in [Agents -> Children]
  /\ worktree \subseteq Agents /\ artifact \in [Agents -> Contents]
  /\ commits \in [Agents -> 0..MaxCommits]
  /\ events \subseteq [of : Agents, type : {"finished", "error", "exit"}]
  /\ failures \in 0..MaxFailures

DelegationInit ==
  /\ call = "new"
  /\ status = [a \in Agents |-> "PENDING"]
  /\ path = {} /\ handled = {}
  /\ evaluations = <<>> /\ response = <<>>
  /\ child = [a \in Agents |-> "none"]
  /\ worktree = {}
  /\ artifact = [a \in Agents |-> NoDiff]
  /\ commits = [a \in Agents |-> 0]
  /\ events = {}
  /\ failures = 0

Failure == failures < MaxFailures /\ failures' = failures + 1

-----------------------------------------------------------------------------
(* The orchestrator                                                        *)

\* spawnAgents forks the whole queue without an await in between.
SpawnAgents ==
  /\ call = "new"
  /\ call' = "waiting"
  /\ status' = [a \in Agents |-> "IN_PROGRESS"]
  /\ child' = [a \in Agents |-> "booting"]
  /\ UNCHANGED <<path, handled, evaluations, response, git, events, failures>>

\* The boot file is missing, or the fork of agent k throws: the tool answers with
\* the error and the children forked before run on.
SpawnThrows ==
  /\ call = "new"
  /\ Failure
  /\ call' = "error"
  /\ \/ UNCHANGED <<status, child>>
     \/ \E k \in Agents :
          /\ status' = [a \in Agents |-> IF a <= k THEN "IN_PROGRESS" ELSE "PENDING"]
          /\ child' = [a \in Agents |-> IF a < k THEN "booting" ELSE "none"]
  /\ UNCHANGED <<path, handled, evaluations, response, git, events>>

\* Mutant of HasUnfinished: agents in progress count as done.
HasPending(st) == \E a \in Agents : st[a] = "PENDING"

HasUnfinished(st) == \E a \in Agents : st[a] \in {"PENDING", "IN_PROGRESS"}

\* areAllDone up to its first await.
AreAllDone ==
  evaluations' = IF HasUnfinished(status') THEN evaluations
                                           ELSE Append(evaluations, <<>>)

TaskFinished(a) ==
  /\ status' = [status EXCEPT ![a] = "COMPLETED"]
  /\ path' = path \union {a}
  /\ AreAllDone

TaskFailed(a) ==
  /\ status' = [status EXCEPT ![a] = "FAILED"]
  /\ path' = path \ {a}
  /\ AreAllDone

Receive(e) == e \in events /\ events' = events \ {e} /\ handled' = handled \union {e.of}

\* The message handler takes a message even after another verdict.
OnMessage(e) ==
  /\ e.type = "finished"
  /\ Receive(e)
  /\ TaskFinished(e.of)
  /\ UNCHANGED <<call, response, child, git, failures>>

\* Mutant of OnExit: an exit counts only after an error.
OnExitAfterError(e) ==
  /\ e.type \in {"error", "exit"}
  /\ Receive(e)
  /\ IF e.type = "error" /\ e.of \notin handled THEN TaskFailed(e.of)
     ELSE UNCHANGED <<status, path, evaluations>>
  /\ UNCHANGED <<call, response, child, git, failures>>

\* No path of subAgent.ts exits with code 0, so every exit is a failure.
OnExit(e) ==
  /\ e.type \in {"error", "exit"}
  /\ Receive(e)
  /\ IF e.of \notin handled THEN TaskFailed(e.of)
     ELSE UNCHANGED <<status, path, evaluations>>
  /\ UNCHANGED <<call, response, child, git, failures>>

\* One turn of the loop of areAllDone: the artifact is read if there is one.
ReadEntry(i) ==
  /\ i \in DOMAIN evaluations
  /\ Len(evaluations[i]) < NumAgents
  /\ LET a == Len(evaluations[i]) + 1
         content == IF a \in path THEN artifact[a] ELSE NoDiff
     IN  evaluations' = [evaluations EXCEPT
                           ![i] = Append(@, [status |-> status[a], content |-> content])]
  /\ UNCHANGED <<call, status, path, handled, response, child, git, events, failures>>

\* The resolver: later calls of it have no effect.
Resolve(i) ==
  /\ i \in DOMAIN evaluations
  /\ Len(evaluations[i]) = NumAgents
  /\ call = "waiting"
  /\ call' = "returned"
  /\ response' = evaluations[i]
  /\ UNCHANGED <<status, path, handled, evaluations, child, git, events, failures>>

-----------------------------------------------------------------------------
(* A child: subAgent.ts, its harness and SubAgentResponseHandler.end       *)

Goes(a, from, to) == child[a] = from /\ child' = [child EXCEPT ![a] = to]

Exit(a) ==
  /\ child' = [child EXCEPT ![a] = "exited"]
  /\ events' = events \union {[of |-> a, type |-> "exit"]}

\* The process could not be forked; an exit may follow the error.
ForkFails(a) ==
  /\ child[a] = "booting" /\ Failure
  /\ child' = [child EXCEPT ![a] = "exited"]
  /\ events' = events \union [of : {a}, type : {"error", "exit"}]
  /\ UNCHANGED <<parent, git>>

InitializeWorktree(a) ==
  /\ Goes(a, "booting", "working")
  /\ worktree' = worktree \union {a}
  /\ UNCHANGED <<parent, commits, artifact, events, failures>>

\* Mutant of CommitWork: a tool call may still run while the task ends.
CommitWorkLate(a) ==
  /\ child[a] \in {"working", "cleaning"} /\ a \in worktree
  /\ commits[a] < MaxCommits
  /\ commits' = [commits EXCEPT ![a] = @ + 1]
  /\ UNCHANGED <<parent, child, worktree, artifact, events, failures>>

\* writeFile and gitCommit tool calls, in the worktree.
CommitWork(a) ==
  /\ child[a] = "working" /\ a \in worktree
  /\ commits[a] < MaxCommits
  /\ commits' = [commits EXCEPT ![a] = @ + 1]
  /\ UNCHANGED <<parent, child, worktree, artifact, events, failures>>

\* executeTask ends with responseHandler.end.
EndTask(a) ==
  /\ Goes(a, "working", "diffing")
  /\ UNCHANGED <<parent, git, events, failures>>

\* executeTask returns at its iteration limit: nobody calls end, and the IPC
\* channel keeps the process alive.
HitsLimit(a) ==
  /\ Goes(a, "working", "stuck")
  /\ UNCHANGED <<parent, git, events, failures>>

\* createDiffArtifact: git runs in the worktree, and the file keeps what the
\* branch has now.
WriteDiff(a) ==
  /\ Goes(a, "diffing", "cleaning")
  /\ a \in worktree
  /\ artifact' = [artifact EXCEPT ![a] = DiffOf(a)]
  /\ UNCHANGED <<parent, worktree, commits, events, failures>>

\* git fails, as it must where there is no worktree.
DiffFails(a) ==
  /\ Goes(a, "diffing", "failing")
  /\ IF a \in worktree THEN Failure ELSE UNCHANGED failures
  /\ UNCHANGED <<parent, git, events>>

\* Mutant of CleanUpAndSend: the worktree is left to somebody else.
SendWithoutCleanup(a) ==
  /\ Goes(a, "cleaning", "reported")
  /\ events' = events \union {[of |-> a, type |-> "finished"]}
  /\ UNCHANGED <<parent, git, failures>>

\* The finally block, then process.send.
CleanUpAndSend(a) ==
  /\ Goes(a, "cleaning", "reported")
  /\ worktree' = worktree \ {a}
  /\ events' = events \union {[of |-> a, type |-> "finished"]}
  /\ UNCHANGED <<parent, commits, artifact, failures>>

\* git cannot remove the worktree: cleanupWorktree only warns.
CleanupFails(a) ==
  /\ Goes(a, "cleaning", "reported")
  /\ Failure
  /\ events' = events \union {[of |-> a, type |-> "finished"]}
  /\ UNCHANGED <<parent, git>>

\* The finally block after a failed diff, then the rejection ends the process.
CleanUpAndThrow(a) ==
  /\ child[a] = "failing"
  /\ worktree' = worktree \ {a}
  /\ Exit(a)
  /\ UNCHANGED <<parent, commits, artifact, failures>>

\* The process is killed, its boot fails or its harness throws.
Dies(a) ==
  /\ child[a] \in Alive /\ Failure
  /\ Exit(a)
  /\ UNCHANGED <<parent, git>>

\* The agent's container is killed, and the children with it.
ParentDies ==
  /\ call \in {"waiting", "returned", "error"} /\ Failure
  /\ call' = "dead"
  /\ child' = [a \in Agents |-> "exited"]
  /\ events' = {} /\ evaluations' = <<>>
  /\ UNCHANGED <<status, path, handled, response, git>>

-----------------------------------------------------------------------------
ChildStep(a) ==
  \/ InitializeWorktree(a) \/ EndTask(a) \/ HitsLimit(a)
  \/ WriteDiff(a) \/ CleanUpAndSend(a) \/ CleanUpAndThrow(a)

Orchestrate ==
  \/ \E e \in events : OnMessage(e) \/ OnExit(e)
  \/ \E i \in DOMAIN evaluations : ReadEntry(i) \/ Resolve(i)

DelegationNext ==
  \/ SpawnAgents \/ SpawnThrows
  \/ Orchestrate
  \/ \E a \in Agents :
       \/ ChildStep(a) \/ CommitWork(a)
       \/ ForkFails(a) \/ DiffFails(a) \/ CleanupFails(a) \/ Dies(a)
  \/ ParentDies

\* Every process that lives runs on, its harness ends or reaches its limit, and
\* what is sent is delivered.
DelegationFairness ==
  /\ WF_delegationVars(SpawnAgents)
  /\ WF_delegationVars(Orchestrate)
  /\ \A a \in Agents : WF_delegationVars(ChildStep(a))

DelegationSpec == DelegationInit /\ [][DelegationNext]_delegationVars
FairDelegationSpec == DelegationSpec /\ DelegationFairness

-----------------------------------------------------------------------------
(* Properties                                                              *)

Reported(a) == call = "returned" /\ response[a].status = "COMPLETED"

\* The tool's answer covers every sub-agent, each with a verdict, in whatever
\* order messages, errors and exits came in (areAllDone).
ResponseSettled ==
  call = "returned" =>
    /\ Len(response) = NumAgents
    /\ \A a \in Agents : response[a].status \in {"COMPLETED", "FAILED"}

\* A sub-agent reported as completed hands over all the commits it ever made:
\* its branch is gone, so the diff in the answer, made before the clean-up and
\* read after it, is the only copy of them (README: "it creates a diff artifact
\* from its worktree, cleans up the worktree, and returns the artifact path").
CompletedIsWhole ==
  \A a \in Agents :
    Reported(a) => response[a].content = DiffOf(a)

\* Once the answer is given, no completed sub-agent's worktree is left on the
\* volume, if nothing failed.
CompletedIsTidy == \A a \in Agents : Reported(a) /\ failures = 0 => a \notin worktree

\* Whatever kills or fails the sub-agents, the tool returns, unless one of them
\* runs into its iteration limit.
DelegationReturns ==
  (call = "waiting") ~> (call # "waiting" \/ \E a \in Agents : child[a] = "stuck")

=============================================================================
