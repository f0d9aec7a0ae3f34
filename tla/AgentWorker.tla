---------------------------- MODULE AgentWorker ----------------------------
(***************************************************************************)
(* The agent worker of one conversation pod: the brPop loop over the       *)
(* conversation's Redis list, the split between immediate jobs and the     *)
(* serial harnessChain, the question/answer rendezvous (comms.ts), and the *)
(* shutdown handshake (back up, announce, drain, park).                    *)
(*                                                                         *)
(* The backend, the lifecycle worker and Kubernetes are an environment     *)
(* here; module Lifecycle replaces it by the real ones.                    *)
(*                                                                         *)
(* The project directory comes with the first edit (writeProjectFile,      *)
(* startBuildingApp): a volume without edits has none, and no archive is   *)
(* made of it.                                                             *)
(***************************************************************************)
EXTENDS Naturals, Sequences

CONSTANTS MaxTexts,         \* prompts the user sends (ids 1..MaxTexts)
          Askers,           \* prompts during which the LLM may ask the user
          Excluded,         \* prompts whose edits the archive's filter leaves out
          MaxFileRequests,  \* list_files / read_file requests of the browser
          MaxShutdowns,     \* initiate_shutdown messages of the reaper
          MaxCrashes,       \* container or pod deaths
          MaxFailures       \* object-store or Redis calls that reject

ASSUME BoundsAssumption ==
  /\ MaxTexts \in Nat /\ MaxFileRequests \in Nat /\ MaxShutdowns \in Nat
  /\ MaxCrashes \in Nat /\ MaxFailures \in Nat
  /\ Askers \subseteq 1..MaxTexts /\ Excluded \subseteq 1..MaxTexts

VARIABLES
  queue,      \* Redis list convo-request-<id>, next job to be popped first
  reply,      \* job Redis has handed to the pending brPop, not yet read
  pod,        \* "none", "booting" (index.ts before listenForJobs) or "up"
  listening,  \* isListeningForMessages, with the subscriber connection open
  chain,      \* jobs chained on harnessChain that have not started
  active,     \* harness jobs in progress, each with the await it is at
  comms,      \* correlation ids registered by waitForResponse
  reading,    \* file requests in progress
  workspace,  \* prompts whose edits are on the volume
  archive,    \* prompts covered by the timestamped archive last uploaded
  latest,     \* prompts covered by latest.tar.gz
  ready,      \* shutdown_ready messages in the lifecycle worker's list
  started,    \* history: prompts handed to the harness, in order
  lost,       \* history: prompts popped from Redis that died in memory
  asked,      \* history: questions published to the browser
  answers,    \* history: questions the user has answered
  served,     \* history: file requests answered
  sent        \* how many of each kind the environment has produced

agentVars == <<queue, reply, pod, listening, chain, active, comms, reading,
               workspace, archive, latest, ready, started, lost, asked,
               answers, served>>
vars == <<agentVars, sent>>

\* Groups of variables that most steps leave alone together.
loop    == <<pod, listening>>
harness == <<chain, active, comms>>
storage == <<workspace, archive, latest>>
history == <<started, lost, asked, answers, served>>

-----------------------------------------------------------------------------
(* Jobs and the phases of a harness job                                    *)

TextIds == 1..MaxTexts
FileIds == 1..MaxFileRequests

Text(n)     == [type |-> "text", id |-> n]
QnA(n)      == [type |-> "qna", id |-> n]
Files(n)    == [type |-> "files", id |-> n]
Shutdown    == [type |-> "initiate_shutdown", id |-> 0]

TextJobs    == [type : {"text"}, id : TextIds]
QnAJobs     == [type : {"qna"}, id : TextIds]
FileJobs    == [type : {"files"}, id : FileIds]
HarnessJobs == TextJobs \union {Shutdown}
ImmediateJobs == QnAJobs \union FileJobs
Jobs        == HarnessJobs \union ImmediateJobs
NoJob       == [type |-> "none", id |-> 0]

\* Awaits of a text job: inside the LLM loop, between publishing a question
\* and registering its resolver, or suspended on waitForResponse.
TextPhases  == {"running", "asking", "waiting"}
\* Awaits of handleShutdownInitiation, in order.
ShutdownPhases == {"archiving", "copying", "notifying", "draining", "parked"}

Elements(s) == {s[i] : i \in DOMAIN s}

\* The prompts in a set of jobs.
TextsIn(jobs) == {j.id : j \in {k \in jobs : k.type = "text"}}

ActiveJobs == [job : TextJobs, at : TextPhases]
                \union [job : {Shutdown}, at : ShutdownPhases]

Parked == \E h \in active : h.at = "parked"

TypeOK ==
  /\ queue \in Seq(Jobs)
  /\ reply \in Jobs \union {NoJob}
  /\ pod \in {"none", "booting", "up"}
  /\ listening \in BOOLEAN
  /\ chain \in Seq(HarnessJobs)
  /\ active \in SUBSET ActiveJobs
  /\ comms \in SUBSET TextIds
  /\ reading \in SUBSET FileIds
  /\ workspace \in SUBSET TextIds
  /\ archive \in SUBSET TextIds
  /\ latest \in SUBSET TextIds
  /\ ready \in Nat
  /\ started \in Seq(TextJobs)
  /\ lost \in SUBSET TextIds
  /\ asked \in SUBSET TextIds
  /\ answers \in SUBSET TextIds
  /\ served \in SUBSET FileIds
  /\ sent \in [{"text", "files", "shutdown", "crash", "failure"} -> Nat]

Init ==
  /\ queue = <<>>
  /\ reply = NoJob
  /\ pod = "none"
  /\ listening = FALSE
  /\ chain = <<>>
  /\ active = {}
  /\ comms = {}
  /\ reading = {}
  /\ workspace = {}
  /\ archive = {}
  /\ latest = {}
  /\ ready = 0
  /\ started = <<>>
  /\ lost = {}
  /\ asked = {}
  /\ answers = {}
  /\ served = {}
  /\ sent = [k \in {"text", "files", "shutdown", "crash", "failure"} |-> 0]

Count(kind, bound) ==
  /\ sent[kind] < bound
  /\ sent' = [sent EXCEPT ![kind] = @ + 1]

-----------------------------------------------------------------------------
(* The loop: listenForJobs, dispatch                                       *)

\* Mutant of FinishBoot: the agent starts from an emptied job list.
FinishBootWithFreshQueue ==
  /\ pod = "booting"
  /\ pod' = "up"
  /\ listening' = TRUE
  /\ queue' = <<>>
  /\ UNCHANGED <<reply, harness, reading, storage, ready, history, sent>>

\* Top-level awaits of index.ts are over and listenForJobs is entered.
FinishBoot ==
  /\ pod = "booting"
  /\ pod' = "up"
  /\ listening' = TRUE
  /\ UNCHANGED <<queue, reply, harness, reading, storage, ready, history,
                 sent>>

\* Redis removes the oldest job and sends it to the pending brPop.
BrPop ==
  /\ pod = "up"
  /\ listening
  /\ reply = NoJob
  /\ queue # <<>>
  /\ reply' = Head(queue)
  /\ queue' = Tail(queue)
  /\ UNCHANGED <<loop, harness, reading, storage, ready, history, sent>>

\* A job that drives the harness goes on the chain and the loop pops on.
DispatchHarnessJob ==
  /\ reply \in HarnessJobs
  /\ chain' = Append(chain, reply)
  /\ reply' = NoJob
  /\ UNCHANGED <<queue, loop, active, comms, reading, storage, ready, history,
                 sent>>

\* Mutant of DispatchAnswer: it is taken only between harness jobs.
DispatchAnswerBehindHarness ==
  /\ reply \in QnAJobs
  /\ active = {}
  /\ reply' = NoJob
  /\ UNCHANGED <<queue, loop, harness, reading, storage, ready, history, sent>>

\* An answer resolves its waiting promise; an unknown id is dropped.
DispatchAnswer ==
  /\ reply \in QnAJobs
  /\ active' = {IF h.at = "waiting" /\ h.job.id = reply.id /\ reply.id \in comms
                  THEN [h EXCEPT !.at = "running"] ELSE h : h \in active}
  /\ reply' = NoJob
  /\ UNCHANGED <<queue, loop, chain, comms, reading, storage, ready, history,
                 sent>>

\* Mutant of DispatchFileRequest: file requests queue behind the harness.
DispatchFileRequestBehindHarness ==
  /\ reply \in FileJobs
  /\ active = {} /\ chain = <<>>
  /\ reading' = reading \union {reply.id}
  /\ reply' = NoJob
  /\ UNCHANGED <<queue, loop, harness, storage, ready, history, sent>>

DispatchFileRequest ==
  /\ reply \in FileJobs
  /\ reading' = reading \union {reply.id}
  /\ reply' = NoJob
  /\ UNCHANGED <<queue, loop, harness, storage, ready, history, sent>>

\* handleListFiles / handleReadFile publish a result or a workspace_error.
AnswerFileRequest(f) ==
  /\ f \in reading
  /\ reading' = reading \ {f}
  /\ served' = served \union {f}
  /\ UNCHANGED <<queue, reply, loop, harness, storage, ready, started, lost,
                 asked, answers, sent>>

\* Both publications reject, and dispatch logs it.
FailFileRequest(f) ==
  /\ f \in reading
  /\ reading' = reading \ {f}
  /\ Count("failure", MaxFailures)
  /\ UNCHANGED <<queue, reply, loop, harness, storage, ready, history>>

-----------------------------------------------------------------------------
(* The harness chain                                                       *)

\* harnessChain.then: the next job starts once the previous one has settled.
StartText ==
  /\ active = {}
  /\ chain # <<>>
  /\ Head(chain) \in TextJobs
  /\ chain' = Tail(chain)
  /\ active' = {[job |-> Head(chain), at |-> "running"]}
  /\ started' = Append(started, Head(chain))
  /\ UNCHANGED <<queue, reply, loop, comms, reading, storage, ready, lost,
                 asked, answers, served, sent>>

\* shouldInclude: build output, node_modules and .env files stay out.
Included(edits) == edits \ Excluded

\* Mutant of StartShutdown: it runs beside the job in progress.
StartShutdownAtOnce ==
  /\ chain # <<>>
  /\ Head(chain) = Shutdown
  /\ chain' = Tail(chain)
  /\ active' = active \union {[job |-> Shutdown, at |-> "archiving"]}
  /\ archive' = Included(workspace)
  /\ UNCHANGED <<queue, reply, loop, comms, reading, workspace, latest, ready,
                 history, sent>>

\* uploadWorkspaceToS3 opens the tar stream over the volume as it is now.
StartShutdown ==
  /\ active = {}
  /\ chain # <<>>
  /\ Head(chain) = Shutdown
  /\ chain' = Tail(chain)
  /\ active' = {[job |-> Shutdown, at |-> "archiving"]}
  /\ archive' = Included(workspace)
  /\ UNCHANGED <<queue, reply, loop, comms, reading, workspace, latest, ready,
                 history, sent>>

MoveTo(h, phase) == active' = (active \ {h}) \union {[h EXCEPT !.at = phase]}

\* A tool of the running prompt edits the workspace.
EditWorkspace(h) ==
  /\ h \in active /\ h.at = "running"
  /\ workspace' = workspace \union {h.job.id}
  /\ UNCHANGED <<queue, reply, loop, harness, reading, archive, latest, ready,
                 history, sent>>

\* qnaTool publishes the question and awaits the database row.
PublishQuestion(h) ==
  /\ h \in active /\ h.at = "running"
  /\ h.job.id \in Askers \ asked
  /\ asked' = asked \union {h.job.id}
  /\ MoveTo(h, "asking")
  /\ UNCHANGED <<queue, reply, loop, chain, comms, reading, storage, ready,
                 started, lost, answers, served, sent>>

\* The row is saved (or the write failed, which is swallowed); only now does
\* waitForResponse register the resolver.
WaitForResponse(h) ==
  /\ h \in active /\ h.at = "asking"
  /\ comms' = comms \union {h.job.id}
  /\ MoveTo(h, "waiting")
  /\ UNCHANGED <<queue, reply, loop, chain, reading, storage, ready, history,
                 sent>>


\* executeTask returns or throws; either way the chain goes on.
FinishText(h) ==
  /\ h \in active /\ h.at = "running"
  /\ active' = active \ {h}
  /\ UNCHANGED <<queue, reply, loop, chain, comms, reading, storage, ready,
                 history, sent>>

-----------------------------------------------------------------------------
(* handleShutdownInitiation                                                *)

FinishArchive(h) ==
  /\ h \in active /\ h.at = "archiving" /\ workspace # {}
  /\ MoveTo(h, "copying")
  /\ UNCHANGED <<queue, reply, loop, chain, comms, reading, storage, ready,
                 history, sent>>

CopyToLatest(h) ==
  /\ h \in active /\ h.at = "copying"
  /\ latest' = archive
  /\ MoveTo(h, "notifying")
  /\ UNCHANGED <<queue, reply, loop, chain, comms, reading, workspace,
                 archive, ready, history, sent>>

AnnounceReady(h) ==
  /\ h \in active /\ h.at = "notifying"
  /\ ready' = ready + 1
  /\ MoveTo(h, "draining")
  /\ UNCHANGED <<queue, reply, loop, chain, comms, reading, storage, history,
                 sent>>

\* isListeningForMessages = false; subscriber.destroy(); parkProcess().  What
\* Redis had already handed to the pending brPop dies with the connection.
DrainAndPark(h) ==
  /\ h \in active /\ h.at = "draining"
  /\ listening' = FALSE
  /\ reply' = NoJob
  /\ lost' = lost \union TextsIn({reply})
  /\ MoveTo(h, "parked")
  /\ UNCHANGED <<queue, pod, chain, comms, reading, storage, ready, started,
                 asked, answers, served, sent>>

\* A rejected upload, copy or push (the push may have been applied, phase
\* "draining") is logged and the agent goes on listening.
FailShutdown(h) ==
  /\ h \in active
  /\ h.at \in {"archiving", "copying", "notifying", "draining"}
  /\ Count("failure", MaxFailures)
  /\ active' = active \ {h}
  /\ UNCHANGED <<queue, reply, loop, chain, comms, reading, storage, ready,
                 history>>

-----------------------------------------------------------------------------
(* Environment: browser and backend, lifecycle worker, Kubernetes          *)

UserSendsText ==
  /\ Count("text", MaxTexts)
  /\ queue' = Append(queue, Text(sent["text"] + 1))
  /\ UNCHANGED <<reply, loop, harness, reading, storage, ready, history>>

UserAnswers(q) ==
  /\ q \in asked \ answers
  /\ answers' = answers \union {q}
  /\ queue' = Append(queue, QnA(q))
  /\ UNCHANGED <<reply, loop, harness, reading, storage, ready, started,
                 lost, asked, served, sent>>

UserBrowsesFiles ==
  /\ Count("files", MaxFileRequests)
  /\ queue' = Append(queue, Files(sent["files"] + 1))
  /\ UNCHANGED <<reply, loop, harness, reading, storage, ready, history>>

ReaperInitiatesShutdown ==
  /\ Count("shutdown", MaxShutdowns)
  /\ queue' = Append(queue, Shutdown)
  /\ UNCHANGED <<reply, loop, harness, reading, storage, ready, history>>

SchedulePod ==
  /\ pod = "none"
  /\ pod' = "booting"
  /\ UNCHANGED <<queue, reply, listening, harness, reading, storage, ready,
                 history, sent>>

\* What a process holds in memory or on its sockets dies with it.
LoseMemory ==
  /\ reply' = NoJob
  /\ listening' = FALSE
  /\ chain' = <<>>
  /\ active' = {}
  /\ comms' = {}
  /\ reading' = {}
  /\ lost' = lost \union TextsIn(Elements(chain) \union {reply})

\* The container dies and is restarted ("booting"), or its pod is removed
\* ("none"); Redis, the volume and the object store survive.
PodDies(next) ==
  /\ pod # "none"
  /\ LoseMemory
  /\ pod' = next
  /\ UNCHANGED <<queue, storage, ready, started, asked, answers, served>>

\* The deployment is deleted: not a failure, and not counted as one.
RemovePod ==
  /\ PodDies("none")
  /\ UNCHANGED sent

\* The lifecycle worker pops a shutdown_ready; a claim is deleted unmounted.
ReceiverTakesReady ==
  /\ ready > 0
  /\ ready' = ready - 1
  /\ UNCHANGED <<queue, reply, loop, harness, reading, storage, history, sent>>

VolumeDestroyed ==
  /\ pod = "none"
  /\ workspace' = {}
  /\ UNCHANGED <<queue, reply, loop, harness, reading, archive, latest, ready,
                 history, sent>>

Crash ==
  /\ Count("crash", MaxCrashes)
  /\ \E next \in {"none", "booting"} : PodDies(next)

\* The directory to archive does not exist.  tar emits an error that nothing
\* listens to: the process dies of it, or the upload rejects or never settles
\* (no step), as the libraries have it.
ArchiveFails(h) ==
  /\ h \in active /\ h.at = "archiving" /\ workspace = {}
  /\ \/ /\ active' = active \ {h}
        /\ UNCHANGED <<queue, reply, loop, chain, comms, reading, storage, ready,
                       history>>
     \/ PodDies("booting")
  /\ UNCHANGED sent

-----------------------------------------------------------------------------
Loop == BrPop \/ DispatchHarnessJob \/ DispatchAnswer \/ DispatchFileRequest

Work ==
  \/ StartText
  \/ StartShutdown
  \/ \E f \in reading : AnswerFileRequest(f) \/ FailFileRequest(f)
  \/ \E h \in active :
       \/ EditWorkspace(h) \/ PublishQuestion(h) \/ WaitForResponse(h)
       \/ FinishText(h)
       \/ FinishArchive(h) \/ CopyToLatest(h) \/ AnnounceReady(h)
       \/ DrainAndPark(h) \/ FailShutdown(h)

Environment ==
  \/ UserSendsText
  \/ \E q \in asked : UserAnswers(q)
  \/ UserBrowsesFiles
  \/ ReaperInitiatesShutdown
  \/ SchedulePod
  \/ RemovePod
  \/ ReceiverTakesReady
  \/ VolumeDestroyed
  \/ Crash

NoProject == \E h \in active : ArchiveFails(h)

Next == FinishBoot \/ Loop \/ Work \/ NoProject \/ Environment

\* The event loop serves every settled promise and Redis every pending pop;
\* Gemini, the database and S3 calls return.  Nothing obliges the user to
\* answer, the reaper to act, Kubernetes to kill or a broken archive to fail.
Fairness ==
  /\ WF_vars(FinishBoot)
  /\ WF_vars(Loop)
  /\ WF_vars(StartText \/ StartShutdown)
  /\ WF_vars(\E f \in reading : AnswerFileRequest(f))
  /\ WF_vars(\E h \in active : WaitForResponse(h))
  /\ WF_vars(\E h \in active : FinishText(h))
  /\ WF_vars(\E h \in active : \/ FinishArchive(h) \/ CopyToLatest(h)
                               \/ AnnounceReady(h) \/ DrainAndPark(h))

Spec == Init /\ [][Next]_vars
FairSpec == Spec /\ Fairness

-----------------------------------------------------------------------------
(* Properties                                                              *)

\* Every job that the harness was given, and those between Redis and the
\* harness, oldest first.
Line == started \o chain \o <<reply>> \o queue

Precedes(j, k) == j.type = "text" /\ k.type = "text" => j.id < k.id

Waiting(q) == \E h \in active : h.at = "waiting" /\ h.job.id = q
AnswerUnderWay(q) == QnA(q) \in Elements(queue) \/ reply = QnA(q)

\* When the agent announces shutdown_ready, and as long as it drains or is
\* parked, latest.tar.gz holds every edit ever made on the volume that the
\* archive's filter lets through (shouldInclude): nothing drives the harness
\* between the snapshot and the teardown (handleHarnessJob, "one at a time";
\* handleShutdownInitiation).
ReadyMeansSaved ==
  \A h \in active : h.at \in {"notifying", "draining", "parked"}
                      => latest = Included(workspace)

\* Prompts reach the harness in the order they were sent, and none is forgotten
\* or handed over twice by Redis and the chain, whether it came before the pod,
\* while it booted or while the harness was busy, across crashes, failed
\* shutdowns and restarts: those no longer between Redis and the harness are the
\* ones whose process died, or drained, after popping them (lPush/brPop and the
\* promise chain; README: "messages are not lost while pods are starting").
PromptsKeepTheirTurn ==
  /\ \A i, j \in DOMAIN Line : i < j => Precedes(Line[i], Line[j])
  /\ TextsIn(Elements(Line)) = (1..sent["text"]) \ lost

\* An answer that is under way when the harness waits for it resumes the
\* harness: answers do not queue behind the job that needs them (dispatch,
\* "jobs that must not queue behind the harness").
AnswerResumesHarness ==
  \A q \in TextIds : (Waiting(q) /\ AnswerUnderWay(q)) ~> ~Waiting(q)

\* A listening agent answers a file request even while the harness is blocked
\* on a human or on an archive, unless it drains or dies first or a call of its
\* own fails (handleImmediateJob).
FileRequestServed ==
  \A f \in FileIds :
    (listening /\ Files(f) \in Elements(queue))
      ~> (f \in served \/ ~listening \/ sent["failure"] > 0)

=============================================================================
