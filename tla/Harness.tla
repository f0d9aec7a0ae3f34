------------------------------ MODULE Harness ------------------------------
(***************************************************************************)
(* The LLM loop of the agent (Harness.executeTask), the history it keeps   *)
(* (Agent, ContextManager), what it publishes to the browser, and the chat *)
(* backup that UserResponseHandler.end starts without being awaited.       *)
(*                                                                         *)
(* One task at a time: module AgentWorker shows that its chain never runs  *)
(* two.  A message of the history is its kind, whether it has text of the  *)
(* model's, whether compaction gave that text a functionCall (hollow), and *)
(* whether it is verbatim.  The tools of one answer run in one step,       *)
(* unless one of them waits for the user or for sub-agents.                *)
(***************************************************************************)
EXTENDS Naturals, Sequences

CONSTANTS MaxTasks,       \* prompts
          MaxIterations,  \* maxIterations, 15 in the code
          KeepLast,       \* keepLastNTurns, 5 in the code
          MaxHours,       \* hours the clock passes: the key of a backup
          MaxFaults       \* failing calls and crashes

ASSUME HarnessAssumption ==
  /\ MaxTasks \in Nat /\ MaxIterations \in Nat \ {0}
  /\ KeepLast \in Nat \ {0} /\ MaxHours \in Nat \ {0} /\ MaxFaults \in Nat

VARIABLES
  at,          \* await of executeTask; "idle" between tasks, "down" after a crash
  task,        \* the task in progress, or the last one
  iteration,
  history,     \* Agent.history
  tokens,      \* currentPromptTokens against CONTEXT_TOKEN_THRESHOLD
  escalate,    \* triggerSummarization
  frames,      \* history: runs of frames published for the browser
  ends,        \* calls of UserResponseHandler.end in flight
  objects,     \* timestamped backups in the chat bucket, by hour
  latest,      \* the latest backup
  hour,
  done,        \* history: the last task that was ended
  overlapped,  \* history: a backup began while another was in flight
  faults

loop   == <<at, task, iteration>>
memory == <<history, tokens, escalate>>
bucket == <<ends, objects, latest, hour>>
ghosts == <<done, overlapped>>
vars   == <<loop, memory, frames, bucket, ghosts, faults>>

-----------------------------------------------------------------------------
(* Messages                                                                *)

UserKinds  == {"prompt", "responses", "summary"}
ModelKinds == {"text", "calls", "ack"}
Messages   == [kind : UserKinds \union ModelKinds, text : BOOLEAN,
               hollow : BOOLEAN, verbatim : BOOLEAN]
Message(kind) == [kind |-> kind, text |-> kind \in {"text", "ack"},
                  hollow |-> FALSE, verbatim |-> TRUE]
\* modelPartsFromStream: the text of the answer comes in it again.
CallsMessage(text) == [Message("calls") EXCEPT !.text = text]

Tasks   == 1..MaxTasks
Hours   == 1..MaxHours
Backups == [history : Seq(Messages), upTo : 0..MaxTasks]
NoBackup == [history |-> <<>>, upTo |-> 0]

EndsTypes == [task : Tasks, at : {"publishing", "putting", "copying"},
              hour : Hours, body : Backups]

TypeOK ==
  /\ at \in {"idle", "down", "loop", "counting", "recounting", "summarizing",
             "asking", "acting", "waiting"}
  /\ task \in 0..MaxTasks
  /\ iteration \in 0..MaxIterations
  /\ history \in Seq(Messages)
  /\ tokens \in {"low", "high"}
  /\ escalate \in BOOLEAN
  /\ frames \in Seq([type : {"text", "done"}, task : Tasks])
  /\ ends \subseteq EndsTypes
  /\ objects \in [Hours -> Backups]
  /\ latest \in Backups
  /\ hour \in Hours /\ done \in 0..MaxTasks
  /\ overlapped \in BOOLEAN /\ faults \in 0..MaxFaults
  /\ at \in {"idle", "loop"} /\ history # <<>> => history[Len(history)].kind # "calls"

Init ==
  /\ at = "idle" /\ task = 0 /\ iteration = 0
  /\ history = <<>> /\ tokens = "low" /\ escalate = FALSE
  /\ frames = <<>>
  /\ ends = {} /\ objects = [h \in Hours |-> NoBackup] /\ latest = NoBackup
  /\ hour = 1
  /\ done = 0 /\ overlapped = FALSE
  /\ faults = 0

Fault == faults < MaxFaults /\ faults' = faults + 1

Publish(frame, already) ==
  frames' = IF already # <<>> /\ already[Len(already)] = frame THEN already
            ELSE Append(already, frame)

-----------------------------------------------------------------------------
(* ContextManager                                                          *)

\* Mutant of CutBefore: one message too many is cut off.
CutBeforePlusOne(h) == Len(h) - KeepLast + 1

\* compactBeforeIdx, as the number of messages before it.
CutBefore(h) == Len(h) - KeepLast

\* A message as compaction leaves it: arguments and results are stripped, and
\* every part of the model's is rebuilt with a functionCall, its text parts
\* with one that has no name.
Stripped(m) == [m EXCEPT !.verbatim = FALSE, !.hollow = m.text]

\* compactHistory.
Compact(h) ==
  IF Len(h) <= KeepLast THEN h
  ELSE [i \in DOMAIN h |->
          IF i <= CutBefore(h) /\ h[i].kind \in ModelKinds \union {"responses"}
          THEN Stripped(h[i]) ELSE h[i]]

\* summarizeHistory: one step back when the message at the cut is the model's.
Summarize(h) ==
  IF Len(h) <= KeepLast THEN h
  ELSE LET cut == IF h[CutBefore(h) + 1].kind \in ModelKinds
                  THEN CutBefore(h) - 1 ELSE CutBefore(h)
       IN  <<Message("summary"), Message("ack")>> \o SubSeq(h, cut + 1, Len(h))

-----------------------------------------------------------------------------
(* executeTask                                                             *)

\* addUserPrompt, then executeTask.
BeginTask ==
  /\ at = "idle" /\ task < MaxTasks
  /\ task' = task + 1
  /\ iteration' = 0 /\ escalate' = FALSE
  /\ history' = Append(history, Message("prompt"))
  /\ at' = "loop"
  /\ UNCHANGED <<tokens, frames, bucket, ghosts, faults>>

\* At the iteration limit the task just returns.
HitLimit ==
  /\ at = "loop" /\ iteration = MaxIterations
  /\ at' = "idle"
  /\ UNCHANGED <<task, iteration, memory, frames, bucket, ghosts, faults>>

\* The sleep of five seconds is over, and with it the publication of a [DONE]
\* issued before it.
AfterSleep == at = "loop" /\ iteration < MaxIterations
                /\ \A e \in ends : e.at # "publishing"

\* Mutant of NextIteration: steps that only continue the task are not counted.
NextIterationUncounted ==
  /\ AfterSleep
  /\ tokens = "low" /\ at' = "asking"
  /\ UNCHANGED <<task, iteration, memory, frames, bucket, ghosts, faults>>

NextIteration ==
  /\ AfterSleep
  /\ iteration' = iteration + 1
  /\ \/ tokens = "low" /\ at' = "asking" /\ UNCHANGED <<history, escalate>>
     \/ /\ tokens = "high" /\ escalate
        /\ at' = "summarizing" /\ escalate' = FALSE /\ UNCHANGED history
     \/ /\ tokens = "high" /\ ~escalate
        /\ at' = "counting" /\ history' = Compact(history) /\ UNCHANGED escalate
  /\ UNCHANGED <<task, tokens, frames, bucket, ghosts, faults>>

FinishSummary ==
  /\ at = "summarizing"
  /\ history' = Summarize(history)
  /\ at' = "recounting"
  /\ UNCHANGED <<task, iteration, tokens, escalate, frames, bucket, ghosts, faults>>

\* The new size, and after a compaction that saved too little the decision to
\* summarize the next time.
CountTokens ==
  /\ at \in {"counting", "recounting"}
  /\ tokens' \in {"low", "high"}
  /\ escalate' \in (IF at = "counting" THEN BOOLEAN ELSE {escalate})
  /\ at' = "asking"
  /\ UNCHANGED <<task, iteration, history, frames, bucket, ghosts, faults>>

\* The stream ends with tool calls, after text or not.
AnswerWithCalls ==
  /\ at = "asking"
  /\ \E text \in BOOLEAN :
       /\ history' = history \o (IF text THEN <<Message("text")>> ELSE <<>>)
                             \o <<CallsMessage(text)>>
       /\ IF text THEN Publish([type |-> "text", task |-> task], frames)
          ELSE UNCHANGED frames
  /\ tokens' \in {"low", "high"}
  /\ at' = "acting"
  /\ UNCHANGED <<task, iteration, escalate, bucket, ghosts, faults>>

\* Mutant of AddResponses: calls that all fail leave no message.
AddResponsesUnlessEmpty ==
  /\ history' \in {history, Append(history, Message("responses"))}
  /\ at' = "loop"

\* Unknown, invalid and failing calls are left out of the message, which is
\* added even if it is empty.
AddResponses ==
  /\ history' = Append(history, Message("responses"))
  /\ at' = "loop"

RunTools ==
  /\ at = "acting"
  /\ AddResponses
  /\ Publish([type |-> "text", task |-> task], frames)
  /\ UNCHANGED <<task, iteration, tokens, escalate, bucket, ghosts, faults>>

\* One of the tools asks the user (qnaTool) or delegates to sub-agents, neither
\* with a timeout.  Several such tools of one answer are one wait.
WaitInTool ==
  /\ at = "acting"
  /\ Publish([type |-> "text", task |-> task], frames)
  /\ at' = "waiting"
  /\ UNCHANGED <<task, iteration, memory, bucket, ghosts, faults>>

\* The user answers, or the delegation returns; the other tools run.
ToolReturns ==
  /\ at = "waiting"
  /\ AddResponses
  /\ Publish([type |-> "text", task |-> task], frames)
  /\ UNCHANGED <<task, iteration, tokens, escalate, bucket, ghosts, faults>>

\* Mutant of AnswerFinally: [DONE] overtakes the text it closes.
AnswerFinallyDoneFirst ==
  /\ at = "asking"
  /\ \E text \in BOOLEAN :
       LET closed == Append(frames, [type |-> "done", task |-> task]) IN
       /\ history' = history \o (IF text THEN <<Message("text")>> ELSE <<>>)
       /\ frames' = IF text THEN Append(closed, [type |-> "text", task |-> task])
                            ELSE closed
  /\ tokens' \in {"low", "high"}
  /\ ends' = ends \union {[task |-> task, at |-> "publishing", hour |-> hour,
                           body |-> NoBackup]}
  /\ overlapped' = (overlapped \/ ends # {})
  /\ done' = task
  /\ at' = "idle"
  /\ UNCHANGED <<task, iteration, escalate, objects, latest, hour, faults>>

\* No calls: the task is over and `end` begun, up to its publish.
AnswerFinally ==
  /\ at = "asking"
  /\ \E text \in BOOLEAN :
       /\ history' = history \o (IF text THEN <<Message("text")>> ELSE <<>>)
       /\ Publish([type |-> "done", task |-> task],
                  IF text THEN Append(frames, [type |-> "text", task |-> task])
                          ELSE frames)
  /\ tokens' \in {"low", "high"}
  /\ ends' = ends \union {[task |-> task, at |-> "publishing", hour |-> hour,
                           body |-> NoBackup]}
  /\ overlapped' = (overlapped \/ ends # {})
  /\ done' = task
  /\ at' = "idle"
  /\ UNCHANGED <<task, iteration, escalate, objects, latest, hour, faults>>

\* A rejected LLM call (awaited again by handleErrorGracefully, with the same
\* outcome), a broken stream, a failing countTokens or summary end the task.
Throw ==
  /\ at \in {"asking", "counting", "recounting", "summarizing"}
  /\ Fault
  /\ \/ UNCHANGED frames
     \/ at = "asking" /\ Publish([type |-> "text", task |-> task], frames)
  /\ at' = "idle"
  /\ UNCHANGED <<task, iteration, memory, bucket, ghosts>>

-----------------------------------------------------------------------------
(* UserResponseHandler.end and S3Service.uploadToS3                        *)

MoveEnd(e, to) == ends' = (ends \ {e}) \union {to}

\* [DONE] is published; backupHistory serialises the history as it is now.
Published(e) ==
  /\ e \in ends /\ e.at = "publishing"
  /\ MoveEnd(e, [e EXCEPT !.at = "putting", !.hour = hour,
                          !.body = [history |-> history, upTo |-> e.task]])
  /\ UNCHANGED <<loop, memory, frames, objects, latest, hour, ghosts, faults>>

\* Mutant of PutBackup: the copy is made first.
PutBackupAfterCopy(e) ==
  /\ e \in ends /\ e.at = "putting"
  /\ latest' = objects[e.hour]
  /\ objects' = [objects EXCEPT ![e.hour] = e.body]
  /\ ends' = ends \ {e}
  /\ UNCHANGED <<loop, memory, frames, hour, ghosts, faults>>

PutBackup(e) ==
  /\ e \in ends /\ e.at = "putting"
  /\ objects' = [objects EXCEPT ![e.hour] = e.body]
  /\ MoveEnd(e, [e EXCEPT !.at = "copying"])
  /\ UNCHANGED <<loop, memory, frames, latest, hour, ghosts, faults>>

CopyBackup(e) ==
  /\ e \in ends /\ e.at = "copying"
  /\ latest' = objects[e.hour]
  /\ ends' = ends \ {e}
  /\ UNCHANGED <<loop, memory, frames, objects, hour, ghosts, faults>>

\* uploadToS3 swallows the error.
UploadFails(e) ==
  /\ e \in ends /\ e.at # "publishing"
  /\ Fault
  /\ ends' = ends \ {e}
  /\ UNCHANGED <<loop, memory, frames, objects, latest, hour, ghosts>>

HourPasses ==
  /\ hour < MaxHours
  /\ hour' = hour + 1
  /\ UNCHANGED <<loop, memory, frames, ends, objects, latest, ghosts, faults>>

-----------------------------------------------------------------------------
(* Crash and restart                                                       *)

Crash ==
  /\ at # "down" /\ Fault
  /\ at' = "down"
  /\ ends' = {}
  /\ UNCHANGED <<task, iteration, memory, frames, objects, latest, hour, ghosts>>

\* index.ts loads the latest backup into a new harness.
Boot ==
  /\ at = "down"
  /\ at' = "idle"
  /\ history' = latest.history
  /\ tokens' = "low" /\ escalate' = FALSE
  /\ UNCHANGED <<task, iteration, frames, bucket, ghosts, faults>>

-----------------------------------------------------------------------------
ExecuteTask ==
  \/ HitLimit \/ NextIteration \/ FinishSummary \/ CountTokens
  \/ AnswerWithCalls \/ AnswerFinally \/ RunTools \/ WaitInTool \/ Throw

Backup == \E e \in ends : Published(e) \/ PutBackup(e) \/ CopyBackup(e) \/ UploadFails(e)

Next == \/ BeginTask \/ ExecuteTask \/ ToolReturns
        \/ Backup \/ HourPasses \/ Crash \/ Boot

\* Nothing obliges the user or a sub-agent: ToolReturns is not fair.
Fairness == WF_vars(ExecuteTask) /\ WF_vars(Backup) /\ WF_vars(Boot)

Spec == Init /\ [][Next]_vars
FairSpec == Spec /\ Fairness

-----------------------------------------------------------------------------
(* Properties                                                              *)

CallsAnsweredIn(h) ==
  \A i \in DOMAIN h :
    /\ h[i].kind = "calls" => i < Len(h) /\ h[i + 1].kind = "responses"
    /\ h[i].hollow => i <= Len(h) - KeepLast

\* Whatever is compacted, summarized, interrupted by an error or restored after
\* a crash, the LLM is never asked with a message of tool calls in the history
\* that is not followed by the message of their results (executeTask adds the
\* two apart).  Excused are the functionCalls without a name that compactHistory
\* adds to text of the model's: nobody answers those, and all the property says
\* of them is that no message of the newest KeepLast has one.
CallsAnswered == at = "asking" => CallsAnsweredIn(history)

\* Compaction and summary leave the newest KeepLast messages as they were said
\* (keepLastNTurns).
NewestVerbatim ==
  at = "asking" =>
    \A i \in DOMAIN history :
      i > Len(history) - KeepLast
        => history[i].verbatim /\ history[i].kind \notin {"summary", "ack"}

\* In the browser's stream the [DONE] of an answer comes after all of its frames
\* and before any of the next, although end is not awaited.
DoneSeparatesAnswers ==
  \A i, j \in DOMAIN frames : i < j =>
    /\ frames[i].task <= frames[j].task
    /\ frames[i].task = frames[j].task => frames[i].type = "text"

\* Once its uploads are through, the backup the next pod will load covers the
\* last answered task, if backups neither fail nor overtake one another
\* (uploadToS3, "this way reading wud be always abt the latest").
LatestBackupIsNewest ==
  ends = {} /\ faults = 0 /\ ~overlapped => latest.upTo = done

\* Every task ends, whatever the LLM answers, if every question to the user is
\* answered and every delegation returns: the iteration limit bounds it.  It has
\* then published its [DONE], unless it ran into that limit (which ends a task
\* without one) or something failed.
TaskTerminates ==
  (at = "waiting" ~> at # "waiting") =>
    \A t \in Tasks :
      (task = t /\ at \notin {"idle", "down"})
        ~> /\ at \in {"idle", "down"}
           /\ done >= t \/ iteration = MaxIterations \/ faults > 0

=============================================================================
