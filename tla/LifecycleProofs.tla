-------------------------- MODULE LifecycleProofs --------------------------
(***************************************************************************)
(* Theorems about AgentWorker and about Lifecycle, for any number of       *)
(* prompts, file requests, shutdowns, lifecycle workers, Kubernetes        *)
(* objects, crashes and failed calls.  First the agent alone: the          *)
(* handshake saves the workspace, and prompts keep their turn.  Then the   *)
(* whole: what each component meets in the others is the environment its   *)
(* own module assumes, so that what holds of the agent holds of the whole, *)
(* and of the lifecycle workers and the Kubernetes calls; and the idle     *)
(* shutdown implements WorkspaceCustody.                                   *)
(***************************************************************************)
EXTENDS Lifecycle, SequenceTheorems, FiniteSetTheorems, FunctionTheorems, TLAPS

-----------------------------------------------------------------------------
(* The agent: jobs                                                         *)

\* What the constructors build, and how the kinds of jobs nest.
LEMMA JobKinds ==
  /\ HarnessJobs \subseteq Jobs /\ ImmediateJobs \subseteq Jobs
  /\ QnAJobs \subseteq ImmediateJobs /\ FileJobs \subseteq ImmediateJobs
  /\ NoJob \notin Jobs
  /\ Shutdown \in HarnessJobs
  /\ \A n \in TextIds : Text(n) \in HarnessJobs /\ QnA(n) \in Jobs
  /\ \A n \in FileIds : Files(n) \in Jobs
BY DEF HarnessJobs, ImmediateJobs, Jobs, QnAJobs, FileJobs, TextJobs, NoJob,
       Shutdown, Text, QnA, Files

\* The prompts of any set of jobs are prompts.
LEMMA TextsInType ==
  ASSUME NEW jobs, jobs \subseteq Jobs \union {NoJob}
  PROVE  TextsIn(jobs) \subseteq TextIds
BY DEF TextsIn, Jobs, NoJob, HarnessJobs, ImmediateJobs, QnAJobs, FileJobs,
       TextJobs, Shutdown

\* The elements of a sequence over S are in S.
LEMMA ElementsType ==
  ASSUME NEW S, NEW s \in Seq(S)
  PROVE  Elements(s) \subseteq S
BY ElementOfSeq, LenProperties DEF Elements

\* A harness job goes from phase to phase of its own kind.
LEMMA Phases ==
  ASSUME NEW h \in ActiveJobs
  PROVE  /\ \A p \in TextPhases :
              h.at \in TextPhases => [h EXCEPT !.at = p] \in ActiveJobs
         /\ \A p \in ShutdownPhases :
              h.at \in ShutdownPhases => [h EXCEPT !.at = p] \in ActiveJobs
         /\ h.at \in TextPhases => h.job \in TextJobs /\ h.job.id \in TextIds
         /\ h.at \in TextPhases \union ShutdownPhases
BY DEF ActiveJobs, TextPhases, ShutdownPhases, TextJobs

-----------------------------------------------------------------------------
(* The agent: type correctness                                             *)

LEMMA TypeInit == Init => TypeOK
<1>1. <<>> \in Seq(Jobs) /\ <<>> \in Seq(HarnessJobs) /\ <<>> \in Seq(TextJobs)
  BY EmptySeq
<1>2. [k \in {"text", "files", "shutdown", "crash", "failure"} |-> 0]
        \in [{"text", "files", "shutdown", "crash", "failure"} -> Nat]
  OBVIOUS
<1> QED
  BY <1>1, <1>2 DEF Init, TypeOK

\* The steps of the loop keep the types.
LEMMA TypeLoop == TypeOK /\ (FinishBoot \/ Loop) => TypeOK'
<1> SUFFICES ASSUME TypeOK, FinishBoot \/ Loop PROVE TypeOK'
  OBVIOUS
<1> USE DEF TypeOK, loop, harness, storage, history
<1>1. CASE FinishBoot
  BY <1>1 DEF FinishBoot
<1>2. CASE BrPop
  BY <1>2, HeadTailProperties DEF BrPop
<1>3. CASE DispatchHarnessJob
  BY <1>3, AppendProperties DEF DispatchHarnessJob
<1>4. CASE DispatchAnswer
  <2>1. \A h \in active : h.at = "waiting" => [h EXCEPT !.at = "running"] \in ActiveJobs
    BY Phases DEF TextPhases
  <2>2. active' \in SUBSET ActiveJobs
    BY <1>4, <2>1 DEF DispatchAnswer
  <2> QED
    BY <1>4, <2>2 DEF DispatchAnswer
<1>5. CASE DispatchFileRequest
  BY <1>5 DEF DispatchFileRequest, FileJobs
<1> QED
  BY <1>1, <1>2, <1>3, <1>4, <1>5 DEF Loop

\* The steps of the harness chain and of the shutdown handshake keep the types.
LEMMA TypeWork == TypeOK /\ Work => TypeOK'
<1> SUFFICES ASSUME TypeOK, Work PROVE TypeOK'
  OBVIOUS
<1> USE DEF TypeOK, loop, harness, storage, history
<1>1. CASE StartText
  <2>1. [job |-> Head(chain), at |-> "running"] \in ActiveJobs
    BY <1>1 DEF StartText, ActiveJobs, TextPhases
  <2> QED
    BY <1>1, <2>1, HeadTailProperties, AppendProperties DEF StartText
<1>2. CASE StartShutdown
  <2>1. [job |-> Shutdown, at |-> "archiving"] \in ActiveJobs
    BY DEF ActiveJobs, ShutdownPhases
  <2> QED
    BY <1>2, <2>1, HeadTailProperties DEF StartShutdown, Included
<1>3. CASE \E f \in reading : AnswerFileRequest(f) \/ FailFileRequest(f)
  BY <1>3 DEF AnswerFileRequest, FailFileRequest, Count
<1>4. ASSUME NEW h \in active,
             \/ EditWorkspace(h) \/ PublishQuestion(h) \/ WaitForResponse(h)
             \/ FinishText(h)
      PROVE  TypeOK'
  <2>1. CASE EditWorkspace(h)
    BY <2>1, Phases DEF EditWorkspace, TextPhases
  <2>2. CASE PublishQuestion(h)
    BY <2>2, Phases DEF PublishQuestion, MoveTo, TextPhases
  <2>3. CASE WaitForResponse(h)
    BY <2>3, Phases DEF WaitForResponse, MoveTo, TextPhases
  <2>4. CASE FinishText(h)
    BY <2>4 DEF FinishText
  <2> QED
    BY <1>4, <2>1, <2>2, <2>3, <2>4
<1>5. ASSUME NEW h \in active,
             \/ FinishArchive(h) \/ CopyToLatest(h) \/ AnnounceReady(h)
             \/ DrainAndPark(h) \/ FailShutdown(h)
      PROVE  TypeOK'
  <2>1. CASE FinishArchive(h)
    BY <2>1, Phases DEF FinishArchive, MoveTo, ShutdownPhases
  <2>2. CASE CopyToLatest(h)
    BY <2>2, Phases DEF CopyToLatest, MoveTo, ShutdownPhases
  <2>3. CASE AnnounceReady(h)
    <3>1. active' \in SUBSET ActiveJobs
      BY <2>3, Phases DEF AnnounceReady, MoveTo, ShutdownPhases
    <3>2. ready' \in Nat
      BY <2>3 DEF AnnounceReady
    <3> QED
      BY <2>3, <3>1, <3>2 DEF AnnounceReady
  <2>4. CASE DrainAndPark(h)
    <3>1. TextsIn({reply}) \subseteq TextIds
      BY TextsInType
    <3> QED
      BY <2>4, <3>1, Phases DEF DrainAndPark, MoveTo, ShutdownPhases
  <2>5. CASE FailShutdown(h)
    BY <2>5 DEF FailShutdown, Count
  <2> QED
    BY <1>5, <2>1, <2>2, <2>3, <2>4, <2>5
<1> QED
  BY <1>1, <1>2, <1>3, <1>4, <1>5 DEF Work

\* A dying process leaves well-typed remains.
LEMMA TypePodDies ==
  ASSUME TypeOK, NEW next \in {"none", "booting"}, PodDies(next),
         sent' \in [{"text", "files", "shutdown", "crash", "failure"} -> Nat]
  PROVE  TypeOK'
<1>1. Elements(chain) \union {reply} \subseteq Jobs \union {NoJob}
  BY ElementsType, JobKinds DEF TypeOK
<1>2. lost' \subseteq TextIds
  BY <1>1, TextsInType DEF PodDies, LoseMemory, TypeOK
<1> QED
  BY <1>2, EmptySeq DEF PodDies, LoseMemory, TypeOK, storage

\* The archive of a volume without a project keeps the types as it fails.
LEMMA TypeNoProject == TypeOK /\ NoProject => TypeOK'
<1> SUFFICES ASSUME TypeOK, NEW h \in active, ArchiveFails(h) PROVE TypeOK'
  BY DEF NoProject
<1>1. CASE PodDies("booting") /\ UNCHANGED sent
  BY <1>1, TypePodDies DEF TypeOK
<1>2. CASE ~PodDies("booting")
  BY <1>2 DEF ArchiveFails, TypeOK, loop, storage, history
<1> QED
  BY <1>1, <1>2 DEF ArchiveFails

\* What the environment does keeps the types.
LEMMA TypeEnvironment == TypeOK /\ Environment => TypeOK'
<1> SUFFICES ASSUME TypeOK, Environment PROVE TypeOK'
  OBVIOUS
<1> USE DEF TypeOK, loop, harness, storage, history
<1>1. CASE UserSendsText
  <2>1. sent["text"] + 1 \in TextIds
    BY <1>1, BoundsAssumption DEF UserSendsText, Count, TextIds
  <2>2. Text(sent["text"] + 1) \in Jobs
    BY <2>1, JobKinds
  <2> QED
    BY <1>1, <2>2, AppendProperties DEF UserSendsText, Count
<1>2. CASE \E q \in asked : UserAnswers(q)
  BY <1>2, JobKinds, AppendProperties DEF UserAnswers
<1>3. CASE UserBrowsesFiles
  <2>1. sent["files"] + 1 \in FileIds
    BY <1>3, BoundsAssumption DEF UserBrowsesFiles, Count, FileIds
  <2>2. Files(sent["files"] + 1) \in Jobs
    BY <2>1, JobKinds
  <2> QED
    BY <1>3, <2>2, AppendProperties DEF UserBrowsesFiles, Count
<1>4. CASE ReaperInitiatesShutdown
  <2>1. Shutdown \in Jobs
    BY JobKinds
  <2> QED
    BY <1>4, <2>1, AppendProperties DEF ReaperInitiatesShutdown, Count
<1>5. CASE SchedulePod
  BY <1>5 DEF SchedulePod
<1>6. CASE RemovePod
  BY <1>6, TypePodDies DEF RemovePod
<1>7. CASE ReceiverTakesReady
  BY <1>7 DEF ReceiverTakesReady
<1>8. CASE VolumeDestroyed
  BY <1>8 DEF VolumeDestroyed
<1>9. CASE Crash
  BY <1>9, TypePodDies DEF Crash, Count
<1> QED
  BY <1>1, <1>2, <1>3, <1>4, <1>5, <1>6, <1>7, <1>8, <1>9 DEF Environment

\* Every step keeps the types.
LEMMA TypeStep == TypeOK /\ [Next]_vars => TypeOK'
<1>1. TypeOK /\ UNCHANGED vars => TypeOK'
  BY DEF TypeOK, vars, agentVars
<1> QED
  BY <1>1, TypeLoop, TypeWork, TypeNoProject, TypeEnvironment DEF Next

\* The variables of the agent and of its environment keep their types: no
\* answer, file request or foreign job ever gets onto the harness chain, and
\* no harness job is at an await of the other kind.
THEOREM TypeCorrect == Spec => []TypeOK
BY TypeInit, TypeStep, PTL DEF Spec

-----------------------------------------------------------------------------
(* The agent: the handshake saves the workspace                            *)

\* The chain runs one job at a time, and a pod that is gone runs none.
OneAtATime == \A g, h \in active : g = h
NoneWithoutPod == pod = "none" => active = {} /\ chain = <<>> /\ reply = NoJob

\* From the snapshot on, the archive, and then latest.tar.gz, is what the filter
\* lets through of the workspace.
ArchiveIsWorkspace ==
  \A h \in active : h.at \in {"archiving", "copying"} => archive = Included(workspace)

\* ReadyMeansSaved is not inductive alone: it rests on the snapshot being the
\* workspace, which rests on nothing else driving the harness meanwhile and on
\* the volume outliving the pod.
Handshake ==
  /\ TypeOK
  /\ OneAtATime
  /\ NoneWithoutPod
  /\ ArchiveIsWorkspace
  /\ ReadyMeansSaved

LEMMA HandshakeInit == Init => Handshake
BY TypeInit DEF Init, Handshake, OneAtATime, NoneWithoutPod,
                ArchiveIsWorkspace, ReadyMeansSaved

\* The loop moves jobs to the chain and resumes a waiting prompt.
LEMMA HandshakeLoop == Handshake /\ (FinishBoot \/ Loop) => Handshake'
<1> SUFFICES ASSUME Handshake, FinishBoot \/ Loop PROVE Handshake'
  OBVIOUS
<1> USE DEF Handshake, OneAtATime, NoneWithoutPod, ArchiveIsWorkspace,
            ReadyMeansSaved, loop, harness, storage
<1>1. TypeOK'
  BY TypeLoop
<1>2. CASE FinishBoot
  BY <1>1, <1>2 DEF FinishBoot
<1>3. CASE BrPop
  BY <1>1, <1>3 DEF BrPop
<1>4. CASE DispatchHarnessJob
  <2>1. pod # "none"
    BY <1>4, JobKinds DEF DispatchHarnessJob
  <2> QED
    BY <1>1, <1>4, <2>1 DEF DispatchHarnessJob
<1>5. CASE DispatchAnswer
  <2>1. \A h \in active' : h \in active \/ h.at = "running"
    BY <1>5, Phases DEF DispatchAnswer, TypeOK, ActiveJobs
  <2>2. \A g, h \in active' : g = h
    BY <1>5 DEF DispatchAnswer
  <2> QED
    BY <1>1, <1>5, <2>1, <2>2 DEF DispatchAnswer
<1>6. CASE DispatchFileRequest
  BY <1>1, <1>6 DEF DispatchFileRequest
<1> QED
  BY <1>2, <1>3, <1>4, <1>5, <1>6 DEF Loop

\* A phase change of the job in progress leaves it the only one.
LEMMA MoveToActive ==
  ASSUME OneAtATime, NEW h \in active, active \subseteq ActiveJobs,
         NEW phase, MoveTo(h, phase)
  PROVE  OneAtATime' /\ \A g \in active' : g.at = phase
<1>1. active = {h}
  BY DEF OneAtATime
<1>2. \A p : [h EXCEPT !.at = p].at = p
  BY DEF ActiveJobs
<1>3. active' = {[h EXCEPT !.at = phase]}
  BY <1>1 DEF MoveTo
<1> QED
  BY <1>2, <1>3 DEF OneAtATime

\* Prompts edit, ask and end; the shutdown archives, copies, announces, parks.
LEMMA HandshakeWork == Handshake /\ Work => Handshake'
<1> SUFFICES ASSUME Handshake, Work PROVE Handshake'
  OBVIOUS
<1> USE DEF Handshake, OneAtATime, NoneWithoutPod, ArchiveIsWorkspace,
            ReadyMeansSaved, loop, harness, storage
<1>1. TypeOK' /\ active \subseteq ActiveJobs
  BY TypeWork DEF TypeOK
<1>2. CASE StartText
  BY <1>1, <1>2 DEF StartText
<1>3. CASE StartShutdown
  BY <1>1, <1>3 DEF StartShutdown
<1>4. CASE \E f \in reading : AnswerFileRequest(f) \/ FailFileRequest(f)
  BY <1>1, <1>4 DEF AnswerFileRequest, FailFileRequest
<1>5. ASSUME NEW h \in active, EditWorkspace(h) PROVE Handshake'
  BY <1>1, <1>5 DEF EditWorkspace
<1>6. ASSUME NEW h \in active, PublishQuestion(h) PROVE Handshake'
  <2>1. OneAtATime' /\ \A g \in active' : g.at = "asking"
    BY <1>1, <1>6, MoveToActive DEF PublishQuestion
  <2> QED
    BY <1>1, <1>6, <2>1 DEF PublishQuestion
<1>7. ASSUME NEW h \in active, WaitForResponse(h) PROVE Handshake'
  <2>1. OneAtATime' /\ \A g \in active' : g.at = "waiting"
    BY <1>1, <1>7, MoveToActive DEF WaitForResponse
  <2> QED
    BY <1>1, <1>7, <2>1 DEF WaitForResponse
<1>8. ASSUME NEW h \in active, FinishText(h) PROVE Handshake'
  BY <1>1, <1>8 DEF FinishText
<1>9. ASSUME NEW h \in active, FinishArchive(h) PROVE Handshake'
  <2>1. OneAtATime' /\ \A g \in active' : g.at = "copying"
    BY <1>1, <1>9, MoveToActive DEF FinishArchive
  <2> QED
    BY <1>1, <1>9, <2>1 DEF FinishArchive
<1>10. ASSUME NEW h \in active, CopyToLatest(h) PROVE Handshake'
  <2>1. OneAtATime' /\ \A g \in active' : g.at = "notifying"
    BY <1>1, <1>10, MoveToActive DEF CopyToLatest
  <2> QED
    BY <1>1, <1>10, <2>1 DEF CopyToLatest
<1>11. ASSUME NEW h \in active, AnnounceReady(h) PROVE Handshake'
  <2>1. OneAtATime' /\ \A g \in active' : g.at = "draining"
    BY <1>1, <1>11, MoveToActive DEF AnnounceReady
  <2> QED
    BY <1>1, <1>11, <2>1 DEF AnnounceReady
<1>12. ASSUME NEW h \in active, DrainAndPark(h) PROVE Handshake'
  <2>1. OneAtATime' /\ \A g \in active' : g.at = "parked"
    BY <1>1, <1>12, MoveToActive DEF DrainAndPark
  <2> QED
    BY <1>1, <1>12, <2>1 DEF DrainAndPark
<1>13. ASSUME NEW h \in active, FailShutdown(h) PROVE Handshake'
  BY <1>1, <1>13 DEF FailShutdown
<1> QED
  BY <1>2, <1>3, <1>4, <1>5, <1>6, <1>7, <1>8, <1>9, <1>10, <1>11, <1>12,
     <1>13 DEF Work

\* The environment fills lists, and takes away processes and unmounted volumes.
LEMMA HandshakeEnvironment == Handshake /\ Environment => Handshake'
<1> SUFFICES ASSUME Handshake, Environment PROVE Handshake'
  OBVIOUS
<1> USE DEF Handshake, OneAtATime, NoneWithoutPod, ArchiveIsWorkspace,
            ReadyMeansSaved, loop, harness, storage
<1>1. TypeOK'
  BY TypeEnvironment
<1>2. CASE UserSendsText
  BY <1>1, <1>2 DEF UserSendsText
<1>3. CASE \E q \in asked : UserAnswers(q)
  BY <1>1, <1>3 DEF UserAnswers
<1>4. CASE UserBrowsesFiles
  BY <1>1, <1>4 DEF UserBrowsesFiles
<1>5. CASE ReaperInitiatesShutdown
  BY <1>1, <1>5 DEF ReaperInitiatesShutdown
<1>6. CASE SchedulePod
  BY <1>1, <1>6 DEF SchedulePod
<1>7. CASE RemovePod
  BY <1>1, <1>7 DEF RemovePod, PodDies, LoseMemory
<1>8. CASE ReceiverTakesReady
  BY <1>1, <1>8 DEF ReceiverTakesReady
<1>9. CASE VolumeDestroyed
  BY <1>1, <1>9 DEF VolumeDestroyed
<1>10. CASE Crash
  BY <1>1, <1>10 DEF Crash, PodDies, LoseMemory
<1> QED
  BY <1>2, <1>3, <1>4, <1>5, <1>6, <1>7, <1>8, <1>9, <1>10 DEF Environment

\* An archive that fails ends the handshake or takes the process along.
LEMMA HandshakeNoProject == Handshake /\ NoProject => Handshake'
<1> SUFFICES ASSUME Handshake, NEW h \in active, ArchiveFails(h) PROVE Handshake'
  BY DEF NoProject
<1>1. TypeOK'
  BY TypeNoProject DEF Handshake, NoProject
<1> QED
  BY <1>1 DEF ArchiveFails, PodDies, LoseMemory, Handshake, OneAtATime, NoneWithoutPod,
              ArchiveIsWorkspace, ReadyMeansSaved, loop, storage

LEMMA HandshakeStep == Handshake /\ [Next]_vars => Handshake'
<1>1. Handshake /\ UNCHANGED vars => Handshake'
  BY TypeStep DEF Handshake, OneAtATime, NoneWithoutPod, ArchiveIsWorkspace,
                  ReadyMeansSaved, vars, agentVars
<1> QED
  BY <1>1, HandshakeLoop, HandshakeWork, HandshakeNoProject, HandshakeEnvironment DEF Next

\* An agent that announces shutdown_ready, drains or is parked has every edit of
\* its workspace that the archive's filter lets through in latest.tar.gz:
\* handleShutdownInitiation runs on the chain,
\* behind every prompt and ahead of the next, and nothing edits between its
\* snapshot and the teardown.
THEOREM ShutdownReadyMeansSaved == Spec => []ReadyMeansSaved
<1>1. Handshake => ReadyMeansSaved
  BY DEF Handshake
<1> QED
  BY <1>1, HandshakeInit, HandshakeStep, PTL DEF Spec

-----------------------------------------------------------------------------
(* The agent: prompts keep their turn                                      *)

Ordered(s) == \A i, j \in DOMAIN s : i < j => Precedes(s[i], s[j])
Before(A, B) == \A j \in A, k \in B : Precedes(j, k)

\* The place where a job can be: any of the four lists, which are typed alike.
Places == Jobs \union {NoJob}

LEMMA ConcatElements ==
  ASSUME NEW s \in Seq(Places), NEW t \in Seq(Places)
  PROVE  Elements(s \o t) = Elements(s) \union Elements(t)
<1>1. /\ s \o t \in Seq(Places) /\ Len(s \o t) = Len(s) + Len(t)
      /\ \A i \in 1..Len(s) + Len(t) :
           (s \o t)[i] = IF i <= Len(s) THEN s[i] ELSE t[i - Len(s)]
  BY ConcatProperties
<1>2. Len(s) \in Nat /\ Len(t) \in Nat
  BY LenProperties
<1>3. /\ DOMAIN s = 1..Len(s) /\ DOMAIN t = 1..Len(t)
      /\ DOMAIN (s \o t) = 1..(Len(s) + Len(t))
  BY <1>1, LenProperties
<1>4. ASSUME NEW i \in DOMAIN (s \o t)
      PROVE  (s \o t)[i] \in Elements(s) \union Elements(t)
  <2>1. CASE i <= Len(s)
    BY <1>1, <1>2, <1>3, <2>1 DEF Elements
  <2>2. CASE i > Len(s)
    <3>1. i - Len(s) \in DOMAIN t
      BY <1>2, <1>3, <2>2
    <3> QED
      BY <1>1, <1>2, <1>3, <2>2, <3>1 DEF Elements
  <2> QED
    BY <1>2, <1>3, <2>1, <2>2
<1>5. ASSUME NEW i \in DOMAIN s PROVE s[i] \in Elements(s \o t)
  <2>1. i \in DOMAIN (s \o t) /\ (s \o t)[i] = s[i]
    BY <1>1, <1>2, <1>3
  <2> QED
    BY <2>1 DEF Elements
<1>6. ASSUME NEW i \in DOMAIN t PROVE t[i] \in Elements(s \o t)
  <2>1. i + Len(s) \in DOMAIN (s \o t) /\ ~(i + Len(s) <= Len(s))
        /\ (i + Len(s)) - Len(s) = i
    BY <1>2, <1>3
  <2>2. (s \o t)[i + Len(s)] = t[i]
    BY <1>1, <1>2, <1>3, <2>1
  <2> QED
    BY <2>1, <2>2 DEF Elements
<1> QED
  BY <1>4, <1>5, <1>6 DEF Elements

LEMMA ConcatOrdered ==
  ASSUME NEW s \in Seq(Places), NEW t \in Seq(Places)
  PROVE  Ordered(s \o t)
           <=> Ordered(s) /\ Ordered(t) /\ Before(Elements(s), Elements(t))
<1>1. /\ s \o t \in Seq(Places) /\ Len(s \o t) = Len(s) + Len(t)
      /\ \A i \in 1..Len(s) + Len(t) :
           (s \o t)[i] = IF i <= Len(s) THEN s[i] ELSE t[i - Len(s)]
  BY ConcatProperties
<1>2. Len(s) \in Nat /\ Len(t) \in Nat
  BY LenProperties
<1>3. /\ DOMAIN s = 1..Len(s) /\ DOMAIN t = 1..Len(t)
      /\ DOMAIN (s \o t) = 1..(Len(s) + Len(t))
  BY <1>1, LenProperties
<1>4. \A i \in DOMAIN s : i \in DOMAIN (s \o t) /\ (s \o t)[i] = s[i]
  BY <1>1, <1>2, <1>3
<1>5. ASSUME NEW i \in DOMAIN t
      PROVE  i + Len(s) \in DOMAIN (s \o t) /\ (s \o t)[i + Len(s)] = t[i]
  <2>1. i + Len(s) \in DOMAIN (s \o t) /\ ~(i + Len(s) <= Len(s))
        /\ (i + Len(s)) - Len(s) = i
    BY <1>2, <1>3
  <2> QED
    BY <1>1, <1>2, <1>3, <2>1
<1>6. ASSUME NEW i \in DOMAIN (s \o t), i > Len(s)
      PROVE  i - Len(s) \in DOMAIN t /\ (s \o t)[i] = t[i - Len(s)]
  <2>1. i - Len(s) \in DOMAIN t
    BY <1>2, <1>3, <1>6
  <2> QED
    BY <1>1, <1>2, <1>3, <1>6, <2>1
<1>7. ASSUME Ordered(s \o t)
      PROVE  Ordered(s) /\ Ordered(t) /\ Before(Elements(s), Elements(t))
  <2>1. Ordered(s)
    BY <1>4, <1>7 DEF Ordered
  <2>2. ASSUME NEW i \in DOMAIN t, NEW j \in DOMAIN t, i < j
        PROVE  Precedes(t[i], t[j])
    <3>1. i + Len(s) < j + Len(s)
      BY <1>2, <1>3, <2>2
    <3> QED
      BY <1>5, <1>7, <3>1 DEF Ordered
  <2>3. ASSUME NEW i \in DOMAIN s, NEW j \in DOMAIN t
        PROVE  Precedes(s[i], t[j])
    <3>1. i < j + Len(s)
      BY <1>2, <1>3
    <3> QED
      BY <1>4, <1>5, <1>7, <3>1 DEF Ordered
  <2> QED
    BY <2>1, <2>2, <2>3 DEF Ordered, Before, Elements
<1>8. ASSUME Ordered(s), Ordered(t), Before(Elements(s), Elements(t)),
             NEW i \in DOMAIN (s \o t), NEW j \in DOMAIN (s \o t), i < j
      PROVE  Precedes((s \o t)[i], (s \o t)[j])
  <2>1. \A k \in DOMAIN (s \o t) : k <= Len(s) => k \in DOMAIN s
    BY <1>2, <1>3
  <2>2. CASE j <= Len(s)
    <3>1. i \in DOMAIN s /\ j \in DOMAIN s
      BY <1>2, <1>3, <1>8, <2>1, <2>2
    <3> QED
      BY <1>4, <1>8, <3>1 DEF Ordered
  <2>3. CASE i <= Len(s) /\ j > Len(s)
    <3>1. i \in DOMAIN s
      BY <2>1, <2>3
    <3> QED
      BY <1>4, <1>6, <1>8, <2>3, <3>1 DEF Before, Elements
  <2>4. CASE i > Len(s)
    <3>1. j > Len(s) /\ i - Len(s) < j - Len(s)
      BY <1>2, <1>3, <1>8, <2>4
    <3> QED
      BY <1>6, <1>8, <2>4, <3>1 DEF Ordered
  <2> QED
    BY <1>2, <1>3, <2>2, <2>3, <2>4
<1> QED
  BY <1>7, <1>8 DEF Ordered

LEMMA SingleJob ==
  ASSUME NEW j \in Places
  PROVE  <<j>> \in Seq(Places) /\ Elements(<<j>>) = {j} /\ Ordered(<<j>>)
<1>1. <<j>> \in Seq(Places) /\ Len(<<j>>) = 1 /\ DOMAIN <<j>> = 1..1 /\ <<j>>[1] = j
  OBVIOUS
<1>2. \A i \in 1..1 : i = 1
  OBVIOUS
<1> QED
  BY <1>1, <1>2 DEF Elements, Ordered

LEMMA LastIn ==
  ASSUME NEW s \in Seq(Places), NEW j \in Places
  PROVE  /\ Append(s, j) \in Seq(Places)
         /\ Elements(Append(s, j)) = Elements(s) \union {j}
         /\ Ordered(Append(s, j)) <=> Ordered(s) /\ Before(Elements(s), {j})
<1> DEFINE one == <<j>>
<1>1. Append(s, j) = s \o one
  OBVIOUS
<1>2. one \in Seq(Places) /\ Elements(one) = {j} /\ Ordered(one)
  BY SingleJob
<1> HIDE DEF one
<1>3. s \o one \in Seq(Places)
  BY <1>2, ConcatProperties
<1>4. Elements(s \o one) = Elements(s) \union {j}
  BY <1>2, ConcatElements
<1>5. Ordered(s \o one) <=> Ordered(s) /\ Before(Elements(s), {j})
  BY <1>2, ConcatOrdered
<1> QED
  BY <1>1, <1>3, <1>4, <1>5

LEMMA FirstOut ==
  ASSUME NEW s \in Seq(Places), s # <<>>
  PROVE  /\ Head(s) \in Places /\ Tail(s) \in Seq(Places)
         /\ Elements(s) = {Head(s)} \union Elements(Tail(s))
         /\ Ordered(s) <=> Ordered(Tail(s)) /\ Before({Head(s)}, Elements(Tail(s)))
<1>1. Head(s) \in Places /\ Tail(s) \in Seq(Places)
  BY HeadTailProperties
<1> DEFINE one == <<Head(s)>>
<1>2. s = one \o Tail(s)
  OBVIOUS
<1>3. one \in Seq(Places) /\ Elements(one) = {Head(s)} /\ Ordered(one)
  BY <1>1, SingleJob
<1> HIDE DEF one
<1>4. Elements(one \o Tail(s)) = {Head(s)} \union Elements(Tail(s))
  BY <1>1, <1>3, ConcatElements
<1>5. Ordered(one \o Tail(s))
        <=> Ordered(Tail(s)) /\ Before({Head(s)}, Elements(Tail(s)))
  BY <1>1, <1>3, ConcatOrdered
<1> QED
  BY <1>1, <1>2, <1>4, <1>5

\* The turn of the prompts, place by place.
InTurn ==
  /\ Ordered(started) /\ Ordered(chain) /\ Ordered(queue)
  /\ Before(Elements(started), Elements(chain) \union {reply} \union Elements(queue))
  /\ Before(Elements(chain), {reply} \union Elements(queue))
  /\ Before({reply}, Elements(queue))

Underway == Elements(started) \union Elements(chain) \union {reply} \union Elements(queue)

Accounted ==
  /\ TextsIn(Underway) = (1..sent["text"]) \ lost
  /\ lost \subseteq 1..sent["text"]

\* The next prompt is behind all others because no number has been used that
\* was not sent, and a prompt that dies takes along no other of its number
\* because those that remain are before or behind it.
TurnInv == TypeOK /\ InTurn /\ Accounted

LEMMA PlacesTyped ==
  ASSUME TypeOK
  PROVE  /\ started \in Seq(Places) /\ chain \in Seq(Places) /\ queue \in Seq(Places)
         /\ reply \in Places
<1>1. TextJobs \subseteq Places /\ HarnessJobs \subseteq Places /\ Jobs \subseteq Places
  BY DEF Places, Jobs, HarnessJobs
<1> QED
  BY <1>1, SeqMonotonic DEF TypeOK, Places

LEMMA LineInTurn == TurnInv => PromptsKeepTheirTurn
<1> SUFFICES ASSUME TurnInv PROVE PromptsKeepTheirTurn
  OBVIOUS
<1> DEFINE one == <<reply>>
           two == started \o chain
           three == two \o one
<1>0. Line = started \o chain \o one \o queue
  BY DEF Line
<1>1. /\ started \in Seq(Places) /\ chain \in Seq(Places) /\ queue \in Seq(Places)
      /\ one \in Seq(Places) /\ Elements(one) = {reply} /\ Ordered(one)
  BY PlacesTyped, SingleJob DEF TurnInv
<1> HIDE DEF one
<1>2. two \in Seq(Places) /\ three \in Seq(Places)
  BY <1>1, ConcatProperties
<1>3. /\ Elements(two) = Elements(started) \union Elements(chain)
      /\ Ordered(two) <=> Ordered(started) /\ Ordered(chain)
                            /\ Before(Elements(started), Elements(chain))
  BY <1>1, ConcatElements, ConcatOrdered
<1> HIDE DEF two
<1>4. /\ Elements(three) = Elements(two) \union {reply}
      /\ Ordered(three) <=> Ordered(two) /\ Before(Elements(two), {reply})
  <2>1. Elements(two \o one) = Elements(two) \union Elements(one)
    BY <1>1, <1>2, ConcatElements
  <2>2. Ordered(two \o one)
          <=> Ordered(two) /\ Ordered(one) /\ Before(Elements(two), Elements(one))
    BY <1>1, <1>2, ConcatOrdered
  <2> QED
    BY <1>1, <2>1, <2>2
<1>5. Line = three \o queue
  BY <1>0 DEF two
<1> HIDE DEF three
<1>6. /\ Elements(Line) = Elements(three) \union Elements(queue)
      /\ Ordered(Line) <=> Ordered(three) /\ Ordered(queue)
                             /\ Before(Elements(three), Elements(queue))
  BY <1>1, <1>2, <1>5, ConcatElements, ConcatOrdered
<1>7. Ordered(Line)
  BY <1>1, <1>3, <1>4, <1>6 DEF TurnInv, InTurn, Before
<1>8. TextsIn(Elements(Line)) = (1..sent["text"]) \ lost
  BY <1>1, <1>3, <1>4, <1>6 DEF TurnInv, Accounted, Underway
<1> QED
  BY <1>7, <1>8 DEF Ordered, PromptsKeepTheirTurn

LEMMA TurnInit == Init => TurnInv
<1> SUFFICES ASSUME Init PROVE TurnInv
  OBVIOUS
<1>1. started = <<>> /\ chain = <<>> /\ queue = <<>> /\ reply = NoJob /\ lost = {}
      /\ sent["text"] = 0
  BY DEF Init
<1>2. Elements(<<>>) = {} /\ Ordered(<<>>)
  BY DEF Elements, Ordered
<1>3. InTurn
  BY <1>1, <1>2 DEF InTurn, Before
<1>4. Accounted
  <2>1. 1..0 = {}
    OBVIOUS
  <2> QED
    BY <1>1, <1>2, <2>1 DEF Accounted, Underway, TextsIn, NoJob
<1> QED
  BY <1>3, <1>4, TypeInit DEF TurnInv

\* Jobs that are not prompts have no turn.
LEMMA NoTurn ==
  ASSUME NEW j, j.type # "text"
  PROVE  /\ \A k : Precedes(j, k) /\ Precedes(k, j)
         /\ \A js : TextsIn(js \union {j}) = TextsIn(js)
BY DEF Precedes, TextsIn

LEMMA NotPrompts ==
  /\ NoJob.type # "text" /\ Shutdown.type # "text"
  /\ \A j \in ImmediateJobs : j.type # "text"
BY DEF NoJob, Shutdown, ImmediateJobs, QnAJobs, FileJobs

LEMMA TurnUnchanged ==
  ASSUME TurnInv, TypeOK', UNCHANGED <<queue, reply, chain, started, lost>>,
         sent'["text"] = sent["text"]
  PROVE  TurnInv'
BY DEF TurnInv, InTurn, Accounted, Underway

\* Redis hands its oldest job to the pop.
LEMMA TurnBrPop == ASSUME TurnInv, TypeOK', BrPop PROVE TurnInv'
<1>1. /\ queue # <<>> /\ reply = NoJob
      /\ reply' = Head(queue) /\ queue' = Tail(queue)
      /\ UNCHANGED <<chain, started, lost, sent>>
  BY DEF BrPop, harness, history
<1>2. /\ Elements(queue) = {reply'} \union Elements(queue')
      /\ Ordered(queue) <=> Ordered(queue') /\ Before({reply'}, Elements(queue'))
  BY <1>1, FirstOut, PlacesTyped DEF TurnInv
<1>3. InTurn'
  BY <1>1, <1>2 DEF TurnInv, InTurn, Before
<1>4. Underway = Underway' \union {NoJob}
  BY <1>1, <1>2 DEF Underway
<1>5. Accounted'
  BY <1>1, <1>4, NoTurn, NotPrompts DEF TurnInv, Accounted
<1> QED
  BY <1>3, <1>5 DEF TurnInv

\* The chain takes the job that was popped.
LEMMA TurnDispatch == ASSUME TurnInv, TypeOK', DispatchHarnessJob PROVE TurnInv'
<1>1. /\ chain' = Append(chain, reply) /\ reply' = NoJob
      /\ UNCHANGED <<queue, started, lost, sent>>
  BY DEF DispatchHarnessJob, history
<1>2. /\ Elements(chain') = Elements(chain) \union {reply}
      /\ Ordered(chain') <=> Ordered(chain) /\ Before(Elements(chain), {reply})
  BY <1>1, LastIn, PlacesTyped DEF TurnInv
<1>3. InTurn'
  BY <1>1, <1>2, NoTurn, NotPrompts DEF TurnInv, InTurn, Before
<1>4. Underway' = Underway \union {NoJob}
  BY <1>1, <1>2 DEF Underway
<1>5. Accounted'
  BY <1>1, <1>4, NoTurn, NotPrompts DEF TurnInv, Accounted
<1> QED
  BY <1>3, <1>5 DEF TurnInv

\* An answer or a file request leaves the line.
LEMMA TurnImmediate ==
  ASSUME TurnInv, TypeOK', reply \in ImmediateJobs, reply' = NoJob,
         UNCHANGED <<queue, chain, started, lost, sent>>
  PROVE  TurnInv'
<1>1. InTurn'
  BY NoTurn, NotPrompts DEF TurnInv, InTurn, Before
<1>2. Underway' \union {reply} = Underway \union {NoJob}
  BY DEF Underway
<1>3. Accounted'
  BY <1>2, NoTurn, NotPrompts DEF TurnInv, Accounted
<1> QED
  BY <1>1, <1>3 DEF TurnInv

\* The harness starts the first job of the chain.
LEMMA TurnStart == ASSUME TurnInv, TypeOK', StartText \/ StartShutdown PROVE TurnInv'
<1>1. /\ chain # <<>> /\ chain' = Tail(chain)
      /\ UNCHANGED <<queue, reply, lost, sent>>
  BY DEF StartText, StartShutdown, history
<1>2. /\ Elements(chain) = {Head(chain)} \union Elements(chain')
      /\ Ordered(chain) <=> Ordered(chain') /\ Before({Head(chain)}, Elements(chain'))
  BY <1>1, FirstOut, PlacesTyped DEF TurnInv
<1>3. CASE StartText
  <2>1. started' = Append(started, Head(chain))
    BY <1>3 DEF StartText
  <2>2. Head(chain) \in Places
    BY <1>1, FirstOut, PlacesTyped DEF TurnInv
  <2>3. /\ Elements(started') = Elements(started) \union {Head(chain)}
        /\ Ordered(started') <=> Ordered(started) /\ Before(Elements(started), {Head(chain)})
    BY <2>1, <2>2, LastIn, PlacesTyped DEF TurnInv
  <2>4. InTurn'
    BY <1>1, <1>2, <2>3 DEF TurnInv, InTurn, Before
  <2>5. Underway' = Underway
    BY <1>1, <1>2, <2>3 DEF Underway
  <2> QED
    BY <1>1, <2>4, <2>5 DEF TurnInv, Accounted
<1>4. CASE StartShutdown
  <2>1. Head(chain) = Shutdown /\ started' = started
    BY <1>4 DEF StartShutdown, history
  <2>2. InTurn'
    BY <1>1, <1>2, <2>1 DEF TurnInv, InTurn, Before
  <2>3. Underway = Underway' \union {Shutdown}
    BY <1>1, <1>2, <2>1 DEF Underway
  <2>4. Accounted'
    BY <1>1, <2>3, NoTurn, NotPrompts DEF TurnInv, Accounted
  <2> QED
    BY <2>2, <2>4 DEF TurnInv
<1> QED
  BY <1>3, <1>4

\* A prompt that is sent has the highest number; other jobs have no turn.
LEMMA TurnPush ==
  ASSUME TurnInv, TypeOK', NEW j \in Jobs, queue' = Append(queue, j),
         UNCHANGED <<reply, chain, started, lost>>,
         \/ j.type # "text" /\ sent'["text"] = sent["text"]
         \/ j = Text(sent["text"] + 1) /\ sent'["text"] = sent["text"] + 1
  PROVE  TurnInv'
<1>0. sent["text"] \in Nat
  BY DEF TurnInv, TypeOK
<1>1. /\ Elements(queue') = Elements(queue) \union {j}
      /\ Ordered(queue') <=> Ordered(queue) /\ Before(Elements(queue), {j})
  BY LastIn, PlacesTyped DEF TurnInv, Places
<1>2. Underway' = Underway \union {j}
  BY <1>1 DEF Underway
<1>3. CASE j.type # "text" /\ sent'["text"] = sent["text"]
  <2>1. InTurn'
    BY <1>1, <1>3, NoTurn DEF TurnInv, InTurn, Before
  <2> QED
    BY <1>2, <1>3, <2>1, NoTurn DEF TurnInv, Accounted
<1>4. CASE j = Text(sent["text"] + 1) /\ sent'["text"] = sent["text"] + 1
  <2>1. j.id = sent["text"] + 1 /\ j.type = "text"
    BY <1>4 DEF Text
  <2>2. ASSUME NEW k \in Underway PROVE Precedes(k, j)
    <3>1. CASE k.type # "text"
      BY <3>1 DEF Precedes
    <3>2. CASE k.type = "text"
      <4>1. k.id \in 1..sent["text"]
        BY <3>2 DEF TurnInv, Accounted, TextsIn
      <4> QED
        BY <1>0, <2>1, <4>1 DEF Precedes
    <3> QED
      BY <3>1, <3>2
  <2>3. InTurn'
    BY <1>1, <2>2 DEF TurnInv, InTurn, Before, Underway
  <2>4. TextsIn(Underway') = TextsIn(Underway) \union {sent["text"] + 1}
    BY <1>2, <2>1 DEF TextsIn
  <2>5. 1..(sent["text"] + 1) = (1..sent["text"]) \union {sent["text"] + 1}
    BY <1>0
  <2>6. sent["text"] + 1 \notin 1..sent["text"]
    BY <1>0
  <2>7. Accounted'
    BY <1>4, <2>4, <2>5, <2>6 DEF TurnInv, Accounted
  <2> QED
    BY <2>3, <2>7 DEF TurnInv
<1> QED
  BY <1>3, <1>4

\* A process dies with the jobs on its chain, or keeps them, and drains the pop.
LEMMA TurnLost ==
  ASSUME TurnInv, TypeOK', NEW gone, gone \in {{}, Elements(chain)},
         reply' = NoJob, chain' = IF gone = {} THEN chain ELSE <<>>,
         lost' = lost \union TextsIn(gone \union {reply}),
         UNCHANGED <<queue, started>>, sent'["text"] = sent["text"]
  PROVE  TurnInv'
<1>1. Elements(<<>>) = {} /\ Ordered(<<>>)
  BY DEF Elements, Ordered
<1>2. Elements(chain') = Elements(chain) \ gone
  BY <1>1
<1>3. InTurn'
  <2>1. Ordered(chain')
    BY <1>1 DEF TurnInv, InTurn
  <2> QED
    BY <1>2, <2>1, NoTurn, NotPrompts DEF TurnInv, InTurn, Before
<1> DEFINE stay == Elements(started) \union Elements(chain') \union Elements(queue)
           die == gone \union {reply}
<1>4. Underway = stay \union die /\ Underway' = stay \union {NoJob}
  BY <1>2 DEF Underway
<1>5. \A j \in stay, k \in die : Precedes(j, k) \/ Precedes(k, j)
  BY <1>2 DEF TurnInv, InTurn, Before
<1> HIDE DEF stay, die
<1>6. TextsIn(Underway) = TextsIn(stay) \union TextsIn(die)
      /\ TextsIn(Underway') = TextsIn(stay)
  BY <1>4, NotPrompts DEF TextsIn
<1>7. TextsIn(Underway) \subseteq Nat
  BY DEF TurnInv, Accounted
<1>8. TextsIn(stay) \intersect TextsIn(die) = {}
  <2> SUFFICES ASSUME NEW j \in stay, NEW k \in die, j.type = "text", k.type = "text",
                      j.id = k.id
               PROVE  FALSE
    BY DEF TextsIn
  <2>1. j.id \in Nat
    BY <1>6, <1>7 DEF TextsIn
  <2> QED
    BY <1>5, <2>1 DEF Precedes
<1>9. lost' = lost \union TextsIn(die)
  BY DEF die
<1>10. Accounted'
  BY <1>6, <1>8, <1>9 DEF TurnInv, Accounted
<1> QED
  BY <1>3, <1>10 DEF TurnInv

\* A process dies with its chain and the reply it was handed.
LEMMA TurnDies ==
  ASSUME TurnInv, TypeOK', NEW next, PodDies(next), sent'["text"] = sent["text"]
  PROVE  TurnInv'
<1>1. /\ lost' = lost \union TextsIn(Elements(chain) \union {reply})
      /\ reply' = NoJob /\ chain' = <<>> /\ UNCHANGED <<queue, started>>
  BY DEF PodDies, LoseMemory
<1>2. Elements(chain) = {} => chain = <<>>
  <2> SUFFICES ASSUME chain # <<>> PROVE Elements(chain) # {}
    OBVIOUS
  <2> QED
    BY FirstOut, PlacesTyped DEF TurnInv
<1> QED
  BY <1>1, <1>2, TurnLost

LEMMA TurnStep == TurnInv /\ [Next]_vars => TurnInv'
<1> SUFFICES ASSUME TurnInv, [Next]_vars PROVE TurnInv'
  OBVIOUS
<1> USE DEF loop, harness, storage, history
<1>0. TypeOK'
  BY TypeStep DEF TurnInv
<1>1. CASE UNCHANGED vars
  BY <1>0, <1>1, TurnUnchanged DEF vars, agentVars
<1>2. CASE FinishBoot \/ Loop
  <2>1. CASE FinishBoot
    BY <1>0, <2>1, TurnUnchanged DEF FinishBoot
  <2>2. CASE BrPop
    BY <1>0, <2>2, TurnBrPop
  <2>3. CASE DispatchHarnessJob
    BY <1>0, <2>3, TurnDispatch
  <2>4. CASE DispatchAnswer \/ DispatchFileRequest
    BY <1>0, <2>4, TurnImmediate DEF DispatchAnswer, DispatchFileRequest, ImmediateJobs
  <2> QED
    BY <1>2, <2>1, <2>2, <2>3, <2>4 DEF Loop
<1>3. CASE Work
  <2>1. CASE StartText \/ StartShutdown
    BY <1>0, <2>1, TurnStart
  <2>2. ASSUME NEW f \in reading, AnswerFileRequest(f) \/ FailFileRequest(f)
        PROVE  TurnInv'
    <3>1. sent'["text"] = sent["text"]
      BY <2>2 DEF AnswerFileRequest, FailFileRequest, Count, TurnInv, TypeOK
    <3> QED
      BY <1>0, <2>2, <3>1, TurnUnchanged DEF AnswerFileRequest, FailFileRequest
  <2>3. CASE \E h \in active : \/ EditWorkspace(h) \/ PublishQuestion(h)
                               \/ WaitForResponse(h) \/ FinishText(h)
    BY <1>0, <2>3, TurnUnchanged
      DEF EditWorkspace, PublishQuestion, WaitForResponse, FinishText
  <2>4. CASE \E h \in active : FinishArchive(h) \/ CopyToLatest(h) \/ AnnounceReady(h)
    BY <1>0, <2>4, TurnUnchanged DEF FinishArchive, CopyToLatest, AnnounceReady
  <2>5. ASSUME NEW h \in active, DrainAndPark(h) PROVE TurnInv'
    <3>1. lost' = lost \union TextsIn({} \union {reply}) /\ sent'["text"] = sent["text"]
          /\ reply' = NoJob /\ chain' = chain /\ UNCHANGED <<queue, started>>
      BY <2>5 DEF DrainAndPark
    <3> QED
      BY <1>0, <3>1, TurnLost
  <2>6. ASSUME NEW h \in active, FailShutdown(h) PROVE TurnInv'
    <3>1. sent'["text"] = sent["text"]
      BY <2>6 DEF FailShutdown, Count, TurnInv, TypeOK
    <3> QED
      BY <1>0, <2>6, <3>1, TurnUnchanged DEF FailShutdown
  <2> QED
    BY <1>3, <2>1, <2>2, <2>3, <2>4, <2>5, <2>6 DEF Work
<1>4. CASE Environment
  <2>1. CASE UserSendsText
    <3>1. /\ queue' = Append(queue, Text(sent["text"] + 1))
          /\ sent'["text"] = sent["text"] + 1 /\ sent["text"] + 1 \in TextIds
      BY <2>1, BoundsAssumption DEF UserSendsText, Count, TurnInv, TypeOK, TextIds
    <3>2. Text(sent["text"] + 1) \in Jobs
      BY <3>1, JobKinds
    <3> QED
      BY <1>0, <2>1, <3>1, <3>2, TurnPush DEF UserSendsText
  <2>2. ASSUME NEW q \in asked, UserAnswers(q) PROVE TurnInv'
    <3>1. QnA(q) \in Jobs /\ QnA(q).type # "text"
      BY JobKinds DEF TurnInv, TypeOK, QnA
    <3> QED
      BY <1>0, <2>2, <3>1, TurnPush DEF UserAnswers
  <2>3. CASE UserBrowsesFiles
    <3>1. /\ queue' = Append(queue, Files(sent["files"] + 1))
          /\ sent'["text"] = sent["text"] /\ sent["files"] + 1 \in FileIds
      BY <2>3, BoundsAssumption DEF UserBrowsesFiles, Count, TurnInv, TypeOK, FileIds
    <3>2. Files(sent["files"] + 1) \in Jobs /\ Files(sent["files"] + 1).type # "text"
      BY <3>1, JobKinds DEF Files
    <3> QED
      BY <1>0, <2>3, <3>1, <3>2, TurnPush DEF UserBrowsesFiles
  <2>4. CASE ReaperInitiatesShutdown
    <3>1. queue' = Append(queue, Shutdown) /\ sent'["text"] = sent["text"]
      BY <2>4 DEF ReaperInitiatesShutdown, Count, TurnInv, TypeOK
    <3>2. Shutdown \in Jobs
      BY JobKinds
    <3> QED
      BY <1>0, <2>4, <3>1, <3>2, NotPrompts, TurnPush DEF ReaperInitiatesShutdown
  <2>5. CASE SchedulePod \/ ReceiverTakesReady \/ VolumeDestroyed
    BY <1>0, <2>5, TurnUnchanged DEF SchedulePod, ReceiverTakesReady, VolumeDestroyed
  <2>6. CASE RemovePod \/ Crash
    BY <1>0, <2>6, TurnDies DEF RemovePod, Crash, Count, TurnInv, TypeOK
  <2> QED
    BY <1>4, <2>1, <2>2, <2>3, <2>4, <2>5, <2>6 DEF Environment
<1>5. ASSUME NEW h \in active, ArchiveFails(h) PROVE TurnInv'
  <2>1. CASE PodDies("booting") /\ UNCHANGED sent
    BY <1>0, <2>1, TurnDies
  <2>2. CASE ~PodDies("booting")
    BY <1>0, <1>5, <2>2, TurnUnchanged DEF ArchiveFails
  <2> QED
    BY <1>5, <2>1, <2>2 DEF ArchiveFails
<1> QED
  BY <1>1, <1>2, <1>3, <1>4, <1>5 DEF Next, NoProject

\* For any number of prompts, crashes and failed shutdowns, prompts reach the
\* harness in the order they were sent, once, and the only ones missing are
\* those whose process died or drained after popping them (lPush, brPop and
\* the promise chain of handleHarnessJob).
THEOREM PromptsInTurn == Spec => []PromptsKeepTheirTurn
BY LineInTurn, TurnInit, TurnStep, PTL DEF Spec

-----------------------------------------------------------------------------
(* The whole: what its steps are for the components                        *)

\* Every step of Kubernetes that KubeCall stands for leaves the pod alone.
LEMMA KubeCallKeepsPod ==
  ASSUME KubeCall
  PROVE  /\ UNCHANGED <<request, lists, pod, agent, reaper>>
         /\ pvc' = "absent" => pvc = "absent" \/ pod = "none"
         /\ workspace' = IF pvc' = "absent" THEN {} ELSE workspace
<1>1. ASSUME NEW m \in Messages, P!EnsureStep(m) \/ P!AbandonEnsure(m)
      PROVE  UNCHANGED pod /\ (pvc' = "absent" => pvc = "absent")
  BY <1>1 DEF P!EnsureStep, P!EnsureWorkspacePVC, P!EnsureObject, P!EnsureFails,
              P!AbandonEnsure
<1>2. ASSUME NEW w \in Workers, P!TeardownStep(w)
      PROVE  UNCHANGED pod /\ (pvc' = "absent" => pvc = "absent" \/ pod = "none")
  BY <1>2 DEF P!TeardownStep, P!DeleteResource, P!DeleteFails, P!AfterDelete
<1>3. ASSUME P!FinalizePVC
      PROVE  UNCHANGED pod /\ pod = "none"
  BY <1>3 DEF P!FinalizePVC
<1> QED
  BY <1>1, <1>2, <1>3 DEF KubeCall, VolumeFollowsClaim

\* Steps of the lifecycle workers that are no message to or from the agent.
LEMMA WorkersKeepLists ==
  ASSUME NEW w \in Workers,
         ScanStep(w) \/ ScanFails(w) \/ EndTeardown(w) \/ RemoveHeartbeat(w) \/ WorkerDies(w)
  PROVE  UNCHANGED <<lists, pod, workspace, agent>>
<1>1. CASE ScanStep(w) \/ ScanFails(w)
  BY <1>1 DEF ScanStep, ScanFails, R!FindIdle, R!CheckShutdownLock, R!AcquireReaperLock,
              R!SetShutdownLock, R!PassFails, lists
<1>2. CASE EndTeardown(w) \/ RemoveHeartbeat(w)
  BY <1>2 DEF EndTeardown, RemoveHeartbeat, R!TeardownResolves, R!TeardownRejects,
              R!RemoveHeartbeat, R!RemovalFails, lists
<1>3. CASE WorkerDies(w)
  BY <1>3 DEF WorkerDies, R!Restart, P!AbandonTeardown, lists
<1> QED
  BY <1>1, <1>2, <1>3

LEMMA ClockKeepsLists ==
  ASSUME ClockStep PROVE UNCHANGED <<lists, pod, workspace, agent>>
BY DEF ClockStep, R!ReaperLockExpires, R!ShutdownLockExpires, R!HeartbeatExpires, lists

\* A running pod's claim exists: it may be terminating, and then it waits for
\* the pod.
PodHoldsClaim == pod # "none" => pvc # "absent"

\* Every step of the whole is one of the agent, one of the environment it
\* assumes, or none of its business.
LEMMA AgentSees == PodHoldsClaim /\ [LifecycleNext]_allVars => [Next]_vars
<1> SUFFICES ASSUME PodHoldsClaim, [LifecycleNext]_allVars PROVE [Next]_vars
  OBVIOUS
<1>0. ASSUME UNCHANGED <<lists, pod, workspace, agent>> PROVE UNCHANGED vars
  BY <1>0 DEF lists, agent, vars, agentVars
<1>1. CASE UNCHANGED allVars
  BY <1>0, <1>1 DEF allVars
<1>2. ASSUME NEW m \in Messages, SaveMessage(m) \/ PushText(m) \/ AnswerRequest(m) \/ BackendDies(m)
      PROVE  [Next]_vars
  <2>1. CASE PushText(m)
    BY <2>1 DEF PushText, Next, Environment
  <2>2. CASE AnswerRequest(m)
    BY <1>0, <2>2 DEF AnswerRequest, P!BeginEnsure
  <2>3. CASE SaveMessage(m) \/ BackendDies(m)
    BY <1>0, <2>3 DEF SaveMessage, BackendDies
  <2> QED
    BY <1>2, <2>1, <2>2, <2>3
<1>3. CASE RecordHeartbeat
  BY <1>0, <1>3 DEF RecordHeartbeat, R!Heartbeat, lists
<1>4. CASE OtherRequests
  BY <1>4 DEF OtherRequests, Next, Environment
<1>5. CASE AgentStep \/ ArchivingFails \/ AgentCrashes
  BY <1>5 DEF AgentStep, ArchivingFails, AgentCrashes, Next, Environment
<1>6. ASSUME NEW w \in Workers, WorkerStep(w) \/ ScanFails(w) \/ WorkerDies(w)
      PROVE  [Next]_vars
  <2>1. CASE PushShutdown(w)
    BY <2>1 DEF PushShutdown, Next, Environment
  <2>2. CASE ReceiveReady(w)
    <3>1. /\ ready > 0 /\ ready' = ready - 1
          /\ UNCHANGED <<queue, pod, workspace, agent>>
      BY <2>2 DEF ReceiveReady, R!PopReady, P!BeginTeardown
    <3>2. ReceiverTakesReady
      BY <3>1 DEF ReceiverTakesReady, agent, loop, harness, storage, history
    <3> QED
      BY <3>2 DEF Next, Environment
  <2>3. CASE ~PushShutdown(w) /\ ~ReceiveReady(w)
    BY <1>0, <1>6, <2>3, WorkersKeepLists DEF WorkerStep
  <2> QED
    BY <2>1, <2>2, <2>3
<1>7. CASE ClockStep
  BY <1>0, <1>7, ClockKeepsLists
<1>8. CASE KubeCall
  <2>1. CASE pvc' = "absent"
    <3>1. pod = "none" /\ workspace' = {}
      BY <1>8, <2>1, KubeCallKeepsPod DEF PodHoldsClaim
    <3>2. VolumeDestroyed
      BY <1>8, <3>1, KubeCallKeepsPod
        DEF VolumeDestroyed, agent, lists, loop, harness, history
    <3> QED
      BY <3>2 DEF Next, Environment
  <2>2. CASE pvc' # "absent"
    BY <1>0, <1>8, <2>2, KubeCallKeepsPod
  <2> QED
    BY <2>1, <2>2
<1>9. CASE PodScheduled \/ PodRemoved
  BY <1>9 DEF PodScheduled, PodRemoved, Next, Environment
<1> QED
  BY <1>1, <1>2, <1>3, <1>4, <1>5, <1>6, <1>7, <1>8, <1>9 DEF LifecycleNext, Backend

\* Nothing but the two steps that Kubernetes takes with it, and the agent's own,
\* changes the pod.
LEMMA PodSteps ==
  ASSUME [LifecycleNext]_allVars
  PROVE  \/ UNCHANGED <<pod, kube>>
         \/ P!Next
<1>0. ASSUME pod # "none", pod' \in P!PodStates, UNCHANGED kube PROVE P!PodChanges
  BY <1>0 DEF P!PodChanges, P!k8sVars, kube
<1>1. CASE UNCHANGED allVars
  BY <1>1 DEF allVars
<1>2. ASSUME NEW m \in Messages, SaveMessage(m) \/ PushText(m) \/ AnswerRequest(m) \/ BackendDies(m)
      PROVE  UNCHANGED <<pod, kube>> \/ P!Next
  <2>1. CASE PushText(m)
    BY <2>1 DEF PushText, UserSendsText, loop
  <2>2. CASE AnswerRequest(m)
    BY <2>2 DEF AnswerRequest, P!Next
  <2>3. CASE SaveMessage(m) \/ BackendDies(m)
    BY <2>3 DEF SaveMessage, BackendDies
  <2> QED
    BY <1>2, <2>1, <2>2, <2>3
<1>3. CASE RecordHeartbeat \/ OtherRequests \/ ClockStep
  BY <1>3 DEF RecordHeartbeat, OtherRequests, ClockStep, UserAnswers, UserBrowsesFiles, loop
<1>4. CASE AgentStep
  <2>1. CASE FinishBoot
    <3>1. pod # "none" /\ pod' \in P!PodStates /\ UNCHANGED kube
      BY <1>4, <2>1 DEF AgentStep, FinishBoot, P!PodStates
    <3> QED
      BY <1>0, <3>1 DEF P!Next
  <2>2. CASE Loop
    BY <1>4, <2>2 DEF AgentStep, Loop, BrPop, DispatchHarnessJob, DispatchAnswer,
                      DispatchFileRequest, loop
  <2>3. CASE Work
    BY <1>4, <2>3 DEF AgentStep, Work, StartText, StartShutdown, AnswerFileRequest,
         FailFileRequest,
         EditWorkspace, PublishQuestion, WaitForResponse, FinishText, FinishArchive,
         CopyToLatest, AnnounceReady, DrainAndPark, FailShutdown, loop
  <2> QED
    BY <1>4, <2>1, <2>2, <2>3 DEF AgentStep
<1>5. CASE ArchivingFails \/ AgentCrashes
  <2>1. UNCHANGED kube
        /\ (pod' = pod \/ (pod # "none" /\ pod' \in P!PodStates))
    BY <1>5 DEF ArchivingFails, NoProject, ArchiveFails, AgentCrashes, Crash, PodDies,
                P!PodStates, loop
  <2> QED
    BY <1>0, <2>1 DEF P!Next
<1>6. ASSUME NEW w \in Workers, WorkerStep(w) \/ ScanFails(w) \/ WorkerDies(w)
      PROVE  UNCHANGED <<pod, kube>> \/ P!Next
  <2>1. CASE PushShutdown(w)
    BY <2>1 DEF PushShutdown, ReaperInitiatesShutdown, loop
  <2>2. CASE ReceiveReady(w)
    BY <2>2 DEF ReceiveReady, P!Next
  <2>3. CASE WorkerDies(w)
    BY <2>3 DEF WorkerDies, P!Next
  <2>4. CASE ScanStep(w) \/ ScanFails(w) \/ EndTeardown(w) \/ RemoveHeartbeat(w)
    BY <2>4 DEF ScanStep, ScanFails, EndTeardown, RemoveHeartbeat
  <2> QED
    BY <1>6, <2>1, <2>2, <2>3, <2>4 DEF WorkerStep
<1>7. CASE KubeCall
  BY <1>7 DEF KubeCall, P!Next, P!Controllers
<1>8. CASE PodScheduled \/ PodRemoved
  BY <1>8 DEF PodScheduled, PodRemoved, P!Next, P!Controllers
<1> QED
  BY <1>1, <1>2, <1>3, <1>4, <1>5, <1>6, <1>7, <1>8 DEF LifecycleNext, Backend

\* Whatever the agent, the backend and the lifecycle workers do to the
\* infrastructure is what Provisioning lets callers and pods do.
THEOREM ProvisioningContract == LifecycleSpec => P!Spec
<1>1. LifecycleInit => P!Init
  BY DEF LifecycleInit
<1>2. [LifecycleNext]_allVars => [P!Next]_(P!vars)
  BY PodSteps DEF P!vars, P!k8sVars, kube
<1> QED
  BY <1>1, <1>2, PTL DEF LifecycleSpec, P!Spec

-----------------------------------------------------------------------------
(* The whole: what the agent assumes of the rest holds                     *)

KubeTyped ==
  /\ pvc \in {"absent", "bound", "terminating"}
  /\ objects \subseteq Objects
  /\ doomed \in BOOLEAN
  /\ deleting \in [Workers -> SUBSET P!Resources]

KubeInv == KubeTyped /\ PodHoldsClaim

LEMMA KubeInit == LifecycleInit => KubeInv
BY DEF LifecycleInit, P!Init, KubeInv, KubeTyped, PodHoldsClaim, Init

\* Calls create and delete what they may; a claim is absent only unmounted.
LEMMA KubeStep == KubeInv /\ [LifecycleNext]_allVars => KubeInv'
<1> SUFFICES ASSUME KubeInv, [LifecycleNext]_allVars PROVE KubeInv'
  OBVIOUS
<1> USE DEF KubeInv, KubeTyped, PodHoldsClaim
<1>1. CASE UNCHANGED <<pod, kube>>
  BY <1>1 DEF kube
<1>2. ASSUME NEW m \in Messages, P!BeginEnsure(m) \/ P!EnsureStep(m) \/ P!AbandonEnsure(m)
      PROVE  KubeInv'
  BY <1>2 DEF P!BeginEnsure, P!EnsureStep, P!EnsureWorkspacePVC, P!EnsureObject,
              P!EnsureFails, P!AbandonEnsure
<1>3. ASSUME NEW w \in Workers, P!BeginTeardown(w) \/ P!AbandonTeardown(w)
      PROVE  KubeInv'
  BY <1>3 DEF P!BeginTeardown, P!AbandonTeardown
<1>4. ASSUME NEW w \in Workers, NEW r \in P!Resources,
             P!DeleteResource(w, r) \/ P!DeleteFails(w, r)
      PROVE  KubeInv'
  <2>1. CASE P!DeleteResource(w, r)
    BY <2>1 DEF P!DeleteResource, P!AfterDelete
  <2>2. CASE P!DeleteFails(w, r)
    BY <2>2 DEF P!DeleteFails
  <2> QED
    BY <1>4, <2>1, <2>2
<1>5. CASE P!Controllers \/ P!PodChanges
  BY <1>5 DEF P!Controllers, P!SchedulePod, P!CanSchedule, P!RemovePod, P!FinalizePVC,
              P!PodChanges, P!k8sVars
<1> QED
  BY <1>1, <1>2, <1>3, <1>4, <1>5, PodSteps DEF P!Next, P!TeardownStep

\* What the backend, the lifecycle workers and Kubernetes do to the agent is
\* what AgentWorker lets its environment do: a volume is destroyed only while
\* no pod mounts it, because a claim waits for the pod that does (the PVC
\* protection that teardownInfrastructure relies on).
THEOREM AgentContract == LifecycleSpec => Spec
<1>1. LifecycleInit => Init
  BY DEF LifecycleInit
<1>2. KubeInv /\ [LifecycleNext]_allVars => [Next]_vars
  BY AgentSees DEF KubeInv
<1> QED
  BY <1>1, <1>2, KubeInit, KubeStep, PTL DEF LifecycleSpec, Spec

\* The handshake holds with the real backend, lifecycle workers and Kubernetes
\* in place of AgentWorker's environment, whatever fails.
THEOREM ReadyMeansSavedInTheWhole == LifecycleSpec => []ReadyMeansSaved
BY AgentContract, ShutdownReadyMeansSaved, PTL

\* Prompts keep their turn from the browser to the harness, across teardowns
\* and new pods, whatever fails on the way.
THEOREM PromptsInTurnInTheWhole == LifecycleSpec => []PromptsKeepTheirTurn
BY AgentContract, PromptsInTurn, PTL


-----------------------------------------------------------------------------
(* The whole: the idle shutdown takes custody of the workspace             *)

\* No agent has died and none of its calls has been rejected so far; calls of
\* the lifecycle workers and of Kubernetes may have failed.
Unharmed == sent["crash"] = 0 /\ sent["failure"] = 0

\* The agent has announced that it is ready, and does nothing more.
Packed == \E h \in active : h.at \in {"draining", "parked"}

\* A shutdown_ready, in the list or as a deletion of the deployment that it has
\* led to, is a permit to remove the pod that announced it: there is one at a
\* time, and its pod still runs.
Permitted(w) == "deployment" \in deleting[w]
OnePermit ==
  /\ ready <= 1
  /\ \A v, w \in Workers : Permitted(v) /\ Permitted(w) => v = w
  /\ ready = 1 => \A w \in Workers : ~Permitted(w)
PermitIsGood ==
  ready > 0 \/ (\E w \in Workers : Permitted(w)) => pod # "none" /\ Packed /\ ~doomed

\* A pod that runs has its deployment, or has packed up.
PodIsOwned ==
  /\ pod # "none" /\ ~doomed => "deployment" \in objects
  /\ pod # "none" /\ doomed => Packed

\* What no pod mounts is saved.
UnmountedIsSaved == pod = "none" => Included(workspace) \subseteq latest

Custodial == OnePermit /\ PermitIsGood /\ PodIsOwned /\ UnmountedIsSaved

CustodyInv == KubeInv /\ Handshake /\ (Unharmed => Custodial)

\* What the abstract specification allows, or nothing of its business.
CustodyStep == [Custody!Next]_(Custody!vars)

LEMMA CustodyInit == LifecycleInit => CustodyInv
<1> SUFFICES ASSUME LifecycleInit PROVE CustodyInv
  OBVIOUS
<1>1. Custodial
  BY DEF LifecycleInit, Init, P!Init, Custodial, OnePermit, PermitIsGood, Permitted,
         PodIsOwned, UnmountedIsSaved, Included
<1> QED
  BY <1>1, KubeInit, HandshakeInit DEF CustodyInv, LifecycleInit

\* Harm is not undone.
LEMMA HarmLasts ==
  ASSUME TypeOK, [Next]_vars, Unharmed' PROVE Unharmed
<1> USE DEF TypeOK, Unharmed
<1>1. CASE UNCHANGED sent
  BY <1>1
<1>2. ASSUME NEW k \in {"text", "files", "shutdown", "crash", "failure"}, NEW bound,
             Count(k, bound)
      PROVE  Unharmed
  BY <1>2 DEF Count
<1>3. FinishBoot \/ Loop => UNCHANGED sent
  BY DEF FinishBoot, Loop, BrPop, DispatchHarnessJob, DispatchAnswer, DispatchFileRequest
<1>4. Work => UNCHANGED sent \/ Count("failure", MaxFailures)
  BY DEF Work, StartText, StartShutdown, AnswerFileRequest, FailFileRequest,
         EditWorkspace, PublishQuestion, WaitForResponse, FinishText, FinishArchive,
         CopyToLatest, AnnounceReady, DrainAndPark, FailShutdown
<1>5. Environment => \/ UNCHANGED sent
                     \/ Count("text", MaxTexts) \/ Count("files", MaxFileRequests)
                     \/ Count("shutdown", MaxShutdowns) \/ Count("crash", MaxCrashes)
  BY DEF Environment, UserSendsText, UserAnswers, UserBrowsesFiles,
         ReaperInitiatesShutdown, SchedulePod, RemovePod, ReceiverTakesReady,
         VolumeDestroyed, Crash
<1>6. NoProject => UNCHANGED sent
  BY DEF NoProject, ArchiveFails
<1> QED
  BY <1>1, <1>2, <1>3, <1>4, <1>5, <1>6 DEF Next, vars

\* What custody does not depend on.
LEMMA CustodyUnchanged ==
  ASSUME UNCHANGED <<ready, active, pod, workspace, latest, objects, doomed, deleting>>
  PROVE  (Custodial => Custodial') /\ CustodyStep
BY DEF Custodial, OnePermit, PermitIsGood, Permitted, Packed, PodIsOwned,
       UnmountedIsSaved, CustodyStep, Custody!vars

\* A step of the agent that leaves the pod, the copies and the permits alone
\* keeps custody, as long as an agent that has packed up stays so.
LEMMA CustodyOfAgent ==
  ASSUME Custodial, UNCHANGED <<ready, objects, doomed, deleting>>,
         pod # "none" \/ UNCHANGED <<workspace, latest>>,
         pod = "none" <=> pod' = "none", Packed => Packed'
  PROVE  Custodial'
BY DEF Custodial, OnePermit, PermitIsGood, Permitted, PodIsOwned, UnmountedIsSaved

\* The agent edits, saves, announces and parks.
LEMMA CustodyAgent ==
  ASSUME Handshake, Custodial, AgentStep, Unharmed' PROVE Custodial' /\ CustodyStep
<1> USE DEF loop, harness, storage, history
<1>0. /\ UNCHANGED kube /\ OneAtATime /\ NoneWithoutPod /\ active \subseteq ActiveJobs
      /\ sent \in [{"text", "files", "shutdown", "crash", "failure"} -> Nat]
  BY DEF AgentStep, Handshake, TypeOK
<1>1. CASE FinishBoot
  BY <1>0, <1>1, CustodyOfAgent DEF FinishBoot, kube, CustodyStep, Custody!vars, Packed
<1>2. CASE Loop
  <2>1. UNCHANGED <<ready, pod, workspace, latest>>
    BY <1>2 DEF Loop, BrPop, DispatchHarnessJob, DispatchAnswer, DispatchFileRequest
  <2>2. Packed => Packed'
    <3>1. CASE DispatchAnswer
      BY <3>1 DEF DispatchAnswer, Packed
    <3> QED
      BY <1>2, <3>1 DEF Loop, BrPop, DispatchHarnessJob, DispatchFileRequest, Packed
  <2> QED
    BY <1>0, <2>1, <2>2, CustodyOfAgent DEF kube, CustodyStep, Custody!vars
<1>3. CASE StartText \/ StartShutdown
  BY <1>0, <1>3, CustodyOfAgent
    DEF StartText, StartShutdown, kube, CustodyStep, Custody!vars, Packed
<1>4. ASSUME NEW f \in reading, AnswerFileRequest(f) \/ FailFileRequest(f)
      PROVE  Custodial' /\ CustodyStep
  <2>1. ~FailFileRequest(f)
    BY <1>0 DEF FailFileRequest, Count, Unharmed
  <2> QED
    BY <1>0, <1>4, <2>1, CustodyUnchanged DEF AnswerFileRequest, kube
<1>5. ASSUME NEW h \in active, Work, h.at \notin {"draining", "parked"}
      PROVE  ~Packed /\ pod # "none" /\ active = {h}
  BY <1>0, <1>5 DEF Packed, OneAtATime, NoneWithoutPod
<1>6. ASSUME NEW h \in active, Work, EditWorkspace(h) PROVE Custodial' /\ CustodyStep
  <2>1. h.job.id \in TextIds
    BY <1>0, <1>6, Phases DEF EditWorkspace, TextPhases
  <2>2. workspace' = workspace \union {h.job.id} /\ UNCHANGED <<pod, ready, latest>>
    BY <1>6 DEF EditWorkspace
  <2>3. Custodial'
    BY <1>0, <1>5, <1>6, <2>2, CustodyOfAgent DEF EditWorkspace, kube
  <2>4. CASE h.job.id \in Excluded
    <3>1. Included(workspace)' = Included(workspace)
      BY <2>2, <2>4 DEF Included
    <3> QED
      BY <2>2, <2>3, <3>1 DEF CustodyStep, Custody!vars
  <2>5. CASE h.job.id \notin Excluded
    <3>1. /\ h.job.id \in Included(Messages)
          /\ Included(workspace)' = Included(workspace) \union {h.job.id}
      BY <2>1, <2>2, <2>5 DEF Included, Messages, TextIds
    <3>2. Custody!Edit
      BY <2>2, <3>1 DEF Custody!Edit
    <3> QED
      BY <2>3, <3>2 DEF CustodyStep, Custody!Next
  <2> QED
    BY <2>4, <2>5
<1>7. ASSUME NEW h \in active, Work,
             PublishQuestion(h) \/ WaitForResponse(h) \/ FinishText(h) \/ FinishArchive(h)
      PROVE  Custodial' /\ CustodyStep
  <2>1. h.at \notin {"draining", "parked"} /\ UNCHANGED <<ready, pod, workspace, latest>>
    BY <1>7 DEF PublishQuestion, WaitForResponse, FinishText, FinishArchive
  <2> QED
    BY <1>0, <1>5, <1>7, <2>1, CustodyOfAgent DEF kube, CustodyStep, Custody!vars
<1>8. ASSUME NEW h \in active, Work, CopyToLatest(h) PROVE Custodial' /\ CustodyStep
  <2>1. latest' = Included(workspace) /\ UNCHANGED <<workspace, pod, ready>>
    BY <1>8 DEF CopyToLatest, Handshake, ArchiveIsWorkspace
  <2>2. Custody!Save
    BY <2>1 DEF Custody!Save, Included
  <2>3. h.at = "copying"
    BY <1>8 DEF CopyToLatest
  <2> QED
    BY <1>0, <1>5, <1>8, <2>1, <2>2, <2>3, CustodyOfAgent
      DEF kube, CustodyStep, Custody!Next
<1>9. ASSUME NEW h \in active, Work, AnnounceReady(h) PROVE Custodial' /\ CustodyStep
  <2>1. /\ h.at = "notifying" /\ ready' = ready + 1 /\ MoveTo(h, "draining")
        /\ UNCHANGED <<pod, workspace, latest, objects, doomed, deleting>>
    BY <1>0, <1>9 DEF AnnounceReady, kube
  <2>2. ~Packed /\ pod # "none"
    BY <1>5, <1>9, <2>1
  <2>3. Packed'
    BY <1>0, <1>9, <2>1, MoveToActive DEF MoveTo, Packed
  <2>4. ready = 0 /\ ~doomed /\ \A w \in Workers : ~Permitted(w)
    BY <2>2 DEF Custodial, PermitIsGood, PodIsOwned, Handshake, TypeOK
  <2> QED
    BY <2>1, <2>2, <2>3, <2>4
      DEF Custodial, OnePermit, PermitIsGood, Permitted, PodIsOwned, UnmountedIsSaved,
          CustodyStep, Custody!vars
<1>10. ASSUME NEW h \in active, DrainAndPark(h) PROVE Custodial' /\ CustodyStep
  <2>1. UNCHANGED <<ready, pod, workspace, latest>> /\ Packed'
    BY <1>0, <1>10, MoveToActive DEF DrainAndPark, MoveTo, Packed
  <2> QED
    BY <1>0, <2>1, CustodyOfAgent DEF kube, CustodyStep, Custody!vars
<1>11. ASSUME NEW h \in active, FailShutdown(h) PROVE FALSE
  BY <1>0, <1>11 DEF FailShutdown, Count, Unharmed
<1> QED
  BY <1>1, <1>2, <1>3, <1>4, <1>6, <1>7, <1>8, <1>9, <1>10, <1>11 DEF AgentStep, Work

\* The receiver turns the announcement into deletions.
LEMMA CustodyReceive ==
  ASSUME KubeInv, Handshake, Custodial, NEW w \in Workers, ReceiveReady(w)
  PROVE  Custodial' /\ CustodyStep
<1>1. /\ ready > 0 /\ ready' = ready - 1 /\ ready = 1
      /\ deleting' = [deleting EXCEPT ![w] = P!Resources]
      /\ UNCHANGED <<pod, active, workspace, latest, objects, doomed>>
  BY DEF ReceiveReady, R!PopReady, P!BeginTeardown, agent, Custodial, OnePermit,
         Handshake, TypeOK
<1>2. \A v \in Workers : Permitted(v)' <=> v = w
  BY <1>1, LifecycleAssumption
    DEF Permitted, Custodial, OnePermit, KubeInv, KubeTyped, P!Resources
<1>3. pod # "none" /\ Packed /\ ~doomed
  BY <1>1 DEF Custodial, PermitIsGood
<1> QED
  BY <1>1, <1>2, <1>3, LifecycleAssumption
    DEF Custodial, OnePermit, PermitIsGood, Packed, PodIsOwned, UnmountedIsSaved,
        CustodyStep, Custody!vars

\* A caller that dies, or a deletion that fails, loses permits.
LEMMA CustodyLosesPermits ==
  ASSUME Custodial, \A w \in Workers : Permitted(w)' => Permitted(w),
         UNCHANGED <<ready, active, pod, workspace, latest, objects, doomed>>
  PROVE  Custodial' /\ CustodyStep
BY DEF Custodial, OnePermit, PermitIsGood, Packed, PodIsOwned, UnmountedIsSaved,
       CustodyStep, Custody!vars

\* Objects are created, the packed pod loses its deployment, the volume goes.
LEMMA CustodyKube ==
  ASSUME KubeInv, Handshake, Custodial, KubeCall PROVE Custodial' /\ CustodyStep
<1>1. UNCHANGED <<ready, active, pod, latest>>
  BY KubeCallKeepsPod DEF lists, agent
<1>2. CustodyStep
  <2>1. CASE pvc' = "absent"
    <3>1. pod = "none" /\ workspace' = {}
      BY <2>1, KubeCallKeepsPod DEF KubeInv, PodHoldsClaim
    <3>2. Custody!Destroy
      BY <1>1, <3>1 DEF Custody!Destroy, Custodial, UnmountedIsSaved, Included
    <3> QED
      BY <3>2 DEF CustodyStep, Custody!Next
  <2>2. CASE pvc' # "absent"
    BY <1>1, <2>2, KubeCallKeepsPod DEF CustodyStep, Custody!vars, Included
  <2> QED
    BY <2>1, <2>2
<1>3. UnmountedIsSaved'
  BY <1>1, KubeCallKeepsPod DEF Custodial, UnmountedIsSaved, Included
<1>4. (Packed <=> Packed') /\ deleting \in [Workers -> SUBSET P!Resources]
  BY <1>1 DEF Packed, KubeInv, KubeTyped
<1>5. ASSUME NEW m \in Messages, P!EnsureStep(m) \/ P!AbandonEnsure(m)
      PROVE  Custodial'
  <2>1. UNCHANGED <<doomed, deleting>> /\ objects \subseteq objects'
    BY <1>5 DEF P!EnsureStep, P!EnsureWorkspacePVC, P!EnsureObject, P!EnsureFails,
                P!AbandonEnsure
  <2> QED
    BY <1>1, <1>3, <1>4, <2>1
      DEF Custodial, OnePermit, PermitIsGood, Permitted, PodIsOwned
<1>6. ASSUME NEW w \in Workers, NEW r \in P!Resources,
             P!DeleteResource(w, r) \/ P!DeleteFails(w, r)
      PROVE  Custodial'
  <2>1. /\ r \in deleting[w] /\ deleting' = [deleting EXCEPT ![w] = @ \ {r}]
        /\ \/ objects' = objects \ {r}
              /\ doomed' = (doomed \/ r \in objects \intersect {"deployment"})
           \/ UNCHANGED <<objects, doomed>>
    BY <1>6 DEF P!DeleteResource, P!DeleteFails
  <2>2. \A v \in Workers : Permitted(v)' <=> Permitted(v) /\ ~(v = w /\ r = "deployment")
    BY <1>4, <2>1 DEF Permitted
  <2>3. OnePermit'
    BY <1>1, <2>2 DEF Custodial, OnePermit
  <2>4. CASE r = "deployment"
    <3>1. Permitted(w) /\ pod # "none" /\ Packed /\ ~doomed
      BY <2>1, <2>4 DEF Permitted, Custodial, PermitIsGood
    <3>2. ready = 0 /\ \A v \in Workers : ~Permitted(v)'
      BY <2>2, <2>4, <3>1 DEF Custodial, OnePermit, Handshake, TypeOK
    <3>3. PermitIsGood'
      BY <1>1, <3>2 DEF PermitIsGood
    <3>4. PodIsOwned'
      BY <1>1, <1>4, <2>1, <2>4, <3>1 DEF Custodial, PodIsOwned
    <3> QED
      BY <1>3, <2>3, <3>3, <3>4 DEF Custodial
  <2>5. CASE r # "deployment"
    <3>1. doomed' = doomed /\ ("deployment" \in objects => "deployment" \in objects')
      BY <2>1, <2>5 DEF KubeInv, KubeTyped
    <3> QED
      BY <1>1, <1>3, <1>4, <2>2, <2>3, <2>5, <3>1 DEF Custodial, PermitIsGood, PodIsOwned
  <2> QED
    BY <2>4, <2>5
<1>7. CASE P!FinalizePVC
  <2>1. UNCHANGED <<objects, doomed, deleting>>
    BY <1>7 DEF P!FinalizePVC
  <2> QED
    BY <1>1, <1>2, <1>3, <1>4, <2>1
      DEF Custodial, OnePermit, PermitIsGood, Permitted, PodIsOwned
<1> QED
  BY <1>2, <1>5, <1>6, <1>7 DEF KubeCall, P!TeardownStep

\* As long as no agent is harmed, every step keeps custody and does to the
\* volume and its backup what the abstract specification allows.
LEMMA CustodyOfStep ==
  ASSUME CustodyInv, [LifecycleNext]_allVars, Unharmed'
  PROVE  Custodial' /\ CustodyStep
<1>1. KubeInv /\ Handshake /\ Custodial
  BY AgentSees, HarmLasts DEF CustodyInv, KubeInv, Handshake
<1>2. ASSUME UNCHANGED <<ready, pod, workspace, agent, objects, doomed, deleting>>
      PROVE  Custodial' /\ CustodyStep
  BY <1>1, <1>2, CustodyUnchanged DEF agent
<1>3. CASE UNCHANGED allVars
  BY <1>2, <1>3 DEF allVars, lists, kube
<1>4. ASSUME NEW m \in Messages, SaveMessage(m) \/ PushText(m) \/ AnswerRequest(m) \/ BackendDies(m)
      PROVE  Custodial' /\ CustodyStep
  <2>1. CASE PushText(m)
    BY <1>1, <2>1, CustodyUnchanged DEF PushText, UserSendsText, loop, harness, storage, kube
  <2>2. CASE AnswerRequest(m)
    BY <1>2, <2>2 DEF AnswerRequest, P!BeginEnsure, lists
  <2>3. CASE SaveMessage(m) \/ BackendDies(m)
    BY <1>2, <2>3 DEF SaveMessage, BackendDies, lists, kube
  <2> QED
    BY <1>4, <2>1, <2>2, <2>3
<1>5. CASE RecordHeartbeat \/ ClockStep
  BY <1>2, <1>5, ClockKeepsLists DEF RecordHeartbeat, R!Heartbeat, ClockStep, lists, kube
<1>6. CASE OtherRequests
  BY <1>1, <1>6, CustodyUnchanged
    DEF OtherRequests, UserAnswers, UserBrowsesFiles, loop, harness, storage, kube
<1>7. CASE AgentStep
  BY <1>1, <1>7, CustodyAgent
<1>8. CASE AgentCrashes
  BY <1>1, <1>8 DEF AgentCrashes, Crash, Count, Unharmed, Handshake, TypeOK
<1>9. ASSUME NEW w \in Workers, WorkerStep(w) \/ ScanFails(w) \/ WorkerDies(w)
      PROVE  Custodial' /\ CustodyStep
  <2>1. CASE PushShutdown(w)
    BY <1>1, <2>1, CustodyUnchanged
      DEF PushShutdown, ReaperInitiatesShutdown, loop, harness, storage, kube
  <2>2. CASE ReceiveReady(w)
    BY <1>1, <2>2, CustodyReceive
  <2>3. CASE WorkerDies(w)
    <3>1. \A v \in Workers : Permitted(v)' => Permitted(v)
      BY <1>1, <2>3 DEF WorkerDies, P!AbandonTeardown, Permitted, KubeInv, KubeTyped, kube
    <3>2. UNCHANGED <<ready, active, pod, workspace, latest, objects, doomed>>
      BY <2>3, WorkersKeepLists DEF WorkerDies, P!AbandonTeardown, lists, agent, kube
    <3> QED
      BY <1>1, <3>1, <3>2, CustodyLosesPermits
  <2>4. CASE ScanStep(w) \/ ScanFails(w) \/ EndTeardown(w) \/ RemoveHeartbeat(w)
    <3>1. UNCHANGED <<lists, pod, workspace, agent>> /\ UNCHANGED kube
      BY <2>4, WorkersKeepLists DEF ScanStep, ScanFails, EndTeardown, RemoveHeartbeat
    <3> QED
      BY <1>2, <3>1 DEF lists, kube
  <2> QED
    BY <1>9, <2>1, <2>2, <2>3, <2>4 DEF WorkerStep
<1>10. CASE KubeCall
  BY <1>1, <1>10, CustodyKube
<1>11. CASE PodScheduled
  <2>1. /\ pod = "none" /\ pod' # "none" /\ ~doomed' /\ "deployment" \in objects
        /\ UNCHANGED <<ready, active, workspace, latest, objects, deleting>>
    BY <1>11 DEF PodScheduled, P!SchedulePod, P!CanSchedule, SchedulePod, harness, storage
  <2> QED
    BY <1>1, <2>1 DEF Custodial, OnePermit, PermitIsGood, Permitted, PodIsOwned,
                      UnmountedIsSaved, CustodyStep, Custody!vars
<1>12. CASE PodRemoved
  <2>1. /\ pod # "none" /\ doomed /\ pod' = "none"
        /\ UNCHANGED <<ready, workspace, latest, objects, doomed, deleting>>
    BY <1>12 DEF PodRemoved, P!RemovePod, P!MustRemove, P!k8sVars, RemovePod, PodDies,
                 LoseMemory, storage
  <2>2. latest = Included(workspace)
    BY <1>1, <2>1 DEF Custodial, PodIsOwned, Packed, Handshake, ReadyMeansSaved
  <2> QED
    BY <1>1, <2>1, <2>2 DEF Custodial, OnePermit, PermitIsGood, Permitted, PodIsOwned,
                            UnmountedIsSaved, CustodyStep, Custody!vars
<1>13. CASE ArchivingFails
  <2>1. PICK h \in active : ArchiveFails(h)
    BY <1>13 DEF ArchivingFails, NoProject
  <2>2. ~Packed /\ pod # "none"
    BY <1>1, <2>1 DEF ArchiveFails, Handshake, OneAtATime, NoneWithoutPod, Packed
  <2>3. pod' # "none" /\ UNCHANGED <<ready, workspace, latest>>
    BY <2>1, <2>2 DEF ArchiveFails, PodDies, loop, storage
  <2>4. UNCHANGED kube
    BY <1>13 DEF ArchivingFails
  <2> QED
    BY <1>1, <2>2, <2>3, <2>4, CustodyOfAgent DEF kube, CustodyStep, Custody!vars
<1> QED
  BY <1>3, <1>4, <1>5, <1>6, <1>7, <1>8, <1>9, <1>10, <1>11, <1>12, <1>13
    DEF LifecycleNext, Backend

LEMMA CustodyInvStep == CustodyInv /\ [LifecycleNext]_allVars => CustodyInv'
BY CustodyOfStep, KubeStep, AgentSees, HandshakeStep DEF CustodyInv, KubeInv

\* Until an agent dies or one of its calls is rejected, whatever the lifecycle
\* workers and Kubernetes fail at, the volume is destroyed only when
\* latest.tar.gz holds every edit on it that the archive's filter lets through.
THEOREM CustodyUntilHarm == LifecycleSpec => [][Unharmed' => CustodyStep]_allVars
<1>1. CustodyInv /\ [LifecycleNext]_allVars => (Unharmed' => CustodyStep)
  BY CustodyOfStep
<1> QED
  BY <1>1, CustodyInit, CustodyInvStep, PTL DEF LifecycleSpec

\* With agents that are never harmed, the whole implements WorkspaceCustody over
\* the edits that the archive's filter lets through, for any number of prompts, workers, shutdowns, Kubernetes errors and faults
\* of lifecycle workers.
THEOREM CustodyIsKept ==
  ASSUME MaxCrashes = 0, MaxFailures = 0
  PROVE  LifecycleSpec => CustodyKept
<1>1. LifecycleInit => Unharmed /\ Custody!Init
  BY DEF LifecycleInit, Init, Unharmed, Custody!Init, Included
<1>2. TypeOK /\ Unharmed /\ [Next]_vars => Unharmed'
  <2> SUFFICES ASSUME TypeOK, Unharmed, [Next]_vars PROVE Unharmed'
    OBVIOUS
  <2> USE DEF TypeOK, Unharmed, Count
  <2>1. FinishBoot \/ Loop => UNCHANGED sent
    BY DEF FinishBoot, Loop, BrPop, DispatchHarnessJob, DispatchAnswer,
           DispatchFileRequest
  <2>2. Work => UNCHANGED sent
    BY DEF Work, StartText, StartShutdown, AnswerFileRequest, FailFileRequest,
           EditWorkspace, PublishQuestion, WaitForResponse, FinishText, FinishArchive,
           CopyToLatest, AnnounceReady, DrainAndPark, FailShutdown
  <2>3. Environment => Unharmed'
    BY DEF Environment, UserSendsText, UserAnswers, UserBrowsesFiles,
           ReaperInitiatesShutdown, SchedulePod, RemovePod, ReceiverTakesReady,
           VolumeDestroyed, Crash
  <2>4. NoProject => UNCHANGED sent
    BY DEF NoProject, ArchiveFails
  <2> QED
    BY <2>1, <2>2, <2>3, <2>4 DEF Next, vars
<1>3. CustodyInv /\ Unharmed /\ [LifecycleNext]_allVars => Unharmed' /\ CustodyStep
  BY <1>2, AgentSees, CustodyOfStep DEF CustodyInv, KubeInv, Handshake
<1> QED
  BY <1>1, <1>3, CustodyInit, CustodyInvStep, PTL
    DEF LifecycleSpec, CustodyKept, CustodyStep, Custody!Spec

-----------------------------------------------------------------------------
(* The whole: each shutdown_ready answers an initiate_shutdown             *)

One(condition) == IF condition THEN 1 ELSE 0

\* Where a list holds the message.
ShutdownPlaces(list) == {i \in DOMAIN list : list[i] = Shutdown}

LEMMA CountTyped ==
  ASSUME NEW S, NEW s \in Seq(S)
  PROVE  /\ IsFiniteSet(ShutdownPlaces(s))
         /\ ShutdownsIn(s) = Cardinality(ShutdownPlaces(s))
         /\ ShutdownsIn(s) \in Nat /\ ShutdownsIn(s) <= Len(s)
<1>1. Len(s) \in Nat /\ DOMAIN s = 1..Len(s)
  BY LenProperties
<1>2. IsFiniteSet(1..Len(s)) /\ Cardinality(1..Len(s)) = Len(s)
  <2> DEFINE n == Len(s)
  <2>1. n \in Nat
    BY <1>1
  <2> HIDE DEF n
  <2>2. /\ IsFiniteSet(1..n)
        /\ Cardinality(1..n) = IF 1 > n THEN 0 ELSE n - 1 + 1
    BY <2>1, FS_Interval
  <2>3. Cardinality(1..n) = n
    BY <2>1, <2>2
  <2> QED
    BY <2>2, <2>3 DEF n
<1>3. ShutdownPlaces(s) \in SUBSET (1..Len(s))
  BY <1>1 DEF ShutdownPlaces
<1>4. /\ IsFiniteSet(ShutdownPlaces(s))
      /\ Cardinality(ShutdownPlaces(s)) <= Cardinality(1..Len(s))
  BY <1>2, <1>3, FS_Subset
<1>5. Cardinality(ShutdownPlaces(s)) \in Nat
  BY <1>4, FS_CardinalityType
<1> QED
  BY <1>2, <1>4, <1>5 DEF ShutdownsIn, ShutdownPlaces

LEMMA CountEmpty == ShutdownsIn(<<>>) = 0
<1>1. {i \in DOMAIN <<>> : <<>>[i] = Shutdown} = {}
  BY EmptySeq
<1> QED
  BY <1>1, FS_EmptySet DEF ShutdownsIn

LEMMA CountAppend ==
  ASSUME NEW S, NEW s \in Seq(S), NEW j \in S
  PROVE  ShutdownsIn(Append(s, j)) = ShutdownsIn(s) + One(j = Shutdown)
<1> DEFINE t == Append(s, j)
<1>1. /\ t \in Seq(S) /\ Len(t) = Len(s) + 1 /\ Len(s) \in Nat
      /\ \A i \in 1..Len(s) : t[i] = s[i]
      /\ t[Len(s) + 1] = j
  BY AppendProperties, LenProperties
<1>2. DOMAIN s = 1..Len(s) /\ DOMAIN t = 1..(Len(s) + 1)
  BY <1>1, LenProperties
<1> HIDE DEF t
<1>3. Len(s) + 1 \notin ShutdownPlaces(s)
  BY <1>1, <1>2 DEF ShutdownPlaces
<1>4. CASE j = Shutdown
  <2>1. ShutdownPlaces(t) = ShutdownPlaces(s) \union {Len(s) + 1}
    BY <1>1, <1>2, <1>4 DEF ShutdownPlaces
  <2>2. Cardinality(ShutdownPlaces(t)) = Cardinality(ShutdownPlaces(s)) + 1
    BY <1>3, <2>1, CountTyped, FS_AddElement
  <2> QED
    BY <1>1, <1>4, <2>2, CountTyped DEF One, t
<1>5. CASE j # Shutdown
  <2>1. ShutdownPlaces(t) = ShutdownPlaces(s)
    BY <1>1, <1>2, <1>5 DEF ShutdownPlaces
  <2>2. ShutdownsIn(t) = ShutdownsIn(s) /\ ShutdownsIn(s) \in Nat
    BY <1>1, <2>1, CountTyped
  <2>3. One(j = Shutdown) = 0
    BY <1>5 DEF One
  <2> QED
    BY <2>2, <2>3 DEF t
<1> QED
  BY <1>4, <1>5

LEMMA CountTail ==
  ASSUME NEW S, NEW s \in Seq(S), s # <<>>
  PROVE  ShutdownsIn(s) = ShutdownsIn(Tail(s)) + One(Head(s) = Shutdown)
<1> DEFINE t == Tail(s)
           later == {i \in ShutdownPlaces(s) : i # 1}
           shift == [i \in ShutdownPlaces(t) |-> i + 1]
<1>1. /\ t \in Seq(S) /\ Len(t) = Len(s) - 1 /\ Len(s) \in Nat /\ Len(s) >= 1
      /\ \A i \in 1..Len(t) : t[i] = s[i + 1]
      /\ Head(s) = s[1]
  BY HeadTailProperties, LenProperties, EmptySeq
<1>2. DOMAIN s = 1..Len(s) /\ DOMAIN t = 1..(Len(s) - 1)
  BY <1>1, LenProperties
<1> HIDE DEF t
<1>3. shift \in [ShutdownPlaces(t) -> later]
  <2>1. ASSUME NEW i \in ShutdownPlaces(t) PROVE i + 1 \in later
    BY <1>1, <1>2 DEF ShutdownPlaces
  <2> QED
    BY <2>1
<1>4. \A i, k \in ShutdownPlaces(t) : shift[i] = shift[k] => i = k
  BY <1>2 DEF ShutdownPlaces
<1>5. \A k \in later : \E i \in ShutdownPlaces(t) : shift[i] = k
  <2>1. ASSUME NEW k \in later PROVE k - 1 \in ShutdownPlaces(t) /\ k = (k - 1) + 1
    BY <1>1, <1>2 DEF ShutdownPlaces
  <2> QED
    BY <2>1
<1>6. shift \in Bijection(ShutdownPlaces(t), later)
  BY <1>3, <1>4, <1>5, Fun_IsBij
<1>7. ExistsBijection(ShutdownPlaces(t), later)
  BY <1>6, Fun_ExistsBij
<1>8. IsFiniteSet(later) /\ Cardinality(later) = ShutdownsIn(t)
  BY <1>1, <1>7, CountTyped, FS_Bijection
<1> HIDE DEF later, shift
<1>9. CASE Head(s) = Shutdown
  <2>1. ShutdownPlaces(s) = later \union {1} /\ 1 \notin later
    BY <1>1, <1>2, <1>9 DEF ShutdownPlaces, later
  <2>2. Cardinality(ShutdownPlaces(s)) = Cardinality(later) + 1
    BY <1>8, <2>1, FS_AddElement
  <2> QED
    BY <1>8, <1>9, <2>2, CountTyped DEF One, t
<1>10. CASE Head(s) # Shutdown
  <2>1. ShutdownPlaces(s) = later
    BY <1>1, <1>2, <1>10 DEF ShutdownPlaces, later
  <2>2. ShutdownsIn(t) \in Nat
    BY <1>1, CountTyped
  <2> QED
    BY <1>8, <1>10, <2>1, <2>2, CountTyped DEF One, t
<1> QED
  BY <1>9, <1>10

\* The shutdown that is running has not been announced yet.
Announcing == \E h \in active : h.at \in {"archiving", "copying", "notifying"}

\* How far each initiate_shutdown has come: in Redis, with the pending pop, on
\* the chain, in progress, or announced and not received.
Answerable == ready + ShutdownsIn(queue) + One(reply = Shutdown) + ShutdownsIn(chain)
                + One(Announcing)
Answering == Answerable <= sent["shutdown"] /\ sent["shutdown"] <= MaxShutdowns

AnswerInv == Handshake /\ Answering

LEMMA AnswerTyped ==
  ASSUME TypeOK
  PROVE  /\ ready \in Nat /\ sent["shutdown"] \in Nat /\ MaxShutdowns \in Nat
         /\ ShutdownsIn(queue) \in Nat /\ ShutdownsIn(chain) \in Nat
BY CountTyped, BoundsAssumption DEF TypeOK

LEMMA AnswerTypedNext ==
  ASSUME TypeOK'
  PROVE  ready' \in Nat /\ ShutdownsIn(queue') \in Nat /\ ShutdownsIn(chain') \in Nat
<1>1. queue' \in Seq(Jobs) /\ chain' \in Seq(HarnessJobs) /\ ready' \in Nat
  BY DEF TypeOK
<1> QED
  BY <1>1, CountTyped

\* What keeps its place keeps the count.
LEMMA AnswerUnchanged ==
  ASSUME TypeOK, TypeOK', Answering, UNCHANGED <<queue, reply, chain>>, ready' <= ready,
         sent'["shutdown"] = sent["shutdown"], Announcing' => Announcing
  PROVE  Answering'
<1>1. One(Announcing)' \in {0, 1} /\ One(Announcing)' <= One(Announcing)
      /\ One(Announcing) \in {0, 1} /\ One(reply = Shutdown) \in {0, 1}
  BY DEF One
<1>2. ready \in Nat /\ ready' \in Nat /\ ShutdownsIn(queue) \in Nat
      /\ ShutdownsIn(chain) \in Nat /\ sent["shutdown"] \in Nat
  BY AnswerTyped, AnswerTypedNext
<1> QED
  BY <1>1, <1>2 DEF Answering, Answerable, One

\* A process that dies takes its part of the line along.
LEMMA AnswerLost ==
  ASSUME TypeOK, TypeOK', Answering, UNCHANGED <<queue, ready>>, reply' = NoJob,
         ShutdownsIn(chain') <= ShutdownsIn(chain),
         sent'["shutdown"] = sent["shutdown"], Announcing' => Announcing
  PROVE  Answering'
<1>1. One(Announcing)' \in {0, 1} /\ One(Announcing)' <= One(Announcing)
      /\ One(Announcing) \in {0, 1} /\ One(reply = Shutdown) \in {0, 1}
      /\ One(reply' = Shutdown) = 0
  BY DEF One, NoJob, Shutdown
<1>2. ready \in Nat /\ ShutdownsIn(queue) \in Nat /\ ShutdownsIn(chain') \in Nat
      /\ ShutdownsIn(chain) \in Nat /\ sent["shutdown"] \in Nat
  BY AnswerTyped, AnswerTypedNext
<1> QED
  BY <1>1, <1>2 DEF Answering, Answerable

LEMMA AnswerLoop == ASSUME AnswerInv, TypeOK', FinishBoot \/ Loop PROVE Answering'
<1> USE DEF loop, harness, storage, history
<1>0. TypeOK /\ Answering
  BY DEF AnswerInv, Handshake
<1>1. ASSUME Announcing' = Announcing
      PROVE  One(Announcing)' = One(Announcing) /\ One(Announcing) \in {0, 1}
  BY <1>1 DEF One
<1>2. CASE FinishBoot
  BY <1>0, <1>2, AnswerUnchanged DEF FinishBoot, Announcing, TypeOK
<1>3. CASE BrPop
  <2>1. /\ queue # <<>> /\ reply = NoJob /\ reply' = Head(queue) /\ queue' = Tail(queue)
        /\ UNCHANGED <<chain, ready, sent, active>> /\ queue \in Seq(Jobs)
    BY <1>0, <1>3 DEF BrPop, TypeOK
  <2>2. ShutdownsIn(queue) = ShutdownsIn(queue') + One(reply' = Shutdown)
    BY <2>1, CountTail
  <2>3. One(reply = Shutdown) = 0
    BY <2>1 DEF One, NoJob, Shutdown
  <2>4. Announcing' = Announcing
    BY <2>1 DEF Announcing
  <2>5. ShutdownsIn(queue') \in Nat /\ One(reply' = Shutdown) \in {0, 1}
    BY AnswerTypedNext DEF One
  <2> QED
    BY <1>0, <1>1, <2>1, <2>2, <2>3, <2>4, <2>5, AnswerTyped DEF Answering, Answerable
<1>4. CASE DispatchHarnessJob
  <2>1. /\ chain' = Append(chain, reply) /\ reply' = NoJob /\ reply \in HarnessJobs
        /\ UNCHANGED <<queue, ready, sent, active>> /\ chain \in Seq(HarnessJobs)
    BY <1>0, <1>4 DEF DispatchHarnessJob, TypeOK
  <2>2. ShutdownsIn(chain') = ShutdownsIn(chain) + One(reply = Shutdown)
    BY <2>1, CountAppend
  <2>3. One(reply' = Shutdown) = 0 /\ One(reply = Shutdown) \in {0, 1}
    BY <2>1 DEF One, NoJob, Shutdown
  <2>4. Announcing' = Announcing
    BY <2>1 DEF Announcing
  <2> QED
    BY <1>0, <1>1, <2>1, <2>2, <2>3, <2>4, AnswerTyped DEF Answering, Answerable
<1>5. CASE DispatchAnswer
  <2>1. Announcing' => Announcing
    BY <1>5, Phases DEF DispatchAnswer, Announcing, AnswerInv, Handshake, TypeOK,
                        ActiveJobs
  <2>2. ShutdownsIn(chain') <= ShutdownsIn(chain)
    BY <1>0, <1>5, AnswerTyped DEF DispatchAnswer
  <2> QED
    BY <1>0, <1>5, <2>1, <2>2, AnswerLost DEF DispatchAnswer
<1>6. CASE DispatchFileRequest
  <2>1. ShutdownsIn(chain') <= ShutdownsIn(chain)
    BY <1>0, <1>6, AnswerTyped DEF DispatchFileRequest
  <2> QED
    BY <1>0, <1>6, <2>1, AnswerLost DEF DispatchFileRequest, Announcing
<1> QED
  BY <1>2, <1>3, <1>4, <1>5, <1>6 DEF Loop

LEMMA AnswerWork == ASSUME AnswerInv, TypeOK', Work PROVE Answering'
<1> USE DEF loop, harness, storage, history
<1>0. /\ TypeOK /\ Answering /\ OneAtATime /\ active \subseteq ActiveJobs
      /\ chain \in Seq(HarnessJobs)
  BY DEF AnswerInv, Handshake, TypeOK
<1>1. CASE StartText
  <2>1. /\ chain # <<>> /\ chain' = Tail(chain) /\ Head(chain) \in TextJobs
        /\ UNCHANGED <<queue, reply, ready, sent>> /\ ~Announcing'
    BY <1>1 DEF StartText, Announcing
  <2>2. ShutdownsIn(chain) = ShutdownsIn(chain') + One(Head(chain) = Shutdown)
    BY <1>0, <2>1, CountTail
  <2>3. One(Head(chain) = Shutdown) = 0 /\ One(Announcing)' = 0
        /\ One(Announcing) \in {0, 1} /\ One(reply = Shutdown) \in {0, 1}
    BY <2>1 DEF One, TextJobs, Shutdown
  <2>4. ShutdownsIn(chain') \in Nat
    BY AnswerTypedNext
  <2> QED
    BY <1>0, <2>1, <2>2, <2>3, <2>4, AnswerTyped DEF Answering, Answerable
<1>2. CASE StartShutdown
  <2>1. /\ chain # <<>> /\ chain' = Tail(chain) /\ Head(chain) = Shutdown
        /\ UNCHANGED <<queue, reply, ready, sent>> /\ active = {}
    BY <1>2 DEF StartShutdown
  <2>2. ShutdownsIn(chain) = ShutdownsIn(chain') + One(Head(chain) = Shutdown)
    BY <1>0, <2>1, CountTail
  <2>3. ~Announcing
    BY <2>1 DEF Announcing
  <2>4. One(Head(chain) = Shutdown) = 1 /\ One(Announcing) = 0
        /\ One(Announcing)' \in {0, 1} /\ One(reply = Shutdown) \in {0, 1}
    BY <2>1, <2>3 DEF One
  <2>5. ShutdownsIn(chain') \in Nat
    BY AnswerTypedNext
  <2> QED
    BY <1>0, <2>1, <2>2, <2>4, <2>5, AnswerTyped DEF Answering, Answerable
<1>3. ASSUME NEW f \in reading, AnswerFileRequest(f) \/ FailFileRequest(f)
      PROVE  Answering'
  <2>1. UNCHANGED <<queue, reply, chain, ready, active>>
    BY <1>3 DEF AnswerFileRequest, FailFileRequest
  <2>2. sent'["shutdown"] = sent["shutdown"]
    BY <1>0, <1>3 DEF AnswerFileRequest, FailFileRequest, Count, TypeOK
  <2>3. ready' <= ready
    BY <1>0, <2>1, AnswerTyped
  <2> QED
    BY <1>0, <2>1, <2>2, <2>3, AnswerUnchanged DEF Announcing
<1>4. ASSUME NEW h \in active,
             \/ EditWorkspace(h) \/ PublishQuestion(h) \/ WaitForResponse(h)
             \/ FinishText(h) \/ FinishArchive(h) \/ CopyToLatest(h)
      PROVE  Answering'
  <2>1. /\ UNCHANGED <<queue, reply, chain, ready, sent>>
        /\ ready' <= ready /\ sent'["shutdown"] = sent["shutdown"]
    BY <1>0, <1>4, AnswerTyped
      DEF EditWorkspace, PublishQuestion, WaitForResponse, FinishText, FinishArchive,
          CopyToLatest
  <2>2. Announcing' => Announcing
    <3>1. CASE EditWorkspace(h) \/ FinishText(h)
      BY <3>1 DEF EditWorkspace, FinishText, Announcing
    <3>2. CASE PublishQuestion(h)
      BY <1>0, <3>2, MoveToActive DEF PublishQuestion, Announcing
    <3>3. CASE WaitForResponse(h)
      BY <1>0, <3>3, MoveToActive DEF WaitForResponse, Announcing
    <3>4. CASE FinishArchive(h) \/ CopyToLatest(h)
      BY <3>4 DEF FinishArchive, CopyToLatest, Announcing
    <3> QED
      BY <1>4, <3>1, <3>2, <3>3, <3>4
  <2> QED
    BY <1>0, <2>1, <2>2, AnswerUnchanged
<1>5. ASSUME NEW h \in active, AnnounceReady(h) PROVE Answering'
  <2>1. /\ h.at = "notifying" /\ ready' = ready + 1
        /\ UNCHANGED <<queue, reply, chain, sent>>
    BY <1>5 DEF AnnounceReady
  <2>2. Announcing
    BY <2>1 DEF Announcing
  <2>3. ~Announcing'
    BY <1>0, <1>5, MoveToActive DEF AnnounceReady, Announcing
  <2>4. One(Announcing) = 1 /\ One(Announcing)' = 0 /\ One(reply = Shutdown) \in {0, 1}
    BY <2>2, <2>3 DEF One
  <2> QED
    BY <1>0, <2>1, <2>4, AnswerTyped DEF Answering, Answerable
<1>6. ASSUME NEW h \in active, DrainAndPark(h) PROVE Answering'
  <2>1. /\ UNCHANGED <<queue, chain, ready, sent>> /\ reply' = NoJob
        /\ sent'["shutdown"] = sent["shutdown"]
    BY <1>6 DEF DrainAndPark
  <2>2. Announcing' => Announcing
    BY <1>0, <1>6, MoveToActive DEF DrainAndPark, Announcing
  <2>3. ShutdownsIn(chain') <= ShutdownsIn(chain)
    BY <1>0, <2>1, AnswerTyped
  <2> QED
    BY <1>0, <2>1, <2>2, <2>3, AnswerLost
<1>7. ASSUME NEW h \in active, FailShutdown(h) PROVE Answering'
  <2>1. sent'["shutdown"] = sent["shutdown"]
    BY <1>0, <1>7 DEF FailShutdown, Count, TypeOK
  <2>2. UNCHANGED <<queue, reply, chain>> /\ ready' <= ready
    BY <1>0, <1>7, AnswerTyped DEF FailShutdown
  <2>3. Announcing' => Announcing
    BY <1>7 DEF FailShutdown, Announcing
  <2> QED
    BY <1>0, <2>1, <2>2, <2>3, AnswerUnchanged
<1> QED
  BY <1>1, <1>2, <1>3, <1>4, <1>5, <1>6, <1>7 DEF Work

LEMMA AnswerNoProject == ASSUME AnswerInv, TypeOK', NoProject PROVE Answering'
<1>0. TypeOK /\ Answering /\ UNCHANGED sent
  BY DEF AnswerInv, Handshake, NoProject, ArchiveFails
<1>1. PICK h \in active : ArchiveFails(h)
  BY DEF NoProject
<1>2. CASE PodDies("booting")
  <2>1. /\ UNCHANGED <<queue, ready>> /\ reply' = NoJob /\ chain' = <<>> /\ active' = {}
    BY <1>2 DEF PodDies, LoseMemory
  <2>2. ShutdownsIn(chain') <= ShutdownsIn(chain) /\ ~Announcing'
    BY <1>0, <2>1, CountEmpty, AnswerTyped DEF Announcing
  <2> QED
    BY <1>0, <2>1, <2>2, AnswerLost
<1>3. CASE ~PodDies("booting")
  <2>1. /\ UNCHANGED <<queue, reply, chain, ready>> /\ active' = active \ {h}
        /\ ready' <= ready
    BY <1>0, <1>1, <1>3, AnswerTyped DEF ArchiveFails
  <2> QED
    BY <1>0, <2>1, AnswerUnchanged DEF Announcing
<1> QED
  BY <1>2, <1>3

LEMMA AnswerEnvironment == ASSUME AnswerInv, TypeOK', Environment PROVE Answering'
<1> USE DEF loop, harness, storage, history
<1>0. /\ TypeOK /\ Answering /\ queue \in Seq(Jobs)
      /\ sent \in [{"text", "files", "shutdown", "crash", "failure"} -> Nat]
  BY DEF AnswerInv, Handshake, TypeOK
<1>1. ASSUME NEW j \in Jobs, j # Shutdown, queue' = Append(queue, j),
             UNCHANGED <<reply, chain, ready, active>>,
             sent'["shutdown"] = sent["shutdown"]
      PROVE  Answering'
  <2>1. ShutdownsIn(queue') = ShutdownsIn(queue) + One(j = Shutdown)
    BY <1>0, <1>1, CountAppend
  <2>2. One(j = Shutdown) = 0 /\ One(reply = Shutdown) \in {0, 1}
        /\ One(Announcing) \in {0, 1} /\ One(Announcing)' = One(Announcing)
    BY <1>1 DEF One, Announcing
  <2>3. ShutdownsIn(queue') = ShutdownsIn(queue)
    BY <1>0, <2>1, <2>2, AnswerTyped
  <2> QED
    BY <1>0, <1>1, <2>2, <2>3 DEF Answering, Answerable
<1>2. CASE UserSendsText
  <2>1. sent["text"] + 1 \in TextIds
    BY <1>0, <1>2, BoundsAssumption DEF UserSendsText, Count, TextIds
  <2>2. Text(sent["text"] + 1) \in Jobs /\ Text(sent["text"] + 1) # Shutdown
    BY <2>1, JobKinds DEF Text, Shutdown
  <2> QED
    BY <1>0, <1>1, <1>2, <2>2 DEF UserSendsText, Count
<1>3. CASE \E q \in asked : UserAnswers(q)
  <2> PICK q \in asked : UserAnswers(q)
    BY <1>3
  <2>1. QnA(q) \in Jobs /\ QnA(q) # Shutdown
    BY <1>0, JobKinds DEF QnA, Shutdown, TypeOK
  <2> QED
    BY <1>0, <1>1, <2>1 DEF UserAnswers
<1>4. CASE UserBrowsesFiles
  <2>1. sent["files"] + 1 \in FileIds
    BY <1>0, <1>4, BoundsAssumption DEF UserBrowsesFiles, Count, FileIds
  <2>2. Files(sent["files"] + 1) \in Jobs /\ Files(sent["files"] + 1) # Shutdown
    BY <2>1, JobKinds DEF Files, Shutdown
  <2> QED
    BY <1>0, <1>1, <1>4, <2>2 DEF UserBrowsesFiles, Count
<1>5. CASE ReaperInitiatesShutdown
  <2>1. /\ queue' = Append(queue, Shutdown) /\ UNCHANGED <<reply, chain, ready, active>>
        /\ sent["shutdown"] < MaxShutdowns /\ sent'["shutdown"] = sent["shutdown"] + 1
    BY <1>0, <1>5 DEF ReaperInitiatesShutdown, Count
  <2>2. ShutdownsIn(queue') = ShutdownsIn(queue) + 1
    <3>1. One(Shutdown = Shutdown) = 1
      BY DEF One
    <3> QED
      BY <1>0, <2>1, <3>1, CountAppend, JobKinds
  <2>3. /\ One(reply = Shutdown) \in {0, 1} /\ One(reply = Shutdown)' = One(reply = Shutdown)
        /\ One(Announcing) \in {0, 1} /\ One(Announcing)' = One(Announcing)
    BY <2>1 DEF One, Announcing
  <2>4. Answerable' = Answerable + 1 /\ Answerable \in Nat
    <3>1. /\ ready' = ready /\ ShutdownsIn(chain') = ShutdownsIn(chain)
          /\ One(reply = Shutdown) \in Nat /\ One(Announcing) \in Nat
      BY <2>1, <2>3
    <3>2. /\ ready \in Nat /\ ShutdownsIn(queue) \in Nat /\ ShutdownsIn(chain) \in Nat
      BY <1>0, AnswerTyped
    <3>3. Answerable' = ready + (ShutdownsIn(queue) + 1) + One(reply = Shutdown)
                          + ShutdownsIn(chain) + One(Announcing)
      BY <2>2, <2>3, <3>1 DEF Answerable
    <3> QED
      BY <3>1, <3>2, <3>3 DEF Answerable
  <2>5. sent["shutdown"] \in Nat /\ MaxShutdowns \in Nat
    BY <1>0, AnswerTyped
  <2>6. Answerable <= sent["shutdown"]
    BY <1>0 DEF Answering
  <2> HIDE DEF Answerable
  <2> QED
    BY <2>1, <2>4, <2>5, <2>6 DEF Answering
<1>6. CASE SchedulePod \/ VolumeDestroyed
  <2>1. /\ UNCHANGED <<queue, reply, chain, ready, sent, active>>
        /\ ready' <= ready /\ sent'["shutdown"] = sent["shutdown"]
    BY <1>0, <1>6, AnswerTyped DEF SchedulePod, VolumeDestroyed
  <2> QED
    BY <1>0, <2>1, AnswerUnchanged DEF Announcing
<1>7. CASE ReceiverTakesReady
  <2>1. /\ UNCHANGED <<queue, reply, chain, sent, active>>
        /\ ready' <= ready /\ sent'["shutdown"] = sent["shutdown"]
    BY <1>0, <1>7, AnswerTyped DEF ReceiverTakesReady
  <2> QED
    BY <1>0, <2>1, AnswerUnchanged DEF Announcing
<1>8. CASE RemovePod \/ Crash
  <2>1. /\ UNCHANGED <<queue, ready>> /\ reply' = NoJob /\ chain' = <<>> /\ active' = {}
        /\ sent'["shutdown"] = sent["shutdown"]
    BY <1>0, <1>8 DEF RemovePod, Crash, PodDies, LoseMemory, Count
  <2>2. ShutdownsIn(chain') <= ShutdownsIn(chain)
    BY <1>0, <2>1, CountEmpty, AnswerTyped
  <2>3. ~Announcing'
    BY <2>1 DEF Announcing
  <2> QED
    BY <1>0, <2>1, <2>2, <2>3, AnswerLost
<1> QED
  BY <1>2, <1>3, <1>4, <1>5, <1>6, <1>7, <1>8 DEF Environment

LEMMA AnswerInit == Init => AnswerInv
<1> SUFFICES ASSUME Init PROVE AnswerInv
  OBVIOUS
<1>1. ShutdownsIn(queue) = 0 /\ ShutdownsIn(chain) = 0
  BY CountEmpty DEF Init
<1>2. ready = 0 /\ sent["shutdown"] = 0 /\ One(reply = Shutdown) = 0
      /\ One(Announcing) = 0
  BY DEF Init, One, NoJob, Shutdown, Announcing
<1> QED
  BY <1>1, <1>2, HandshakeInit, BoundsAssumption
    DEF AnswerInv, Answering, Answerable

LEMMA AnswerStep == AnswerInv /\ [Next]_vars => AnswerInv'
<1> SUFFICES ASSUME AnswerInv, [Next]_vars PROVE AnswerInv'
  OBVIOUS
<1>1. Handshake' /\ TypeOK'
  BY HandshakeStep DEF AnswerInv, Handshake
<1>2. CASE UNCHANGED vars
  <2>1. /\ UNCHANGED <<queue, reply, chain, ready, sent, active>>
        /\ ready' <= ready
    BY <1>2, AnswerTyped DEF vars, agentVars, AnswerInv, Handshake
  <2> QED
    BY <1>1, <2>1, AnswerUnchanged DEF AnswerInv, Handshake, Announcing
<1> QED
  BY <1>1, <1>2, AnswerLoop, AnswerWork, AnswerNoProject, AnswerEnvironment
    DEF Next, AnswerInv

-----------------------------------------------------------------------------
(* The whole: what the lifecycle workers assume of the rest holds          *)

\* A list of n equal messages, and one more.
Copies(n) == [i \in 1..n |-> Shutdown]

LEMMA OneMoreCopy ==
  ASSUME NEW n \in Nat
  PROVE  /\ Copies(n + 1) = Append(Copies(n), Shutdown)
         /\ Tail(Copies(n + 1)) = Copies(n)
         /\ Copies(n + 1) # <<>>
<1>1. /\ Copies(n) \in Seq({Shutdown}) /\ Len(Copies(n)) = n
      /\ Copies(n + 1) \in Seq({Shutdown}) /\ Len(Copies(n + 1)) = n + 1
      /\ \A i \in 1..n : Copies(n)[i] = Shutdown
      /\ \A i \in 1..(n + 1) : Copies(n + 1)[i] = Shutdown
  BY DEF Copies
<1>2. Copies(n + 1) = Append(Copies(n), Shutdown)
  <2> DEFINE longer == Append(Copies(n), Shutdown)
  <2>1. /\ longer \in Seq({Shutdown}) /\ Len(longer) = n + 1
        /\ \A i \in 1..n : longer[i] = Copies(n)[i]
        /\ longer[n + 1] = Shutdown
    BY <1>1, AppendProperties
  <2> HIDE DEF longer
  <2>2. ASSUME NEW i \in 1..(n + 1) PROVE Copies(n + 1)[i] = longer[i]
    <3>1. i \in 1..n \/ i = n + 1
      OBVIOUS
    <3> QED
      BY <1>1, <2>1, <3>1
  <2>3. Copies(n + 1) = longer
    BY <1>1, <2>1, <2>2, SeqEqual
  <2> QED
    BY <2>3 DEF longer
<1>3. Copies(n + 1) # <<>>
  BY <1>1, EmptySeq
<1>4. Tail(Copies(n + 1)) = Copies(n)
  <2>1. /\ Tail(Copies(n + 1)) \in Seq({Shutdown})
        /\ Len(Tail(Copies(n + 1))) = n
        /\ \A i \in 1..n : Tail(Copies(n + 1))[i] = Copies(n + 1)[i + 1]
    BY <1>1, <1>3, HeadTailProperties
  <2>2. ASSUME NEW i \in 1..n PROVE Tail(Copies(n + 1))[i] = Copies(n)[i]
    <3>1. i + 1 \in 1..(n + 1)
      OBVIOUS
    <3> QED
      BY <1>1, <2>1, <3>1
  <2> QED
    BY <1>1, <2>1, <2>2, SeqEqual
<1> QED
  BY <1>2, <1>3, <1>4

\* What a change of the agent's list is for the lifecycle workers.
LEMMA InitiationsFollow ==
  ASSUME TypeOK, TypeOK'
  PROVE  /\ ShutdownsIn(queue') = ShutdownsIn(queue) => Initiations' = Initiations
         /\ ShutdownsIn(queue') = ShutdownsIn(queue) + 1
              => Initiations' = Append(Initiations, Shutdown)
         /\ ShutdownsIn(queue) = ShutdownsIn(queue') + 1
              => Initiations # <<>> /\ Initiations' = Tail(Initiations)
         /\ Len(Initiations) <= Len(queue)
<1>1. Initiations = Copies(ShutdownsIn(queue)) /\ Initiations' = Copies(ShutdownsIn(queue'))
  BY DEF Initiations, Copies
<1>2. /\ ShutdownsIn(queue) \in Nat /\ ShutdownsIn(queue') \in Nat
      /\ ShutdownsIn(queue) <= Len(queue)
  BY AnswerTyped, AnswerTypedNext, CountTyped DEF TypeOK
<1>3. Len(Initiations) = ShutdownsIn(queue)
  BY <1>2 DEF Initiations
<1> QED
  BY <1>1, <1>2, <1>3, OneMoreCopy

\* What the agent and its user do to the list: a message that is no
\* initiate_shutdown goes in, or the oldest goes out.
LEMMA ListSteps ==
  ASSUME TypeOK, TypeOK'
  PROVE  /\ BrPop => \/ Initiations' = Initiations
                     \/ Initiations # <<>> /\ Initiations' = Tail(Initiations)
         /\ UserSendsText \/ UserBrowsesFiles \/ (\E q \in asked : UserAnswers(q))
              => Initiations' = Initiations
         /\ ReaperInitiatesShutdown => Initiations' = Append(Initiations, Shutdown)
         /\ queue' = queue => Initiations' = Initiations
<1>0. /\ queue \in Seq(Jobs) /\ asked \subseteq TextIds
      /\ sent \in [{"text", "files", "shutdown", "crash", "failure"} -> Nat]
      /\ ShutdownsIn(queue) \in Nat /\ ShutdownsIn(queue') \in Nat
  BY AnswerTyped, AnswerTypedNext DEF TypeOK
<1>1. ASSUME BrPop
      PROVE  \/ Initiations' = Initiations
             \/ Initiations # <<>> /\ Initiations' = Tail(Initiations)
  <2>1. queue # <<>> /\ queue' = Tail(queue)
    BY <1>1 DEF BrPop
  <2>2. ShutdownsIn(queue) = ShutdownsIn(queue') + One(Head(queue) = Shutdown)
    BY <1>0, <2>1, CountTail
  <2>3. One(Head(queue) = Shutdown) \in {0, 1}
    BY DEF One
  <2>4. \/ ShutdownsIn(queue') = ShutdownsIn(queue)
        \/ ShutdownsIn(queue) = ShutdownsIn(queue') + 1
    BY <1>0, <2>2, <2>3
  <2> QED
    BY <2>4, InitiationsFollow
<1>2. ASSUME NEW j \in Jobs, queue' = Append(queue, j)
      PROVE  ShutdownsIn(queue') = ShutdownsIn(queue) + One(j = Shutdown)
  BY <1>0, <1>2, CountAppend
<1>3. ASSUME NEW j \in Jobs, j # Shutdown, queue' = Append(queue, j)
      PROVE  Initiations' = Initiations
  <2>1. One(j = Shutdown) = 0
    BY <1>3 DEF One
  <2>2. ShutdownsIn(queue') = ShutdownsIn(queue)
    BY <1>0, <1>2, <1>3, <2>1
  <2> QED
    BY <2>2, InitiationsFollow
<1>4. ASSUME UserSendsText PROVE Initiations' = Initiations
  <2>1. sent["text"] + 1 \in TextIds
    BY <1>0, <1>4, BoundsAssumption DEF UserSendsText, Count, TextIds
  <2>2. Text(sent["text"] + 1) \in Jobs /\ Text(sent["text"] + 1) # Shutdown
    BY <2>1, JobKinds DEF Text, Shutdown
  <2> QED
    BY <1>3, <1>4, <2>2 DEF UserSendsText
<1>5. ASSUME UserBrowsesFiles PROVE Initiations' = Initiations
  <2>1. sent["files"] + 1 \in FileIds
    BY <1>0, <1>5, BoundsAssumption DEF UserBrowsesFiles, Count, FileIds
  <2>2. Files(sent["files"] + 1) \in Jobs /\ Files(sent["files"] + 1) # Shutdown
    BY <2>1, JobKinds DEF Files, Shutdown
  <2> QED
    BY <1>3, <1>5, <2>2 DEF UserBrowsesFiles
<1>6. ASSUME NEW q \in asked, UserAnswers(q) PROVE Initiations' = Initiations
  <2>1. QnA(q) \in Jobs /\ QnA(q) # Shutdown
    BY <1>0, JobKinds DEF QnA, Shutdown
  <2> QED
    BY <1>3, <1>6, <2>1 DEF UserAnswers
<1>7. ASSUME ReaperInitiatesShutdown PROVE Initiations' = Append(Initiations, Shutdown)
  <2>1. ShutdownsIn(queue') = ShutdownsIn(queue) + One(Shutdown = Shutdown)
    BY <1>2, <1>7, JobKinds DEF ReaperInitiatesShutdown
  <2>2. One(Shutdown = Shutdown) = 1
    BY DEF One
  <2> QED
    BY <2>1, <2>2, InitiationsFollow
<1>8. ASSUME queue' = queue PROVE Initiations' = Initiations
  BY <1>8, InitiationsFollow
<1> QED
  BY <1>1, <1>4, <1>5, <1>6, <1>7, <1>8

\* The agent's own steps touch the two lists only in turn.
LEMMA AgentLists ==
  ASSUME AnswerInv, TypeOK', FinishBoot \/ Loop \/ Work
  PROVE  \/ UNCHANGED <<Initiations, ready>>
         \/ Initiations # <<>> /\ Initiations' = Tail(Initiations) /\ ready' = ready
         \/ ready < MaxShutdowns /\ ready' = ready + 1 /\ Initiations' = Initiations
<1>0. TypeOK /\ Answering
  BY DEF AnswerInv, Handshake
<1>1. CASE BrPop
  BY <1>0, <1>1, ListSteps DEF BrPop
<1>2. ASSUME NEW h \in active, AnnounceReady(h)
      PROVE  ready < MaxShutdowns /\ ready' = ready + 1 /\ queue' = queue
  <2>1. h.at = "notifying" /\ ready' = ready + 1 /\ queue' = queue
    BY <1>2 DEF AnnounceReady
  <2>2. One(Announcing) = 1 /\ One(reply = Shutdown) \in Nat
    BY <2>1 DEF Announcing, One
  <2>3. /\ ready \in Nat /\ ShutdownsIn(queue) \in Nat /\ ShutdownsIn(chain) \in Nat
        /\ sent["shutdown"] \in Nat /\ MaxShutdowns \in Nat
    BY <1>0, AnswerTyped
  <2>4. ready < MaxShutdowns
    BY <1>0, <2>2, <2>3 DEF Answering, Answerable
  <2> QED
    BY <2>1, <2>4
<1>3. CASE FinishBoot \/ DispatchHarnessJob \/ DispatchAnswer \/ DispatchFileRequest
  <2>1. UNCHANGED <<queue, ready>>
    BY <1>3 DEF FinishBoot, DispatchHarnessJob, DispatchAnswer, DispatchFileRequest
  <2> QED
    BY <1>0, <2>1, ListSteps
<1>4. ASSUME Work, ~ \E h \in active : AnnounceReady(h) PROVE UNCHANGED <<queue, ready>>
  BY <1>4 DEF Work, StartText, StartShutdown, AnswerFileRequest, FailFileRequest,
       EditWorkspace, PublishQuestion, WaitForResponse, FinishText, FinishArchive, CopyToLatest,
       DrainAndPark, FailShutdown
<1>5. CASE Work
  <2>1. CASE \E h \in active : AnnounceReady(h)
    BY <1>0, <1>2, <2>1, ListSteps
  <2>2. CASE ~ \E h \in active : AnnounceReady(h)
    BY <1>0, <1>4, <1>5, <2>2, ListSteps
  <2> QED
    BY <2>1, <2>2
<1> QED
  BY <1>1, <1>3, <1>5 DEF Loop

\* Every step of the whole is one of the lifecycle workers, one of the backend
\* and the agent they assume, or none of their business.
LEMMA WorkersSee ==
  ASSUME AnswerInv, TypeOK', [LifecycleNext]_allVars
  PROVE  [RR!Next]_(RR!vars)
<1>0. TypeOK
  BY DEF AnswerInv, Handshake
<1>1. ASSUME UNCHANGED <<queue, ready, reaper>> PROVE UNCHANGED RR!vars
  BY <1>0, <1>1, ListSteps DEF reaper, RR!vars, RR!scanVars
<1>2. CASE UNCHANGED allVars
  BY <1>1, <1>2 DEF allVars, lists
<1>3. ASSUME NEW m \in Messages, SaveMessage(m) \/ PushText(m) \/ AnswerRequest(m) \/ BackendDies(m)
      PROVE  UNCHANGED RR!vars
  <2>1. CASE PushText(m)
    <3>1. Initiations' = Initiations
      BY <1>0, <2>1, ListSteps DEF PushText
    <3>2. UNCHANGED <<ready, reaper>>
      BY <2>1 DEF PushText, UserSendsText
    <3> QED
      BY <3>1, <3>2 DEF reaper, RR!vars, RR!scanVars
  <2>2. CASE AnswerRequest(m)
    BY <1>1, <2>2 DEF AnswerRequest, lists
  <2>3. CASE SaveMessage(m) \/ BackendDies(m)
    BY <1>1, <2>3 DEF SaveMessage, BackendDies, lists
  <2> QED
    BY <1>3, <2>1, <2>2, <2>3
<1>4. CASE RecordHeartbeat
  <2>1. RR!Heartbeat
    BY <1>0, <1>4, ListSteps DEF RecordHeartbeat, R!Heartbeat, R!scanVars,
                                 RR!Heartbeat, RR!scanVars
  <2> QED
    BY <2>1 DEF RR!Next
<1>5. CASE OtherRequests
  <2>1. Initiations' = Initiations
    BY <1>0, <1>5, ListSteps DEF OtherRequests
  <2>2. UNCHANGED <<ready, reaper>>
    BY <1>5 DEF OtherRequests, UserAnswers, UserBrowsesFiles
  <2> QED
    BY <2>1, <2>2 DEF reaper, RR!vars, RR!scanVars
<1>6. CASE AgentStep
  <2>1. UNCHANGED reaper
    BY <1>6 DEF AgentStep
  <2>2. CASE UNCHANGED <<Initiations, ready>>
    BY <2>1, <2>2 DEF reaper, RR!vars, RR!scanVars
  <2>3. CASE Initiations # <<>> /\ Initiations' = Tail(Initiations) /\ ready' = ready
    BY <2>1, <2>3 DEF reaper, RR!Next, RR!AgentPops, RR!scanVars
  <2>4. CASE ready < MaxShutdowns /\ ready' = ready + 1 /\ Initiations' = Initiations
    BY <2>1, <2>4 DEF reaper, RR!Next, RR!AgentAnnounces, RR!scanVars
  <2> QED
    BY <1>6, <2>2, <2>3, <2>4, AgentLists DEF AgentStep
<1>7. CASE ArchivingFails \/ AgentCrashes
  BY <1>1, <1>7 DEF ArchivingFails, NoProject, ArchiveFails, AgentCrashes, Crash, PodDies
<1>8. ASSUME NEW w \in Workers, WorkerStep(w) \/ ScanFails(w) \/ WorkerDies(w)
      PROVE  RR!Next
  <2> DEFINE Own == \/ RR!Scan(w) \/ RR!Receive(w) \/ RR!Failures(w)
  <2>0. ASSUME Own PROVE RR!Next
    BY <2>0 DEF RR!Next
  <2>1. CASE PushShutdown(w)
    <3>1. /\ R!ScanStep(w, "pushing", "locking")
          /\ Len(queue) < MaxMessages
          /\ repeats' = IF shutdownLock THEN repeats + 1 ELSE repeats
          /\ UNCHANGED <<heartbeat, reaperLock, shutdownLock, overrun, receiver,
                         ready, faults>>
      BY <2>1 DEF PushShutdown, R!PushShutdown
    <3>2. Initiations' = Append(Initiations, RR!Initiate)
      BY <1>0, <2>1, ListSteps DEF PushShutdown, RR!Initiate, Shutdown
    <3>3. Len(Initiations) < MaxMessages
      <4>1. Len(queue) \in Nat
        BY <1>0, LenProperties DEF TypeOK
      <4>2. MaxMessages \in Nat
        BY BoundsAssumption DEF MaxMessages
      <4>3. Len(Initiations) <= Len(queue)
        BY <1>0, InitiationsFollow
      <4>4. Len(Initiations) \in Nat
        BY <1>0, AnswerTyped DEF Initiations
      <4> QED
        BY <3>1, <4>1, <4>2, <4>3, <4>4
    <3>4. RR!PushShutdown(w)
      BY <3>1, <3>2, <3>3 DEF RR!PushShutdown, RR!ScanStep, R!ScanStep
    <3> QED
      BY <2>0, <3>4 DEF RR!Scan
  <2>2. CASE ReceiveReady(w)
    <3>1. RR!PopReady(w)
      BY <1>0, <2>2, ListSteps DEF ReceiveReady, R!PopReady, RR!PopReady,
         R!ReceiverStep, RR!ReceiverStep, R!scanVars, RR!scanVars
    <3> QED
      BY <2>0, <3>1 DEF RR!Receive
  <2>3. ASSUME ScanStep(w) \/ ScanFails(w) \/ EndTeardown(w) \/ RemoveHeartbeat(w)
                 \/ WorkerDies(w)
        PROVE  Initiations' = Initiations
    BY <1>0, <2>3, WorkersKeepLists, ListSteps DEF lists
  <2>4. CASE ScanStep(w)
    <3>1. RR!FindIdle(w) \/ RR!CheckShutdownLock(w) \/ RR!AcquireReaperLock(w)
            \/ RR!SetShutdownLock(w)
      BY <2>3, <2>4 DEF ScanStep, R!FindIdle, R!CheckShutdownLock,
         R!AcquireReaperLock, R!SetShutdownLock, RR!FindIdle, RR!CheckShutdownLock,
         RR!AcquireReaperLock, RR!SetShutdownLock, R!ScanStep, RR!ScanStep
    <3> QED
      BY <2>0, <3>1 DEF RR!Scan
  <2>5. CASE ScanFails(w)
    <3>1. RR!PassFails(w)
      BY <2>3, <2>5 DEF ScanFails, R!PassFails, RR!PassFails, R!Fault, RR!Fault
    <3> QED
      BY <2>0, <3>1 DEF RR!Failures
  <2>6. CASE EndTeardown(w)
    <3>1. RR!TeardownResolves(w) \/ RR!TeardownRejects(w)
      BY <2>3, <2>6 DEF EndTeardown, R!TeardownResolves, R!TeardownRejects,
         RR!TeardownResolves, RR!TeardownRejects, R!ReceiverStep, RR!ReceiverStep,
         R!scanVars, RR!scanVars
    <3> QED
      BY <2>0, <3>1 DEF RR!Receive
  <2>7. CASE RemoveHeartbeat(w)
    <3>1. RR!RemoveHeartbeat(w) \/ RR!RemovalFails(w)
      BY <2>3, <2>7 DEF RemoveHeartbeat, R!RemoveHeartbeat, R!RemovalFails,
         RR!RemoveHeartbeat, RR!RemovalFails, R!ReceiverStep, RR!ReceiverStep,
         R!scanVars, RR!scanVars, R!Fault, RR!Fault
    <3> QED
      BY <2>0, <3>1 DEF RR!Receive, RR!Failures
  <2>8. CASE WorkerDies(w)
    <3>1. RR!Restart(w)
      BY <2>3, <2>8 DEF WorkerDies, R!Restart, RR!Restart, R!Fault, RR!Fault
    <3> QED
      BY <2>0, <3>1 DEF RR!Failures
  <2> QED
    BY <1>8, <2>1, <2>2, <2>4, <2>5, <2>6, <2>7, <2>8 DEF WorkerStep
<1>9. CASE ClockStep
  <2>1. Initiations' = Initiations
    BY <1>0, <1>9, ClockKeepsLists, ListSteps DEF lists
  <2>2. RR!ReaperLockExpires \/ RR!ShutdownLockExpires \/ RR!HeartbeatExpires
    BY <1>9, <2>1 DEF ClockStep, R!ReaperLockExpires, R!ShutdownLockExpires,
       R!HeartbeatExpires, RR!ReaperLockExpires, RR!ShutdownLockExpires,
       RR!HeartbeatExpires, R!scanVars, RR!scanVars, R!Leaders, RR!Leaders
  <2> QED
    BY <2>2 DEF RR!Next
<1>10. CASE KubeCall
  BY <1>1, <1>10 DEF KubeCall, lists
<1>11. CASE PodScheduled \/ PodRemoved
  BY <1>1, <1>11 DEF PodScheduled, PodRemoved, SchedulePod, RemovePod, PodDies
<1> QED
  BY <1>2, <1>3, <1>4, <1>5, <1>6, <1>7, <1>8, <1>9, <1>10, <1>11
    DEF LifecycleNext, Backend

\* What the backend and the agent do to the lifecycle workers is what Reaper
\* lets them do: each shutdown_ready answers an initiate_shutdown of its own, so
\* that there are never more of them than were pushed, however the agent fails
\* and restarts (handleShutdownInitiation, listenShutdownReadyMessages).
THEOREM ReaperContract == LifecycleSpec => RR!Spec
<1>1. LifecycleInit => RR!Init
  <2> SUFFICES ASSUME LifecycleInit PROVE RR!Init
    OBVIOUS
  <2>1. queue = <<>> /\ ready = 0
    BY DEF LifecycleInit, Init
  <2>2. ShutdownsIn(queue) = 0
    BY <2>1, CountEmpty
  <2>3. Initiations = <<>>
    BY <2>2 DEF Initiations
  <2> QED
    BY <2>1, <2>3 DEF LifecycleInit, RR!Init
<1>2. Spec => []AnswerInv
  BY AnswerInit, AnswerStep, PTL DEF Spec
<1>3. LifecycleSpec => []AnswerInv
  BY <1>2, AgentContract, PTL
<1>4. AnswerInv => TypeOK
  BY DEF AnswerInv, Handshake
<1>5. AnswerInv /\ TypeOK' /\ [LifecycleNext]_allVars => [RR!Next]_(RR!vars)
  BY WorkersSee
<1> QED
  BY <1>1, <1>3, <1>4, <1>5, PTL DEF LifecycleSpec, RR!Spec

\* The three contracts together: the composition is a behaviour of the agent, of
\* the Kubernetes procedures and of the lifecycle workers, as their own modules
\* describe them, so that what is proved of each holds of the whole system.
THEOREM CompositionIsFaithful == LifecycleSpec => ContractsKept
BY AgentContract, ProvisioningContract, ReaperContract DEF ContractsKept

-----------------------------------------------------------------------------
(* The whole: the lifecycle workers                                        *)

\* What is proved of Reaper, for the part of the list its instances see.
RP == INSTANCE ReaperProofs WITH
        queue <- Initiations, MaxQueue <- MaxMessages, MaxReady <- MaxShutdowns

\* The bounds of the whole are bounds of Reaper.
LEMMA ReaperBounds ==
  /\ RP!IsFiniteSet(Workers) /\ Workers # {}
  /\ MaxMessages \in Nat /\ MaxShutdowns \in Nat /\ MaxFaults \in Nat
<1>1. MaxMessages \in Nat /\ MaxShutdowns \in Nat
  BY BoundsAssumption DEF MaxMessages
<1>2. RP!IsFiniteSet(Workers)
  BY LifecycleAssumption DEF IsFiniteSet, RP!IsFiniteSet
<1> QED
  BY <1>1, <1>2, LifecycleAssumption

\* The two instances of Reaper are one.
LEMMA SameReaper == RR!Spec => RP!Spec
<1>1. RR!Init => RP!Init
  BY DEF RR!Init, RP!Init
<1>2. RR!vars = RP!vars
  BY DEF RR!vars, RP!vars, RR!scanVars, RP!scanVars
<1>3. ASSUME NEW w \in Workers
      PROVE  RR!Scan(w) \/ RR!Receive(w) \/ RR!Failures(w) => RP!Next
  <2>1. RR!Scan(w) => RP!Scan(w)
    BY DEF RR!Scan, RP!Scan, RR!FindIdle, RP!FindIdle, RR!CheckShutdownLock,
           RP!CheckShutdownLock, RR!AcquireReaperLock, RP!AcquireReaperLock,
           RR!PushShutdown, RP!PushShutdown, RR!SetShutdownLock, RP!SetShutdownLock,
           RR!ScanStep, RP!ScanStep, RR!Initiate, RP!Initiate
  <2>2. RR!Receive(w) => RP!Receive(w)
    BY DEF RR!Receive, RP!Receive, RR!PopReady, RP!PopReady, RR!TeardownResolves,
           RP!TeardownResolves, RR!TeardownRejects, RP!TeardownRejects,
           RR!RemoveHeartbeat, RP!RemoveHeartbeat, RR!ReceiverStep, RP!ReceiverStep,
           RR!scanVars, RP!scanVars
  <2>3. RR!Failures(w) => RP!Failures(w)
    BY DEF RR!Failures, RP!Failures, RR!PassFails, RP!PassFails, RR!RemovalFails,
           RP!RemovalFails, RR!Restart, RP!Restart, RR!ReceiverStep, RP!ReceiverStep,
           RR!Fault, RP!Fault, RR!scanVars, RP!scanVars
  <2> QED
    BY <2>1, <2>2, <2>3 DEF RP!Next
<1>4. RR!ReaperLockExpires \/ RR!ShutdownLockExpires => RP!Next
  BY DEF RR!ReaperLockExpires, RP!ReaperLockExpires, RR!ShutdownLockExpires,
         RP!ShutdownLockExpires, RR!Leaders, RP!Leaders, RP!Next
<1>5. RR!Heartbeat \/ RR!HeartbeatExpires \/ RR!AgentPops \/ RR!AgentAnnounces => RP!Next
  BY DEF RR!Heartbeat, RP!Heartbeat, RR!HeartbeatExpires, RP!HeartbeatExpires,
         RR!AgentPops, RP!AgentPops, RR!AgentAnnounces, RP!AgentAnnounces,
         RR!scanVars, RP!scanVars, RP!Next
<1>6. [RR!Next]_(RR!vars) => [RP!Next]_(RP!vars)
  BY <1>2, <1>3, <1>4, <1>5 DEF RR!Next, RR!vars, RP!vars, RR!scanVars, RP!scanVars
<1> QED
  BY <1>1, <1>6, PTL DEF RR!Spec, RP!Spec

\* Nothing the rest of the system does to the heartbeat, to the agent's list or to
\* shutdown_ready gives a conversation two leaders, or more repeats under one
\* shutdown lock than there are other instances.
THEOREM ElectionInTheWhole == LifecycleSpec => []RR!OneLeader /\ []RR!RepeatsBounded
<1>1. RP!Spec => []RP!OneLeader
  BY ReaperBounds, RP!LeaderElection
<1>2. RP!Spec => []RP!RepeatsBounded
  BY ReaperBounds, RP!ShutdownIdempotence
<1>3. RP!OneLeader => RR!OneLeader
  BY DEF RR!OneLeader, RP!OneLeader, RR!Leaders, RP!Leaders, RR!Cardinality, RP!Cardinality
<1>4. RP!RepeatsBounded => RR!RepeatsBounded
  BY DEF RR!RepeatsBounded, RP!RepeatsBounded, RR!Cardinality, RP!Cardinality
<1> QED
  BY <1>1, <1>2, <1>3, <1>4, ReaperContract, SameReaper, PTL

-----------------------------------------------------------------------------
(* The whole: the calls of Kubernetes                                      *)

\* What is proved of Provisioning. Its theorems stand beside those of the backend,
\* whose own variables and constants play no part in them and are fixed here.
CP == INSTANCE ConversationsProofs WITH
        Ensures <- Messages, Teardowns <- Workers, First <- 1, Deleters <- {},
        conversation <- "absent", rows <- {}, stage <- <<>>, emptied <- <<>>,
        pulse <- <<>>, removed <- {}, queued <- {}, announced <- FALSE,
        overlapped <- FALSE

\* The bounds of the whole are bounds of Provisioning.
LEMMA CallBounds ==
  MaxTexts > 0 =>
    /\ "deployment" \in Objects /\ "pvc" \notin Objects
    /\ Messages \intersect Workers = {}
    /\ MaxCalls \in Nat /\ MaxErrors \in Nat
    /\ 1 \in Messages /\ {} \subseteq Workers
BY BoundsAssumption, LifecycleAssumption DEF MaxCalls, Messages

\* The two instances of Provisioning are one.
LEMMA SameProvisioning == P!Spec => CP!Spec
<1>1. P!Init => CP!Init
  BY DEF P!Init, CP!Init
<1>2. P!vars = CP!vars
  BY DEF P!vars, CP!vars, P!k8sVars, CP!k8sVars
<1>3. ASSUME NEW m \in Messages,
             P!BeginEnsure(m) \/ P!EnsureStep(m) \/ P!AbandonEnsure(m)
      PROVE  CP!Next
  <2>1. P!BeginEnsure(m) => CP!BeginEnsure(m)
    BY DEF P!BeginEnsure, CP!BeginEnsure, P!EnsureBusy, CP!EnsureBusy, P!TearingDown,
         CP!TearingDown, P!TeardownBusy, CP!TeardownBusy
  <2>2. P!EnsureStep(m) => CP!EnsureStep(m)
    <3>1. P!EnsureWorkspacePVC(m) => CP!EnsureWorkspacePVC(m)
      BY DEF P!EnsureWorkspacePVC, CP!EnsureWorkspacePVC
    <3>2. ASSUME NEW o \in Objects, P!EnsureObject(m, o) PROVE CP!EnsureObject(m, o)
      BY <3>2 DEF P!EnsureObject, CP!EnsureObject, P!Settle, CP!Settle
    <3>3. P!EnsureFails(m) => CP!EnsureFails(m)
      BY DEF P!EnsureFails, CP!EnsureFails
    <3> QED
      BY <3>1, <3>2, <3>3 DEF P!EnsureStep, CP!EnsureStep
  <2>3. P!AbandonEnsure(m) => CP!AbandonEnsure(m)
    BY DEF P!AbandonEnsure, CP!AbandonEnsure, P!EnsureBusy, CP!EnsureBusy
  <2> QED
    BY <1>3, <2>1, <2>2, <2>3 DEF CP!Next
<1>4. ASSUME NEW w \in Workers,
             P!BeginTeardown(w) \/ P!TeardownStep(w) \/ P!AbandonTeardown(w)
      PROVE  CP!Next
  <2>1. P!BeginTeardown(w) => CP!BeginTeardown(w)
    BY DEF P!BeginTeardown, CP!BeginTeardown, P!TeardownBusy, CP!TeardownBusy,
         P!Resources, CP!Resources
  <2>2. P!TeardownStep(w) => CP!TeardownStep(w)
    <3>1. ASSUME NEW r, P!DeleteResource(w, r) PROVE CP!DeleteResource(w, r)
      BY <3>1 DEF P!DeleteResource, CP!DeleteResource, P!AfterDelete, CP!AfterDelete,
           P!Settle, CP!Settle
    <3>2. ASSUME NEW r, P!DeleteFails(w, r) PROVE CP!DeleteFails(w, r)
      BY <3>2 DEF P!DeleteFails, CP!DeleteFails
    <3> QED
      BY <3>1, <3>2 DEF P!TeardownStep, CP!TeardownStep, P!Resources, CP!Resources
  <2>3. P!AbandonTeardown(w) => CP!AbandonTeardown(w)
    BY DEF P!AbandonTeardown, CP!AbandonTeardown, P!TeardownBusy, CP!TeardownBusy
  <2> QED
    BY <1>4, <2>1, <2>2, <2>3 DEF CP!Next
<1>5. P!Controllers \/ P!PodChanges => CP!Next
  BY DEF CP!Next, P!Controllers, CP!Controllers, P!SchedulePod, CP!SchedulePod,
       P!RemovePod, CP!RemovePod, P!FinalizePVC, CP!FinalizePVC, P!CanSchedule,
       CP!CanSchedule, P!MustRemove, CP!MustRemove, P!PodChanges, CP!PodChanges,
       P!PodStates, CP!PodStates, P!k8sVars, CP!k8sVars
<1>6. [P!Next]_(P!vars) => [CP!Next]_(CP!vars)
  BY <1>2, <1>3, <1>4, <1>5 DEF P!Next, P!vars, CP!vars, P!k8sVars, CP!k8sVars
<1> QED
  BY <1>1, <1>6, PTL DEF P!Spec, CP!Spec

\* With the real backend, agent and lifecycle workers around it, an ensure call of a
\* prompt that met no error, teardown or terminating claim leaves its claim and
\* objects, and only errors of Kubernetes or dying callers reject calls
\* (ensureInfrastructure, teardownInfrastructure).
THEOREM ProvisioningInTheWhole ==
  ASSUME MaxTexts > 0
  PROVE  LifecycleSpec => []P!EnsureEstablishes /\ []P!RacesAreNotErrors
<1>1. CP!Spec => []CP!EnsureEstablishes
  BY CallBounds, CP!EnsureIsEstablished
<1>2. CP!Spec => []CP!RacesAreNotErrors
  BY CallBounds, CP!LostRacesSucceed
<1>3. CP!EnsureEstablishes => P!EnsureEstablishes
  BY DEF CP!EnsureEstablishes, P!EnsureEstablishes
<1>4. CP!RacesAreNotErrors => P!RacesAreNotErrors
  BY DEF CP!RacesAreNotErrors, P!RacesAreNotErrors
<1> QED
  BY <1>1, <1>2, <1>3, <1>4, ProvisioningContract, SameProvisioning, PTL

=============================================================================
