--------------------------- MODULE HarnessProofs ---------------------------
(***************************************************************************)
(* Theorems about Harness, for any number of tasks, iterations and faults  *)
(* and any size of the window that compaction and summary keep; and, in    *)
(* the sections from "The sub-agents" on, about SubAgents, the delegation  *)
(* a tool call of the harness makes, for any number of sub-agents, commits *)
(* and failures. The two specifications share no variable.                 *)
(***************************************************************************)
EXTENDS Harness, SubAgents, SequenceTheorems, TLAPS

-----------------------------------------------------------------------------
(* Histories                                                               *)

\* Calls are answered by the next message, if there is one already, and what
\* compaction has hollowed out is old.
AnsweredSoFar(h) ==
  \A i \in DOMAIN h :
    /\ h[i].kind = "calls" /\ i < Len(h) => h[i + 1].kind = "responses"
    /\ h[i].hollow => i <= Len(h) - KeepLast

Newest(h) ==
  \A i \in DOMAIN h :
    i > Len(h) - KeepLast => h[i].verbatim /\ h[i].kind \notin {"summary", "ack"}

\* A history as the LLM may be asked with, and as a backup may hold it.
Sound(h) == CallsAnsweredIn(h) /\ Newest(h)

LEMMA SoundIsAnswered == ASSUME NEW h, Sound(h) PROVE AnsweredSoFar(h)
BY DEF Sound, CallsAnsweredIn, AnsweredSoFar

LEMMA EmptyIsSound == <<>> \in Seq(Messages) /\ Sound(<<>>)
BY EmptySeq, LenProperties DEF Sound, CallsAnsweredIn, Newest

LEMMA MessageType ==
  ASSUME NEW kind \in UserKinds \union ModelKinds
  PROVE  /\ Message(kind) \in Messages
         /\ Message(kind).kind = kind
         /\ Message(kind).verbatim = TRUE /\ Message(kind).hollow = FALSE
<1>1. (kind \in {"text", "ack"}) \in BOOLEAN
  OBVIOUS
<1>2. TRUE \in BOOLEAN /\ FALSE \in BOOLEAN
  OBVIOUS
<1> HIDE DEF UserKinds, ModelKinds
<1> DEFINE text == kind \in {"text", "ack"}
<1>3. text \in BOOLEAN
  BY <1>1
<1>4. Message(kind) = [kind |-> kind, text |-> text, hollow |-> FALSE, verbatim |-> TRUE]
  BY DEF Message
<1> HIDE DEF text
<1> QED
  BY <1>2, <1>3, <1>4 DEF Messages

LEMMA CallsMessageType ==
  ASSUME NEW text \in BOOLEAN
  PROVE  /\ CallsMessage(text) \in Messages
         /\ CallsMessage(text).kind = "calls"
         /\ CallsMessage(text).verbatim = TRUE /\ CallsMessage(text).hollow = FALSE
<1> DEFINE m == Message("calls")
<1>1. m \in Messages /\ m.kind = "calls" /\ m.verbatim = TRUE /\ m.hollow = FALSE
  BY MessageType DEF ModelKinds
<1>2. CallsMessage(text) = [m EXCEPT !.text = text]
  BY DEF CallsMessage
<1> HIDE DEF m
<1> QED
  BY <1>1, <1>2 DEF Messages

\* What is said last is verbatim, and answers calls if it is responses.
LEMMA AppendKeeps ==
  ASSUME NEW h \in Seq(Messages), AnsweredSoFar(h), Newest(h),
         NEW m \in Messages, m.verbatim = TRUE, m.hollow = FALSE,
         m.kind \notin {"summary", "ack"},
         m.kind = "responses" \/ CallsAnsweredIn(h)
  PROVE  LET g == Append(h, m) IN
         /\ g \in Seq(Messages)
         /\ AnsweredSoFar(g) /\ Newest(g)
         /\ m.kind # "calls" => CallsAnsweredIn(g)
<1> DEFINE g == Append(h, m)
<1>2. /\ g \in Seq(Messages) /\ Len(g) = Len(h) + 1 /\ Len(h) \in Nat
      /\ DOMAIN h = 1..Len(h) /\ DOMAIN g = 1..(Len(h) + 1)
      /\ \A i \in 1..Len(h) : g[i] = h[i]
      /\ g[Len(h) + 1] = m
  BY AppendProperties, LenProperties
<1> HIDE DEF g
<1>3. Newest(g)
  BY <1>2, HarnessAssumption DEF Newest
<1>4. AnsweredSoFar(g)
  <2>1. ASSUME NEW i \in 1..Len(h), h[i].kind = "calls"
        PROVE  g[i + 1].kind = "responses"
    <3>1. CASE i < Len(h)
      BY <1>2, <2>1, <3>1 DEF AnsweredSoFar
    <3>2. CASE i = Len(h)
      <4>1. i \in DOMAIN h /\ ~(i < Len(h))
        BY <1>2, <3>2
      <4>2. ~CallsAnsweredIn(h)
        BY <2>1, <4>1 DEF CallsAnsweredIn
      <4> QED
        BY <1>2, <3>2, <4>2
    <3>3. Len(h) \in Nat
      BY <1>2
    <3>4. i < Len(h) \/ i = Len(h)
      BY <3>3
    <3> QED
      BY <3>1, <3>2, <3>4
  <2>2. ASSUME NEW i \in 1..(Len(h) + 1), g[i].hollow
        PROVE  i <= Len(g) - KeepLast
    <3>1. i # Len(h) + 1
      BY <1>2, <2>2
    <3>2. i \in 1..Len(h) /\ h[i].hollow
      BY <1>2, <2>2, <3>1
    <3> QED
      BY <1>2, <3>2, HarnessAssumption DEF AnsweredSoFar
  <2> QED
    BY <1>2, <2>1, <2>2 DEF AnsweredSoFar
<1>5. m.kind # "calls" => CallsAnsweredIn(g)
  BY <1>2, <1>4 DEF AnsweredSoFar, CallsAnsweredIn
<1> QED
  BY <1>2, <1>3, <1>4, <1>5 DEF g

\* compactHistory strips messages before the window and keeps every kind.
LEMMA CompactKeeps ==
  ASSUME NEW h \in Seq(Messages), Sound(h)
  PROVE  Compact(h) \in Seq(Messages) /\ Sound(Compact(h))
<1> DEFINE g == Compact(h)
<1>1. /\ Len(h) \in Nat /\ DOMAIN h = 1..Len(h)
      /\ \A i \in 1..Len(h) : h[i] \in Messages
  BY LenProperties, ElementOfSeq
<1>2. CASE Len(h) <= KeepLast
  BY <1>2 DEF Compact
<1>3. CASE ~(Len(h) <= KeepLast)
  <2>1. g = [i \in DOMAIN h |->
               IF i <= CutBefore(h) /\ h[i].kind \in ModelKinds \union {"responses"}
               THEN Stripped(h[i]) ELSE h[i]]
    BY <1>3 DEF Compact
  <2>2. \A m \in Messages : Stripped(m) \in Messages /\ Stripped(m).kind = m.kind
    <3>1. FALSE \in BOOLEAN
      OBVIOUS
    <3> QED
      BY <3>1 DEF Messages, Stripped
  <2>3. \A i \in 1..Len(h) : /\ g[i] \in Messages /\ g[i].kind = h[i].kind
                             /\ i > Len(h) - KeepLast => g[i] = h[i]
    BY <1>1, <2>1, <2>2, HarnessAssumption DEF CutBefore
  <2>4. DOMAIN g = 1..Len(h)
    BY <1>1, <2>1
  <2>5. g \in [1..Len(h) -> Messages]
    BY <1>1, <2>1, <2>3
  <2>6. g \in Seq(Messages)
    BY <1>1, <2>5, SeqDef
  <2>7. Len(g) = Len(h)
    BY <1>1, <2>4, <2>6, LenProperties
  <2> HIDE DEF g
  <2>8. CallsAnsweredIn(g)
    <3>1. ASSUME NEW i \in 1..Len(h), g[i].kind = "calls"
          PROVE  i < Len(h) /\ g[i + 1].kind = "responses"
      <4>1. i < Len(h) /\ h[i + 1].kind = "responses"
        BY <1>1, <2>3, <3>1 DEF Sound, CallsAnsweredIn
      <4>2. i + 1 \in 1..Len(h)
        BY <1>1, <4>1
      <4> QED
        BY <2>3, <4>1, <4>2
    <3>2. ASSUME NEW i \in 1..Len(h), g[i].hollow
          PROVE  i <= Len(h) - KeepLast
      <4>1. CASE i > Len(h) - KeepLast
        BY <1>1, <2>3, <3>2, <4>1 DEF Sound, CallsAnsweredIn
      <4>2. CASE ~(i > Len(h) - KeepLast)
        BY <1>1, <4>2, HarnessAssumption
      <4> QED
        BY <4>1, <4>2
    <3> QED
      BY <2>4, <2>7, <3>1, <3>2 DEF CallsAnsweredIn
  <2>9. Newest(g)
    BY <1>1, <2>3, <2>4, <2>7 DEF Sound, Newest
  <2> QED
    BY <2>6, <2>8, <2>9 DEF g, Sound
<1> QED
  BY <1>2, <1>3

\* summarizeHistory replaces a beginning; what follows it is kept as it was.
LEMMA SummarizeKeeps ==
  ASSUME NEW h \in Seq(Messages), Sound(h)
  PROVE  Summarize(h) \in Seq(Messages) /\ Sound(Summarize(h))
<1>1. /\ Len(h) \in Nat /\ DOMAIN h = 1..Len(h)
      /\ \A i \in 1..Len(h) : h[i] \in Messages
  BY LenProperties, ElementOfSeq
<1>2. CASE Len(h) <= KeepLast
  BY <1>2 DEF Summarize
<1>3. CASE ~(Len(h) <= KeepLast)
  <2> DEFINE cut == IF h[CutBefore(h) + 1].kind \in ModelKinds
                    THEN CutBefore(h) - 1 ELSE CutBefore(h)
  <2> DEFINE tail == SubSeq(h, cut + 1, Len(h))
  <2> DEFINE intro == <<Message("summary"), Message("ack")>>
  <2> DEFINE g == intro \o tail
  <2>1. Summarize(h) = g
    BY <1>3 DEF Summarize
  <2>2. cut \in Nat /\ cut <= Len(h) - KeepLast
    BY <1>1, <1>3, HarnessAssumption DEF CutBefore
  <2> HIDE DEF cut
  <2>3. /\ tail \in Seq(Messages) /\ Len(tail) = Len(h) - cut
        /\ \A i \in 1..(Len(h) - cut) : tail[i] = h[cut + i]
    <3>1. \A i \in (cut + 1)..Len(h) : h[i] \in Messages
      BY <1>1, <2>2
    <3>2. cut + 1 \in Int /\ Len(h) \in Int /\ cut + 1 <= Len(h)
      BY <1>1, <2>2, HarnessAssumption
    <3> QED
      BY <1>1, <2>2, <3>1, <3>2, SubSeqProperties
  <2>4. /\ intro \in Seq(Messages) /\ Len(intro) = 2
        /\ intro[1].kind = "summary" /\ intro[1].hollow = FALSE
        /\ intro[2].kind = "ack" /\ intro[2].hollow = FALSE
    <3>1. /\ Message("summary") \in Messages
          /\ Message("summary").kind = "summary" /\ Message("summary").hollow = FALSE
          /\ Message("ack") \in Messages
          /\ Message("ack").kind = "ack" /\ Message("ack").hollow = FALSE
      BY MessageType DEF UserKinds, ModelKinds
    <3> QED
      BY <3>1
  <2> HIDE DEF tail, intro
  <2>5. /\ g \in Seq(Messages) /\ Len(g) = 2 + (Len(h) - cut)
        /\ \A i \in 1..(2 + (Len(h) - cut)) : g[i] = IF i <= 2 THEN intro[i] ELSE tail[i - 2]
    <3>1. /\ g \in Seq(Messages) /\ Len(g) = Len(intro) + Len(tail)
          /\ \A i \in 1..(Len(intro) + Len(tail)) :
               g[i] = IF i <= Len(intro) THEN intro[i] ELSE tail[i - Len(intro)]
      BY <2>3, <2>4, ConcatProperties
    <3> QED
      BY <2>3, <2>4, <3>1
  <2> HIDE DEF g
  <2>6. DOMAIN g = 1..(2 + (Len(h) - cut))
    BY <2>5, LenProperties
  <2>7. ASSUME NEW i \in 3..(2 + (Len(h) - cut)) PROVE g[i] = h[cut + (i - 2)]
    <3>1. /\ i \in 1..(2 + (Len(h) - cut)) /\ ~(i <= 2)
          /\ i - 2 \in 1..(Len(h) - cut)
      BY <1>1, <2>2
    <3>2. g[i] = tail[i - 2]
      BY <2>5, <3>1
    <3>3. tail[i - 2] = h[cut + (i - 2)]
      BY <2>3, <3>1
    <3> QED
      BY <3>2, <3>3
  <2>8. CallsAnsweredIn(g)
    <3>1. 1 \in 1..(2 + (Len(h) - cut)) /\ 2 \in 1..(2 + (Len(h) - cut))
      BY <1>1, <2>2, HarnessAssumption
    <3>2. g[1] = intro[1] /\ g[2] = intro[2]
      BY <2>5, <3>1
    <3>3. ASSUME NEW i \in 1..(2 + (Len(h) - cut)), i # 1, i # 2
          PROVE  i \in 3..(2 + (Len(h) - cut)) /\ cut + (i - 2) \in 1..Len(h)
      BY <1>1, <2>2, <3>3
    <3>4. ASSUME NEW i \in 1..(2 + (Len(h) - cut)), g[i].kind = "calls"
          PROVE  i < Len(g) /\ g[i + 1].kind = "responses"
      <4>1. i # 1 /\ i # 2
        BY <2>4, <3>2, <3>4
      <4>2. i \in 3..(2 + (Len(h) - cut)) /\ cut + (i - 2) \in 1..Len(h)
        BY <3>3, <4>1
      <4>3. /\ cut + (i - 2) < Len(h)
            /\ h[cut + (i - 2) + 1].kind = "responses"
        BY <1>1, <2>7, <3>4, <4>2 DEF Sound, CallsAnsweredIn
      <4>4. i + 1 \in 3..(2 + (Len(h) - cut)) /\ cut + ((i + 1) - 2) = cut + (i - 2) + 1
        BY <1>1, <2>2, <4>2, <4>3
      <4> QED
        BY <1>1, <2>2, <2>5, <2>7, <4>3, <4>4
    <3>5. ASSUME NEW i \in 1..(2 + (Len(h) - cut)), g[i].hollow
          PROVE  i <= Len(g) - KeepLast
      <4>1. i # 1 /\ i # 2
        BY <2>4, <3>2, <3>5
      <4>2. i \in 3..(2 + (Len(h) - cut)) /\ cut + (i - 2) \in 1..Len(h)
        BY <3>3, <4>1
      <4>3. cut + (i - 2) <= Len(h) - KeepLast
        BY <1>1, <2>7, <3>5, <4>2 DEF Sound, CallsAnsweredIn
      <4> QED
        BY <1>1, <2>2, <2>5, <4>2, <4>3, HarnessAssumption
    <3> QED
      BY <2>6, <3>4, <3>5 DEF CallsAnsweredIn
  <2>9. Newest(g)
    <3> SUFFICES ASSUME NEW i \in 1..(2 + (Len(h) - cut)), i > Len(g) - KeepLast
                 PROVE  g[i].verbatim /\ g[i].kind \notin {"summary", "ack"}
      BY <2>6 DEF Newest
    <3>1. /\ i \in 3..(2 + (Len(h) - cut))
          /\ cut + (i - 2) \in 1..Len(h) /\ cut + (i - 2) > Len(h) - KeepLast
      BY <1>1, <2>2, <2>5, HarnessAssumption
    <3> QED
      BY <1>1, <2>7, <3>1 DEF Sound, Newest
  <2> QED
    BY <2>1, <2>5, <2>8, <2>9 DEF Sound
<1> QED
  BY <1>2, <1>3

-----------------------------------------------------------------------------
(* Types; the last conjunct of TypeOK follows from CallsAnsweredIn         *)

Awaits == {"idle", "down", "loop", "counting", "recounting", "summarizing",
           "asking", "acting", "waiting"}
Frames == [type : {"text", "done"}, task : Tasks]

LoopTyped ==
  /\ at \in Awaits /\ task \in 0..MaxTasks /\ iteration \in 0..MaxIterations
  /\ at \notin {"idle", "down"} => task \in Tasks
  /\ tokens \in {"low", "high"} /\ escalate \in BOOLEAN
  /\ hour \in Hours /\ done \in 0..MaxTasks
  /\ overlapped \in BOOLEAN /\ faults \in 0..MaxFaults

StoreTyped ==
  /\ history \in Seq(Messages)
  /\ frames \in Seq(Frames)
  /\ ends \subseteq EndsTypes
  /\ objects \in [Hours -> Backups]
  /\ latest \in Backups

Typed == LoopTyped /\ StoreTyped

LEMMA TypedInit == Init => Typed
<1> SUFFICES ASSUME Init PROVE Typed
  OBVIOUS
<1>1. NoBackup \in Backups
  BY EmptySeq, HarnessAssumption DEF NoBackup, Backups
<1>2. StoreTyped
  BY <1>1, EmptySeq DEF Init, StoreTyped
<1>3. escalate \in BOOLEAN /\ overlapped \in BOOLEAN
  BY DEF Init
<1>4. at = "idle" /\ tokens \in {"low", "high"} /\ at \in Awaits
  BY DEF Init, Awaits
<1>5. /\ task \in 0..MaxTasks /\ iteration \in 0..MaxIterations
      /\ hour \in Hours /\ done \in 0..MaxTasks /\ faults \in 0..MaxFaults
  BY HarnessAssumption DEF Init, Hours
<1> QED
  BY <1>2, <1>3, <1>4, <1>5 DEF Typed, LoopTyped

\* Counters stay within their bounds.
LEMMA Bounds ==
  ASSUME LoopTyped
  PROVE  /\ task < MaxTasks => task + 1 \in Tasks /\ task + 1 \in 0..MaxTasks
         /\ iteration < MaxIterations => iteration + 1 \in 0..MaxIterations
         /\ hour < MaxHours => hour + 1 \in Hours
         /\ 0 \in 0..MaxIterations
         /\ Fault => faults' \in 0..MaxFaults
         /\ Tasks \subseteq 0..MaxTasks
BY HarnessAssumption DEF LoopTyped, Tasks, Hours, Fault

LEMMA LoopTypedStep == Typed /\ [Next]_vars => LoopTyped'
<1> SUFFICES ASSUME Typed, [Next]_vars PROVE LoopTyped'
  OBVIOUS
<1>0. LoopTyped
  BY DEF Typed
<1> USE DEF LoopTyped, Awaits
<1>1. CASE BeginTask
  <2>1. task' = task + 1 /\ task < MaxTasks /\ iteration' = 0
    BY <1>1 DEF BeginTask
  <2>2. escalate' \in BOOLEAN
    BY <1>1 DEF BeginTask
  <2> QED
    BY <1>0, <1>1, <2>1, <2>2, Bounds DEF BeginTask, bucket, ghosts
<1>2. CASE HitLimit \/ FinishSummary \/ RunTools \/ WaitInTool \/ ToolReturns
  BY <1>0, <1>2 DEF HitLimit, FinishSummary, RunTools, WaitInTool, ToolReturns,
                    AddResponses, memory, bucket, ghosts
<1>3. CASE NextIteration
  <2>1. iteration' \in 0..MaxIterations
    BY <1>0, <1>3, Bounds DEF NextIteration, AfterSleep
  <2>2. escalate' \in BOOLEAN
    BY <1>0, <1>3 DEF NextIteration
  <2>3. at = "loop" /\ at' \in Awaits
    BY <1>3 DEF NextIteration, AfterSleep
  <2> QED
    BY <1>0, <1>3, <2>1, <2>2, <2>3 DEF NextIteration, bucket, ghosts
<1>4. CASE CountTokens
  <2>1. escalate' \in BOOLEAN
    BY <1>0, <1>4 DEF CountTokens
  <2> QED
    BY <1>0, <1>4, <2>1 DEF CountTokens, bucket, ghosts
<1>5. CASE AnswerWithCalls
  BY <1>0, <1>5 DEF AnswerWithCalls, bucket, ghosts
<1>6. CASE AnswerFinally
  <2>1. overlapped' \in BOOLEAN
    BY <1>0, <1>6 DEF AnswerFinally
  <2>2. /\ done' = task /\ at' = "idle" /\ tokens' \in {"low", "high"}
        /\ UNCHANGED <<task, iteration, escalate, hour, faults>>
    BY <1>6 DEF AnswerFinally
  <2> QED
    BY <1>0, <2>1, <2>2
<1>7. CASE Throw
  <2>1. faults' \in 0..MaxFaults
    BY <1>0, <1>7, Bounds DEF Throw
  <2> QED
    BY <1>0, <1>7, <2>1 DEF Throw, memory, bucket, ghosts
<1>8. ASSUME NEW e \in ends, Published(e) \/ PutBackup(e) \/ CopyBackup(e) PROVE LoopTyped'
  BY <1>0, <1>8 DEF Published, PutBackup, CopyBackup, loop, memory, ghosts
<1>9. ASSUME NEW e \in ends, UploadFails(e) PROVE LoopTyped'
  <2>1. faults' \in 0..MaxFaults
    BY <1>0, <1>9, Bounds DEF UploadFails
  <2> QED
    BY <1>0, <1>9, <2>1 DEF UploadFails, loop, memory, ghosts
<1>10. CASE HourPasses
  <2>1. hour' \in Hours
    BY <1>0, <1>10, Bounds DEF HourPasses
  <2> QED
    BY <1>0, <1>10, <2>1 DEF HourPasses, loop, memory, ghosts
<1>11. CASE Crash
  <2>1. faults' \in 0..MaxFaults
    BY <1>0, <1>11, Bounds DEF Crash
  <2> QED
    BY <1>0, <1>11, <2>1 DEF Crash, memory, ghosts
<1>12. CASE Boot
  <2>1. escalate' \in BOOLEAN
    BY <1>12 DEF Boot
  <2> QED
    BY <1>0, <1>12, <2>1 DEF Boot, bucket, ghosts
<1>13. CASE UNCHANGED vars
  BY <1>0, <1>13 DEF vars, loop, memory, bucket, ghosts
<1> QED
  BY <1>1, <1>2, <1>3, <1>4, <1>5, <1>6, <1>7, <1>8, <1>9, <1>10, <1>11, <1>12, <1>13
    DEF Next, ExecuteTask, Backup

-----------------------------------------------------------------------------
(* Every history is sound but while its calls run, or after a crash then   *)

\* No task goes on before the [DONE] of the one before is published, so a backup
\* is never made of a history whose calls still run.
HistoriesHold ==
  /\ AnsweredSoFar(history) /\ Newest(history)
  /\ at \notin {"acting", "waiting", "down"} => CallsAnsweredIn(history)
  /\ \A e \in ends : /\ e.at = "publishing" => at \in {"idle", "loop"}
                     /\ Sound(e.body.history)
  /\ \A h \in Hours : Sound(objects[h].history)
  /\ Sound(latest.history)

Memory == StoreTyped /\ HistoriesHold

LEMMA MemoryInit == Init => Memory
<1> SUFFICES ASSUME Init PROVE Memory
  OBVIOUS
<1>1. StoreTyped
  BY TypedInit DEF Typed
<1>2. NoBackup.history = <<>>
  BY DEF NoBackup
<1>3. HistoriesHold
  BY <1>2, EmptyIsSound, SoundIsAnswered DEF Init, HistoriesHold, Sound
<1> QED
  BY <1>1, <1>3 DEF Memory

LEMMA PublishType ==
  ASSUME NEW already \in Seq(Frames), NEW frame \in Frames, Publish(frame, already)
  PROVE  frames' \in Seq(Frames)
BY AppendProperties DEF Publish

LEMMA FrameType ==
  ASSUME LoopTyped, at \notin {"idle", "down"}
  PROVE  \A type \in {"text", "done"} : [type |-> type, task |-> task] \in Frames
BY DEF LoopTyped, Frames

\* The text of an answer, if there is one.
LEMMA TextKeeps ==
  ASSUME NEW h \in Seq(Messages), Sound(h), NEW text \in BOOLEAN
  PROVE  LET g == h \o (IF text THEN <<Message("text")>> ELSE <<>>)
         IN  g \in Seq(Messages) /\ Sound(g)
<1>1. h \o <<>> = h
  BY ConcatEmptySeq
<1>2. h \o <<Message("text")>> = Append(h, Message("text"))
  BY MessageType, AppendIsConcat DEF ModelKinds
<1>3. /\ Message("text") \in Messages /\ Message("text").kind = "text"
      /\ Message("text").verbatim = TRUE /\ Message("text").hollow = FALSE
  BY MessageType DEF ModelKinds
<1>4. Append(h, Message("text")) \in Seq(Messages) /\ Sound(Append(h, Message("text")))
  BY <1>3, SoundIsAnswered, AppendKeeps DEF Sound
<1> QED
  BY <1>1, <1>2, <1>4

\* executeTask changes the history and publishes; the bucket is left alone.
LEMMA MemoryTask ==
  ASSUME LoopTyped, Memory, BeginTask \/ HitLimit \/ NextIteration \/ FinishSummary \/ CountTokens
  PROVE  Memory'
<1> USE DEF Memory, StoreTyped
<1>s. at \notin {"acting", "waiting", "down"} => Sound(history)
  BY DEF HistoriesHold, Sound
<1>1. ASSUME UNCHANGED <<frames, bucket>>, at \notin {"acting", "waiting", "down"},
             at' \notin {"acting", "waiting"},
             history' \in Seq(Messages), Sound(history'),
             \A e \in ends : e.at = "publishing" => at' \in {"idle", "loop"}
      PROVE  Memory'
  <2>1. AnsweredSoFar(history')
    BY <1>1, SoundIsAnswered
  <2>2. HistoriesHold'
    BY <1>1, <2>1 DEF HistoriesHold, Sound, bucket
  <2> QED
    BY <1>1, <2>2 DEF bucket
<1>2. CASE BeginTask
  <2>1. at = "idle" /\ at' = "loop" /\ history' = Append(history, Message("prompt"))
        /\ UNCHANGED <<frames, bucket>>
    BY <1>2 DEF BeginTask
  <2>2. /\ Message("prompt") \in Messages /\ Message("prompt").kind = "prompt"
        /\ Message("prompt").verbatim = TRUE /\ Message("prompt").hollow = FALSE
    BY MessageType DEF UserKinds
  <2>3. history' \in Seq(Messages) /\ Sound(history')
    BY <1>s, <2>1, <2>2, AppendKeeps, SoundIsAnswered DEF Sound
  <2> QED
    BY <1>1, <2>1, <2>3
<1>3. CASE HitLimit
  BY <1>1, <1>3, <1>s DEF HitLimit, memory
<1>4. CASE NextIteration
  <2>1. /\ at = "loop" /\ at' \notin {"acting", "waiting"}
        /\ UNCHANGED <<frames, bucket>>
        /\ \A e \in ends : e.at # "publishing"
        /\ history' = history \/ history' = Compact(history)
    BY <1>4 DEF NextIteration, AfterSleep
  <2>2. history' \in Seq(Messages) /\ Sound(history')
    BY <1>s, <2>1, CompactKeeps
  <2> QED
    BY <1>1, <2>1, <2>2
<1>5. CASE FinishSummary
  <2>1. /\ at = "summarizing" /\ at' = "recounting" /\ UNCHANGED <<frames, bucket>>
        /\ history' = Summarize(history)
    BY <1>5 DEF FinishSummary
  <2>2. history' \in Seq(Messages) /\ Sound(history')
    BY <1>s, <2>1, SummarizeKeeps
  <2>3. \A e \in ends : e.at # "publishing"
    BY <2>1 DEF HistoriesHold
  <2> QED
    BY <1>1, <2>1, <2>2, <2>3
<1>6. CASE CountTokens
  <2>1. /\ at \in {"counting", "recounting"} /\ at' = "asking"
        /\ UNCHANGED <<history, frames, bucket>>
    BY <1>6 DEF CountTokens
  <2>2. \A e \in ends : e.at # "publishing"
    BY <2>1 DEF HistoriesHold
  <2> QED
    BY <1>1, <1>s, <2>1, <2>2
<1> QED
  BY <1>2, <1>3, <1>4, <1>5, <1>6

LEMMA MemoryAnswers ==
  ASSUME LoopTyped, Memory,
         \/ AnswerWithCalls \/ RunTools \/ WaitInTool \/ ToolReturns
         \/ AnswerFinally \/ Throw
  PROVE  Memory'
<1> USE DEF Memory, StoreTyped
<1>s. at \notin {"acting", "waiting", "down"} => Sound(history)
  BY DEF HistoriesHold, Sound
<1>f. at \notin {"idle", "down"} => \A type \in {"text", "done"} :
        [type |-> type, task |-> task] \in Frames
  BY FrameType
<1>1. CASE AnswerWithCalls
  <2>1. PICK text \in BOOLEAN :
          /\ history' = history \o (IF text THEN <<Message("text")>> ELSE <<>>)
                                \o <<CallsMessage(text)>>
          /\ IF text THEN Publish([type |-> "text", task |-> task], frames)
             ELSE UNCHANGED frames
    BY <1>1 DEF AnswerWithCalls
  <2>2. at = "asking" /\ at' = "acting" /\ UNCHANGED bucket
    BY <1>1 DEF AnswerWithCalls
  <2> DEFINE g == history \o (IF text THEN <<Message("text")>> ELSE <<>>)
  <2>3. g \in Seq(Messages) /\ Sound(g)
    BY <1>s, <2>2, TextKeeps
  <2>4. history' = g \o <<CallsMessage(text)>>
    BY <2>1
  <2> HIDE DEF g
  <2>5. history' = Append(g, CallsMessage(text))
    BY <2>3, <2>4, CallsMessageType, AppendIsConcat
  <2>6. history' \in Seq(Messages) /\ AnsweredSoFar(history') /\ Newest(history')
    BY <2>3, <2>5, CallsMessageType, AppendKeeps, SoundIsAnswered DEF Sound
  <2>7. frames' \in Seq(Frames)
    BY <1>f, <2>1, <2>2, PublishType
  <2>8. \A e \in ends : e.at # "publishing"
    BY <2>2 DEF HistoriesHold
  <2>9. HistoriesHold'
    BY <2>2, <2>6, <2>8 DEF HistoriesHold, bucket
  <2> QED
    BY <2>2, <2>6, <2>7, <2>9 DEF bucket
<1>2. CASE RunTools \/ ToolReturns
  <2>1. /\ at \in {"acting", "waiting"} /\ at' = "loop" /\ UNCHANGED bucket
        /\ history' = Append(history, Message("responses"))
        /\ Publish([type |-> "text", task |-> task], frames)
    BY <1>2 DEF RunTools, ToolReturns, AddResponses
  <2>2. /\ history' \in Seq(Messages) /\ AnsweredSoFar(history') /\ Newest(history')
        /\ CallsAnsweredIn(history')
    <3>1. /\ Message("responses") \in Messages /\ Message("responses").kind = "responses"
          /\ Message("responses").verbatim = TRUE /\ Message("responses").hollow = FALSE
      BY MessageType DEF UserKinds
    <3> QED
      BY <2>1, <3>1, AppendKeeps DEF HistoriesHold
  <2>3. frames' \in Seq(Frames)
    BY <1>f, <2>1, PublishType
  <2>4. HistoriesHold'
    BY <2>1, <2>2 DEF HistoriesHold, bucket
  <2> QED
    BY <2>1, <2>2, <2>3, <2>4 DEF bucket
<1>5. CASE WaitInTool
  <2>1. /\ at = "acting" /\ at' = "waiting" /\ UNCHANGED <<history, bucket>>
        /\ Publish([type |-> "text", task |-> task], frames)
    BY <1>5 DEF WaitInTool, memory
  <2>2. frames' \in Seq(Frames)
    BY <1>f, <2>1, PublishType
  <2>3. HistoriesHold'
    BY <2>1 DEF HistoriesHold, bucket
  <2> QED
    BY <2>1, <2>2, <2>3 DEF bucket
<1>3. CASE AnswerFinally
  <2> DEFINE new == [task |-> task, at |-> "publishing", hour |-> hour, body |-> NoBackup]
  <2>1. PICK text \in BOOLEAN :
          /\ history' = history \o (IF text THEN <<Message("text")>> ELSE <<>>)
          /\ Publish([type |-> "done", task |-> task],
                     IF text THEN Append(frames, [type |-> "text", task |-> task])
                             ELSE frames)
    BY <1>3 DEF AnswerFinally
  <2>2. /\ at = "asking" /\ at' = "idle" /\ ends' = ends \union {new}
        /\ UNCHANGED <<objects, latest>>
    BY <1>3 DEF AnswerFinally
  <2>3. history' \in Seq(Messages) /\ Sound(history')
    BY <1>s, <2>1, <2>2, TextKeeps
  <2>4. frames' \in Seq(Frames)
    <3>1. Append(frames, [type |-> "text", task |-> task]) \in Seq(Frames)
      BY <1>f, <2>2, AppendProperties
    <3> QED
      BY <1>f, <2>1, <2>2, <3>1, PublishType
  <2>5. NoBackup \in Backups /\ NoBackup.history = <<>>
    BY EmptySeq, HarnessAssumption DEF NoBackup, Backups
  <2>6. new \in EndsTypes
    BY <2>2, <2>5 DEF LoopTyped, EndsTypes
  <2>7. new.body.history = <<>>
    BY <2>5
  <2> HIDE DEF new
  <2>8. HistoriesHold'
    BY <2>2, <2>3, <2>7, EmptyIsSound, SoundIsAnswered DEF HistoriesHold, Sound
  <2> QED
    BY <2>2, <2>3, <2>4, <2>6, <2>8
<1>4. CASE Throw
  <2>1. /\ at \in {"asking", "counting", "recounting", "summarizing"} /\ at' = "idle"
        /\ UNCHANGED <<history, bucket>>
    BY <1>4 DEF Throw, memory
  <2>2. frames' \in Seq(Frames)
    BY <1>4, <1>f, <2>1, PublishType DEF Throw
  <2>3. HistoriesHold'
    BY <2>1 DEF HistoriesHold, bucket
  <2> QED
    BY <2>1, <2>2, <2>3 DEF bucket
<1> QED
  BY <1>1, <1>2, <1>3, <1>4, <1>5

\* The calls of end write what they serialised; a pod that boots reads it.
LEMMA MemoryBackups ==
  ASSUME LoopTyped, Memory, Backup \/ HourPasses \/ Crash \/ Boot
  PROVE  Memory'
<1> USE DEF Memory, StoreTyped
<1>e. \A e \in ends : /\ e.hour \in Hours /\ e.body \in Backups /\ e.task \in Tasks
  BY DEF EndsTypes
<1>1. ASSUME NEW e \in ends, Published(e) PROVE Memory'
  <2> DEFINE body == [history |-> history, upTo |-> e.task]
  <2> DEFINE to == [e EXCEPT !.at = "putting", !.hour = hour, !.body = body]
  <2>1. /\ e.at = "publishing" /\ ends' = (ends \ {e}) \union {to}
        /\ UNCHANGED <<at, history, frames, objects, latest>>
    BY <1>1 DEF Published, MoveEnd, loop, memory
  <2>2. at \notin {"acting", "waiting", "down"} /\ Sound(history)
    BY <2>1 DEF HistoriesHold, Sound
  <2>3. body \in Backups /\ body.history = history
    BY <1>e, HarnessAssumption DEF Backups, Tasks
  <2>4. to \in EndsTypes /\ to.at = "putting" /\ to.body = body
    BY <2>3 DEF EndsTypes, LoopTyped
  <2> HIDE DEF to, body
  <2>5. HistoriesHold'
    BY <2>1, <2>2, <2>3, <2>4 DEF HistoriesHold
  <2> QED
    BY <2>1, <2>4, <2>5
<1>2. ASSUME NEW e \in ends, PutBackup(e) PROVE Memory'
  <2> DEFINE to == [e EXCEPT !.at = "copying"]
  <2>1. /\ ends' = (ends \ {e}) \union {to}
        /\ objects' = [objects EXCEPT ![e.hour] = e.body]
        /\ UNCHANGED <<at, history, frames, latest>>
    BY <1>2 DEF PutBackup, MoveEnd, loop, memory
  <2>2. to \in EndsTypes /\ to.at = "copying" /\ to.body = e.body
    BY DEF EndsTypes
  <2> HIDE DEF to
  <2>3. objects' \in [Hours -> Backups]
    BY <1>e, <2>1
  <2>4. \A h \in Hours : objects'[h] = objects[h] \/ objects'[h] = e.body
    BY <1>e, <2>1
  <2>5. HistoriesHold'
    BY <2>1, <2>2, <2>4 DEF HistoriesHold
  <2> QED
    BY <2>1, <2>2, <2>3, <2>5
<1>3. ASSUME NEW e \in ends, CopyBackup(e) PROVE Memory'
  <2>1. /\ latest' = objects[e.hour] /\ ends' = ends \ {e}
        /\ UNCHANGED <<at, history, frames, objects>>
    BY <1>3 DEF CopyBackup, loop, memory
  <2>2. latest' \in Backups /\ Sound(latest'.history)
    BY <1>e, <2>1 DEF HistoriesHold
  <2>3. HistoriesHold'
    BY <2>1, <2>2 DEF HistoriesHold
  <2> QED
    BY <2>1, <2>2, <2>3
<1>4. ASSUME NEW e \in ends, UploadFails(e) PROVE Memory'
  BY <1>4 DEF UploadFails, HistoriesHold, loop, memory
<1>5. CASE HourPasses
  BY <1>5 DEF HourPasses, HistoriesHold, loop, memory
<1>6. CASE Crash
  BY <1>6 DEF Crash, HistoriesHold, memory
<1>7. CASE Boot
  <2>1. /\ at' = "idle" /\ history' = latest.history /\ UNCHANGED <<frames, bucket>>
        /\ at = "down"
    BY <1>7 DEF Boot
  <2>2. history' \in Seq(Messages) /\ Sound(history')
    BY <2>1 DEF HistoriesHold, Backups
  <2>3. HistoriesHold'
    BY <2>1, <2>2, SoundIsAnswered DEF HistoriesHold, Sound, bucket
  <2> QED
    BY <2>1, <2>2, <2>3 DEF bucket
<1> QED
  BY <1>1, <1>2, <1>3, <1>4, <1>5, <1>6, <1>7 DEF Backup

LEMMA MemoryStep == LoopTyped /\ Memory /\ [Next]_vars => LoopTyped' /\ Memory'
<1> SUFFICES ASSUME LoopTyped, Memory, [Next]_vars PROVE LoopTyped' /\ Memory'
  OBVIOUS
<1>1. LoopTyped'
  BY LoopTypedStep DEF Memory, Typed
<1>2. CASE UNCHANGED vars
  BY <1>1, <1>2 DEF Memory, StoreTyped, HistoriesHold, vars, loop, memory, bucket
<1>3. CASE BeginTask \/ HitLimit \/ NextIteration \/ FinishSummary \/ CountTokens
  BY <1>1, <1>3, MemoryTask
<1>4. CASE \/ AnswerWithCalls \/ RunTools \/ WaitInTool \/ ToolReturns
           \/ AnswerFinally \/ Throw
  BY <1>1, <1>4, MemoryAnswers
<1>5. CASE Backup \/ HourPasses \/ Crash \/ Boot
  BY <1>1, <1>5, MemoryBackups
<1> QED
  BY <1>2, <1>3, <1>4, <1>5 DEF Next, ExecuteTask

LEMMA MemoryInvariance == Spec => [](LoopTyped /\ Memory)
<1>1. Init => LoopTyped /\ Memory
  BY TypedInit, MemoryInit DEF Typed
<1> QED
  BY <1>1, MemoryStep, PTL DEF Spec

\* However histories are compacted, summarized, cut short by errors or restored,
\* the LLM is never asked with a message of tool calls that the next message does
\* not answer; the functionCalls without a name that compaction adds to text, and
\* that nothing answers, are older than the newest KeepLast messages
\* (executeTask, ContextManager, loadBackupFromS3).
THEOREM EveryCallIsAnswered == Spec => []CallsAnswered
<1>1. Memory => CallsAnswered
  BY DEF Memory, HistoriesHold, CallsAnswered
<1> QED
  BY <1>1, MemoryInvariance, PTL

\* Whatever the size of the window, the newest messages are sent verbatim
\* (keepLastNTurns in compactHistory and summarizeHistory).
THEOREM WindowIsVerbatim == Spec => []NewestVerbatim
<1>1. Memory => NewestVerbatim
  BY DEF Memory, HistoriesHold, Newest, NewestVerbatim
<1> QED
  BY <1>1, MemoryInvariance, PTL

\* Types, with what every history ends in between two requests.
THEOREM TypeCorrect == Spec => []TypeOK
<1>1. LoopTyped /\ Memory => TypeOK
  <2> SUFFICES ASSUME LoopTyped, Memory PROVE TypeOK
    OBVIOUS
  <2>1. at \in {"idle", "loop"} /\ history # <<>> => history[Len(history)].kind # "calls"
    <3> SUFFICES ASSUME at \in {"idle", "loop"}, history # <<>>
                 PROVE  history[Len(history)].kind # "calls"
      OBVIOUS
    <3>1. CallsAnsweredIn(history) /\ history \in Seq(Messages)
      BY DEF Memory, StoreTyped, HistoriesHold
    <3>2. Len(history) \in DOMAIN history /\ ~(Len(history) < Len(history))
      BY <3>1, EmptySeq, LenProperties
    <3> QED
      BY <3>1, <3>2 DEF CallsAnsweredIn
  <2> QED
    BY <2>1 DEF LoopTyped, Memory, StoreTyped, TypeOK, Awaits, Frames
<1> QED
  BY <1>1, MemoryInvariance, PTL

-----------------------------------------------------------------------------
(* The stream                                                              *)

Separated(fs) ==
  \A i, j \in DOMAIN fs : i < j =>
    /\ fs[i].task <= fs[j].task
    /\ fs[i].task = fs[j].task => fs[i].type = "text"

\* The answers up to t, and those of which t's has not been closed.
UpTo(fs, t) == Separated(fs) /\ \A i \in DOMAIN fs : fs[i].task <= t
OpenFor(fs, t) == UpTo(fs, t) /\ \A i \in DOMAIN fs : fs[i].type = "done" => fs[i].task < t

Stream ==
  /\ UpTo(frames, task)
  /\ at \notin {"idle", "down"} => OpenFor(frames, task)

LEMMA FrameAppended ==
  ASSUME NEW fs \in Seq(Frames), NEW t \in Tasks, OpenFor(fs, t), NEW type \in {"text", "done"}
  PROVE  LET gs == Append(fs, [type |-> type, task |-> t])
         IN  gs \in Seq(Frames) /\ UpTo(gs, t) /\ (type = "text" => OpenFor(gs, t))
<1> DEFINE frame == [type |-> type, task |-> t]
<1> DEFINE gs == Append(fs, frame)
<1>1. frame \in Frames /\ frame.type = type /\ frame.task = t
  BY DEF Frames
<1> HIDE DEF frame
<1>2. /\ gs \in Seq(Frames) /\ Len(fs) \in Nat
      /\ DOMAIN fs = 1..Len(fs) /\ DOMAIN gs = 1..(Len(fs) + 1)
      /\ \A i \in 1..Len(fs) : gs[i] = fs[i]
      /\ gs[Len(fs) + 1] = frame
  BY <1>1, AppendProperties, LenProperties
<1>3. t \in Int /\ \A i \in 1..Len(fs) : /\ fs[i].task \in Int
                                          /\ fs[i].type \in {"text", "done"}
  <2>1. \A i \in 1..Len(fs) : fs[i] \in Frames
    BY <1>2, ElementOfSeq
  <2> QED
    BY <2>1 DEF Frames, Tasks
<1> HIDE DEF gs
<1>4. \A i \in DOMAIN gs : gs[i].task <= t
  BY <1>1, <1>2, <1>3 DEF OpenFor, UpTo
<1>5. Separated(gs)
  <2> SUFFICES ASSUME NEW i \in DOMAIN gs, NEW j \in DOMAIN gs, i < j
               PROVE  /\ gs[i].task <= gs[j].task
                      /\ gs[i].task = gs[j].task => gs[i].type = "text"
    BY DEF Separated
  <2>1. i \in 1..Len(fs)
    BY <1>2
  <2>2. CASE j \in 1..Len(fs)
    BY <1>2, <2>1, <2>2 DEF OpenFor, UpTo, Separated
  <2>3. CASE j = Len(fs) + 1
    <3>1. gs[j].task = t /\ gs[i] = fs[i] /\ fs[i].task <= t
      BY <1>1, <1>2, <2>1, <2>3 DEF OpenFor, UpTo
    <3>2. fs[i].type = "done" => fs[i].task < t
      BY <1>2, <2>1 DEF OpenFor
    <3> QED
      BY <1>3, <2>1, <3>1, <3>2
  <2> QED
    BY <1>2, <2>2, <2>3
<1>6. type = "text" => OpenFor(gs, t)
  BY <1>1, <1>2, <1>4, <1>5 DEF OpenFor, UpTo
<1> QED
  BY <1>2, <1>4, <1>5, <1>6 DEF gs, frame, UpTo

LEMMA StreamStep == LoopTyped /\ StoreTyped /\ Stream /\ [Next]_vars => Stream'
<1> SUFFICES ASSUME LoopTyped, StoreTyped, Stream, [Next]_vars PROVE Stream'
  OBVIOUS
<1>1. frames \in Seq(Frames) /\ Len(frames) \in Nat /\ DOMAIN frames = 1..Len(frames)
      /\ (at \notin {"idle", "down"} => task \in Tasks)
  BY LenProperties DEF StoreTyped, LoopTyped
<1>2. ASSUME UNCHANGED <<frames, task>>, at' \notin {"idle", "down"} => at \notin {"idle", "down"}
      PROVE  Stream'
  BY <1>2 DEF Stream, UpTo, OpenFor, Separated
\* One run of text of the task in progress.
<1>3. ASSUME at \notin {"idle", "down"}, UNCHANGED task,
             Publish([type |-> "text", task |-> task], frames) \/ UNCHANGED frames
      PROVE  Stream'
  <2>1. OpenFor(frames', task)
    BY <1>1, <1>3, FrameAppended DEF Publish, Stream
  <2> QED
    BY <1>3, <2>1 DEF Stream, OpenFor, UpTo, Separated
<1>4. CASE BeginTask
  <2>1. task' = task + 1 /\ UNCHANGED frames
    BY <1>4 DEF BeginTask
  <2>2. task \in Int /\ \A i \in DOMAIN frames : frames[i].task \in Int
    <3>1. \A i \in DOMAIN frames : frames[i] \in Frames
      BY <1>1, ElementOfSeq
    <3> QED
      BY <3>1, HarnessAssumption DEF Frames, Tasks, LoopTyped
  <2>3. OpenFor(frames, task + 1)
    BY <2>2 DEF Stream, OpenFor, UpTo
  <2> QED
    BY <2>1, <2>3 DEF Stream, OpenFor, UpTo, Separated
<1>5. CASE AnswerFinally
  <2>1. PICK text \in BOOLEAN :
          Publish([type |-> "done", task |-> task],
                  IF text THEN Append(frames, [type |-> "text", task |-> task]) ELSE frames)
    BY <1>5 DEF AnswerFinally
  <2> DEFINE said == IF text THEN Append(frames, [type |-> "text", task |-> task]) ELSE frames
  <2>2. at = "asking" /\ at' = "idle" /\ task' = task /\ task \in Tasks
    BY <1>1, <1>5 DEF AnswerFinally
  <2>3. said \in Seq(Frames) /\ OpenFor(said, task)
    BY <1>1, <2>2, FrameAppended DEF Stream
  <2>4. Publish([type |-> "done", task |-> task], said)
    BY <2>1
  <2> HIDE DEF said
  <2>5. UpTo(frames', task)
    BY <2>2, <2>3, <2>4, FrameAppended DEF Publish, OpenFor
  <2> QED
    BY <2>2, <2>5 DEF Stream, UpTo, Separated
<1>6. CASE HitLimit \/ NextIteration \/ FinishSummary \/ CountTokens
  BY <1>2, <1>6 DEF HitLimit, NextIteration, AfterSleep, FinishSummary, CountTokens
<1>7. CASE AnswerWithCalls \/ RunTools \/ WaitInTool \/ ToolReturns \/ Throw
  <2>1. CASE AnswerWithCalls \/ Throw
    BY <1>3, <2>1 DEF AnswerWithCalls, Throw
  <2>2. CASE RunTools
    BY <1>3, <2>2 DEF RunTools
  <2>3. CASE WaitInTool
    BY <1>3, <2>3 DEF WaitInTool
  <2>4. CASE ToolReturns
    BY <1>3, <2>4 DEF ToolReturns
  <2> QED
    BY <1>7, <2>1, <2>2, <2>3, <2>4
<1>8. CASE Backup \/ HourPasses
  <2>1. UNCHANGED <<at, task, frames>>
    BY <1>8 DEF Backup, Published, PutBackup, CopyBackup, UploadFails, HourPasses, loop
  <2> QED
    BY <1>2, <2>1
<1>9. CASE Crash \/ Boot
  BY <1>2, <1>9 DEF Crash, Boot
<1>10. CASE UNCHANGED vars
  BY <1>2, <1>10 DEF vars, loop
<1> QED
  BY <1>4, <1>5, <1>6, <1>7, <1>8, <1>9, <1>10 DEF Next, ExecuteTask

\* The [DONE] of an answer stays between its frames and those of the next,
\* although end is called without being awaited.
THEOREM AnswersAreSeparated == Spec => []DoneSeparatesAnswers
<1>1. Init => Stream
  BY EmptySeq, LenProperties DEF Init, Stream, OpenFor, UpTo, Separated
<1>2. Spec => []Stream
  BY <1>1, MemoryInvariance, StreamStep, PTL DEF Spec, Memory
<1>3. Stream => DoneSeparatesAnswers
  BY DEF Stream, UpTo, Separated, DoneSeparatesAnswers
<1> QED
  BY <1>2, <1>3, PTL

-----------------------------------------------------------------------------
(* The latest backup                                                       *)

\* While nothing has failed and no two calls of end have overlapped there is at
\* most one, it is the last task's, and it carries that task's history on.
Backed ==
  faults = 0 /\ ~overlapped =>
    /\ ends = {} => latest.upTo = done
    /\ \A e, f \in ends : e = f
    /\ \A e \in ends : /\ e.task = done
                       /\ e.at = "putting" => e.body.upTo = done
                       /\ e.at = "copying" => objects[e.hour].upTo = done

LEMMA BackedStep == LoopTyped /\ StoreTyped /\ Backed /\ [Next]_vars => Backed'
<1> SUFFICES ASSUME LoopTyped, StoreTyped, Backed, [Next]_vars,
                    faults' = 0, ~overlapped'
             PROVE  Backed'
  BY DEF Backed
<1>1. ~Fault
  BY HarnessAssumption DEF Fault, LoopTyped
<1>2. ASSUME UNCHANGED <<ends, objects, latest, done, overlapped, faults>> PROVE Backed'
  BY <1>2 DEF Backed
<1>3. CASE AnswerFinally
  <2> DEFINE new == [task |-> task, at |-> "publishing", hour |-> hour, body |-> NoBackup]
  <2>1. /\ ends' = ends \union {new} /\ done' = task
        /\ overlapped' = (overlapped \/ ends # {})
    BY <1>3 DEF AnswerFinally
  <2>2. ends = {}
    BY <2>1
  <2>3. new.task = task /\ new.at = "publishing"
    OBVIOUS
  <2> HIDE DEF new
  <2> QED
    BY <2>1, <2>2, <2>3 DEF Backed
<1>4. ASSUME NEW e \in ends, Published(e) \/ PutBackup(e) \/ CopyBackup(e) PROVE Backed'
  <2>1. UNCHANGED <<done, overlapped, faults>>
    BY <1>4 DEF Published, PutBackup, CopyBackup, ghosts
  <2>2. /\ ends = {e} /\ e.task = done /\ e \in EndsTypes
        /\ e.at = "putting" => e.body.upTo = done
        /\ e.at = "copying" => objects[e.hour].upTo = done
    BY <1>4, <2>1 DEF Backed, StoreTyped
  <2>3. CASE Published(e)
    <3> DEFINE to == [e EXCEPT !.at = "putting", !.hour = hour,
                               !.body = [history |-> history, upTo |-> e.task]]
    <3>1. ends' = {to}
      BY <2>2, <2>3 DEF Published, MoveEnd
    <3>2. to.task = done /\ to.at = "putting" /\ to.body.upTo = done
      BY <2>2 DEF EndsTypes
    <3> HIDE DEF to
    <3> QED
      BY <2>1, <3>1, <3>2 DEF Backed
  <2>4. CASE PutBackup(e)
    <3> DEFINE to == [e EXCEPT !.at = "copying"]
    <3>1. ends' = {to} /\ objects' = [objects EXCEPT ![e.hour] = e.body] /\ e.at = "putting"
      BY <2>2, <2>4 DEF PutBackup, MoveEnd
    <3>2. to.task = done /\ to.at = "copying" /\ to.hour = e.hour
      BY <2>2 DEF EndsTypes
    <3>3. objects'[e.hour].upTo = done
      BY <2>2, <3>1 DEF EndsTypes, StoreTyped
    <3> HIDE DEF to
    <3> QED
      BY <2>1, <3>1, <3>2, <3>3 DEF Backed
  <2>5. CASE CopyBackup(e)
    <3>1. ends' = {} /\ latest'.upTo = done
      BY <2>2, <2>5 DEF CopyBackup
    <3> QED
      BY <2>1, <3>1 DEF Backed
  <2> QED
    BY <1>4, <2>3, <2>4, <2>5
<1>5. ASSUME NEW e \in ends, UploadFails(e) PROVE Backed'
  BY <1>1, <1>5 DEF UploadFails
<1>6. CASE Throw \/ Crash
  BY <1>1, <1>6 DEF Throw, Crash
<1>7. CASE \/ BeginTask \/ HitLimit \/ NextIteration \/ FinishSummary \/ CountTokens
           \/ AnswerWithCalls \/ RunTools \/ WaitInTool \/ ToolReturns
           \/ HourPasses \/ Boot
  BY <1>2, <1>7 DEF BeginTask, HitLimit, NextIteration, FinishSummary, CountTokens,
                    AnswerWithCalls, RunTools, WaitInTool, ToolReturns, HourPasses, Boot,
                    bucket, ghosts
<1>8. CASE UNCHANGED vars
  BY <1>2, <1>8 DEF vars, bucket, ghosts
<1> QED
  BY <1>3, <1>4, <1>5, <1>6, <1>7, <1>8 DEF Next, ExecuteTask, Backup

\* Without failures and overlaps the next pod loads the last answered task's
\* history (uploadToS3: the put, then the copy to the latest key).
THEOREM BackupKeepsUp == Spec => []LatestBackupIsNewest
<1>1. Init => Backed
  BY DEF Init, Backed, NoBackup
<1>2. Spec => []Backed
  BY <1>1, MemoryInvariance, BackedStep, PTL DEF Spec, Memory
<1>3. Backed => LatestBackupIsNewest
  BY DEF Backed, LatestBackupIsNewest
<1> QED
  BY <1>2, <1>3, PTL

-----------------------------------------------------------------------------
(* The sub-agents: type correctness                                        *)

LEMMA DelegationTypeInit == DelegationInit => DelegationTypeOK
<1>1. <<>> \in Seq(Seq(Entries)) /\ <<>> \in Seq(Entries)
  BY EmptySeq
<1>2. /\ [a \in Agents |-> "PENDING"] \in [Agents -> Statuses]
      /\ [a \in Agents |-> "none"] \in [Agents -> Children]
  BY DEF Statuses, Children
<1>3. [a \in Agents |-> 0] \in [Agents -> 0..MaxCommits] /\ 0 \in 0..MaxFailures
  BY AgentsAssumption
<1>4. [a \in Agents |-> NoDiff] \in [Agents -> Contents]
  BY DEF NoDiff, Contents
<1> QED
  BY <1>1, <1>2, <1>3, <1>4 DEF DelegationInit, DelegationTypeOK

\* One more failure stays within the bound.
LEMMA FailureType == DelegationTypeOK /\ Failure => failures' \in 0..MaxFailures
BY AgentsAssumption DEF DelegationTypeOK, Failure

\* An evaluation is begun, or not.
LEMMA AreAllDoneType ==
  DelegationTypeOK /\ AreAllDone => evaluations' \in Seq(Seq(Entries))
<1> SUFFICES ASSUME DelegationTypeOK, AreAllDone PROVE evaluations' \in Seq(Seq(Entries))
  OBVIOUS
<1>1. <<>> \in Seq(Entries)
  BY EmptySeq
<1>2. Append(evaluations, <<>>) \in Seq(Seq(Entries))
  BY <1>1, AppendProperties DEF DelegationTypeOK
<1> QED
  BY <1>2 DEF AreAllDone, DelegationTypeOK

LEMMA VerdictType ==
  ASSUME DelegationTypeOK, NEW a \in Agents, TaskFinished(a) \/ TaskFailed(a)
  PROVE  /\ status' \in [Agents -> Statuses]
         /\ path' \subseteq Agents
         /\ evaluations' \in Seq(Seq(Entries))
<1>1. evaluations' \in Seq(Seq(Entries))
  BY AreAllDoneType DEF TaskFinished, TaskFailed
<1> QED
  BY <1>1 DEF TaskFinished, TaskFailed, DelegationTypeOK, Statuses

\* The entry of an agent as areAllDone reads it.
LEMMA EntryType ==
  ASSUME DelegationTypeOK, NEW a \in Agents,
         NEW content \in {artifact[a], NoDiff}
  PROVE  [status |-> status[a], content |-> content] \in Entries
<1>1. content \in Contents
  BY DEF NoDiff, Contents, DelegationTypeOK
<1>2. status[a] \in Statuses
  BY DEF DelegationTypeOK
<1> QED
  BY <1>1, <1>2 DEF Entries

\* The parent's handlers and loops keep the types.
LEMMA OrchestrateType == DelegationTypeOK /\ Orchestrate => DelegationTypeOK'
<1> SUFFICES ASSUME DelegationTypeOK, Orchestrate PROVE DelegationTypeOK'
  OBVIOUS
<1>1. ASSUME NEW e \in events, OnMessage(e) \/ OnExit(e) PROVE DelegationTypeOK'
  <2>1. e.of \in Agents
    BY DEF DelegationTypeOK
  <2>2. /\ status' \in [Agents -> Statuses]
        /\ path' \subseteq Agents
        /\ evaluations' \in Seq(Seq(Entries))
    BY <1>1, <2>1, VerdictType DEF OnMessage, OnExit, DelegationTypeOK
  <2> QED
    BY <1>1, <2>1, <2>2 DEF OnMessage, OnExit, Receive, git, DelegationTypeOK
<1>2. ASSUME NEW i \in DOMAIN evaluations, ReadEntry(i) PROVE DelegationTypeOK'
  <2> DEFINE a == Len(evaluations[i]) + 1
             content == IF a \in path THEN artifact[a] ELSE NoDiff
             entry == [status |-> status[a], content |-> content]
  <2>1. evaluations[i] \in Seq(Entries)
    BY ElementOfSeq, LenProperties DEF DelegationTypeOK
  <2>2. a \in Agents
    BY <1>2, <2>1, LenProperties, AgentsAssumption DEF ReadEntry, Agents
  <2>3. entry \in Entries
    BY <2>2, EntryType
  <2>4. Append(evaluations[i], entry) \in Seq(Entries)
    BY <2>1, <2>3, AppendProperties
  <2>5. evaluations' = [evaluations EXCEPT ![i] = Append(evaluations[i], entry)]
    BY <1>2 DEF ReadEntry
  <2>6. evaluations' \in Seq(Seq(Entries))
    BY <2>4, <2>5, ExceptSeq DEF DelegationTypeOK
  <2> QED
    BY <1>2, <2>6 DEF ReadEntry, git, DelegationTypeOK
<1>3. ASSUME NEW i \in DOMAIN evaluations, Resolve(i) PROVE DelegationTypeOK'
  <2>1. evaluations[i] \in Seq(Entries)
    BY ElementOfSeq, LenProperties DEF DelegationTypeOK
  <2> QED
    BY <1>3, <2>1 DEF Resolve, git, DelegationTypeOK
<1> QED
  BY <1>1, <1>2, <1>3 DEF Orchestrate

\* A child's steps keep the types.
LEMMA ChildType ==
  ASSUME DelegationTypeOK, NEW a \in Agents,
         \/ ChildStep(a) \/ CommitWork(a)
         \/ ForkFails(a) \/ DiffFails(a) \/ CleanupFails(a) \/ Dies(a)
  PROVE  DelegationTypeOK'
<1> USE DEF DelegationTypeOK, parent, git, Goes, Children
<1>1. CASE InitializeWorktree(a)
  BY <1>1 DEF InitializeWorktree
<1>2. CASE EndTask(a)
  BY <1>2 DEF EndTask
<1>3. CASE HitsLimit(a)
  BY <1>3 DEF HitsLimit
<1>4. CASE WriteDiff(a)
  <2>1. DiffOf(a) \in Contents
    BY DEF DiffOf, Contents
  <2> QED
    BY <1>4, <2>1 DEF WriteDiff
<1>5. CASE CleanUpAndSend(a)
  BY <1>5 DEF CleanUpAndSend
<1>6. CASE CleanUpAndThrow(a)
  BY <1>6 DEF CleanUpAndThrow, Exit
<1>7. CASE CommitWork(a)
  <2>1. commits' \in [Agents -> 0..MaxCommits]
    BY <1>7, AgentsAssumption DEF CommitWork
  <2> QED
    BY <1>7, <2>1 DEF CommitWork
<1>8. CASE ForkFails(a)
  BY <1>8, FailureType DEF ForkFails
<1>9. CASE DiffFails(a)
  BY <1>9, FailureType DEF DiffFails
<1>10. CASE CleanupFails(a)
  BY <1>10, FailureType DEF CleanupFails
<1>11. CASE Dies(a)
  BY <1>11, FailureType DEF Dies, Exit
<1> QED
  BY <1>1, <1>2, <1>3, <1>4, <1>5, <1>6, <1>7, <1>8, <1>9, <1>10, <1>11
     DEF ChildStep

LEMMA DelegationTypeStep ==
  DelegationTypeOK /\ [DelegationNext]_delegationVars => DelegationTypeOK'
<1> SUFFICES ASSUME DelegationTypeOK, [DelegationNext]_delegationVars
             PROVE  DelegationTypeOK'
  OBVIOUS
<1>1. CASE SpawnAgents
  BY <1>1 DEF SpawnAgents, DelegationTypeOK, git, Statuses, Children
<1>2. CASE SpawnThrows
  <2>1. /\ status' \in [Agents -> Statuses]
        /\ child' \in [Agents -> Children]
    <3>1. CASE UNCHANGED <<status, child>>
      BY <3>1 DEF DelegationTypeOK
    <3>2. ASSUME NEW k \in Agents,
                 status' = [a \in Agents |-> IF a <= k THEN "IN_PROGRESS" ELSE "PENDING"],
                 child' = [a \in Agents |-> IF a < k THEN "booting" ELSE "none"]
          PROVE  /\ status' \in [Agents -> Statuses]
                 /\ child' \in [Agents -> Children]
      <4>1. status' \in [Agents -> Statuses]
        BY <3>2 DEF Statuses
      <4>2. child' \in [Agents -> Children]
        BY <3>2 DEF Children
      <4> QED
        BY <4>1, <4>2
    <3> QED
      BY <1>2, <3>1, <3>2 DEF SpawnThrows
  <2>2. /\ call' = "error" /\ failures' \in 0..MaxFailures
        /\ UNCHANGED <<path, handled, evaluations, response, git, events>>
    BY <1>2, FailureType DEF SpawnThrows
  <2> QED
    BY <2>1, <2>2 DEF DelegationTypeOK, git
<1>3. CASE ParentDies
  <2>1. <<>> \in Seq(Seq(Entries))
    BY EmptySeq
  <2>2. child' \in [Agents -> Children]
    BY <1>3 DEF ParentDies, Children
  <2> QED
    BY <1>3, <2>1, <2>2, FailureType DEF ParentDies, DelegationTypeOK, git
<1>4. CASE UNCHANGED delegationVars
  BY <1>4 DEF delegationVars, parent, git, DelegationTypeOK
<1> QED
  BY <1>1, <1>2, <1>3, <1>4, OrchestrateType, ChildType DEF DelegationNext

\* Every variable of the orchestrator, its children and the repository keeps its
\* type.
THEOREM DelegationTypeCorrect == DelegationSpec => []DelegationTypeOK
BY DelegationTypeInit, DelegationTypeStep, PTL DEF DelegationSpec

-----------------------------------------------------------------------------
(* A whole answer                                                          *)

Verdicts == {"COMPLETED", "FAILED"}
Over == {"reported", "exited"}

\* An entry that may stand in the answer: a verdict, and for a completed agent
\* the diff of all it will ever commit.
Stands(a, entry) ==
  /\ entry.status \in Verdicts
  /\ entry.status = "COMPLETED" =>
       child[a] \in Over /\ entry.content = DiffOf(a)

\* The artifact holds all its agent has committed so far.
Current(a) == artifact[a] = DiffOf(a)

\* A report on its way, and a status it has led to, mean that the artifact is
\* current and no commit will follow; from the diff to the report none does.
ReportsHold ==
  /\ \A e \in events : e.type = "finished" => Current(e.of) /\ child[e.of] \in Over
  /\ \A a \in Agents : status[a] = "COMPLETED" =>
       a \in path /\ Current(a) /\ child[a] \in Over
  /\ \A a \in Agents : child[a] = "cleaning" => Current(a)

\* Evaluations begin when every agent has its verdict, which none loses again.
EvaluationsHold ==
  /\ evaluations # <<>> => \A a \in Agents : status[a] \in Verdicts
  /\ \A i \in DOMAIN evaluations :
       /\ Len(evaluations[i]) <= NumAgents
       /\ \A a \in DOMAIN evaluations[i] : Stands(a, evaluations[i][a])

ResponseHolds ==
  call = "returned" =>
    /\ Len(response) = NumAgents
    /\ \A a \in Agents : Stands(a, response[a])

NewIsEmpty ==
  call = "new" => evaluations = <<>> /\ events = {} /\ \A a \in Agents : child[a] = "none"

Wholeness == ReportsHold /\ EvaluationsHold /\ ResponseHolds /\ NewIsEmpty

LEMMA WholenessInit == DelegationInit => Wholeness
BY DEF DelegationInit, Wholeness, ReportsHold, EvaluationsHold, ResponseHolds, NewIsEmpty

\* What stands goes on standing while children that are over stay over and
\* commits change only under children that are not.
LEMMA StandsOn ==
  ASSUME DelegationTypeOK, NEW a \in Agents, NEW entry, Stands(a, entry),
         child[a] \in Over => child'[a] \in Over /\ commits'[a] = commits[a]
  PROVE  Stands(a, entry)'
BY DEF Stands, DiffOf

\* Indices of evaluations are agents.
LEMMA EvaluationIndices ==
  ASSUME DelegationTypeOK, EvaluationsHold, NEW i \in DOMAIN evaluations
  PROVE  /\ evaluations[i] \in Seq(Entries)
         /\ DOMAIN evaluations[i] = 1..Len(evaluations[i])
         /\ DOMAIN evaluations[i] \subseteq Agents
<1>1. evaluations[i] \in Seq(Entries)
  BY ElementOfSeq, LenProperties DEF DelegationTypeOK
<1>2. Len(evaluations[i]) \in Nat /\ DOMAIN evaluations[i] = 1..Len(evaluations[i])
  BY <1>1, LenProperties
<1> QED
  BY <1>1, <1>2, AgentsAssumption DEF EvaluationsHold, Agents

\* A child's step preserves Wholeness if it leaves the parent alone and keeps
\* what is over.
LEMMA ChildKeepsWholeness ==
  ASSUME DelegationTypeOK, Wholeness, UNCHANGED parent,
         \A a \in Agents :
           child[a] \in Over => /\ child'[a] \in Over
                                /\ commits'[a] = commits[a] /\ artifact'[a] = artifact[a],
         \A a \in Agents : child'[a] = "cleaning" => Current(a)',
         \A e \in events' :
           e \in events \/ (e.type = "finished" => Current(e.of)' /\ child'[e.of] \in Over),
         call # "new"
  PROVE  Wholeness'
<1> USE DEF parent
<1>1. ReportsHold'
  <2>1. ASSUME NEW a \in Agents, child[a] \in Over, Current(a)
        PROVE  Current(a)' /\ child'[a] \in Over
    BY <2>1 DEF Current, DiffOf
  <2>2. \A e \in events : e.of \in Agents
    BY DEF DelegationTypeOK
  <2>3. \A e \in events' : e.type = "finished" => Current(e.of)' /\ child'[e.of] \in Over
    BY <2>1, <2>2 DEF Wholeness, ReportsHold
  <2>4. \A a \in Agents : status'[a] = "COMPLETED" =>
          a \in path' /\ Current(a)' /\ child'[a] \in Over
    BY <2>1 DEF Wholeness, ReportsHold
  <2> QED
    BY <2>3, <2>4 DEF ReportsHold
<1>2. EvaluationsHold'
  <2>1. ASSUME NEW i \in DOMAIN evaluations, NEW a \in DOMAIN evaluations[i]
        PROVE  Stands(a, evaluations[i][a])'
    <3>1. a \in Agents /\ Stands(a, evaluations[i][a])
      BY <2>1, EvaluationIndices DEF Wholeness, EvaluationsHold
    <3> QED
      BY <3>1, StandsOn
  <2> QED
    BY <2>1 DEF Wholeness, EvaluationsHold
<1>3. ResponseHolds'
  BY StandsOn DEF Wholeness, ResponseHolds
<1>4. NewIsEmpty'
  BY DEF NewIsEmpty
<1> QED
  BY <1>1, <1>2, <1>3, <1>4 DEF Wholeness

LEMMA WholenessChild ==
  ASSUME DelegationTypeOK, Wholeness, NEW a \in Agents,
         \/ ChildStep(a) \/ CommitWork(a)
         \/ ForkFails(a) \/ DiffFails(a) \/ CleanupFails(a) \/ Dies(a)
  PROVE  Wholeness'
<1>1. call # "new"
  <2>1. child[a] # "none"
    BY DEF ChildStep, CommitWork, ForkFails, DiffFails, CleanupFails, Dies, Alive,
           InitializeWorktree, EndTask, HitsLimit, WriteDiff, CleanUpAndSend,
           CleanUpAndThrow, Goes
  <2> QED
    BY <2>1 DEF Wholeness, NewIsEmpty
<1>2. UNCHANGED parent
  BY DEF ChildStep, CommitWork, ForkFails, DiffFails, CleanupFails, Dies,
         InitializeWorktree, EndTask, HitsLimit, WriteDiff, CleanUpAndSend,
         CleanUpAndThrow
<1> USE DEF DelegationTypeOK, git, Goes, Over
<1>3. ASSUME child' = [child EXCEPT ![a] = child'[a]],
             UNCHANGED <<commits, artifact>>,
             child[a] \in Over => child'[a] \in Over,
             child'[a] # "cleaning",
             \A e \in events' :
               \/ e \in events \/ e.type # "finished"
               \/ e.of = a /\ child[a] = "cleaning" /\ child'[a] \in Over
      PROVE  Wholeness'
  <2>1. \A b \in Agents : child[b] = "cleaning" => Current(b)'
    BY <1>3 DEF Wholeness, ReportsHold, Current, DiffOf
  <2>2. \A b \in Agents : child'[b] = "cleaning" => child[b] = "cleaning"
    BY <1>3
  <2>3. \A b \in Agents :
          child[b] \in Over => /\ child'[b] \in Over
                               /\ commits'[b] = commits[b] /\ artifact'[b] = artifact[b]
    BY <1>3
  <2>4. \A e \in events' :
          e \in events \/ (e.type = "finished" => Current(e.of)' /\ child'[e.of] \in Over)
    BY <1>3, <2>1
  <2> QED
    BY <1>1, <1>2, <2>1, <2>2, <2>3, <2>4, ChildKeepsWholeness
<1>4. CASE InitializeWorktree(a)
  BY <1>3, <1>4 DEF InitializeWorktree
<1>5. CASE EndTask(a)
  BY <1>3, <1>5 DEF EndTask
<1>6. CASE HitsLimit(a)
  BY <1>3, <1>6 DEF HitsLimit
<1>7. CASE WriteDiff(a)
  <2>1. /\ UNCHANGED <<commits, events>>
        /\ \A b \in Agents \ {a} : child'[b] = child[b] /\ artifact'[b] = artifact[b]
        /\ child[a] = "diffing" /\ child'[a] = "cleaning" /\ artifact'[a] = DiffOf(a)
    BY <1>7 DEF WriteDiff
  <2>2. \A b \in Agents : child'[b] = "cleaning" => Current(b)'
    BY <2>1 DEF Wholeness, ReportsHold, Current, DiffOf
  <2>3. \A b \in Agents :
          child[b] \in Over => /\ child'[b] \in Over
                               /\ commits'[b] = commits[b] /\ artifact'[b] = artifact[b]
    BY <2>1
  <2> QED
    BY <1>1, <1>2, <2>1, <2>2, <2>3, ChildKeepsWholeness
<1>8. CASE CleanUpAndSend(a)
  BY <1>3, <1>8 DEF CleanUpAndSend
<1>9. CASE CleanUpAndThrow(a)
  BY <1>3, <1>9 DEF CleanUpAndThrow, Exit
<1>10. CASE CommitWork(a)
  <2>1. \A b \in Agents :
          child[b] \in Over \union {"cleaning"} => commits'[b] = commits[b]
    BY <1>10 DEF CommitWork
  <2>2. UNCHANGED <<child, artifact, events>>
    BY <1>10 DEF CommitWork
  <2>3. \A b \in Agents : child'[b] = "cleaning" => Current(b)'
    BY <2>1, <2>2 DEF Wholeness, ReportsHold, Current, DiffOf
  <2> QED
    BY <1>1, <1>2, <2>1, <2>2, <2>3, ChildKeepsWholeness
<1>11. CASE ForkFails(a)
  BY <1>3, <1>11 DEF ForkFails
<1>12. CASE DiffFails(a)
  BY <1>3, <1>12 DEF DiffFails
<1>13. CASE CleanupFails(a)
  BY <1>3, <1>13 DEF CleanupFails
<1>14. CASE Dies(a)
  BY <1>3, <1>14 DEF Dies, Exit
<1> QED
  BY <1>4, <1>5, <1>6, <1>7, <1>8, <1>9, <1>10, <1>11, <1>12, <1>13, <1>14
     DEF ChildStep

\* A verdict for one agent, and the evaluation it may begin, keep the others.
LEMMA VerdictKeepsEvaluations ==
  ASSUME DelegationTypeOK, Wholeness, NEW a \in Agents, TaskFinished(a) \/ TaskFailed(a),
         UNCHANGED <<child, commits>>
  PROVE  EvaluationsHold'
<1>1. CASE evaluations' = evaluations
  <2>1. evaluations # <<>> => \A b \in Agents : status'[b] \in Verdicts
    BY DEF TaskFinished, TaskFailed, DelegationTypeOK, Wholeness, EvaluationsHold, Verdicts
  <2>2. ASSUME NEW i \in DOMAIN evaluations, NEW b \in DOMAIN evaluations[i]
        PROVE  Stands(b, evaluations[i][b])'
    <3>1. Stands(b, evaluations[i][b])
      BY <2>2 DEF Wholeness, EvaluationsHold
    <3>2. UNCHANGED <<child, commits, evaluations>>
      BY <1>1
    <3> QED
      BY <3>1, <3>2 DEF Stands, DiffOf
  <2> QED
    BY <1>1, <2>1, <2>2 DEF Wholeness, EvaluationsHold
<1>2. CASE ~HasUnfinished(status') /\ evaluations' = Append(evaluations, <<>>)
  <2>1. status' \in [Agents -> Statuses]
    BY VerdictType
  <2>2. \A b \in Agents : status'[b] \in Verdicts
    BY <1>2, <2>1 DEF HasUnfinished, Statuses, Verdicts
  <2>3. ASSUME NEW i \in DOMAIN evaluations'
        PROVE  \/ i \in DOMAIN evaluations /\ evaluations'[i] = evaluations[i]
               \/ evaluations'[i] = <<>>
    <3>1. <<>> \in Seq(Entries) /\ evaluations \in Seq(Seq(Entries))
      BY EmptySeq DEF DelegationTypeOK
    <3>2. evaluations' = Append(evaluations, <<>>)
      BY <1>2
    <3>3. /\ Append(evaluations, <<>>) \in Seq(Seq(Entries))
          /\ Len(Append(evaluations, <<>>)) = Len(evaluations) + 1
          /\ \A k \in 1..Len(evaluations) : Append(evaluations, <<>>)[k] = evaluations[k]
          /\ Append(evaluations, <<>>)[Len(evaluations) + 1] = <<>>
      BY <3>1, AppendProperties
    <3>4. /\ Len(evaluations) \in Nat /\ DOMAIN evaluations = 1..Len(evaluations)
          /\ DOMAIN evaluations' = 1..(Len(evaluations) + 1)
      BY <3>1, <3>2, <3>3, LenProperties
    <3>5. i = Len(evaluations) + 1 \/ i \in 1..Len(evaluations)
      BY <3>4
    <3> QED
      BY <3>2, <3>3, <3>4, <3>5
  <2>4. ASSUME NEW i \in DOMAIN evaluations'
        PROVE  /\ Len(evaluations'[i]) <= NumAgents
               /\ \A b \in DOMAIN evaluations'[i] : Stands(b, evaluations[i][b])'
    <3>1. CASE evaluations'[i] = <<>>
      BY <3>1, AgentsAssumption
    <3>2. CASE i \in DOMAIN evaluations /\ evaluations'[i] = evaluations[i]
      BY <3>2 DEF Wholeness, EvaluationsHold, Stands, DiffOf
    <3> QED
      BY <2>3, <3>1, <3>2
  <2> QED
    BY <2>2, <2>4 DEF EvaluationsHold
<1> QED
  BY <1>1, <1>2 DEF TaskFinished, TaskFailed, AreAllDone

LEMMA WholenessOrchestrate ==
  ASSUME DelegationTypeOK, Wholeness, Orchestrate
  PROVE  Wholeness'
<1>1. ASSUME NEW e \in events, OnMessage(e) \/ OnExit(e) PROVE Wholeness'
  <2>1. /\ UNCHANGED <<call, response, child, commits, artifact>>
        /\ events' = events \ {e}
    BY <1>1 DEF OnMessage, OnExit, Receive, git
  <2>2. e.of \in Agents
    BY DEF DelegationTypeOK
  <2>3. EvaluationsHold'
    <3>1. CASE TaskFinished(e.of) \/ TaskFailed(e.of)
      BY <2>1, <2>2, <3>1, VerdictKeepsEvaluations
    <3>2. CASE UNCHANGED <<status, path, evaluations>>
      BY <2>1, <3>2 DEF Wholeness, EvaluationsHold, Stands, DiffOf
    <3> QED
      BY <1>1, <3>1, <3>2 DEF OnMessage, OnExit
  <2>4. ReportsHold'
    <3>1. \A f \in events' : f \in events
      BY <2>1
    <3>2. \A a \in Agents : status'[a] = "COMPLETED" =>
            a \in path' /\ Current(a) /\ child[a] \in Over
      BY <1>1, <2>2 DEF OnMessage, OnExit, TaskFinished, TaskFailed, DelegationTypeOK,
                        Wholeness, ReportsHold
    <3> QED
      BY <2>1, <3>1, <3>2 DEF Wholeness, ReportsHold, Current, DiffOf
  <2>5. ResponseHolds'
    BY <2>1 DEF Wholeness, ResponseHolds, Stands, DiffOf
  <2>6. call # "new"
    BY DEF Wholeness, NewIsEmpty
  <2> QED
    BY <2>1, <2>3, <2>4, <2>5, <2>6 DEF Wholeness, NewIsEmpty
<1>2. ASSUME NEW i \in DOMAIN evaluations, ReadEntry(i) PROVE Wholeness'
  <2> DEFINE a == Len(evaluations[i]) + 1
             content == IF a \in path THEN artifact[a] ELSE NoDiff
             entry == [status |-> status[a], content |-> content]
  <2>1. /\ evaluations[i] \in Seq(Entries)
        /\ DOMAIN evaluations[i] = 1..Len(evaluations[i])
        /\ Len(evaluations[i]) \in Nat
    BY EvaluationIndices, LenProperties DEF Wholeness
  <2>2. a \in Agents
    BY <1>2, <2>1, AgentsAssumption DEF ReadEntry, Agents
  <2>3. entry \in Entries
    BY <2>2, EntryType
  <2>4. Stands(a, entry)
    <3>1. status[a] \in Verdicts
      BY <2>2, LenProperties DEF Wholeness, EvaluationsHold
    <3>2. status[a] = "COMPLETED" => a \in path /\ Current(a) /\ child[a] \in Over
      BY <2>2 DEF Wholeness, ReportsHold
    <3> QED
      BY <3>1, <3>2 DEF Stands, Current
  <2> DEFINE grown == Append(evaluations[i], entry)
  <2>5. /\ grown \in Seq(Entries)
        /\ Len(grown) = Len(evaluations[i]) + 1
        /\ DOMAIN grown = 1..(Len(evaluations[i]) + 1)
        /\ \A b \in 1..Len(evaluations[i]) : grown[b] = evaluations[i][b]
        /\ grown[a] = entry
    BY <2>1, <2>3, AppendProperties, LenProperties
  <2>6. \A b \in DOMAIN grown : Stands(b, grown[b])
    BY <2>1, <2>4, <2>5 DEF Wholeness, EvaluationsHold
  <2>7. Len(grown) <= NumAgents
    BY <1>2, <2>1, <2>5, AgentsAssumption DEF ReadEntry
  <2>8. /\ evaluations' = [evaluations EXCEPT ![i] = grown]
        /\ UNCHANGED <<call, status, path, response, child, commits, artifact, events>>
    BY <1>2 DEF ReadEntry, git
  <2> HIDE DEF grown
  <2>9. ASSUME NEW k \in DOMAIN evaluations' 
        PROVE  k \in DOMAIN evaluations
               /\ evaluations'[k] = IF k = i THEN grown ELSE evaluations[k]
    BY <2>8 DEF DelegationTypeOK
  <2>10. EvaluationsHold'
    <3>1. ASSUME NEW k \in DOMAIN evaluations'
          PROVE  /\ Len(evaluations'[k]) <= NumAgents
                 /\ \A b \in DOMAIN evaluations'[k] : Stands(b, evaluations[k][b])'
      BY <2>6, <2>7, <2>8, <2>9 DEF Wholeness, EvaluationsHold, Stands, DiffOf
    <3>2. \A b \in Agents : status[b] \in Verdicts
      BY LenProperties DEF Wholeness, EvaluationsHold
    <3> QED
      BY <2>8, <3>1, <3>2 DEF EvaluationsHold
  <2>11. call # "new"
    BY DEF Wholeness, NewIsEmpty
  <2> QED
    BY <2>8, <2>10, <2>11
       DEF Wholeness, ReportsHold, ResponseHolds, NewIsEmpty, Stands, Current, DiffOf
<1>3. ASSUME NEW i \in DOMAIN evaluations, Resolve(i) PROVE Wholeness'
  <2>1. /\ DOMAIN evaluations[i] = 1..Len(evaluations[i])
        /\ Len(evaluations[i]) = NumAgents
    BY <1>3, EvaluationIndices DEF Wholeness, Resolve
  <2>2. DOMAIN evaluations[i] = Agents
    BY <2>1 DEF Agents
  <2>3. /\ call' = "returned" /\ response' = evaluations[i]
        /\ UNCHANGED <<status, path, evaluations, child, commits, artifact, events>>
    BY <1>3 DEF Resolve, git
  <2>4. ResponseHolds'
    BY <2>1, <2>2, <2>3 DEF Wholeness, EvaluationsHold, ResponseHolds, Stands, DiffOf
  <2> QED
    BY <2>3, <2>4
       DEF Wholeness, ReportsHold, EvaluationsHold, NewIsEmpty, Stands, Current, DiffOf
<1> QED
  BY <1>1, <1>2, <1>3 DEF Orchestrate

LEMMA WholenessStep ==
  DelegationTypeOK /\ Wholeness /\ [DelegationNext]_delegationVars => Wholeness'
<1> SUFFICES ASSUME DelegationTypeOK, Wholeness, [DelegationNext]_delegationVars
             PROVE  Wholeness'
  OBVIOUS
<1>1. CASE SpawnAgents
  <2>1. /\ evaluations' = <<>> /\ events' = {} /\ call' = "waiting"
        /\ \A a \in Agents : status'[a] = "IN_PROGRESS" /\ child'[a] = "booting"
    BY <1>1 DEF SpawnAgents, Wholeness, NewIsEmpty
  <2> QED
    BY <2>1 DEF Wholeness, ReportsHold, EvaluationsHold, ResponseHolds, NewIsEmpty
<1>2. CASE SpawnThrows
  <2>1. /\ evaluations' = <<>> /\ events' = {} /\ call' = "error"
    BY <1>2 DEF SpawnThrows, Wholeness, NewIsEmpty
  <2>2. \/ UNCHANGED <<status, path, artifact, commits, child>>
        \/ \A a \in Agents : status'[a] # "COMPLETED" /\ child'[a] # "cleaning"
    BY <1>2 DEF SpawnThrows, git
  <2> QED
    BY <2>1, <2>2 DEF Wholeness, ReportsHold, EvaluationsHold, ResponseHolds, NewIsEmpty,
                      Current, DiffOf
<1>3. CASE ParentDies
  <2>1. /\ evaluations' = <<>> /\ events' = {} /\ call' = "dead"
        /\ UNCHANGED <<status, path, artifact, commits>>
        /\ \A a \in Agents : child'[a] = "exited"
    BY <1>3 DEF ParentDies, git
  <2> QED
    BY <2>1 DEF Wholeness, ReportsHold, EvaluationsHold, ResponseHolds, NewIsEmpty, Over,
                Current, DiffOf
<1>4. CASE UNCHANGED delegationVars
  BY <1>4 DEF delegationVars, parent, git, Wholeness, ReportsHold, EvaluationsHold,
              ResponseHolds, NewIsEmpty, Stands, Current, DiffOf
<1> QED
  BY <1>1, <1>2, <1>3, <1>4, WholenessOrchestrate, WholenessChild DEF DelegationNext

\* The tool's answer has a verdict for every sub-agent, however reports, errors
\* and exits interleave with the loops of areAllDone.
THEOREM AnswerIsSettled == DelegationSpec => []ResponseSettled
<1>1. Wholeness => ResponseSettled
  BY DEF Wholeness, ResponseHolds, Stands, Verdicts, ResponseSettled
<1> QED
  BY <1>1, DelegationTypeInit, DelegationTypeStep, WholenessInit, WholenessStep, PTL
     DEF DelegationSpec

\* A sub-agent it reports as completed has handed over all the commits it ever
\* made: those its diff was made of, before its branch was deleted, are those.
THEOREM CompletedHandsOver == DelegationSpec => []CompletedIsWhole
<1>1. Wholeness => CompletedIsWhole
  BY DEF Wholeness, ResponseHolds, Stands, CompletedIsWhole, Reported
<1> QED
  BY <1>1, DelegationTypeInit, DelegationTypeStep, WholenessInit, WholenessStep, PTL
     DEF DelegationSpec

-----------------------------------------------------------------------------
(* Nothing left behind                                                     *)

\* As long as nothing has failed, children have a worktree until their diff is
\* made, end by reporting, and those that have reported have removed it.
NothingLeft ==
  failures = 0 =>
    \A a \in Agents : /\ child[a] \notin {"failing", "exited"}
                      /\ child[a] \in {"working", "diffing"} => a \in worktree
                      /\ child[a] = "reported" => a \notin worktree

\* A step of a child changes no other child and no other worktree.
LEMMA NothingLeftChild ==
  ASSUME DelegationTypeOK, NothingLeft, NEW a \in Agents, ChildStep(a) \/ CommitWork(a)
  PROVE  NothingLeft'
<1> USE DEF DelegationTypeOK, NothingLeft
<1>1. CASE InitializeWorktree(a)
  BY <1>1 DEF InitializeWorktree, Goes
<1>2. CASE EndTask(a)
  BY <1>2 DEF EndTask, Goes, git
<1>3. CASE HitsLimit(a)
  BY <1>3 DEF HitsLimit, Goes, git
<1>4. CASE WriteDiff(a)
  BY <1>4 DEF WriteDiff, Goes
<1>5. CASE CleanUpAndSend(a)
  BY <1>5 DEF CleanUpAndSend, Goes
<1>6. CASE CleanUpAndThrow(a)
  BY <1>6 DEF CleanUpAndThrow
<1>7. CASE CommitWork(a)
  BY <1>7 DEF CommitWork
<1> QED
  BY <1>1, <1>2, <1>3, <1>4, <1>5, <1>6, <1>7 DEF ChildStep

LEMMA NothingLeftStep ==
  DelegationTypeOK /\ NothingLeft /\ [DelegationNext]_delegationVars => NothingLeft'
<1> SUFFICES ASSUME DelegationTypeOK, NothingLeft, [DelegationNext]_delegationVars
             PROVE  NothingLeft'
  OBVIOUS
<1>1. CASE Failure
  <2>1. failures' # 0
    BY <1>1, AgentsAssumption DEF Failure, DelegationTypeOK
  <2> QED
    BY <2>1 DEF NothingLeft
<1>2. CASE SpawnAgents
  BY <1>2 DEF SpawnAgents, NothingLeft, git
<1>3. CASE Orchestrate
  BY <1>3 DEF Orchestrate, OnMessage, OnExit, ReadEntry, Resolve, NothingLeft, git
<1>4. CASE \E a \in Agents : ChildStep(a) \/ CommitWork(a)
  BY <1>4, NothingLeftChild
<1>5. CASE UNCHANGED delegationVars
  BY <1>5 DEF delegationVars, git, NothingLeft
<1>6. ASSUME NEW a \in Agents, DiffFails(a), ~Failure PROVE NothingLeft'
  BY <1>6 DEF DiffFails, Goes, git, NothingLeft, DelegationTypeOK
<1>7. ~Failure /\ DelegationNext =>
        \/ SpawnAgents \/ Orchestrate
        \/ \E a \in Agents : ChildStep(a) \/ CommitWork(a) \/ DiffFails(a)
  BY DEF DelegationNext, SpawnThrows, ForkFails, CleanupFails, Dies, ParentDies
<1> QED
  BY <1>1, <1>2, <1>3, <1>4, <1>5, <1>6, <1>7

\* When the answer is given and nothing has failed, none of the sub-agents it
\* reports as completed has left its worktree (the finally block of end, before
\* process.send).
THEOREM CompletedTidiesUp == DelegationSpec => []CompletedIsTidy
<1>1. DelegationInit => NothingLeft
  BY DEF DelegationInit, NothingLeft
<1>2. Wholeness /\ NothingLeft => CompletedIsTidy
  BY DEF Wholeness, ResponseHolds, Stands, Over, NothingLeft, CompletedIsTidy, Reported
<1> QED
  BY <1>1, <1>2, NothingLeftStep, DelegationTypeInit, DelegationTypeStep, WholenessInit,
     WholenessStep, PTL
    DEF DelegationSpec

=============================================================================
