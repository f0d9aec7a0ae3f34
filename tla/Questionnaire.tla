----------------------------- MODULE Questionnaire -----------------------------
(***************************************************************************)
(* Questions and plans of one conversation, from the agent's tools to the  *)
(* cards of a tab and, for a question, back: qnaTool publishes and saves   *)
(* it, a card collects the answers, /qna-reply queues them and the worker  *)
(* resolves the call that waits.  updatePlanTool publishes and saves a     *)
(* plan; a tab shows one bubble for the plans that follow each other.      *)
(*                                                                         *)
(* Published and stored forms of a message are equal (the codecs of        *)
(* @repo/shared), so a question is its correlation id here, a plan a       *)
(* number.  Texts, which only shift the places of bubbles, are left out,   *)
(* and so are questionnaires without questions and those stored before     *)
(* correlation ids were: neither can be answered.                          *)
(***************************************************************************)
EXTENDS MessageDedupe, TLC

CONSTANTS QuestionCount, \* questions of a questionnaire
          Options,
          Plans,         \* contents of a plan; 0 has every step completed
          None,
          MaxTools,      \* bound on the tools' calls
          MaxPrompts,    \* bound on the user's prompts
          MaxPosts,      \* bound on submissions of answers
          MaxFetches,    \* bound on fetches of the history
          MaxFaults      \* failed saves and posts, frames and agents lost

ASSUME QuestionnaireAssumption ==
  /\ QuestionCount \in Nat \ {0}
  /\ Plans \subseteq Nat
  /\ None \notin Options /\ None \notin [1..QuestionCount -> Options]
  /\ MaxTools \in Nat /\ MaxPrompts \in Nat /\ MaxPosts \in Nat
  /\ MaxFetches \in Nat /\ MaxFaults \in Nat

VARIABLES
  turn,       \* where the harness is
  calls,      \* the tools' calls so far: questions asked and plans, in order
  taken,      \* per question, the answers its call returned with
  queue,      \* answers pushed to the agent and not popped
  todo,       \* prompts pushed to the agent and not popped
  rows,       \* message_history
  inbox,      \* frames on their way to the tab
  streamed, cached,
  fetch,      \* NoFetch, or the history a fetch returns with
  card,       \* per question, the state of its card
  post,       \* submissions of answers, in order
  stored,     \* sessionStorage: per question, the answers sent
  missed,     \* history: a frame did not reach the tab
  unsaved,    \* history: a row was not saved
  ignored,    \* history: questions answered when no call waited
  prompts, fetches, faults

agentVars == <<turn, calls, taken, todo>>
tabVars   == <<streamed, cached, fetch, card>>
bounds    == <<prompts, fetches, faults>>
vars == <<agentVars, queue, rows, inbox, tabVars, post,
          stored, missed, unsaved, ignored, bounds>>

Ids     == 1..MaxTools
Indexes == 1..QuestionCount
Answers == [Indexes -> Options \union {None}]
Whole   == [Indexes -> Options]
Empty   == [i \in Indexes |-> None]

Message(role, type, content) == [role |-> role, type |-> type, content |-> content]
Prompt      == Message("user", "text", 0)
Question(q) == Message("assistant", "qna", q)
Reply(q)    == Message("user", "qna", q)
Plan(p)     == Message("assistant", "plan", p)
Messages    == {Prompt} \union {Question(q) : q \in Ids}
                 \union {Reply(q) : q \in Ids} \union {Plan(p) : p \in Plans}

NoFetch == [at |-> "none", rows |-> <<>>]
Asked   == {q \in DOMAIN calls : calls[q].type = "qna"}
Current == Len(calls)

Card(chosen, posting, sent) ==
  [chosen |-> chosen, posting |-> posting, sent |-> sent]

TypeOK ==
  /\ turn \in {"idle", "working", "asking", "waiting", "recording", "planning"}
  /\ calls \in Seq(Messages)
  /\ taken \in [Ids -> Answers \union {None}]
  /\ queue \in Seq([of : Ids, answers : Answers])
  /\ todo \in 0..MaxPrompts
  /\ rows \in Seq(Messages)
  /\ inbox \in Seq(Messages) /\ streamed \in Seq(Messages) /\ cached \in Seq(Messages)
  /\ fetch \in [at : {"none", "read"}, rows : Seq(Messages)]
  /\ card \in [Ids -> [chosen : Answers, posting : BOOLEAN, sent : BOOLEAN]]
  /\ post \in Seq([of : Ids, answers : Answers, mounted : BOOLEAN,
                   stage : {"sent", "pushed", "done", "failed"}])
  /\ stored \in [Ids -> Answers \union {None}]
  /\ missed \in BOOLEAN /\ unsaved \in BOOLEAN /\ ignored \in SUBSET Ids
  /\ prompts \in 0..MaxPrompts /\ fetches \in 0..MaxFetches /\ faults \in 0..MaxFaults

Init ==
  /\ turn = "idle" /\ calls = <<>> /\ todo = 0
  /\ taken = [q \in Ids |-> None] /\ stored = [q \in Ids |-> None]
  /\ queue = <<>> /\ rows = <<>> /\ post = <<>>
  /\ inbox = <<>>
  /\ streamed = <<>> /\ cached = <<>> /\ fetch = NoFetch
  /\ card = [q \in Ids |-> Card(Empty, FALSE, FALSE)]
  /\ missed = FALSE /\ unsaved = FALSE /\ ignored = {}
  /\ prompts = 0 /\ fetches = 0 /\ faults = 0

Fault == faults < MaxFaults /\ faults' = faults + 1

-----------------------------------------------------------------------------
(* The bubbles of the chat: renderableMessages.ts                          *)

Displayed == MergeMessageHistory(cached, streamed)

IsPlanComplete(m) == m.content = 0

\* Mutant of AddBubble: the bubble's message wins over the plan that replaces it.
AddBubbleKeepsFirst(list, m) ==
  LET next     == Len(list.bubbles) + 1
      isUser   == m.role = "user"
      isPlan   == ~isUser /\ m.type = "plan"
      replaces == isPlan /\ list.plan # 0 /\ ~IsPlanComplete(list.bubbles[list.plan])
  IN  CASE isUser              -> [bubbles |-> Append(list.bubbles, m), plan |-> 0]
        [] ~isUser /\ ~isPlan  -> [list EXCEPT !.bubbles = Append(@, m)]
        [] replaces            -> list
        [] isPlan /\ ~replaces -> [bubbles |-> Append(list.bubbles, m), plan |-> next]

\* A plan replaces the plan before it, unless that is complete or a message of
\* the user's came between.
AddBubble(list, m) ==
  LET next     == Len(list.bubbles) + 1
      isUser   == m.role = "user"
      isPlan   == ~isUser /\ m.type = "plan"
      replaces == isPlan /\ list.plan # 0 /\ ~IsPlanComplete(list.bubbles[list.plan])
  IN  CASE isUser              -> [bubbles |-> Append(list.bubbles, m), plan |-> 0]
        [] ~isUser /\ ~isPlan  -> [list EXCEPT !.bubbles = Append(@, m)]
        [] replaces            -> [list EXCEPT !.bubbles[list.plan] = m]
        [] isPlan /\ ~replaces -> [bubbles |-> Append(list.bubbles, m), plan |-> next]

\* buildRenderableMessages.
Bubbles(messages) ==
  LET list[i \in 0..Len(messages)] ==
        IF i = 0 THEN [bubbles |-> <<>>, plan |-> 0]
        ELSE AddBubble(list[i - 1], messages[i])
  IN  list[Len(messages)].bubbles

\* The key of a question's bubble: whether it came from the history, which gives
\* it another time, and its place.
Key(q, history, stream) ==
  LET bubbles == Bubbles(MergeMessageHistory(history, stream))
  IN  [stored |-> Count(history, Question(q)) > 0,
       places |-> {i \in DOMAIN bubbles : bubbles[i] = Question(q)}]

Shown(q) == Count(cached, Question(q)) + Count(streamed, Question(q)) > 0

\* A card whose answers were sent only lets the user look through them, which is
\* left out.
SentCard(answers) == Card(answers, FALSE, TRUE)

\* A card that mounts takes the answers of sessionStorage.
Fresh(q) ==
  IF stored[q] = None THEN Card(Empty, FALSE, FALSE) ELSE SentCard(stored[q])

Remount(remounted) ==
  /\ card' = [q \in Ids |-> IF q \in remounted THEN Fresh(q) ELSE card[q]]
  /\ post' = [i \in DOMAIN post |->
                [post[i] EXCEPT !.mounted = @ /\ post[i].of \notin remounted]]

-----------------------------------------------------------------------------
(* The agent: qnaTool, updatePlanTool, saveMessageHistory, comms.ts        *)

\* A frame published while the tab has no socket (Browser) is not heard.
Publish(m) ==
  \/ inbox' = Append(inbox, m) /\ UNCHANGED <<missed, faults>>
  \/ Fault /\ missed' = TRUE /\ UNCHANGED inbox

\* An error of the database is logged and forgotten.
Save(m) ==
  \/ rows' = Append(rows, m) /\ UNCHANGED <<unsaved, faults>>
  \/ Fault /\ unsaved' = TRUE /\ UNCHANGED rows

Begin ==
  /\ turn = "idle" /\ todo > 0
  /\ turn' = "working" /\ todo' = todo - 1
  /\ UNCHANGED <<calls, taken, queue, rows, inbox, tabVars, post, stored,
                 missed, unsaved, ignored, bounds>>

Call(m, next) ==
  /\ turn = "working" /\ Len(calls) < MaxTools
  /\ turn' = next
  /\ calls' = Append(calls, m)
  /\ Publish(m)
  /\ UNCHANGED <<taken, todo, queue, rows, tabVars, post, stored, unsaved,
                 ignored, prompts, fetches>>

AskQuestions  == Call(Question(Len(calls) + 1), "asking")
UpdatePlan(p) == Call(Plan(p), "planning")

\* saveToDB, awaited: of the question, of the plan, of the answers.
SaveRow ==
  /\ \/ turn = "asking" /\ turn' = "waiting" /\ Save(calls[Current])
     \/ turn = "planning" /\ turn' = "working" /\ Save(calls[Current])
     \/ turn = "recording" /\ turn' = "working" /\ Save(Reply(Current))
  /\ UNCHANGED <<calls, taken, todo, queue, inbox, tabVars, post, stored,
                 missed, ignored, prompts, fetches>>

\* Mutant of PopAnswer: whichever call waits takes the answers.
PopAnswerAnyCall ==
  /\ queue # <<>> /\ queue' = Tail(queue)
  /\ IF turn = "waiting"
       THEN /\ turn' = "recording"
            /\ taken' = [taken EXCEPT ![Current] = Head(queue).answers]
            /\ UNCHANGED ignored
       ELSE /\ ignored' = ignored \union {Head(queue).of}
            /\ UNCHANGED <<turn, taken>>
  /\ UNCHANGED <<calls, todo, rows, inbox, tabVars, post, stored, missed,
                 unsaved, bounds>>

\* dispatch and resolveResponse: answers whose call does not wait are dropped,
\* one that has its answers already keeps them.
PopAnswer ==
  /\ queue # <<>> /\ queue' = Tail(queue)
  /\ IF turn = "waiting" /\ Head(queue).of = Current
       THEN /\ turn' = "recording"
            /\ taken' = [taken EXCEPT ![Current] = Head(queue).answers]
            /\ UNCHANGED ignored
       ELSE /\ ignored' = ignored \union {Head(queue).of}
            /\ UNCHANGED <<turn, taken>>
  /\ UNCHANGED <<calls, todo, rows, inbox, tabVars, post, stored, missed,
                 unsaved, bounds>>

EndTurn ==
  /\ turn = "working" /\ turn' = "idle"
  /\ UNCHANGED <<calls, taken, todo, queue, rows, inbox, tabVars, post, stored,
                 missed, unsaved, ignored, bounds>>

\* Another process takes over: comms, the calls that wait, is gone.
AgentRestarts ==
  /\ turn # "idle" /\ Fault
  /\ turn' = "idle"
  /\ unsaved' = (unsaved \/ turn \in {"asking", "planning", "recording"})
  /\ UNCHANGED <<calls, taken, todo, queue, rows, inbox, tabVars, post, stored,
                 missed, ignored, prompts, fetches>>

-----------------------------------------------------------------------------
(* The tab: stream, history, prompts                                       *)

Hear ==
  /\ inbox # <<>>
  /\ inbox' = Tail(inbox)
  /\ streamed' = Append(streamed, Head(inbox))
  /\ UNCHANGED <<agentVars, queue, rows, cached, fetch, card, post, stored,
                 missed, unsaved, ignored, bounds>>

ReadHistory ==
  /\ fetch = NoFetch /\ fetches < MaxFetches
  /\ fetches' = fetches + 1
  /\ fetch' = [at |-> "read", rows |-> rows]
  /\ UNCHANGED <<agentVars, queue, rows, inbox, streamed, cached, card, post,
                 stored, missed, unsaved, ignored, prompts, faults>>

\* Cards whose key changes mount anew; so do all of them when the details say for
\* the first time that the app is being built, which gives the page another layout.
FetchReturns ==
  /\ fetch.at = "read"
  /\ cached' = fetch.rows
  /\ fetch' = NoFetch
  /\ \E relaid \in BOOLEAN :
       Remount({q \in Asked : relaid \/ Key(q, cached, streamed) # Key(q, fetch.rows, streamed)})
  /\ UNCHANGED <<agentVars, queue, rows, inbox, streamed, stored, missed,
                 unsaved, ignored, bounds>>

\* Shown, saved and queued at once; apart in Browser and Conversations.  Bound:
\* the user waits for the end of a turn.
SendPrompt ==
  /\ turn = "idle" /\ todo = 0
  /\ prompts < MaxPrompts /\ prompts' = prompts + 1
  /\ streamed' = Append(streamed, Prompt)
  /\ rows' = Append(rows, Prompt)
  /\ todo' = todo + 1
  /\ UNCHANGED <<turn, calls, taken, queue, inbox, cached, fetch, card, post,
                 stored, missed, unsaved, ignored, fetches, faults>>

-----------------------------------------------------------------------------
(* A card: QnAMessage.tsx                                                  *)

CardStep ==
  UNCHANGED <<agentVars, queue, rows, inbox, streamed, cached, fetch, stored,
              missed, unsaved, ignored, bounds>>

Filling(q) == card[q].chosen # Empty /\ ~card[q].posting /\ ~card[q].sent

\* A choice for the question the card is at, which the dots, Back, Next and the
\* timers of 180 ms that each choice starts make any of them.  Options are
\* disabled once the answers are on their way.  Bounds: one card is filled at a
\* time, and none that could not be submitted any more.
SelectOption(q, i, o) ==
  /\ ~card[q].posting /\ ~card[q].sent /\ Shown(q)
  /\ Len(post) < MaxPosts /\ \A other \in Asked \ {q} : ~Filling(other)
  /\ card' = [card EXCEPT ![q].chosen[i] = o]
  /\ UNCHANGED post /\ CardStep

SubmitAnswers(q) ==
  LET c == card[q]
  IN  /\ Shown(q) /\ Len(post) < MaxPosts
      /\ c.chosen \in Whole /\ ~c.posting /\ ~c.sent
      /\ card' = [card EXCEPT ![q].posting = TRUE]
      /\ post' = Append(post, [of |-> q, answers |-> c.chosen, mounted |-> TRUE,
                               stage |-> "sent"])
      /\ CardStep

\* handleAnswers.
PostArrives(i) ==
  /\ post[i].stage = "sent"
  /\ post' = [post EXCEPT ![i].stage = "pushed"]
  /\ queue' = Append(queue, [of |-> post[i].of, answers |-> post[i].answers])
  /\ UNCHANGED <<agentVars, rows, inbox, tabVars, stored, missed, unsaved,
                 ignored, bounds>>

Settle(i, stage) ==
  LET q == post[i].of
  IN  /\ post' = [post EXCEPT ![i].stage = stage, ![i].mounted = FALSE]
      /\ card' = IF post[i].mounted
                   THEN [card EXCEPT ![q] = IF stage = "done" THEN SentCard(@.chosen)
                                            ELSE [@ EXCEPT !.posting = FALSE]]
                   ELSE card
      /\ UNCHANGED <<agentVars, queue, rows, inbox, streamed, cached, fetch,
                     missed, unsaved, ignored, prompts, fetches>>

\* Mutant of PostReturns: what the card shows by now is stored.
PostReturnsStoresCard(i) ==
  /\ post[i].stage = "pushed"
  /\ stored' = [stored EXCEPT ![post[i].of] = card[post[i].of].chosen]
  /\ Settle(i, "done") /\ UNCHANGED faults

\* storeAnswers runs for a card that is gone too.
PostReturns(i) ==
  /\ post[i].stage = "pushed"
  /\ stored' = [stored EXCEPT ![post[i].of] = post[i].answers]
  /\ Settle(i, "done") /\ UNCHANGED faults

\* Request or response is lost.
PostFails(i) ==
  /\ post[i].stage \in {"sent", "pushed"} /\ Fault
  /\ Settle(i, "failed") /\ UNCHANGED stored

-----------------------------------------------------------------------------
Next ==
  \/ Begin \/ AskQuestions \/ SaveRow \/ PopAnswer \/ EndTurn \/ AgentRestarts
  \/ \E p \in Plans : UpdatePlan(p)
  \/ Hear \/ ReadHistory \/ FetchReturns
  \/ SendPrompt
  \/ \E q \in Asked :
       \/ SubmitAnswers(q)
       \/ \E i \in Indexes, o \in Options : SelectOption(q, i, o)
  \/ \E i \in DOMAIN post : PostArrives(i) \/ PostReturns(i) \/ PostFails(i)

Spec == Init /\ [][Next]_vars

Symmetry == Permutations(Options)

-----------------------------------------------------------------------------
(* Properties                                                              *)

\* What the harness goes on with is one choice for every question, as a card of
\* that very questionnaire had it when it was submitted: however quickly the
\* user clicks past questions, and whatever answers reach the agent late, twice
\* or after a restart.
AnswersAreWhole ==
  \A q \in Ids : taken[q] # None =>
    /\ taken[q] \in Whole
    /\ \E i \in DOMAIN post : post[i].of = q /\ post[i].answers = taken[q]

\* "Submitting answers is the source of truth; storage only prevents duplicate
\* UI submits after a refetch" (QnAMessage.tsx): the answers that a card shows as
\* sent from then on are the ones the harness takes, whatever frames, rows and
\* responses overtake each other, unless some came while no call waited for them.
SentIsReceived ==
  \A q \in Ids :
    stored[q] # None =>
      \/ taken[q] = stored[q] \/ q \in ignored
      \/ [of |-> q, answers |-> stored[q]] \in {queue[i] : i \in DOMAIN queue}

PlansIn(messages) == {i \in DOMAIN messages : messages[i].type = "plan"}
Known == LET max(m, n) == IF m > n THEN m ELSE n
         IN  max(Cardinality(PlansIn(cached)), Cardinality(PlansIn(streamed)))

\* A tab that has heard every frame shows the last plan it has heard of or read,
\* as the last one, even if plans repeat, the history returns late or lacks
\* rows yet; and it shows no superseded plan: one that is followed by another
\* without a message of the user's between them is complete.
PlanShownIsLatest ==
  LET bubbles == Bubbles(Displayed)
      shown   == PlansIn(bubbles)
  IN  ~missed /\ ~unsaved /\ Known > 0 =>
        /\ \E i \in shown, p \in PlansIn(calls) :
             /\ \A j \in shown : j <= i
             /\ Rank(PlansIn(calls), p) = Known
             /\ bubbles[i] = calls[p]
        /\ \A i, j \in shown :
             i < j /\ (\A k \in i..j : bubbles[k].role # "user")
               => IsPlanComplete(bubbles[i])

=============================================================================
