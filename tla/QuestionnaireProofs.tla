------------------------- MODULE QuestionnaireProofs -------------------------
(***************************************************************************)
(* Theorems about the answers and the plans of Questionnaire, for          *)
(* questionnaires of any length with any options, and any number of calls, *)
(* prompts, submissions, fetches and faults.                               *)
(***************************************************************************)
EXTENDS Questionnaire, FiniteSetTheorems, FunctionTheorems, SequenceTheorems,
        WellFoundedInduction, TLAPS

-----------------------------------------------------------------------------
(* The exchange: what submissions, queue, calls and sessionStorage hold    *)

Posts   == [of : Ids, answers : Whole, mounted : BOOLEAN,
            stage : {"sent", "pushed", "done", "failed"}]
Replies == [of : Ids, answers : Whole]

ExchangeTyped ==
  /\ calls \in Seq(Messages) /\ Len(calls) <= MaxTools
  /\ taken \in [Ids -> Whole \union {None}]
  /\ stored \in [Ids -> Whole \union {None}]
  /\ queue \in Seq(Replies)
  /\ post \in Seq(Posts)

\* A call gets answers once: those to come and the one that waits have none.
TakenOnce ==
  \A q \in Ids :
    q > Current \/ (q = Current /\ turn \in {"asking", "waiting"}) => taken[q] = None

Posted(q, answers) ==
  \E i \in DOMAIN post : post[i].of = q /\ post[i].answers = answers

QueueIsPosted == \A j \in DOMAIN queue : Posted(queue[j].of, queue[j].answers)
TakenIsPosted == \A q \in Ids : taken[q] # None => Posted(q, taken[q])

StoredIsDone ==
  \A q \in Ids : stored[q] # None =>
    \E i \in DOMAIN post : /\ post[i].of = q /\ post[i].answers = stored[q]
                           /\ post[i].stage = "done"

Accounted(q, answers) ==
  \/ taken[q] = answers
  \/ q \in ignored
  \/ \E j \in DOMAIN queue : queue[j].of = q /\ queue[j].answers = answers

\* Answers that the backend has pushed wait in the queue, have been taken by
\* their call, or came when it did not wait.
PushedIsAccounted ==
  \A i \in DOMAIN post :
    post[i].stage \in {"pushed", "done"} => Accounted(post[i].of, post[i].answers)

Exchange ==
  /\ ExchangeTyped /\ TakenOnce
  /\ QueueIsPosted /\ TakenIsPosted /\ StoredIsDone /\ PushedIsAccounted

exchangeVars == <<turn, calls, taken, queue, post, stored, ignored>>

LEMMA ExchangeInit == Init => Exchange
<1> SUFFICES ASSUME Init PROVE Exchange
  OBVIOUS
<1>1. ExchangeTyped
  <2>1. /\ calls = <<>> /\ queue = <<>> /\ post = <<>>
        /\ taken \in [Ids -> Whole \union {None}]
        /\ stored \in [Ids -> Whole \union {None}]
    BY DEF Init
  <2>2. Len(calls) <= MaxTools
    BY <2>1, QuestionnaireAssumption
  <2> QED
    BY <2>1, <2>2, EmptySeq DEF ExchangeTyped
<1>2. TakenOnce /\ TakenIsPosted /\ StoredIsDone
  BY DEF Init, TakenOnce, TakenIsPosted, StoredIsDone
<1>3. QueueIsPosted /\ PushedIsAccounted
  BY DEF Init, QueueIsPosted, PushedIsAccounted
<1> QED
  BY <1>1, <1>2, <1>3 DEF Exchange

\* Steps of the tab and of the database that leave the exchange alone.
LEMMA ExchangeAside == ASSUME Exchange, UNCHANGED exchangeVars PROVE Exchange'
BY DEF Exchange, exchangeVars, ExchangeTyped, TakenOnce, Current, QueueIsPosted,
       TakenIsPosted, StoredIsDone, PushedIsAccounted, Posted, Accounted

\* The harness moves on, without beginning to wait for a call it has answered.
LEMMA ExchangeTurn ==
  ASSUME Exchange, UNCHANGED <<calls, taken, queue, post, stored, ignored>>,
         turn' \in {"asking", "waiting"} => turn \in {"asking", "waiting"}
  PROVE  Exchange'
<1>1. TakenOnce'
  BY DEF Exchange, TakenOnce, Current
<1> QED
  BY <1>1 DEF Exchange, ExchangeTyped, QueueIsPosted, TakenIsPosted, StoredIsDone,
    PushedIsAccounted, Posted, Accounted

LEMMA ExchangeCall ==
  ASSUME Exchange, NEW m \in Messages, NEW next, Call(m, next)
  PROVE  Exchange'
<1>1. /\ calls' = Append(calls, m) /\ Len(calls) < MaxTools
      /\ UNCHANGED <<taken, queue, post, stored, ignored>>
  BY DEF Call
<1>2. calls' \in Seq(Messages) /\ Len(calls') = Len(calls) + 1
  BY <1>1, AppendProperties DEF Exchange, ExchangeTyped
<1>3. Len(calls') <= MaxTools /\ Len(calls) \in Nat
  BY <1>1, <1>2, QuestionnaireAssumption DEF Exchange, ExchangeTyped
<1>4. TakenOnce'
  BY <1>1, <1>2, <1>3, QuestionnaireAssumption DEF Exchange, TakenOnce, Current, Ids
<1>5. ExchangeTyped'
  BY <1>1, <1>2, <1>3 DEF Exchange, ExchangeTyped
<1> QED
  BY <1>1, <1>4, <1>5 DEF Exchange, QueueIsPosted, TakenIsPosted, StoredIsDone,
    PushedIsAccounted, Posted, Accounted

LEMMA PostsAre ==
  ASSUME Exchange, NEW i \in DOMAIN post
  PROVE  post[i] \in Posts /\ post[i].of \in Ids /\ post[i].answers \in Whole
<1>1. post \in Seq(Posts) /\ i \in 1..Len(post)
  BY LenProperties DEF Exchange, ExchangeTyped
<1>2. post[i] \in Posts
  BY <1>1, ElementOfSeq
<1> QED
  BY <1>2 DEF Posts

\* The oldest answers are taken by the call that waits for them, or dropped.
LEMMA ExchangePop == ASSUME Exchange, PopAnswer PROVE Exchange'
<1> DEFINE h == Head(queue)
<1> USE DEF Exchange
<1>1. queue # <<>> /\ queue' = Tail(queue) /\ UNCHANGED <<calls, post, stored>>
  BY DEF PopAnswer
<1>2. /\ h \in Replies /\ queue' \in Seq(Replies)
      /\ 1 \in DOMAIN queue /\ h = queue[1]
      /\ \A j \in DOMAIN queue' : j + 1 \in DOMAIN queue /\ queue'[j] = queue[j + 1]
      /\ \A j \in DOMAIN queue : j = 1 \/ (j - 1 \in DOMAIN queue' /\ queue[j] = queue'[j - 1])
  BY <1>1, HeadTailProperties, LenProperties DEF ExchangeTyped
<1>3. /\ h.of \in Ids /\ h.answers \in Whole /\ h.answers # None
      /\ Posted(h.of, h.answers)
  BY <1>2, QuestionnaireAssumption DEF Replies, Whole, Indexes, QueueIsPosted
<1>4. \A q, a : Posted(q, a)' <=> Posted(q, a)
  BY <1>1 DEF Posted
<1>5. QueueIsPosted'
  BY <1>2, <1>4 DEF QueueIsPosted
<1>6. StoredIsDone'
  BY <1>1 DEF StoredIsDone
<1>7. CASE turn = "waiting" /\ h.of = Current
  <2>1. /\ turn' = "recording" /\ ignored' = ignored
        /\ taken' = [taken EXCEPT ![h.of] = h.answers]
    BY <1>7 DEF PopAnswer
  <2>2. taken[h.of] = None
    BY <1>3, <1>7 DEF TakenOnce
  <2>3. taken' \in [Ids -> Whole \union {None}]
    BY <1>3, <2>1 DEF ExchangeTyped
  <2>4. ExchangeTyped'
    BY <1>1, <1>2, <2>3 DEF ExchangeTyped
  <2>5. TakenOnce'
    BY <1>1, <1>7, <2>1, <2>3 DEF TakenOnce, Current, ExchangeTyped
  <2>6. TakenIsPosted'
    BY <1>3, <1>4, <2>1 DEF TakenIsPosted, ExchangeTyped
  <2>7. ASSUME NEW q \in Ids, NEW a \in Whole, Accounted(q, a) PROVE Accounted(q, a)'
    <3>0. a # None
      BY QuestionnaireAssumption DEF Whole, Indexes
    <3>1. CASE taken[q] = a
      BY <2>1, <2>2, <3>0, <3>1 DEF Accounted, ExchangeTyped
    <3>2. CASE q \in ignored
      BY <2>1, <3>2 DEF Accounted
    <3>3. ASSUME NEW j \in DOMAIN queue, queue[j].of = q, queue[j].answers = a
          PROVE  Accounted(q, a)'
      <4>1. CASE j = 1
        BY <1>2, <1>3, <2>1, <3>3, <4>1 DEF Accounted, ExchangeTyped
      <4>2. CASE j # 1
        BY <1>2, <3>3, <4>2 DEF Accounted
      <4> QED
        BY <4>1, <4>2
    <3> QED
      BY <2>7, <3>1, <3>2, <3>3 DEF Accounted
  <2>8. PushedIsAccounted'
    <3>1. \A i \in DOMAIN post : post[i].of \in Ids /\ post[i].answers \in Whole
      BY PostsAre
    <3> QED
      BY <1>1, <2>7, <3>1 DEF PushedIsAccounted
  <2> QED
    BY <1>5, <1>6, <2>4, <2>5, <2>6, <2>8
<1>8. CASE ~(turn = "waiting" /\ h.of = Current)
  <2>1. UNCHANGED <<turn, taken>> /\ ignored' = ignored \union {h.of}
    BY <1>8 DEF PopAnswer
  <2>2. ExchangeTyped'
    BY <1>1, <1>2, <2>1 DEF ExchangeTyped
  <2>3. TakenOnce' /\ TakenIsPosted'
    BY <1>1, <1>4, <2>1 DEF TakenOnce, TakenIsPosted, Current
  <2>4. ASSUME NEW q, NEW a, Accounted(q, a) PROVE Accounted(q, a)'
    BY <1>2, <2>1, <2>4 DEF Accounted
  <2>5. PushedIsAccounted'
    BY <1>1, <2>4 DEF PushedIsAccounted
  <2> QED
    BY <1>5, <1>6, <2>2, <2>3, <2>5
<1> QED
  BY <1>7, <1>8

\* Submissions keep what they hold while their cards and stages change.
LEMMA ExchangeStages ==
  ASSUME Exchange, UNCHANGED <<turn, calls, taken, queue, ignored>>,
         post' \in Seq(Posts), DOMAIN post' = DOMAIN post,
         \A i \in DOMAIN post : /\ post'[i].of = post[i].of
                                /\ post'[i].answers = post[i].answers
                                /\ post[i].stage = "done" => post'[i].stage = "done"
                                /\ post'[i].stage \in {"pushed", "done"} =>
                                     post[i].stage \in {"pushed", "done"},
         stored' \in [Ids -> Whole \union {None}],
         \A q \in Ids : stored'[q] = stored[q]
                          \/ \E i \in DOMAIN post : /\ post[i].of = q
                                                    /\ post[i].answers = stored'[q]
                                                    /\ post'[i].stage = "done"
  PROVE  Exchange'
<1> USE DEF Exchange
<1>1. ExchangeTyped' /\ TakenOnce'
  BY DEF ExchangeTyped, TakenOnce, Current
<1>2. \A q, a : Posted(q, a) => Posted(q, a)'
  BY DEF Posted
<1>3. QueueIsPosted' /\ TakenIsPosted'
  BY <1>2 DEF QueueIsPosted, TakenIsPosted
<1>4. StoredIsDone'
  BY DEF StoredIsDone
<1>5. PushedIsAccounted'
  BY DEF PushedIsAccounted, Accounted
<1> QED
  BY <1>1, <1>3, <1>4, <1>5

\* A submission that changes its stage, and may unmount.
LEMMA OnePost ==
  ASSUME Exchange, NEW i \in DOMAIN post, NEW r \in Posts,
         post' = [post EXCEPT ![i] = r]
  PROVE  /\ post' \in Seq(Posts) /\ DOMAIN post' = DOMAIN post
         /\ post'[i] = r
         /\ \A j \in DOMAIN post : j # i => post'[j] = post[j]
<1>1. post \in Seq(Posts) /\ i \in 1..Len(post)
  BY LenProperties DEF Exchange, ExchangeTyped
<1> QED
  BY <1>1, ExceptSeq, LenProperties

LEMMA ExchangeRemount == ASSUME Exchange, FetchReturns PROVE Exchange'
<1>1. PICK remounted : Remount(remounted)
  BY DEF FetchReturns
<1>2. UNCHANGED <<turn, calls, taken, queue, stored, ignored>>
  BY DEF FetchReturns, agentVars
<1>3. post' = [i \in DOMAIN post |->
                 [post[i] EXCEPT !.mounted = @ /\ post[i].of \notin remounted]]
  BY <1>1 DEF Remount
<1>4. post \in Seq(Posts) /\ DOMAIN post = 1..Len(post) /\ Len(post) \in Nat
  BY LenProperties DEF Exchange, ExchangeTyped
<1>5. ASSUME NEW i \in DOMAIN post
      PROVE  /\ post'[i] \in Posts
             /\ post'[i].of = post[i].of /\ post'[i].answers = post[i].answers
             /\ post'[i].stage = post[i].stage
  <2>1. post[i] \in Posts
    BY PostsAre
  <2>2. PICK b \in BOOLEAN : post'[i] = [post[i] EXCEPT !.mounted = b]
    BY <1>3
  <2> QED
    BY <2>1, <2>2 DEF Posts
<1>6. post' \in Seq(Posts) /\ DOMAIN post' = DOMAIN post
  <2>1. post' \in [1..Len(post) -> Posts]
    BY <1>3, <1>4, <1>5
  <2> QED
    BY <1>4, <2>1, SeqDef
<1>7. stored' \in [Ids -> Whole \union {None}]
  BY <1>2 DEF Exchange, ExchangeTyped
<1> QED
  BY <1>2, <1>5, <1>6, <1>7, ExchangeStages

\* A response stores what the submission holds, not what the card has become.
LEMMA ExchangeReturns ==
  ASSUME Exchange, NEW i \in DOMAIN post, PostReturns(i) \/ PostFails(i)
  PROVE  Exchange'
<1>1. PICK stage \in {"done", "failed"} :
        /\ post' = [post EXCEPT ![i].stage = stage, ![i].mounted = FALSE]
        /\ \/ stage = "done" /\ stored' = [stored EXCEPT ![post[i].of] = post[i].answers]
           \/ stored' = stored
        /\ stage = "done" => post[i].stage = "pushed"
        /\ stage = "failed" => post[i].stage # "done"
        /\ UNCHANGED <<turn, calls, taken, queue, ignored>>
  <2>1. CASE PostReturns(i)
    BY <2>1 DEF PostReturns, Settle, agentVars
  <2>2. CASE PostFails(i)
    BY <2>2 DEF PostFails, Settle, agentVars
  <2> QED
    BY <2>1, <2>2
<1> DEFINE r == [post[i] EXCEPT !.stage = stage, !.mounted = FALSE]
<1>2. post[i] \in Posts /\ post[i].of \in Ids /\ post[i].answers \in Whole
  BY PostsAre
<1>3. /\ r.of = post[i].of /\ r.answers = post[i].answers /\ r.stage = stage
      /\ r.mounted = FALSE
      /\ r \in [of : Ids, answers : Whole, mounted : {FALSE}, stage : {"done", "failed"}]
  BY <1>2 DEF Posts
<1>4. r \in Posts
  BY <1>3 DEF Posts
<1>5. post' = [post EXCEPT ![i] = r]
  BY <1>1
<1> HIDE DEF r
<1>6. /\ post' \in Seq(Posts) /\ DOMAIN post' = DOMAIN post
      /\ post'[i] = r
      /\ \A j \in DOMAIN post : j # i => post'[j] = post[j]
  BY <1>4, <1>5, OnePost
<1>7. stored' \in [Ids -> Whole \union {None}]
  BY <1>1, <1>2 DEF Exchange, ExchangeTyped
<1>8. \A q \in Ids : stored'[q] = stored[q]
                       \/ (q = post[i].of /\ stored'[q] = post[i].answers /\ stage = "done")
  BY <1>1, <1>2 DEF Exchange, ExchangeTyped
<1>9. \A q \in Ids : stored'[q] = stored[q]
                       \/ \E k \in DOMAIN post : /\ post[k].of = q
                                                 /\ post[k].answers = stored'[q]
                                                 /\ post'[k].stage = "done"
  BY <1>3, <1>6, <1>8
<1>10. \A j \in DOMAIN post : /\ post'[j].of = post[j].of
                              /\ post'[j].answers = post[j].answers
                              /\ post[j].stage = "done" => post'[j].stage = "done"
                              /\ post'[j].stage \in {"pushed", "done"} =>
                                   post[j].stage \in {"pushed", "done"}
  BY <1>1, <1>3, <1>6
<1> QED
  BY <1>1, <1>6, <1>7, <1>9, <1>10, ExchangeStages

\* Answers go to the queue as they were submitted.
LEMMA ExchangePush == ASSUME Exchange, NEW i \in DOMAIN post, PostArrives(i) PROVE Exchange'
<1> DEFINE r == [post[i] EXCEPT !.stage = "pushed"]
<1> DEFINE a == [of |-> post[i].of, answers |-> post[i].answers]
<1>1. /\ post[i].stage = "sent" /\ post' = [post EXCEPT ![i] = r]
      /\ queue' = Append(queue, a)
      /\ UNCHANGED <<turn, calls, taken, stored, ignored>>
  BY DEF PostArrives, agentVars
<1>2. post[i] \in Posts /\ post[i].of \in Ids /\ post[i].answers \in Whole
  BY PostsAre
<1>3. r \in Posts /\ r.of = post[i].of /\ r.answers = post[i].answers /\ r.stage = "pushed"
  BY <1>2 DEF Posts
<1>4. a \in Replies /\ a.of = post[i].of /\ a.answers = post[i].answers
  BY <1>2 DEF Replies
<1> HIDE DEF r, a
<1>5. /\ post' \in Seq(Posts) /\ DOMAIN post' = DOMAIN post
      /\ post'[i] = r
      /\ \A j \in DOMAIN post : j # i => post'[j] = post[j]
  BY <1>1, <1>3, OnePost
<1>6. \A j \in DOMAIN post : /\ post'[j].of = post[j].of
                             /\ post'[j].answers = post[j].answers
                             /\ post[j].stage = "done" => post'[j].stage = "done"
  BY <1>1, <1>3, <1>5
<1>7. /\ queue' \in Seq(Replies)
      /\ \A j \in DOMAIN queue : j \in DOMAIN queue' /\ queue'[j] = queue[j]
      /\ \A j \in DOMAIN queue' : (j \in DOMAIN queue /\ queue'[j] = queue[j]) \/ queue'[j] = a
      /\ \E j \in DOMAIN queue' : queue'[j] = a
  BY <1>1, <1>4, AppendProperties, LenProperties DEF Exchange, ExchangeTyped
<1>8. \A q, b : Posted(q, b) => Posted(q, b)'
  BY <1>5, <1>6 DEF Posted
<1>9. ExchangeTyped' /\ TakenOnce'
  BY <1>1, <1>5, <1>7 DEF Exchange, ExchangeTyped, TakenOnce, Current
<1>10. Posted(a.of, a.answers)
  BY <1>4 DEF Posted
<1>11. QueueIsPosted' /\ TakenIsPosted'
  BY <1>1, <1>7, <1>8, <1>10 DEF Exchange, QueueIsPosted, TakenIsPosted
<1>12. StoredIsDone'
  BY <1>1, <1>5, <1>6 DEF Exchange, StoredIsDone
<1>13. \A q, b : Accounted(q, b) => Accounted(q, b)'
  BY <1>1, <1>7 DEF Accounted
<1>14. \E j \in DOMAIN queue' : queue'[j].of = post[i].of /\ queue'[j].answers = post[i].answers
  BY <1>4, <1>7
<1>15. PushedIsAccounted'
  <2> SUFFICES ASSUME NEW j \in DOMAIN post, post'[j].stage \in {"pushed", "done"}
               PROVE  Accounted(post[j].of, post[j].answers)'
    BY <1>5, <1>6 DEF PushedIsAccounted, Accounted
  <2>1. CASE j = i
    BY <1>1, <1>4, <1>6, <1>14, <2>1 DEF Accounted
  <2>2. CASE j # i
    <3>1. Accounted(post[j].of, post[j].answers)
      BY <1>5, <2>2 DEF Exchange, PushedIsAccounted
    <3> QED
      BY <1>1, <1>7, <3>1, <1>5, <2>2 DEF Accounted
  <2> QED
    BY <2>1, <2>2
<1> QED
  BY <1>9, <1>11, <1>12, <1>15 DEF Exchange

\* A card submits whole answers only.
LEMMA ExchangeSubmit == ASSUME Exchange, NEW q \in Asked, SubmitAnswers(q) PROVE Exchange'
<1> DEFINE r == [of |-> q, answers |-> card[q].chosen, mounted |-> TRUE, stage |-> "sent"]
<1>1. /\ card[q].chosen \in Whole /\ post' = Append(post, r)
      /\ UNCHANGED <<turn, calls, taken, queue, stored, ignored>>
  BY DEF SubmitAnswers, CardStep, agentVars
<1>2. q \in Ids
  BY LenProperties, QuestionnaireAssumption DEF Asked, Ids, Exchange, ExchangeTyped
<1>3. r.stage = "sent" /\ r \in Posts
  <2>1. r \in [of : Ids, answers : Whole, mounted : {TRUE}, stage : {"sent"}]
    BY <1>1, <1>2
  <2>2. TRUE \in BOOLEAN
    OBVIOUS
  <2> QED
    BY <2>1, <2>2 DEF Posts
<1> HIDE DEF r
<1>4. /\ post' \in Seq(Posts)
      /\ \A j \in DOMAIN post : j \in DOMAIN post' /\ post'[j] = post[j]
      /\ \A j \in DOMAIN post' : (j \in DOMAIN post /\ post'[j] = post[j]) \/ post'[j] = r
  BY <1>1, <1>3, AppendProperties, LenProperties DEF Exchange, ExchangeTyped
<1>5. ExchangeTyped' /\ TakenOnce'
  BY <1>1, <1>4 DEF Exchange, ExchangeTyped, TakenOnce, Current
<1>6. \A p, b : Posted(p, b) => Posted(p, b)'
  BY <1>4 DEF Posted
<1>7. QueueIsPosted' /\ TakenIsPosted'
  BY <1>1, <1>6 DEF Exchange, QueueIsPosted, TakenIsPosted
<1>8. StoredIsDone'
  BY <1>1, <1>4 DEF Exchange, StoredIsDone
<1>9. PushedIsAccounted'
  BY <1>1, <1>3, <1>4 DEF Exchange, PushedIsAccounted, Accounted
<1> QED
  BY <1>5, <1>7, <1>8, <1>9 DEF Exchange

LEMMA ExchangeStep == Exchange /\ [Next]_vars => Exchange'
<1> SUFFICES ASSUME Exchange, [Next]_vars PROVE Exchange'
  OBVIOUS
<1> USE DEF agentVars, tabVars, bounds
<1>1. CASE \/ UNCHANGED vars \/ Hear \/ ReadHistory \/ SendPrompt
           \/ \E q \in Asked : \E i \in Indexes, o \in Options : SelectOption(q, i, o)
  BY <1>1, ExchangeAside
    DEF vars, Hear, ReadHistory, SendPrompt, SelectOption, CardStep, exchangeVars
<1>2. CASE Begin \/ SaveRow \/ EndTurn \/ AgentRestarts
  BY <1>2, ExchangeTurn DEF Begin, SaveRow, EndTurn, AgentRestarts
<1>3. CASE AskQuestions \/ \E p \in Plans : UpdatePlan(p)
  <2>1. CASE AskQuestions
    <3>1. Len(calls) + 1 \in Ids
      BY <2>1, LenProperties, QuestionnaireAssumption
        DEF AskQuestions, Call, Ids, Exchange, ExchangeTyped
    <3>2. Question(Len(calls) + 1) \in Messages
      BY <3>1 DEF Messages
    <3> QED
      BY <2>1, <3>2, ExchangeCall DEF AskQuestions
  <2>2. ASSUME NEW p \in Plans, UpdatePlan(p) PROVE Exchange'
    <3>1. Plan(p) \in Messages
      BY DEF Messages
    <3> QED
      BY <2>2, <3>1, ExchangeCall DEF UpdatePlan
  <2> QED
    BY <1>3, <2>1, <2>2
<1>4. CASE PopAnswer
  BY <1>4, ExchangePop
<1>5. CASE FetchReturns
  BY <1>5, ExchangeRemount
<1>6. CASE \E q \in Asked : SubmitAnswers(q)
  BY <1>6, ExchangeSubmit
<1>7. CASE \E i \in DOMAIN post : PostArrives(i) \/ PostReturns(i) \/ PostFails(i)
  BY <1>7, ExchangePush, ExchangeReturns
<1> QED
  BY <1>1, <1>2, <1>3, <1>4, <1>5, <1>6, <1>7 DEF Next

LEMMA ExchangeInvariance == Spec => []Exchange
BY ExchangeInit, ExchangeStep, PTL DEF Spec

\* For questionnaires of any length, the harness goes on with one choice for
\* every question, as a card of that questionnaire had it when it was submitted
\* (handleSubmit, handleAnswers, resolveResponse).
THEOREM TakenAnswersAreWhole == Spec => []AnswersAreWhole
<1>1. Exchange => AnswersAreWhole
  <2> SUFFICES ASSUME Exchange, NEW q \in Ids, taken[q] # None
               PROVE  /\ taken[q] \in Whole
                      /\ \E i \in DOMAIN post : /\ post[i].of = q
                                                /\ post[i].answers = taken[q]
    BY DEF AnswersAreWhole
  <2>1. taken[q] \in Whole
    BY DEF Exchange, ExchangeTyped
  <2>2. Posted(q, taken[q])
    BY DEF Exchange, TakenIsPosted
  <2> QED
    BY <2>1, <2>2 DEF Posted
<1> QED
  BY <1>1, ExchangeInvariance, PTL

\* Answers that sessionStorage records as sent are the ones the harness takes,
\* unless some were popped while no call waited (storeAnswers after the POST).
THEOREM StoredAnswersArrive == Spec => []SentIsReceived
<1>1. Exchange => SentIsReceived
  <2> SUFFICES ASSUME Exchange, NEW q \in Ids, stored[q] # None
               PROVE  \/ taken[q] = stored[q] \/ q \in ignored
                      \/ [of |-> q, answers |-> stored[q]] \in {queue[i] : i \in DOMAIN queue}
    BY DEF SentIsReceived
  <2>1. PICK i \in DOMAIN post : /\ post[i].of = q /\ post[i].answers = stored[q]
                                 /\ post[i].stage = "done"
    BY DEF Exchange, StoredIsDone
  <2>2. Accounted(q, stored[q])
    BY <2>1 DEF Exchange, PushedIsAccounted
  <2>3. ASSUME NEW j \in DOMAIN queue, queue[j].of = q, queue[j].answers = stored[q]
        PROVE  [of |-> q, answers |-> stored[q]] \in {queue[k] : k \in DOMAIN queue}
    <3>1. queue[j] \in Replies
      BY ElementOfSeq, LenProperties DEF Exchange, ExchangeTyped
    <3>2. queue[j] = [of |-> q, answers |-> stored[q]]
      BY <2>3, <3>1 DEF Replies
    <3> QED
      BY <3>2
  <2> QED
    BY <2>2, <2>3 DEF Accounted
<1> QED
  BY <1>1, ExchangeInvariance, PTL

-----------------------------------------------------------------------------
(* Places of a sequence and what a merge does with them (messageDedupe.ts) *)

\* The places of a sequence, or some of them, are finitely many numbers.
LEMMA PlacesAreFinite ==
  ASSUME NEW n \in Nat, NEW S, S \subseteq 1..n
  PROVE  /\ IsFiniteSet(S) /\ Cardinality(S) \in Nat /\ Cardinality(S) <= n
         /\ S \subseteq Nat
<1>1. IsFiniteSet(1..n) /\ Cardinality(1..n) = n
  BY FS_Interval
<1>2. IsFiniteSet(S) /\ Cardinality(S) <= n
  BY <1>1, FS_Subset
<1>3. Cardinality(S) \in Nat
  BY <1>2, FS_CardinalityType
<1> QED
  BY <1>2, <1>3

\* Ranks number the places of a set in order, from 1 to how many they are.
LEMMA Ranks ==
  ASSUME NEW n \in Nat, NEW S, S \subseteq 1..n
  PROVE  /\ \A i \in S : Rank(S, i) \in 1..Cardinality(S)
         /\ \A i, j \in S : i < j => Rank(S, i) < Rank(S, j)
         /\ \A i, j \in S : Rank(S, i) = Rank(S, j) => i = j
         /\ \A k \in 1..Cardinality(S) : \E i \in S : Rank(S, i) = k
<1> DEFINE UpTo(i) == {j \in S : j <= i}
<1>0. IsFiniteSet(S) /\ Cardinality(S) \in Nat /\ S \subseteq Nat
  BY PlacesAreFinite
<1>1. ASSUME NEW i \in S
      PROVE  /\ IsFiniteSet(UpTo(i)) /\ Rank(S, i) = Cardinality(UpTo(i))
             /\ Rank(S, i) \in Nat /\ Rank(S, i) <= Cardinality(S)
  <2>1. IsFiniteSet(UpTo(i)) /\ Cardinality(UpTo(i)) <= Cardinality(S)
    BY <1>0, FS_Subset
  <2>2. Rank(S, i) = Cardinality(UpTo(i))
    BY DEF Rank
  <2> QED
    BY <2>1, <2>2, FS_CardinalityType
<1>2. ASSUME NEW i \in S PROVE Rank(S, i) # 0
  <2>1. i \in UpTo(i)
    BY <1>0
  <2> QED
    BY <1>1, <2>1, FS_EmptySet
<1>3. ASSUME NEW i \in S, NEW j \in S, i < j PROVE Rank(S, i) < Rank(S, j)
  <2>0. i \in Nat /\ j \in Nat
    BY <1>0
  <2>1. UpTo(i) \subseteq UpTo(j) /\ UpTo(i) # UpTo(j)
    <3>1. \A k \in Nat : k <= i => k <= j
      BY <1>3, <2>0
    <3>2. j \in UpTo(j) /\ j \notin UpTo(i)
      BY <1>3, <2>0
    <3> QED
      BY <1>0, <3>1, <3>2
  <2>2. Rank(S, i) <= Rank(S, j) /\ Rank(S, i) # Rank(S, j)
    <3> HIDE DEF UpTo
    <3> QED
      BY <1>1, <2>1, FS_Subset
  <2>3. Rank(S, i) \in Nat /\ Rank(S, j) \in Nat
    BY <1>1
  <2> QED
    BY <2>2, <2>3
<1>4. \A i, j \in S : Rank(S, i) = Rank(S, j) => i = j
  <2> SUFFICES ASSUME NEW i \in S, NEW j \in S, i # j PROVE Rank(S, i) # Rank(S, j)
    OBVIOUS
  <2>1. i < j \/ j < i
    BY <1>0
  <2>2. Rank(S, i) \in Nat /\ Rank(S, j) \in Nat
    BY <1>1
  <2> QED
    BY <1>3, <2>1, <2>2
<1>5. ASSUME NEW i \in S PROVE Rank(S, i) \in 1..Cardinality(S)
  <2>1. Rank(S, i) \in Nat /\ Rank(S, i) <= Cardinality(S) /\ Rank(S, i) # 0
    BY <1>1, <1>2
  <2> QED
    BY <1>0, <2>1
<1> DEFINE f == [i \in S |-> Rank(S, i)]
<1>6. f \in Injection(S, 1..Cardinality(S))
  BY <1>4, <1>5 DEF Injection, IsInjective
<1>7. IsFiniteSet(1..Cardinality(S)) /\ Cardinality(1..Cardinality(S)) = Cardinality(S)
  BY <1>0, FS_Interval
<1>8. f \in Surjection(S, 1..Cardinality(S))
  BY <1>6, <1>7, FS_Injection
<1>9. \A k \in 1..Cardinality(S) : \E i \in S : Rank(S, i) = k
  BY <1>8 DEF Surjection
<1> QED
  BY <1>3, <1>4, <1>5, <1>9

\* R holds the ranks in S of the places X.
AreRanks(R, X, S) ==
  /\ \A i \in X : Rank(S, i) \in R
  /\ \A q \in R : \E i \in X : q = Rank(S, i)

\* Places are as many as their ranks.
LEMMA AsManyRanks ==
  ASSUME NEW n \in Nat, NEW S, S \subseteq 1..n, NEW X, X \subseteq S,
         NEW R, AreRanks(R, X, S)
  PROVE  Cardinality(R) = Cardinality(X)
<1> DEFINE f == [i \in X |-> Rank(S, i)]
<1>1. f \in Bijection(X, R)
  BY Ranks DEF AreRanks, Bijection, Injection, Surjection, IsInjective
<1>2. IsFiniteSet(X)
  BY PlacesAreFinite, FS_Subset
<1> QED
  BY <1>1, <1>2, FS_Bijection DEF ExistsBijection

\* The messages at the places new of the stream come after the history.
Joins(h, s, new, merged) ==
  /\ Len(merged) = Len(h) + Cardinality(new)
  /\ new \subseteq 1..Len(s) /\ Cardinality(new) \in Nat
  /\ \A i \in 1..Len(h) : merged[i] = h[i]
  /\ \A i \in new : /\ Rank(new, i) \in 1..Cardinality(new)
                    /\ merged[Len(h) + Rank(new, i)] = s[i]
  /\ \A k \in 1..Cardinality(new) :
       \E i \in new : Rank(new, i) = k /\ merged[Len(h) + k] = s[i]

\* What the history lacks of the stream follows it, in the order of the stream.
LEMMA Merged ==
  ASSUME NEW T, NEW h \in Seq(T), NEW s \in Seq(T)
  PROVE  /\ MergeMessageHistory(h, s) \in Seq(T)
         /\ Joins(h, s, Unmatched(h, s), MergeMessageHistory(h, s))
<1> DEFINE new == Unmatched(h, s)
<1> DEFINE merged == MergeMessageHistory(h, s)
<1> DEFINE rest == [k \in 1..Cardinality(new) |-> s[CHOOSE i \in new : Rank(new, i) = k]]
<1>1. Len(s) \in Nat /\ new \subseteq 1..Len(s) /\ Len(h) \in Nat
  BY LenProperties DEF Unmatched
<1>2. Cardinality(new) \in Nat
  BY <1>1, PlacesAreFinite
<1>3. \A i \in new : /\ Rank(new, i) \in 1..Cardinality(new)
                     /\ (CHOOSE j \in new : Rank(new, j) = Rank(new, i)) = i
  BY <1>1, Ranks
<1>4. \A k \in 1..Cardinality(new) : \E i \in new : Rank(new, i) = k
  BY <1>1, Ranks
<1>5. \A i \in new : rest[Rank(new, i)] = s[i]
  BY <1>3
<1>6. \A k \in 1..Cardinality(new) : rest[k] \in T
  BY <1>1, <1>4, <1>5, ElementOfSeq
<1>7. rest \in [1..Cardinality(new) -> T]
  BY <1>6
<1>8. merged = h \o rest
  BY DEF MergeMessageHistory
<1> HIDE DEF rest, new, merged
<1>9. rest \in Seq(T) /\ Len(rest) = Cardinality(new)
  <2>1. rest \in Seq(T)
    BY <1>2, <1>7, SeqDef
  <2>2. DOMAIN rest = 1..Cardinality(new) /\ DOMAIN rest = 1..Len(rest) /\ Len(rest) \in Nat
    BY <1>7, <2>1, LenProperties
  <2> QED
    BY <1>2, <2>1, <2>2
<1>10. /\ merged \in Seq(T) /\ Len(merged) = Len(h) + Cardinality(new)
       /\ \A i \in 1..Len(h) + Cardinality(new) :
            merged[i] = IF i <= Len(h) THEN h[i] ELSE rest[i - Len(h)]
  <2>1. /\ h \o rest \in Seq(T) /\ Len(h \o rest) = Len(h) + Len(rest)
        /\ \A i \in 1..Len(h) + Len(rest) :
             (h \o rest)[i] = IF i <= Len(h) THEN h[i] ELSE rest[i - Len(h)]
    BY <1>9, ConcatProperties
  <2> QED
    BY <1>8, <1>9, <2>1
<1>11. \A i \in 1..Len(h) : merged[i] = h[i]
  BY <1>1, <1>2, <1>10
<1>12. \A k \in 1..Cardinality(new) : merged[Len(h) + k] = rest[k]
  BY <1>1, <1>2, <1>10
<1>13. \A i \in new : merged[Len(h) + Rank(new, i)] = s[i]
  BY <1>3, <1>5, <1>12
<1>14. \A k \in 1..Cardinality(new) :
         \E i \in new : Rank(new, i) = k /\ merged[Len(h) + k] = s[i]
  BY <1>4, <1>13
<1> QED
  BY <1>1, <1>2, <1>3, <1>10, <1>11, <1>13, <1>14 DEF Joins, new, merged

-----------------------------------------------------------------------------
(* Induction over a bounded number of steps                                *)

\* The order of the natural numbers, as a relation.
Less == {p \in Nat \X Nat : p[1] < p[2]}

\* The smallest counterexample stands for induction: what holds at 0 and goes
\* on from each number to the next holds up to any bound.
LEMMA UpTo ==
  ASSUME NEW n \in Nat, NEW good, 0 \in good,
         \A i \in 1..n : i - 1 \in good => i \in good
  PROVE  \A i \in 0..n : i \in good
<1> SUFFICES ASSUME NEW k \in 0..n, k \notin good PROVE FALSE
  OBVIOUS
<1> DEFINE bad == {i \in 0..n : i \notin good}
<1>1. IsWellFoundedOn(Less, Nat)
  <2>1. Less = OpToRel(<, Nat)
    BY Zenon DEF Less, OpToRel
  <2> QED
    BY <2>1, NatLessThanWellFounded
<1>2. bad \in SUBSET Nat /\ bad # {}
  OBVIOUS
<1>3. PICK x \in bad : \A y \in bad : ~(<<y, x>> \in Less)
  BY <1>1, <1>2, WFMin
<1>4. x \in 1..n /\ x - 1 \in 0..n /\ x - 1 < x /\ x \in Nat /\ x - 1 \in Nat
  OBVIOUS
<1>5. <<x - 1, x>> \in Less
  BY <1>4 DEF Less
<1>6. x - 1 \in good
  BY <1>3, <1>4, <1>5
<1> QED
  BY <1>4, <1>6

-----------------------------------------------------------------------------
(* Bubbles                                                                 *)

\* f holds what buildRenderableMessages has built after each of n messages.
Builds(f, messages, n) ==
  f = [i \in 0..n |-> IF i = 0 THEN [bubbles |-> <<>>, plan |-> 0]
                      ELSE AddBubble(f[i - 1], messages[i])]

LEMMA BuildsExists == ASSUME NEW messages, NEW n \in Nat PROVE \E f : Builds(f, messages, n)
<1> DEFINE good == {k \in 0..n : \E f : Builds(f, messages, k)}
<1>1. 0 \in good
  <2> DEFINE f == [i \in 0..0 |-> [bubbles |-> <<>>, plan |-> 0]]
  <2>1. Builds(f, messages, 0)
    <3>1. \A i \in 0..0 : i = 0
      OBVIOUS
    <3> QED
      BY <3>1 DEF Builds
  <2> QED
    BY <2>1
<1>2. ASSUME NEW k \in 1..n, k - 1 \in good PROVE k \in good
  <2>1. PICK f : Builds(f, messages, k - 1)
    BY <1>2
  <2> DEFINE g == [i \in 0..k |-> IF i = k THEN AddBubble(f[k - 1], messages[k]) ELSE f[i]]
  <2> DEFINE step(i) == IF i = 0 THEN [bubbles |-> <<>>, plan |-> 0]
                        ELSE AddBubble(g[i - 1], messages[i])
  <2>2. \A i \in 0..k - 1 : f[i] = IF i = 0 THEN [bubbles |-> <<>>, plan |-> 0]
                                   ELSE AddBubble(f[i - 1], messages[i])
    BY <2>1 DEF Builds
  <2>3. \A i \in 0..k : i # k => i \in 0..k - 1 /\ g[i] = f[i]
    OBVIOUS
  <2>4. \A i \in 0..k : i # 0 => i - 1 \in 0..k - 1 /\ i - 1 \in 0..k /\ i - 1 # k
    OBVIOUS
  <2>5. ASSUME NEW i \in 0..k PROVE g[i] = step(i)
    <3>1. CASE i = k
      <4>1. g[k] = AddBubble(f[k - 1], messages[k]) /\ k # 0 /\ g[k - 1] = f[k - 1]
        BY <2>3, <2>4
      <4> QED
        BY <3>1, <4>1
    <3>2. CASE i # k /\ i = 0
      BY <2>2, <2>3, <3>2
    <3>3. CASE i # k /\ i # 0
      <4>1. g[i] = f[i] /\ g[i - 1] = f[i - 1]
        BY <2>3, <2>4, <3>3
      <4> QED
        BY <2>2, <2>3, <3>3, <4>1
    <3> QED
      BY <3>1, <3>2, <3>3
  <2>6. g = [i \in 0..k |-> step(i)]
    <3> HIDE DEF step
    <3> QED
      BY <2>5
  <2>7. Builds(g, messages, k)
    BY <2>6 DEF Builds
  <2> QED
    BY <2>7
<1>3. n \in good
  <2> HIDE DEF good
  <2> QED
    BY <1>1, <1>2, UpTo
<1> QED
  BY <1>3

\* So the recursive definition of Bubbles is what it says.
LEMMA BubblesAreBuilt ==
  ASSUME NEW messages, Len(messages) \in Nat
  PROVE  \E f : /\ Builds(f, messages, Len(messages))
                /\ Bubbles(messages) = f[Len(messages)].bubbles
<1> DEFINE f == CHOOSE g : Builds(g, messages, Len(messages))
<1>1. Builds(f, messages, Len(messages))
  BY BuildsExists
<1>2. Bubbles(messages) = f[Len(messages)].bubbles
  BY Zenon DEF Bubbles, Builds
<1> QED
  BY <1>1, <1>2

\* The plan that a following one may replace is the last, and no message of the
\* user's comes after it; if there is none, one comes after every plan.
CurrentPlan(list) ==
  LET bubbles == list.bubbles
      places  == 1..Len(bubbles)
  IN  /\ list.plan # 0 =>
           /\ list.plan \in places /\ bubbles[list.plan].type = "plan"
           /\ \A i \in places : i > list.plan =>
                bubbles[i].type # "plan" /\ bubbles[i].role # "user"
      /\ list.plan = 0 =>
           \A i \in places : bubbles[i].type = "plan" =>
             \E j \in places : i < j /\ bubbles[j].role = "user"

\* No plan that was superseded is left.
NoneSuperseded(bubbles) ==
  \A i, j \in 1..Len(bubbles) :
    /\ i < j /\ bubbles[i].type = "plan" /\ bubbles[j].type = "plan"
    /\ \A k \in i..j : bubbles[k].role # "user"
    => IsPlanComplete(bubbles[i])

\* The last plan of the messages is the last bubble of a plan.
LastPlanShown(bubbles, messages, n) ==
  \A p \in 1..n :
    messages[p].type = "plan" /\ (\A q \in 1..n : q > p => messages[q].type # "plan")
      => \E i \in 1..Len(bubbles) :
           /\ bubbles[i] = messages[p]
           /\ \A j \in 1..Len(bubbles) : j > i => bubbles[j].type # "plan"

ListHolds(list, messages, n) ==
  /\ list = [bubbles |-> list.bubbles, plan |-> list.plan]
  /\ list.bubbles \in Seq(Messages) /\ list.plan \in Nat
  /\ CurrentPlan(list) /\ NoneSuperseded(list.bubbles)
  /\ LastPlanShown(list.bubbles, messages, n)

\* Plans are the assistant's.
LEMMA MessageKinds ==
  /\ \A m \in Messages : m.type = "plan" => m.role = "assistant" /\ m.content \in Nat
  /\ \A m \in Messages : m.role \in {"user", "assistant"}
BY QuestionnaireAssumption
   DEF Messages, Prompt, Question, Reply, Plan, Message

LEMMA AppendPlaces ==
  ASSUME NEW T, NEW s \in Seq(T), NEW m \in T
  PROVE  /\ Append(s, m) \in Seq(T) /\ Len(Append(s, m)) = Len(s) + 1
         /\ Len(s) \in Nat
         /\ \A i \in 1..Len(s) : Append(s, m)[i] = s[i] /\ s[i] \in T
         /\ Append(s, m)[Len(s) + 1] = m
BY AppendProperties, LenProperties, ElementOfSeq

\* A bubble of another kind than a plan.
LEMMA AddOther ==
  ASSUME NEW messages \in Seq(Messages), NEW n \in Nat, n + 1 <= Len(messages), NEW list,
         ListHolds(list, messages, n),
         NEW m, m = messages[n + 1], m.role = "user" \/ m.type # "plan"
  PROVE  ListHolds(AddBubble(list, m), messages, n + 1)
<1> DEFINE old == list.bubbles
<1> DEFINE new == Append(list.bubbles, m)
<1> DEFINE plan == IF m.role = "user" THEN 0 ELSE list.plan
<1>0. m \in Messages /\ m.type # "plan"
  BY MessageKinds, ElementOfSeq, LenProperties
<1>1. AddBubble(list, m) = [bubbles |-> new, plan |-> plan]
  <2>1. CASE m.role = "user"
    <3>1. AddBubble(list, m) = [bubbles |-> Append(list.bubbles, m), plan |-> 0]
      BY ONLY <2>1 DEF AddBubble
    <3> QED
      BY <2>1, <3>1
  <2>2. CASE m.role # "user"
    <3>1. AddBubble(list, m) = [list EXCEPT !.bubbles = Append(@, m)]
      BY ONLY <1>0, <2>2 DEF AddBubble
    <3>2. list = [bubbles |-> old, plan |-> list.plan]
      BY DEF ListHolds
    <3> QED
      BY <2>2, <3>1, <3>2
  <2> QED
    BY <2>1, <2>2
<1>2. /\ new \in Seq(Messages) /\ Len(new) = Len(old) + 1 /\ Len(old) \in Nat
      /\ \A i \in 1..Len(old) : new[i] = old[i]
      /\ new[Len(old) + 1] = m
  BY <1>0, AppendPlaces DEF ListHolds
<1> HIDE DEF new
<1>3. \A i \in 1..Len(new) : (i \in 1..Len(old) /\ new[i] = old[i]) \/ (i = Len(old) + 1 /\ new[i] = m)
  BY <1>2
<1>4. CurrentPlan([bubbles |-> new, plan |-> plan])
  <2>1. CASE m.role = "user"
    <3>1. Len(old) + 1 \in 1..Len(new) /\ \A i \in 1..Len(old) : i < Len(old) + 1
      BY <1>2
    <3>2. \A i \in 1..Len(new) : new[i].type = "plan" =>
            \E j \in 1..Len(new) : i < j /\ new[j].role = "user"
      BY <1>0, <1>2, <1>3, <2>1, <3>1
    <3> QED
      BY <2>1, <3>2 DEF CurrentPlan
  <2>2. CASE m.role # "user"
    <3>1. CurrentPlan(list)
      BY DEF ListHolds
    <3>2. ASSUME list.plan # 0
          PROVE  /\ list.plan \in 1..Len(new) /\ new[list.plan].type = "plan"
                 /\ \A i \in 1..Len(new) : i > list.plan =>
                      new[i].type # "plan" /\ new[i].role # "user"
      <4>1. /\ list.plan \in 1..Len(old) /\ old[list.plan].type = "plan"
            /\ \A i \in 1..Len(old) : i > list.plan =>
                 old[i].type # "plan" /\ old[i].role # "user"
        BY <3>1, <3>2 DEF CurrentPlan
      <4>2. list.plan \in 1..Len(new) /\ new[list.plan].type = "plan"
        BY <1>2, <4>1
      <4>3. ASSUME NEW i \in 1..Len(new), i > list.plan
            PROVE  new[i].type # "plan" /\ new[i].role # "user"
        BY <1>0, <1>3, <2>2, <4>1, <4>3
      <4> QED
        BY <4>2, <4>3
    <3>3. ASSUME list.plan = 0, NEW i \in 1..Len(new), new[i].type = "plan"
          PROVE  \E j \in 1..Len(new) : i < j /\ new[j].role = "user"
      <4>1. i \in 1..Len(old) /\ new[i] = old[i]
        BY <1>0, <1>3, <3>3
      <4>2. PICK j \in 1..Len(old) : i < j /\ old[j].role = "user"
        BY <3>1, <3>3, <4>1 DEF CurrentPlan
      <4> QED
        BY <1>2, <4>2
    <3> QED
      BY <2>2, <3>2, <3>3 DEF CurrentPlan
  <2> QED
    BY <2>1, <2>2
<1>5. NoneSuperseded(new)
  <2> SUFFICES ASSUME NEW i \in 1..Len(new), NEW j \in 1..Len(new), i < j,
                      new[i].type = "plan", new[j].type = "plan",
                      \A k \in i..j : new[k].role # "user"
               PROVE  IsPlanComplete(new[i])
    BY DEF NoneSuperseded
  <2>0. i \in 1..Len(old) /\ j \in 1..Len(old)
    BY <1>0, <1>3
  <2>1. \A k \in i..j : k \in 1..Len(old)
    BY <1>2, <2>0
  <2>2. NoneSuperseded(old)
    BY DEF ListHolds
  <2> QED
    BY <1>2, <2>0, <2>1, <2>2 DEF NoneSuperseded
<1>6. LastPlanShown(new, messages, n + 1)
  <2> SUFFICES ASSUME NEW p \in 1..n + 1, messages[p].type = "plan",
                      \A q \in 1..n + 1 : q > p => messages[q].type # "plan"
               PROVE  \E i \in 1..Len(new) :
                        /\ new[i] = messages[p]
                        /\ \A j \in 1..Len(new) : j > i => new[j].type # "plan"
    BY DEF LastPlanShown
  <2>1. p \in 1..n /\ \A q \in 1..n : q > p => messages[q].type # "plan"
    BY <1>0
  <2>2. PICK i \in 1..Len(old) : /\ old[i] = messages[p]
                                 /\ \A j \in 1..Len(old) : j > i => old[j].type # "plan"
    BY <2>1 DEF ListHolds, LastPlanShown
  <2>3. i \in 1..Len(new) /\ new[i] = messages[p]
    BY <1>2, <2>2
  <2>4. \A j \in 1..Len(new) : j > i => new[j].type # "plan"
    BY <1>0, <1>3, <2>2
  <2> QED
    BY <2>3, <2>4
<1>7. plan \in Nat
  BY DEF ListHolds
<1> QED
  BY <1>1, <1>2, <1>4, <1>5, <1>6, <1>7 DEF ListHolds

\* A plan after a complete one, or after a message of the user's.
LEMMA AddPlan ==
  ASSUME NEW messages \in Seq(Messages), NEW n \in Nat, n + 1 <= Len(messages), NEW list,
         ListHolds(list, messages, n),
         NEW m, m = messages[n + 1], m.role # "user", m.type = "plan",
         list.plan = 0 \/ IsPlanComplete(list.bubbles[list.plan])
  PROVE  ListHolds(AddBubble(list, m), messages, n + 1)
<1> DEFINE old == list.bubbles
<1> DEFINE new == Append(list.bubbles, m)
<1> DEFINE plan == Len(list.bubbles) + 1
<1>0. m \in Messages
  BY ElementOfSeq, LenProperties
<1>1. AddBubble(list, m) = [bubbles |-> new, plan |-> plan]
  BY DEF AddBubble
<1>2. /\ new \in Seq(Messages) /\ Len(new) = Len(old) + 1 /\ Len(old) \in Nat
      /\ \A i \in 1..Len(old) : new[i] = old[i]
      /\ new[Len(old) + 1] = m
  BY <1>0, AppendPlaces DEF ListHolds
<1> HIDE DEF new
<1>3. \A i \in 1..Len(new) : (i \in 1..Len(old) /\ new[i] = old[i]) \/ (i = Len(old) + 1 /\ new[i] = m)
  BY <1>2
<1>4. CurrentPlan([bubbles |-> new, plan |-> plan])
  BY <1>2, <1>3 DEF CurrentPlan
<1>5. NoneSuperseded(new)
  <2> SUFFICES ASSUME NEW i \in 1..Len(new), NEW j \in 1..Len(new), i < j,
                      new[i].type = "plan", new[j].type = "plan",
                      \A k \in i..j : new[k].role # "user"
               PROVE  IsPlanComplete(new[i])
    BY DEF NoneSuperseded
  <2>1. NoneSuperseded(old) /\ CurrentPlan(list)
    BY DEF ListHolds
  <2>2. CASE j \in 1..Len(old)
    <3>1. i \in 1..Len(old) /\ \A k \in i..j : k \in 1..Len(old)
      BY <2>2
    <3> QED
      BY <1>2, <2>1, <2>2, <3>1 DEF NoneSuperseded
  <2>3. CASE j = Len(old) + 1
    <3>1. i \in 1..Len(old) /\ new[i] = old[i]
      BY <1>2, <2>3
    <3>2. ASSUME NEW k \in 1..Len(old), k > i PROVE old[k].role # "user"
      <4>1. k \in i..j
        BY <1>2, <2>3, <3>1, <3>2
      <4> QED
        BY <1>2, <4>1
    <3>3. list.plan # 0 /\ IsPlanComplete(old[list.plan]) /\ list.plan \in 1..Len(old)
          /\ old[list.plan].type = "plan"
      BY <2>1, <3>1, <3>2 DEF CurrentPlan
    <3>4. i <= list.plan
      BY <2>1, <3>1, <3>3 DEF CurrentPlan
    <3>5. CASE i = list.plan
      BY <3>1, <3>3, <3>5
    <3>6. CASE i < list.plan
      <4>1. ASSUME NEW k \in i..list.plan PROVE k \in 1..Len(old) /\ old[k].role # "user"
        <5>1. k \in 1..Len(old) /\ k \in i..j
          <6>1. /\ Len(old) \in Nat /\ j = Len(old) + 1
                /\ i \in 1..Len(old) /\ list.plan \in 1..Len(old)
            BY <1>2, <2>3, <3>1, <3>3
          <6> QED
            BY ONLY <6>1, k \in i..list.plan
        <5>2. new[k].role # "user"
          BY <5>1
        <5>3. new[k] = old[k]
          BY <1>2, <5>1
        <5> QED
          BY <5>1, <5>2, <5>3
      <4> QED
        BY <2>1, <3>1, <3>3, <3>6, <4>1 DEF NoneSuperseded
    <3> QED
      BY <3>3, <3>4, <3>5, <3>6
  <2> QED
    BY <1>2, <2>2, <2>3
<1>6. LastPlanShown(new, messages, n + 1)
  <2> SUFFICES ASSUME NEW p \in 1..n + 1, messages[p].type = "plan",
                      \A q \in 1..n + 1 : q > p => messages[q].type # "plan"
               PROVE  \E i \in 1..Len(new) :
                        /\ new[i] = messages[p]
                        /\ \A j \in 1..Len(new) : j > i => new[j].type # "plan"
    BY DEF LastPlanShown
  <2>1. p = n + 1
    OBVIOUS
  <2> QED
    BY <1>2, <2>1
<1>7. plan \in Nat
  BY <1>2
<1> QED
  BY <1>1, <1>2, <1>4, <1>5, <1>6, <1>7 DEF ListHolds

\* A plan that takes the place of the one before.
LEMMA ReplacePlan ==
  ASSUME NEW messages \in Seq(Messages), NEW n \in Nat, n + 1 <= Len(messages), NEW list,
         ListHolds(list, messages, n),
         NEW m, m = messages[n + 1], m.role # "user", m.type = "plan",
         list.plan # 0, ~IsPlanComplete(list.bubbles[list.plan])
  PROVE  ListHolds(AddBubble(list, m), messages, n + 1)
<1> DEFINE old == list.bubbles
<1> DEFINE new == [list.bubbles EXCEPT ![list.plan] = m]
<1> DEFINE plan == list.plan
<1>0. m \in Messages /\ CurrentPlan(list) /\ NoneSuperseded(old)
  BY ElementOfSeq, LenProperties DEF ListHolds
<1>1. AddBubble(list, m) = [bubbles |-> new, plan |-> plan]
  <2>1. AddBubble(list, m) = [list EXCEPT !.bubbles[list.plan] = m]
    BY DEF AddBubble
  <2> QED
    BY <2>1 DEF ListHolds
<1>2. plan \in 1..Len(old) /\ old \in Seq(Messages) /\ Len(old) \in Nat
  BY <1>0, LenProperties DEF CurrentPlan, ListHolds
<1>3. /\ new \in Seq(Messages) /\ Len(new) = Len(old)
      /\ \A i \in 1..Len(old) : i # plan => new[i] = old[i]
      /\ new[plan] = m
  BY <1>0, <1>2, ExceptSeq
<1> HIDE DEF new
<1>4. CurrentPlan([bubbles |-> new, plan |-> plan])
  BY <1>0, <1>2, <1>3 DEF CurrentPlan
<1>5. NoneSuperseded(new)
  <2> SUFFICES ASSUME NEW i \in 1..Len(new), NEW j \in 1..Len(new), i < j,
                      new[i].type = "plan", new[j].type = "plan",
                      \A k \in i..j : new[k].role # "user"
               PROVE  IsPlanComplete(new[i])
    BY DEF NoneSuperseded
  <2>1. \A k \in 1..Len(old) : k > plan => old[k].type # "plan"
    BY <1>0 DEF CurrentPlan
  <2>2. j <= plan /\ i < plan /\ new[i] = old[i] /\ i \in 1..Len(old) /\ j \in 1..Len(old)
    BY <1>2, <1>3, <2>1
  <2>3. old[j].type = "plan" /\ old[plan].type = "plan" /\ old[plan].role # "user"
    <3>1. old[plan].type = "plan" /\ old[plan] \in Messages
      BY <1>0, <1>2, ElementOfSeq DEF CurrentPlan
    <3> QED
      BY <1>2, <1>3, <2>2, <3>1, MessageKinds
  <2>4. ASSUME NEW k \in i..j PROVE k \in 1..Len(old) /\ old[k].role # "user"
    <3>1. k \in 1..Len(old)
      BY <1>2, <2>2
    <3>2. k # plan => old[k].role # "user"
      BY <1>3, <3>1
    <3> QED
      BY <2>3, <3>1, <3>2
  <2> QED
    BY <1>0, <2>2, <2>3, <2>4 DEF NoneSuperseded
<1>6. LastPlanShown(new, messages, n + 1)
  <2> SUFFICES ASSUME NEW p \in 1..n + 1, messages[p].type = "plan",
                      \A q \in 1..n + 1 : q > p => messages[q].type # "plan"
               PROVE  \E i \in 1..Len(new) :
                        /\ new[i] = messages[p]
                        /\ \A j \in 1..Len(new) : j > i => new[j].type # "plan"
    BY DEF LastPlanShown
  <2>1. p = n + 1
    OBVIOUS
  <2>2. \A j \in 1..Len(new) : j > plan => new[j].type # "plan"
    BY <1>0, <1>2, <1>3 DEF CurrentPlan
  <2> QED
    BY <1>2, <1>3, <2>1, <2>2
<1>7. plan \in Nat
  BY <1>2
<1> QED
  BY <1>1, <1>3, <1>4, <1>5, <1>6, <1>7 DEF ListHolds

\* What the bubbles of any messages are.
LEMMA BubblesHold ==
  ASSUME NEW messages \in Seq(Messages)
  PROVE  /\ Bubbles(messages) \in Seq(Messages)
         /\ NoneSuperseded(Bubbles(messages))
         /\ LastPlanShown(Bubbles(messages), messages, Len(messages))
<1> DEFINE n == Len(messages)
<1>1. n \in Nat
  BY LenProperties
<1>2. PICK f : Builds(f, messages, n) /\ Bubbles(messages) = f[n].bubbles
  BY <1>1, BubblesAreBuilt
<1>3. \A i \in 0..n : f[i] = IF i = 0 THEN [bubbles |-> <<>>, plan |-> 0]
                             ELSE AddBubble(f[i - 1], messages[i])
  BY <1>2 DEF Builds
<1> DEFINE good == {k \in 0..n : ListHolds(f[k], messages, k)}
<1>4. 0 \in good
  <2>1. f[0] = [bubbles |-> <<>>, plan |-> 0] /\ 0 \in 0..n
    BY <1>1, <1>3
  <2>2. ListHolds([bubbles |-> <<>>, plan |-> 0], messages, 0)
    BY EmptySeq DEF ListHolds, CurrentPlan, NoneSuperseded, LastPlanShown
  <2> QED
    BY <2>1, <2>2
<1>5. ASSUME NEW k \in 1..n, k - 1 \in good PROVE k \in good
  <2> DEFINE list == f[k - 1]
  <2>1. k - 1 \in Nat /\ k - 1 + 1 = k /\ k \in 0..n /\ k # 0 /\ k <= Len(messages)
    BY <1>1
  <2>2. f[k] = AddBubble(list, messages[k])
    BY <1>3, <2>1
  <2>3. ListHolds(list, messages, k - 1)
    BY <1>5
  <2>4. ListHolds(AddBubble(list, messages[k]), messages, k)
    <3> HIDE DEF list
    <3>1. CASE messages[k].role = "user" \/ messages[k].type # "plan"
      BY <2>1, <2>3, <3>1, AddOther
    <3>2. CASE ~(messages[k].role = "user" \/ messages[k].type # "plan")
               /\ (list.plan = 0 \/ IsPlanComplete(list.bubbles[list.plan]))
      BY <2>1, <2>3, <3>2, AddPlan
    <3>3. CASE ~(messages[k].role = "user" \/ messages[k].type # "plan")
               /\ ~(list.plan = 0 \/ IsPlanComplete(list.bubbles[list.plan]))
      BY <2>1, <2>3, <3>3, ReplacePlan
    <3> QED
      BY <3>1, <3>2, <3>3
  <2> QED
    BY <2>1, <2>2, <2>4
<1>6. n \in good
  <2>1. \A k \in 1..n : k - 1 \in good => k \in good
    BY <1>5
  <2> HIDE DEF good, n
  <2>2. \A k \in 0..n : k \in good
    BY <1>1, <1>4, <2>1, UpTo
  <2> QED
    BY <1>1, <2>2
<1> QED
  BY <1>2, <1>6 DEF ListHolds

-----------------------------------------------------------------------------
(* Messages that follow the calls of the tools                             *)

\* The places of the agent's messages.
Said(s) == {i \in DOMAIN s : s[i].role = "assistant"}

\* The agent's messages in s are the first of the calls c, in their order.
Follows(s, c) ==
  \A i \in Said(s) : Rank(Said(s), i) <= Len(c) /\ s[i] = c[Rank(Said(s), i)]

AgentMessages == {m \in Messages : m.role = "assistant"}

LEMMA SaidPlaces ==
  ASSUME NEW s \in Seq(Messages)
  PROVE  /\ Len(s) \in Nat /\ DOMAIN s = 1..Len(s) /\ Said(s) \subseteq 1..Len(s)
         /\ Cardinality(Said(s)) \in Nat
<1>1. Len(s) \in Nat /\ DOMAIN s = 1..Len(s)
  BY LenProperties
<1>2. Said(s) \subseteq 1..Len(s)
  BY <1>1 DEF Said
<1> QED
  BY <1>1, <1>2, PlacesAreFinite

\* A message at the end leaves the ranks of those before it.
LEMMA SaidMore ==
  ASSUME NEW s \in Seq(Messages), NEW m \in Messages
  PROVE  LET more == Append(s, m) IN
         /\ m.role # "assistant" => Said(more) = Said(s)
         /\ m.role = "assistant" =>
              /\ Said(more) = Said(s) \union {Len(s) + 1}
              /\ Cardinality(Said(more)) = Cardinality(Said(s)) + 1
              /\ Rank(Said(more), Len(s) + 1) = Cardinality(Said(s)) + 1
         /\ \A i \in Said(s) : Rank(Said(more), i) = Rank(Said(s), i)
<1> DEFINE more == Append(s, m)
<1>1. /\ Len(s) \in Nat /\ DOMAIN s = 1..Len(s) /\ Said(s) \subseteq 1..Len(s)
      /\ DOMAIN more = 1..Len(s) + 1 /\ more[Len(s) + 1] = m
      /\ \A i \in 1..Len(s) : more[i] = s[i]
  BY SaidPlaces, AppendPlaces, LenProperties
<1> HIDE DEF more
<1>2. ASSUME m.role # "assistant" PROVE Said(more) = Said(s)
  BY <1>1, <1>2 DEF Said
<1>3. ASSUME m.role = "assistant" PROVE Said(more) = Said(s) \union {Len(s) + 1}
  BY <1>1, <1>3 DEF Said
<1>4. Len(s) + 1 \notin Said(s) /\ IsFiniteSet(Said(s)) /\ Said(s) \subseteq Nat
  BY <1>1, PlacesAreFinite
<1>5. ASSUME m.role = "assistant"
      PROVE  /\ Cardinality(Said(more)) = Cardinality(Said(s)) + 1
             /\ Rank(Said(more), Len(s) + 1) = Cardinality(Said(s)) + 1
  <2>1. Cardinality(Said(more)) = Cardinality(Said(s)) + 1
    BY <1>3, <1>4, <1>5, FS_AddElement
  <2>2. {j \in Said(more) : j <= Len(s) + 1} = Said(more)
    BY <1>1, <1>3, <1>5
  <2> QED
    BY <2>1, <2>2 DEF Rank
<1>6. ASSUME NEW i \in Said(s) PROVE Rank(Said(more), i) = Rank(Said(s), i)
  <2>1. i \in 1..Len(s) /\ ~(Len(s) + 1 <= i)
    BY <1>1
  <2>2. {j \in Said(more) : j <= i} = {j \in Said(s) : j <= i}
    BY <1>2, <1>3, <2>1
  <2> QED
    BY <2>2 DEF Rank
<1> QED
  BY <1>2, <1>3, <1>5, <1>6 DEF more

\* The user's messages change nothing, the next call's message goes on.
LEMMA FollowsMore ==
  ASSUME NEW s \in Seq(Messages), NEW c \in Seq(Messages), Follows(s, c),
         NEW m \in Messages,
         \/ m.role # "assistant"
         \/ /\ Cardinality(Said(s)) + 1 <= Len(c)
            /\ m = c[Cardinality(Said(s)) + 1]
  PROVE  Follows(Append(s, m), c)
<1> DEFINE more == Append(s, m)
<1>1. /\ Len(s) \in Nat /\ Said(s) \subseteq 1..Len(s)
      /\ more[Len(s) + 1] = m
      /\ \A i \in 1..Len(s) : more[i] = s[i]
  BY SaidPlaces, AppendPlaces
<1>2. /\ m.role # "assistant" => Said(more) = Said(s)
      /\ m.role = "assistant" =>
           /\ Said(more) = Said(s) \union {Len(s) + 1}
           /\ Rank(Said(more), Len(s) + 1) = Cardinality(Said(s)) + 1
      /\ \A i \in Said(s) : Rank(Said(more), i) = Rank(Said(s), i)
  BY SaidMore
<1> HIDE DEF more
<1> SUFFICES ASSUME NEW i \in Said(more)
             PROVE  Rank(Said(more), i) <= Len(c) /\ more[i] = c[Rank(Said(more), i)]
  BY DEF Follows, more
<1>3. CASE i \in Said(s)
  BY <1>1, <1>2, <1>3 DEF Follows
<1>4. CASE i \notin Said(s)
  <2>1. i = Len(s) + 1 /\ m.role = "assistant"
    BY <1>2, <1>4
  <2> QED
    BY <1>1, <1>2, <2>1
<1> QED
  BY <1>3, <1>4

\* A further call leaves what followed them.
LEMMA FollowsFurther ==
  ASSUME NEW s \in Seq(Messages), NEW c \in Seq(Messages), Follows(s, c), NEW m \in Messages
  PROVE  Follows(s, Append(c, m))
<1>1. /\ Len(c) \in Nat /\ Len(Append(c, m)) = Len(c) + 1
      /\ \A q \in 1..Len(c) : Append(c, m)[q] = c[q]
  BY AppendPlaces
<1>2. \A i \in Said(s) : Rank(Said(s), i) \in 1..Cardinality(Said(s))
  BY SaidPlaces, Ranks
<1>3. Cardinality(Said(s)) \in Nat
  BY SaidPlaces
<1> SUFFICES ASSUME NEW i \in Said(s)
             PROVE  /\ Rank(Said(s), i) <= Len(Append(c, m))
                    /\ s[i] = Append(c, m)[Rank(Said(s), i)]
  BY DEF Follows
<1>4. Rank(Said(s), i) \in Nat /\ Rank(Said(s), i) >= 1
  BY <1>2, <1>3
<1>5. Rank(Said(s), i) <= Len(c) /\ s[i] = c[Rank(Said(s), i)]
  BY DEF Follows
<1> QED
  BY <1>1, <1>4, <1>5

\* The places in s of messages of some kind, and those of the first n calls.
OfKind(s, M)   == {i \in DOMAIN s : s[i] \in M}
Calls(c, M, n) == {q \in 1..n : c[q] \in M}

\* Messages of the agent's of any kind M are as many as the calls they follow.
LEMMA Counted ==
  ASSUME NEW s \in Seq(Messages), NEW c \in Seq(Messages), Follows(s, c),
         NEW M, M \subseteq AgentMessages
  PROVE  /\ Cardinality(OfKind(s, M)) = Cardinality(Calls(c, M, Cardinality(Said(s))))
         /\ \A i \in Said(s) :
              Rank(OfKind(s, M), i) = Cardinality(Calls(c, M, Rank(Said(s), i)))
<1> DEFINE X == OfKind(s, M)
<1> DEFINE S == Said(s)
<1> DEFINE n == Cardinality(S)
<1>1. /\ Len(s) \in Nat /\ DOMAIN s = 1..Len(s) /\ S \subseteq 1..Len(s)
      /\ n \in Nat
  BY SaidPlaces
<1>2. X \subseteq S
  BY DEF AgentMessages, Said, OfKind
<1>3. /\ \A i \in S : Rank(S, i) \in 1..n
      /\ \A i, j \in S : i < j => Rank(S, i) < Rank(S, j)
      /\ \A q \in 1..n : \E i \in S : Rank(S, i) = q
  BY <1>1, Ranks
<1>4. \A i \in S : s[i] = c[Rank(S, i)] /\ (i \in X <=> s[i] \in M)
  BY DEF Follows, Said, OfKind
<1> HIDE DEF S, n, X
<1>5. Cardinality(X) = Cardinality({q \in 1..n : c[q] \in M})
  <2> DEFINE R == {q \in 1..n : c[q] \in M}
  <2>1. \A i \in X : Rank(S, i) \in R
    BY <1>2, <1>3, <1>4
  <2>2. \A q \in R : \E i \in X : q = Rank(S, i)
    BY <1>3, <1>4
  <2>3. AreRanks(R, X, S)
    BY <2>1, <2>2 DEF AreRanks
  <2> HIDE DEF R
  <2>4. Cardinality(R) = Cardinality(X)
    BY <1>1, <1>2, <2>3, AsManyRanks
  <2> QED
    BY <2>4 DEF R
<1>6. ASSUME NEW i \in S
      PROVE  Rank(X, i) = Cardinality({q \in 1..Rank(S, i) : c[q] \in M})
  <2> DEFINE Y == {j \in X : j <= i}
  <2> DEFINE R == {q \in 1..Rank(S, i) : c[q] \in M}
  <2>0. i \in Nat /\ \A j \in S : j \in Nat /\ Rank(S, j) \in 1..n
    BY <1>1, <1>3
  <2>1. ASSUME NEW j \in Y PROVE Rank(S, j) \in R
    <3>1. j \in S /\ j <= i /\ c[Rank(S, j)] \in M
      BY <1>2, <1>4
    <3>2. Rank(S, j) <= Rank(S, i)
      <4>1. CASE j = i
        BY <1>1, <2>0, <4>1
      <4>2. CASE j < i
        BY <1>1, <1>3, <2>0, <3>1, <4>2
      <4> QED
        BY <2>0, <3>1, <4>1, <4>2
    <3> QED
      BY <1>1, <2>0, <3>1, <3>2
  <2>2. ASSUME NEW q \in R PROVE \E j \in Y : q = Rank(S, j)
    <3>1. q \in 1..n /\ q <= Rank(S, i)
      BY <1>1, <2>0
    <3>2. PICK j \in S : Rank(S, j) = q
      BY <1>3, <3>1
    <3>3. j \in X
      BY <1>4, <3>2
    <3>4. ~(i < j)
      BY <1>1, <1>3, <2>0, <3>1, <3>2
    <3>5. j <= i
      BY <2>0, <3>4
    <3> QED
      BY <3>2, <3>3, <3>5
  <2>3. Y \subseteq S
    BY <1>2
  <2>4. Rank(X, i) = Cardinality(Y)
    BY DEF Rank
  <2>5. AreRanks(R, Y, S)
    BY <2>1, <2>2 DEF AreRanks
  <2> HIDE DEF R, Y
  <2>6. Cardinality(R) = Cardinality(Y)
    BY <1>1, <2>3, <2>5, AsManyRanks
  <2> QED
    BY <2>4, <2>6 DEF R
<1> QED
  BY <1>5, <1>6 DEF S, n, X, Calls

-----------------------------------------------------------------------------
(* Plans of calls, of rows and of frames                                   *)

PlanMessages == {m \in Messages : m.type = "plan"}

LEMMA PlansAreTheAgents == PlanMessages \subseteq AgentMessages
BY MessageKinds DEF PlanMessages, AgentMessages

\* There are as many calls as messages that follow them.
LEMMA NoMoreThanCalls ==
  ASSUME NEW s \in Seq(Messages), NEW c \in Seq(Messages), Follows(s, c)
  PROVE  Cardinality(Said(s)) <= Len(c)
<1>1. Len(s) \in Nat /\ Said(s) \subseteq 1..Len(s) /\ Cardinality(Said(s)) \in Nat
  BY SaidPlaces
<1>2. CASE Cardinality(Said(s)) = 0
  BY <1>2, LenProperties
<1>3. CASE Cardinality(Said(s)) # 0
  <2>1. Cardinality(Said(s)) \in 1..Cardinality(Said(s))
    BY <1>1, <1>3
  <2>2. PICK i \in Said(s) : Rank(Said(s), i) = Cardinality(Said(s))
    BY <1>1, <2>1, Ranks
  <2> QED
    BY <2>2 DEF Follows
<1> QED
  BY <1>2, <1>3

\* Of two parts of one's numbers, the larger has at least as many of any kind.
LEMMA Fewer ==
  ASSUME NEW m \in Nat, NEW B, B \subseteq 1..m, NEW A, A \subseteq B
  PROVE  Cardinality(A) <= Cardinality(B)
BY PlacesAreFinite, FS_Subset

\* What the merge takes from the stream are the messages of the calls that the
\* history does not have yet.
LEMMA UnmatchedFollows ==
  ASSUME NEW h \in Seq(Messages), NEW s \in Seq(Messages), NEW c \in Seq(Messages),
         Follows(h, c), Follows(s, c), NEW i \in Said(s)
  PROVE  i \in Unmatched(h, s) <=> Rank(Said(s), i) > Cardinality(Said(h))
<1> DEFINE M == {s[i]}
<1> DEFINE r == Rank(Said(s), i)
<1> DEFINE n == Cardinality(Said(h))
<1> DEFINE Old == Calls(c, M, n)
<1> DEFINE Upto == Calls(c, M, r)
<1>1. /\ Len(s) \in Nat /\ DOMAIN s = 1..Len(s) /\ Said(s) \subseteq 1..Len(s)
      /\ n \in Nat
  BY SaidPlaces
<1>2. r \in Nat /\ r >= 1 /\ c[r] = s[i]
  <2>1. r \in 1..Cardinality(Said(s)) /\ Cardinality(Said(s)) \in Nat
    BY SaidPlaces, Ranks
  <2>2. c[r] = s[i]
    BY DEF Follows
  <2> QED
    BY <2>1, <2>2
<1>3. M \subseteq AgentMessages
  <2>1. s[i] \in Messages /\ s[i].role = "assistant"
    BY <1>1, ElementOfSeq DEF Said
  <2> QED
    BY <2>1 DEF AgentMessages
<1>4. Places(h, s[i]) = OfKind(h, M) /\ Places(s, s[i]) = OfKind(s, M)
  BY DEF Places, OfKind
<1>5. \A k : Calls(c, M, k) = {q \in 1..k : c[q] = s[i]}
  BY DEF Calls
<1> HIDE DEF M
<1>6. Count(h, s[i]) = Cardinality(Old)
  BY <1>3, <1>4, Counted DEF Count
<1>7. Rank(Places(s, s[i]), i) = Cardinality(Upto)
  BY <1>3, <1>4, Counted
<1>8. i \in Unmatched(h, s) <=> Cardinality(Upto) > Cardinality(Old)
  BY <1>1, <1>6, <1>7 DEF Unmatched
<1>9. /\ Old \subseteq 1..n /\ Upto \subseteq 1..r /\ r \in Upto
      /\ IsFiniteSet(Old) /\ IsFiniteSet(Upto)
      /\ Cardinality(Old) \in Nat /\ Cardinality(Upto) \in Nat
  <2>1. Old \subseteq 1..n /\ Upto \subseteq 1..r
    BY <1>5
  <2>2. r \in Upto
    BY <1>2, <1>5
  <2> QED
    BY <1>1, <1>2, <2>1, <2>2, PlacesAreFinite
<1>10. CASE r > n
  <2>1. Old \subseteq Upto /\ r \notin Old
    BY <1>1, <1>2, <1>5, <1>10
  <2>2. Cardinality(Old) <= Cardinality(Upto) /\ Cardinality(Old) # Cardinality(Upto)
    <3> HIDE DEF Old, Upto
    <3> QED
      BY <1>9, <2>1, FS_Subset
  <2> QED
    BY <1>8, <1>9, <1>10, <2>2
<1>11. CASE ~(r > n)
  <2>1. Upto \subseteq Old
    BY <1>1, <1>2, <1>5, <1>11
  <2>2. Cardinality(Upto) <= Cardinality(Old)
    <3> HIDE DEF Old, Upto
    <3> QED
      BY <1>9, <2>1, FS_Subset
  <2> QED
    BY <1>8, <1>9, <1>11, <2>2
<1> QED
  BY <1>10, <1>11

\* The last of these messages that is a plan is this one.
LastPlanIs(messages, plan) ==
  \E x \in 1..Len(messages) :
    /\ messages[x] = plan
    /\ \A y \in 1..Len(messages) : y > x => messages[y].type # "plan"

\* The last plan called that either has is the last plan merged.
LEMMA LastPlanMerged ==
  ASSUME NEW h \in Seq(Messages), NEW s \in Seq(Messages), NEW c \in Seq(Messages),
         Follows(h, c), Follows(s, c),
         NEW n \in Nat, Cardinality(Said(h)) <= n, Cardinality(Said(s)) <= n,
         n = Cardinality(Said(h)) \/ n = Cardinality(Said(s)),
         NEW p \in 1..n, c[p].type = "plan",
         \A q \in 1..n : q > p => c[q].type # "plan"
  PROVE  LastPlanIs(MergeMessageHistory(h, s), c[p])
<1> DEFINE merged == MergeMessageHistory(h, s)
<1> DEFINE H == Said(h)
<1> DEFINE S == Said(s)
<1> DEFINE new == Unmatched(h, s)
<1>1. /\ Len(h) \in Nat /\ H \subseteq 1..Len(h) /\ Cardinality(H) \in Nat
      /\ Len(s) \in Nat /\ S \subseteq 1..Len(s) /\ Cardinality(S) \in Nat
      /\ DOMAIN h = 1..Len(h) /\ DOMAIN s = 1..Len(s)
  BY SaidPlaces
<1>0. Joins(h, s, new, merged)
  BY Merged
<1>2. /\ Len(merged) = Len(h) + Cardinality(new)
      /\ new \subseteq 1..Len(s) /\ Cardinality(new) \in Nat
      /\ \A i \in 1..Len(h) : merged[i] = h[i]
      /\ \A i \in new : /\ Rank(new, i) \in 1..Cardinality(new)
                        /\ merged[Len(h) + Rank(new, i)] = s[i]
      /\ \A k \in 1..Cardinality(new) :
           \E i \in new : Rank(new, i) = k /\ merged[Len(h) + k] = s[i]
  BY <1>0 DEF Joins
<1>3. /\ \A i \in H : Rank(H, i) \in 1..Cardinality(H) /\ h[i] = c[Rank(H, i)]
      /\ \A i, j \in H : i < j => Rank(H, i) < Rank(H, j)
      /\ \A k \in 1..Cardinality(H) : \E i \in H : Rank(H, i) = k
  BY <1>1, Ranks DEF Follows
<1>4. /\ \A i \in S : Rank(S, i) \in 1..Cardinality(S) /\ s[i] = c[Rank(S, i)]
      /\ \A i, j \in S : i < j => Rank(S, i) < Rank(S, j)
      /\ \A k \in 1..Cardinality(S) : \E i \in S : Rank(S, i) = k
  BY <1>1, Ranks DEF Follows
<1>5. \A i \in S : i \in new <=> Rank(S, i) > Cardinality(H)
  BY UnmatchedFollows
<1>6. /\ \A i \in 1..Len(h) : h[i].type = "plan" => i \in H
      /\ \A i \in 1..Len(s) : s[i].type = "plan" => i \in S
  BY <1>1, MessageKinds, ElementOfSeq DEF Said
<1>7. \A i, j \in new : i < j => Rank(new, i) < Rank(new, j)
  BY <1>1, <1>2, Ranks
<1> HIDE DEF H, S, new, merged
<1>8. \A y \in 1..Len(merged) :
        \/ y \in 1..Len(h)
        \/ \E i \in new : y = Len(h) + Rank(new, i) /\ merged[y] = s[i]
  <2> SUFFICES ASSUME NEW y \in 1..Len(merged), y \notin 1..Len(h)
               PROVE  \E i \in new : y = Len(h) + Rank(new, i) /\ merged[y] = s[i]
    OBVIOUS
  <2>1. y - Len(h) \in 1..Cardinality(new) /\ Len(h) + (y - Len(h)) = y
    BY <1>1, <1>2
  <2>2. PICK i \in new : Rank(new, i) = y - Len(h) /\ merged[Len(h) + (y - Len(h))] = s[i]
    BY <1>2, <2>1
  <2> QED
    BY <2>1, <2>2
<1>9. CASE p <= Cardinality(H)
  <2>1. PICK x \in H : Rank(H, x) = p
    BY <1>1, <1>3, <1>9
  <2>2. x \in 1..Len(merged) /\ x \in 1..Len(h) /\ merged[x] = c[p]
    BY <1>1, <1>2, <1>3, <2>1
  <2>3. ASSUME NEW y \in 1..Len(merged), y > x PROVE merged[y].type # "plan"
    <3>1. CASE y \in 1..Len(h)
      <4>1. SUFFICES ASSUME y \in H PROVE h[y].type # "plan"
        BY <1>2, <1>6, <3>1
      <4>2. Rank(H, x) < Rank(H, y) /\ Rank(H, y) \in 1..Cardinality(H)
        BY <1>3, <2>3, <4>1
      <4>3. Rank(H, y) \in 1..n /\ Rank(H, y) > p
        BY <1>1, <2>1, <4>2 DEF H
      <4> QED
        BY <1>3, <4>1, <4>3
    <3>2. CASE y \notin 1..Len(h)
      <4>1. PICK i \in new : merged[y] = s[i]
        BY <1>8, <3>2
      <4>2. SUFFICES ASSUME i \in S PROVE s[i].type # "plan"
        BY <1>2, <1>6, <4>1
      <4>3. Rank(S, i) > Cardinality(H) /\ Rank(S, i) \in 1..Cardinality(S)
        BY <1>4, <1>5, <4>2
      <4>4. Rank(S, i) \in 1..n /\ Rank(S, i) > p
        BY <1>1, <1>9, <4>3 DEF S
      <4> QED
        BY <1>4, <4>2, <4>4
    <3> QED
      BY <3>1, <3>2
  <2> QED
    BY <2>2, <2>3 DEF LastPlanIs, merged
<1>10. CASE ~(p <= Cardinality(H))
  <2>1. p \in 1..Cardinality(S)
    BY <1>1, <1>10 DEF H, S
  <2>2. PICK i \in S : Rank(S, i) = p
    BY <1>4, <2>1
  <2>3. i \in new
    BY <1>1, <1>5, <1>10, <2>2
  <2> DEFINE x == Len(h) + Rank(new, i)
  <2>4. x \in 1..Len(merged) /\ merged[x] = c[p] /\ x > Len(h)
    <3> DEFINE r == Rank(new, i)
    <3>1. r \in 1..Cardinality(new)
      BY <1>2, <2>3
    <3>2. merged[Len(h) + r] = s[i]
      BY <1>2, <2>3
    <3>3. s[i] = c[p]
      BY <1>4, <2>2
    <3>4. Len(h) \in Nat /\ Cardinality(new) \in Nat /\ Len(merged) = Len(h) + Cardinality(new)
      BY <1>1, <1>2
    <3> HIDE DEF r
    <3>5. Len(h) + r \in 1..Len(merged) /\ Len(h) + r > Len(h)
      BY <3>1, <3>4
    <3> QED
      BY <3>2, <3>3, <3>5 DEF r
  <2>5. ASSUME NEW y \in 1..Len(merged), y > x PROVE merged[y].type # "plan"
    <3>1. y \notin 1..Len(h)
      BY <1>1, <1>2, <2>4, <2>5
    <3>2. PICK j \in new : y = Len(h) + Rank(new, j) /\ merged[y] = s[j]
      BY <1>8, <3>1
    <3>3. Rank(new, i) \in Nat /\ Rank(new, j) \in Nat /\ i \in Nat /\ j \in Nat
      <4>1. \A a \in new : a \in Nat
        BY <1>2
      <4>2. \A a \in new : Rank(new, a) \in Nat
        BY <1>2
      <4> QED
        BY <2>3, <4>1, <4>2
    <3>4. ~(j < i) /\ j # i
      BY <1>1, <1>7, <2>3, <2>5, <3>2, <3>3
    <3>5. i < j
      BY <3>3, <3>4
    <3>6. SUFFICES ASSUME j \in S PROVE s[j].type # "plan"
      BY <1>2, <1>6, <3>2
    <3>7. Rank(S, j) > p /\ Rank(S, j) \in 1..Cardinality(S)
      BY <1>4, <2>2, <3>5, <3>6
    <3>8. Rank(S, j) \in 1..n
      BY <1>1, <3>7 DEF S
    <3> QED
      BY <1>4, <3>6, <3>7, <3>8
  <2> QED
    BY <2>4, <2>5 DEF LastPlanIs, merged
<1> QED
  BY <1>9, <1>10

LEMMA PlansAreOfKind == \A s \in Seq(Messages) : PlansIn(s) = OfKind(s, PlanMessages)
<1> SUFFICES ASSUME NEW s \in Seq(Messages) PROVE PlansIn(s) = OfKind(s, PlanMessages)
  OBVIOUS
<1>1. DOMAIN s = 1..Len(s) /\ \A i \in 1..Len(s) : s[i] \in Messages
  BY LenProperties, ElementOfSeq
<1> QED
  BY <1>1 DEF PlansIn, OfKind, PlanMessages

\* The plans of a tab are the first calls of a plan.
LEMMA PlansCounted ==
  ASSUME NEW s \in Seq(Messages), NEW c \in Seq(Messages), Follows(s, c)
  PROVE  /\ Cardinality(Said(s)) \in Nat
         /\ Cardinality(PlansIn(s)) = Cardinality(Calls(c, PlanMessages, Cardinality(Said(s))))
<1>1. Cardinality(OfKind(s, PlanMessages))
        = Cardinality(Calls(c, PlanMessages, Cardinality(Said(s))))
  BY Counted, PlansAreTheAgents
<1> QED
  BY <1>1, SaidPlaces, PlansAreOfKind

LEMMA FewerCalls ==
  ASSUME NEW c, NEW m \in Nat, NEW n \in Nat, m <= n
  PROVE  /\ Cardinality(Calls(c, PlanMessages, m)) \in Nat
         /\ Cardinality(Calls(c, PlanMessages, n)) \in Nat
         /\ Cardinality(Calls(c, PlanMessages, m)) <= Cardinality(Calls(c, PlanMessages, n))
<1>1. /\ Calls(c, PlanMessages, m) \subseteq Calls(c, PlanMessages, n)
      /\ Calls(c, PlanMessages, n) \subseteq 1..n /\ Calls(c, PlanMessages, m) \subseteq 1..m
  BY DEF Calls
<1> QED
  BY <1>1, PlacesAreFinite, FS_Subset

\* The plan of the highest number among the first n calls.
LEMMA LastOfCalls ==
  ASSUME NEW c \in Seq(Messages), NEW n \in Nat, n <= Len(c),
         Cardinality(Calls(c, PlanMessages, n)) > 0
  PROVE  \E p \in 1..n :
           /\ c[p].type = "plan" /\ p \in PlansIn(c)
           /\ \A q \in 1..n : q > p => c[q].type # "plan"
           /\ Rank(PlansIn(c), p) = Cardinality(Calls(c, PlanMessages, n))
<1> DEFINE X == Calls(c, PlanMessages, n)
<1> DEFINE k == Cardinality(X)
<1>1. /\ Len(c) \in Nat /\ DOMAIN c = 1..Len(c)
      /\ \A q \in 1..n : q \in 1..Len(c) /\ c[q] \in Messages
  BY LenProperties, ElementOfSeq
<1>2. X \subseteq 1..n /\ \A q \in 1..n : q \in X <=> c[q].type = "plan"
  BY <1>1 DEF Calls, PlanMessages
<1> HIDE DEF X
<1>3. k \in Nat /\ k \in 1..k
  BY <1>2, PlacesAreFinite DEF X
<1>4. PICK p \in X : Rank(X, p) = k
  BY <1>2, <1>3, Ranks
<1>5. ASSUME NEW q \in 1..n, q > p PROVE c[q].type # "plan"
  <2>1. SUFFICES ASSUME q \in X PROVE FALSE
    BY <1>2
  <2>2. Rank(X, p) < Rank(X, q) /\ Rank(X, q) \in 1..k
    BY <1>2, <1>5, <2>1, Ranks
  <2> QED
    BY <1>3, <1>4, <2>2
<1>6. p \in PlansIn(c) /\ p \in 1..n /\ c[p].type = "plan"
  BY <1>1, <1>2 DEF PlansIn
<1>7. {j \in PlansIn(c) : j <= p} = {j \in X : j <= p}
  <2>1. \A j \in PlansIn(c) : j <= p => j \in X
    <3> SUFFICES ASSUME NEW j \in PlansIn(c), j <= p PROVE j \in X
      OBVIOUS
    <3>1. j \in 1..Len(c) /\ c[j].type = "plan"
      BY <1>1 DEF PlansIn
    <3>2. j \in 1..n
      BY <1>6, <3>1
    <3> QED
      BY <1>2, <3>1, <3>2
  <2>2. \A j \in X : j \in PlansIn(c)
    BY <1>1, <1>2 DEF PlansIn
  <2> QED
    BY <2>1, <2>2
<1>8. Rank(PlansIn(c), p) = k
  BY <1>4, <1>7 DEF Rank
<1> QED
  BY <1>5, <1>6, <1>8 DEF X

\* What a tab that has heard and read calls in their order shows of their plans.
LEMMA PlansShown ==
  ASSUME NEW h \in Seq(Messages), NEW s \in Seq(Messages), NEW c \in Seq(Messages),
         Follows(h, c), Follows(s, c),
         NEW known,
         known = IF Cardinality(PlansIn(h)) > Cardinality(PlansIn(s))
                   THEN Cardinality(PlansIn(h)) ELSE Cardinality(PlansIn(s)),
         known > 0,
         NEW bubbles, bubbles = Bubbles(MergeMessageHistory(h, s))
  PROVE  /\ \E i \in PlansIn(bubbles), p \in PlansIn(c) :
              /\ \A j \in PlansIn(bubbles) : j <= i
              /\ Rank(PlansIn(c), p) = known
              /\ bubbles[i] = c[p]
         /\ \A i, j \in PlansIn(bubbles) :
              i < j /\ (\A k \in i..j : bubbles[k].role # "user")
                => IsPlanComplete(bubbles[i])
<1> DEFINE H == Cardinality(Said(h))
<1> DEFINE S == Cardinality(Said(s))
<1> DEFINE n == IF H > S THEN H ELSE S
<1> DEFINE merged == MergeMessageHistory(h, s)
<1>1. H \in Nat /\ S \in Nat /\ H <= Len(c) /\ S <= Len(c)
  BY PlansCounted, NoMoreThanCalls
<1>2. n \in Nat /\ n <= Len(c) /\ H <= n /\ S <= n /\ (n = H \/ n = S)
  BY <1>1
<1>3. /\ Cardinality(PlansIn(h)) = Cardinality(Calls(c, PlanMessages, H))
      /\ Cardinality(PlansIn(s)) = Cardinality(Calls(c, PlanMessages, S))
  BY PlansCounted
<1> HIDE DEF H, S, n
<1>4. known = Cardinality(Calls(c, PlanMessages, n)) /\ known \in Nat
  <2>1. /\ Cardinality(Calls(c, PlanMessages, H)) \in Nat
        /\ Cardinality(Calls(c, PlanMessages, S)) \in Nat
        /\ Cardinality(Calls(c, PlanMessages, n)) \in Nat
        /\ Cardinality(Calls(c, PlanMessages, H)) <= Cardinality(Calls(c, PlanMessages, n))
        /\ Cardinality(Calls(c, PlanMessages, S)) <= Cardinality(Calls(c, PlanMessages, n))
    BY <1>1, <1>2, FewerCalls
  <2> QED
    BY <1>2, <1>3, <2>1
<1>5. PICK p \in 1..n :
        /\ c[p].type = "plan" /\ p \in PlansIn(c)
        /\ \A q \in 1..n : q > p => c[q].type # "plan"
        /\ Rank(PlansIn(c), p) = known
  BY <1>2, <1>4, LastOfCalls
<1>6. merged \in Seq(Messages)
  BY Merged
<1>7. PICK x \in 1..Len(merged) :
        /\ merged[x] = c[p]
        /\ \A y \in 1..Len(merged) : y > x => merged[y].type # "plan"
  <2>1. /\ Cardinality(Said(h)) <= n /\ Cardinality(Said(s)) <= n
        /\ n = Cardinality(Said(h)) \/ n = Cardinality(Said(s))
    BY <1>2 DEF H, S
  <2>2. LastPlanIs(MergeMessageHistory(h, s), c[p])
    BY <1>2, <1>5, <2>1, LastPlanMerged
  <2> QED
    BY <2>2 DEF LastPlanIs
<1> HIDE DEF merged
<1>8. /\ bubbles \in Seq(Messages) /\ NoneSuperseded(bubbles)
      /\ LastPlanShown(bubbles, merged, Len(merged))
  BY <1>6, BubblesHold DEF merged
<1>9. Len(bubbles) \in Nat /\ DOMAIN bubbles = 1..Len(bubbles)
  BY <1>8, LenProperties
<1>10. PICK i \in 1..Len(bubbles) :
        /\ bubbles[i] = merged[x]
        /\ \A j \in 1..Len(bubbles) : j > i => bubbles[j].type # "plan"
  BY <1>5, <1>7, <1>8 DEF LastPlanShown
<1>11. i \in PlansIn(bubbles) /\ \A j \in PlansIn(bubbles) : j <= i
  BY <1>5, <1>7, <1>9, <1>10 DEF PlansIn
<1>12. \A a, b \in PlansIn(bubbles) :
         a < b /\ (\A k \in a..b : bubbles[k].role # "user")
           => IsPlanComplete(bubbles[a])
  BY <1>8, <1>9 DEF PlansIn, NoneSuperseded
<1> QED
  BY <1>5, <1>7, <1>10, <1>11, <1>12

-----------------------------------------------------------------------------
(* The calls, and the messages the tab has heard and read of them          *)

Turns == {"idle", "working", "asking", "waiting", "recording", "planning"}

TalkTyped ==
  /\ turn \in Turns
  /\ turn \in {"asking", "waiting", "recording", "planning"} => Len(calls) > 0
  /\ calls \in Seq(Messages) /\ Len(calls) <= MaxTools
  /\ rows \in Seq(Messages) /\ inbox \in Seq(Messages)
  /\ streamed \in Seq(Messages) /\ cached \in Seq(Messages)
  /\ fetch \in [at : {"none", "read"}, rows : Seq(Messages)]
  /\ \A q \in 1..Len(calls) : calls[q].role = "assistant"

Heard == Cardinality(Said(streamed))

\* The frames on their way are those of the calls not heard yet, in their order.
HeardInOrder ==
  ~missed =>
    /\ Follows(streamed, calls)
    /\ Heard + Len(inbox) = Len(calls)
    /\ \A k \in 1..Len(inbox) : inbox[k] = calls[Heard + k]

\* Rows lack at most the call that is being saved.
Saved == IF turn \in {"asking", "planning"} THEN Len(calls) - 1 ELSE Len(calls)

SavedInOrder ==
  ~unsaved =>
    /\ Follows(rows, calls) /\ Cardinality(Said(rows)) = Saved
    /\ Follows(cached, calls) /\ Follows(fetch.rows, calls)

Talk == TalkTyped /\ HeardInOrder /\ SavedInOrder

talkVars == <<turn, calls, rows, inbox, streamed, cached, fetch, missed, unsaved>>

LEMMA NothingSaid ==
  ASSUME NEW c PROVE Follows(<<>>, c) /\ Cardinality(Said(<<>>)) = 0
<1>1. Said(<<>>) = {}
  BY DEF Said
<1> QED
  BY <1>1, FS_EmptySet DEF Follows

LEMMA TalkInit == Init => Talk
<1> SUFFICES ASSUME Init PROVE Talk
  OBVIOUS
<1>1. /\ turn = "idle" /\ calls = <<>> /\ rows = <<>> /\ inbox = <<>>
      /\ streamed = <<>> /\ cached = <<>>
      /\ fetch = [at |-> "none", rows |-> <<>>]
  BY DEF Init, NoFetch
<1>2. Len(calls) = 0 /\ Len(inbox) = 0 /\ calls \in Seq(Messages)
  BY <1>1, EmptySeq
<1>3. TalkTyped
  BY <1>1, <1>2, QuestionnaireAssumption DEF TalkTyped, Turns
<1>4. HeardInOrder /\ SavedInOrder
  BY <1>1, <1>2, NothingSaid DEF HeardInOrder, SavedInOrder, Heard, Saved
<1> QED
  BY <1>3, <1>4 DEF Talk

LEMMA TalkAside == ASSUME Talk, UNCHANGED talkVars PROVE Talk'
<1>1. TalkTyped'
  BY DEF Talk, talkVars, TalkTyped
<1>2. HeardInOrder'
  BY DEF Talk, talkVars, HeardInOrder, Heard, Said, Follows, Rank
<1>3. SavedInOrder'
  BY DEF Talk, talkVars, SavedInOrder, Saved, Said, Follows, Rank
<1> QED
  BY <1>1, <1>2, <1>3 DEF Talk

\* The harness moves on without a call and without a row.
LEMMA TalkTurn ==
  ASSUME Talk, UNCHANGED <<calls, rows, inbox, streamed, cached, fetch, missed>>,
         turn' \in Turns, turn' # "idle" => Len(calls) > 0 \/ turn' = "working",
         \/ unsaved'
         \/ /\ unsaved' <=> unsaved
            /\ (turn' \in {"asking", "planning"}) <=> (turn \in {"asking", "planning"})
  PROVE  Talk'
<1> USE DEF Talk
<1>1. TalkTyped'
  BY DEF TalkTyped
<1>2. HeardInOrder'
  BY DEF HeardInOrder, Heard, Said, Follows, Rank
<1>3. SavedInOrder'
  <2>1. CASE unsaved'
    BY <2>1 DEF SavedInOrder
  <2>2. CASE ~unsaved'
    <3>1. ~unsaved /\ Saved' = Saved
      BY <2>2 DEF Saved
    <3> QED
      BY <3>1 DEF SavedInOrder, Said, Follows, Rank
  <2> QED
    BY <2>1, <2>2
<1> QED
  BY <1>1, <1>2, <1>3

LEMMA TalkCall ==
  ASSUME Talk, NEW m \in Messages, m.role = "assistant",
         NEW next \in {"asking", "planning"}, Call(m, next)
  PROVE  Talk'
<1> USE DEF Talk
<1>1. /\ turn = "working" /\ turn' = next /\ Len(calls) < MaxTools
      /\ calls' = Append(calls, m)
      /\ \/ inbox' = Append(inbox, m) /\ missed' = missed
         \/ inbox' = inbox /\ missed'
      /\ UNCHANGED <<rows, streamed, cached, fetch, unsaved>>
  BY DEF Call, Publish, tabVars
<1>2. /\ calls' \in Seq(Messages) /\ Len(calls') = Len(calls) + 1 /\ Len(calls) \in Nat
      /\ \A q \in 1..Len(calls) : calls'[q] = calls[q]
      /\ calls'[Len(calls) + 1] = m
  BY <1>1, AppendPlaces DEF TalkTyped
<1>3. /\ Append(inbox, m) \in Seq(Messages) /\ Len(Append(inbox, m)) = Len(inbox) + 1
      /\ Len(inbox) \in Nat
      /\ \A k \in 1..Len(inbox) : Append(inbox, m)[k] = inbox[k]
      /\ Append(inbox, m)[Len(inbox) + 1] = m
  BY AppendPlaces DEF TalkTyped
<1>4. TalkTyped'
  <2>1. \A q \in 1..Len(calls') : calls'[q].role = "assistant"
    <3>1. \A q \in 1..Len(calls') : q \in 1..Len(calls) \/ q = Len(calls) + 1
      BY <1>2
    <3> QED
      BY <1>2, <3>1 DEF TalkTyped
  <2>2. Len(calls') <= MaxTools /\ Len(calls') > 0
    BY <1>1, <1>2, QuestionnaireAssumption
  <2>3. inbox' \in Seq(Messages)
    BY <1>1, <1>3 DEF TalkTyped
  <2> QED
    BY <1>1, <1>2, <2>1, <2>2, <2>3 DEF TalkTyped, Turns
<1>5. ASSUME NEW s \in Seq(Messages), Follows(s, calls) PROVE Follows(s, calls')
  BY <1>1, <1>5, FollowsFurther DEF TalkTyped
<1>6. HeardInOrder'
  <2> SUFFICES ASSUME ~missed'
               PROVE  /\ Follows(streamed, calls')
                      /\ Heard + Len(inbox') = Len(calls')
                      /\ \A k \in 1..Len(inbox') : inbox'[k] = calls'[Heard + k]
    BY <1>1 DEF HeardInOrder, Heard, Said, Follows, Rank
  <2>1. /\ inbox' = Append(inbox, m)
        /\ Follows(streamed, calls) /\ Heard + Len(inbox) = Len(calls)
        /\ \A k \in 1..Len(inbox) : inbox[k] = calls[Heard + k]
    BY <1>1 DEF HeardInOrder
  <2>2. Heard \in Nat
    BY SaidPlaces DEF Heard, TalkTyped
  <2>3. Follows(streamed, calls')
    BY <1>5, <2>1 DEF TalkTyped
  <2>4. ASSUME NEW k \in 1..Len(inbox') PROVE inbox'[k] = calls'[Heard + k]
    <3>1. CASE k = Len(inbox) + 1
      BY <1>2, <1>3, <2>1, <2>2, <3>1
    <3>2. CASE k # Len(inbox) + 1
      <4>1. k \in 1..Len(inbox) /\ Heard + k \in 1..Len(calls)
        BY <1>2, <1>3, <2>1, <2>2, <3>2
      <4> QED
        BY <1>2, <1>3, <2>1, <4>1
    <3> QED
      BY <3>1, <3>2
  <2> QED
    BY <1>2, <1>3, <2>1, <2>2, <2>3, <2>4
<1>7. SavedInOrder'
  <2> SUFFICES ASSUME ~unsaved'
               PROVE  /\ Follows(rows, calls') /\ Cardinality(Said(rows)) = Saved'
                      /\ Follows(cached, calls') /\ Follows(fetch.rows, calls')
    <3>1. /\ Follows(rows, calls)' <=> Follows(rows, calls')
          /\ Follows(cached, calls)' <=> Follows(cached, calls')
          /\ Follows(fetch.rows, calls)' <=> Follows(fetch.rows, calls')
          /\ Cardinality(Said(rows))' = Cardinality(Said(rows))
      BY <1>1 DEF Said, Follows, Rank
    <3> QED
      BY <3>1 DEF SavedInOrder
  <2>1. Saved' = Saved
    BY <1>1, <1>2 DEF Saved
  <2>2. /\ Follows(rows, calls) /\ Cardinality(Said(rows)) = Saved
        /\ Follows(cached, calls) /\ Follows(fetch.rows, calls)
        /\ rows \in Seq(Messages) /\ cached \in Seq(Messages) /\ fetch.rows \in Seq(Messages)
    BY <1>1 DEF SavedInOrder, TalkTyped
  <2> QED
    BY <1>5, <2>1, <2>2
<1> QED
  BY <1>4, <1>6, <1>7

\* A row of the call that was published last, or of the user's answers.
LEMMA TalkSave == ASSUME Talk, SaveRow PROVE Talk'
<1> USE DEF Talk
<1> DEFINE row == IF turn = "recording" THEN Reply(Current) ELSE calls[Current]
<1>1. /\ turn \in {"asking", "planning", "recording"} /\ turn' \in {"waiting", "working"}
      /\ \/ rows' = Append(rows, row) /\ unsaved' = unsaved
         \/ unsaved' /\ rows' = rows
      /\ UNCHANGED <<calls, inbox, streamed, cached, fetch, missed>>
  BY DEF SaveRow, Save, tabVars
<1>2. /\ calls \in Seq(Messages) /\ Len(calls) \in Nat /\ Current \in 1..Len(calls)
      /\ Current \in Ids /\ Current = Len(calls)
  BY <1>1, LenProperties, QuestionnaireAssumption DEF TalkTyped, Current, Ids
<1>3. row \in Messages
  <2>1. Reply(Current) \in Messages
    BY <1>2 DEF Messages
  <2> QED
    BY <1>2, <2>1, ElementOfSeq
<1>4. turn # "recording" => row.role = "assistant" /\ row = calls[Current]
  BY <1>2 DEF TalkTyped
<1>5. turn = "recording" => row.role # "assistant"
  BY DEF Reply, Message
<1> HIDE DEF row
<1>6. TalkTyped'
  <2>1. rows' \in Seq(Messages)
    <3>1. rows \in Seq(Messages) /\ Append(rows, row) \in Seq(Messages)
      BY <1>3, AppendPlaces DEF TalkTyped
    <3> QED
      BY <1>1, <3>1
  <2> QED
    BY <1>1, <1>2, <2>1 DEF TalkTyped, Turns
<1>7. HeardInOrder'
  BY <1>1 DEF HeardInOrder, Heard, Said, Follows, Rank
<1>8. SavedInOrder'
  <2> SUFFICES ASSUME ~unsaved'
               PROVE  /\ Follows(rows', calls) /\ Cardinality(Said(rows')) = Len(calls)
                      /\ Follows(cached, calls) /\ Follows(fetch.rows, calls)
    <3>1. /\ Follows(rows, calls)' <=> Follows(rows', calls)
          /\ Follows(cached, calls)' <=> Follows(cached, calls)
          /\ Follows(fetch.rows, calls)' <=> Follows(fetch.rows, calls)
          /\ Cardinality(Said(rows))' = Cardinality(Said(rows'))
      BY <1>1 DEF Said, Follows, Rank
    <3>2. Saved' = Len(calls)
      BY <1>1 DEF Saved
    <3> QED
      BY <3>1, <3>2 DEF SavedInOrder
  <2>1. /\ rows' = Append(rows, row)
        /\ Follows(rows, calls) /\ Cardinality(Said(rows)) = Saved
        /\ Follows(cached, calls) /\ Follows(fetch.rows, calls)
        /\ rows \in Seq(Messages)
    BY <1>1 DEF SavedInOrder, TalkTyped
  <2>2. CASE turn = "recording"
    <3>1. Saved = Len(calls)
      BY <2>2 DEF Saved
    <3>2. Said(rows') = Said(rows)
      BY <1>3, <1>5, <2>1, <2>2, SaidMore
    <3>3. Follows(rows', calls)
      BY <1>2, <1>3, <1>5, <2>1, <2>2, FollowsMore
    <3> QED
      BY <2>1, <3>1, <3>2, <3>3
  <2>3. CASE turn # "recording"
    <3>1. Saved = Len(calls) - 1
      BY <1>1, <2>3 DEF Saved
    <3>2. Cardinality(Said(rows)) + 1 = Len(calls)
      BY <1>2, <2>1, <3>1
    <3>3. Cardinality(Said(rows')) = Cardinality(Said(rows)) + 1
      BY <1>3, <1>4, <2>1, <2>3, SaidMore
    <3>4. Follows(rows', calls)
      BY <1>2, <1>3, <1>4, <2>1, <2>3, <3>2, FollowsMore
    <3> QED
      BY <2>1, <3>2, <3>3, <3>4
  <2> QED
    BY <2>2, <2>3
<1> QED
  BY <1>6, <1>7, <1>8

LEMMA TalkHear == ASSUME Talk, Hear PROVE Talk'
<1> USE DEF Talk
<1> DEFINE m == Head(inbox)
<1>1. /\ inbox # <<>> /\ inbox' = Tail(inbox) /\ streamed' = Append(streamed, m)
      /\ UNCHANGED <<turn, calls, rows, cached, fetch, missed, unsaved>>
  BY DEF Hear, agentVars
<1>2. /\ m \in Messages /\ m = inbox[1] /\ inbox' \in Seq(Messages)
      /\ Len(inbox) \in Nat /\ Len(inbox) >= 1 /\ Len(inbox') = Len(inbox) - 1
      /\ \A k \in 1..Len(inbox') : k + 1 \in 1..Len(inbox) /\ inbox'[k] = inbox[k + 1]
  BY <1>1, HeadTailProperties, LenProperties DEF TalkTyped
<1>3. streamed' \in Seq(Messages)
  BY <1>1, <1>2, AppendPlaces DEF TalkTyped
<1> HIDE DEF m
<1>4. TalkTyped'
  BY <1>1, <1>2, <1>3 DEF TalkTyped
<1>5. SavedInOrder'
  BY <1>1 DEF SavedInOrder, Saved, Said, Follows, Rank
<1>6. HeardInOrder'
  <2> SUFFICES ASSUME ~missed
               PROVE  /\ Follows(streamed', calls)
                      /\ Heard' + Len(inbox') = Len(calls)
                      /\ \A k \in 1..Len(inbox') : inbox'[k] = calls[Heard' + k]
    BY <1>1 DEF HeardInOrder, Heard, Said, Follows, Rank
  <2>1. /\ Follows(streamed, calls) /\ Heard + Len(inbox) = Len(calls)
        /\ \A k \in 1..Len(inbox) : inbox[k] = calls[Heard + k]
        /\ Heard \in Nat /\ Len(calls) \in Nat
    BY SaidPlaces, LenProperties DEF HeardInOrder, Heard, TalkTyped
  <2>2. m = calls[Heard + 1] /\ Heard + 1 \in 1..Len(calls) /\ m.role = "assistant"
    BY <1>2, <2>1 DEF TalkTyped
  <2>3. Follows(streamed', calls)
    BY <1>1, <1>2, <2>1, <2>2, FollowsMore DEF Heard, TalkTyped
  <2>4. Heard' = Heard + 1
    BY <1>1, <1>2, <2>2, SaidMore DEF Heard, TalkTyped
  <2>5. ASSUME NEW k \in 1..Len(inbox') PROVE inbox'[k] = calls[Heard' + k]
    <3>1. Heard + (k + 1) = Heard' + k
      BY <2>1, <2>4
    <3>2. k + 1 \in 1..Len(inbox) /\ inbox'[k] = inbox[k + 1]
      BY <1>2
    <3> QED
      BY <2>1, <3>1, <3>2
  <2>6. Heard' + Len(inbox') = Len(calls)
    <3>1. /\ Heard \in Int /\ Len(inbox) \in Int /\ Len(inbox') = Len(inbox) - 1
          /\ Heard + Len(inbox) = Len(calls) /\ Heard' = Heard + 1
      BY <1>2, <2>1, <2>4
    <3>2. \A a, b \in Int : (a + 1) + (b - 1) = a + b
      OBVIOUS
    <3>3. Heard' + Len(inbox') = Heard + Len(inbox)
      BY ONLY <3>1, <3>2
    <3> QED
      BY <3>1, <3>3
  <2> QED
    BY <2>3, <2>5, <2>6
<1> QED
  BY <1>4, <1>5, <1>6

LEMMA TalkPrompt == ASSUME Talk, SendPrompt PROVE Talk'
<1> USE DEF Talk
<1>1. /\ streamed' = Append(streamed, Prompt) /\ rows' = Append(rows, Prompt)
      /\ UNCHANGED <<turn, calls, inbox, cached, fetch, missed, unsaved>>
  BY DEF SendPrompt
<1>2. Prompt \in Messages /\ Prompt.role # "assistant"
  BY DEF Messages, Prompt, Message
<1>3. /\ streamed' \in Seq(Messages) /\ rows' \in Seq(Messages)
      /\ streamed \in Seq(Messages) /\ rows \in Seq(Messages) /\ calls \in Seq(Messages)
  BY <1>1, <1>2, AppendPlaces DEF TalkTyped
<1>4. TalkTyped'
  BY <1>1, <1>3 DEF TalkTyped
<1>5. Said(streamed') = Said(streamed) /\ Said(rows') = Said(rows)
  BY <1>1, <1>2, <1>3, SaidMore
<1>6. /\ Follows(streamed, calls) => Follows(streamed', calls)
      /\ Follows(rows, calls) => Follows(rows', calls)
  BY <1>1, <1>2, <1>3, FollowsMore
<1>7. /\ Follows(streamed, calls)' <=> Follows(streamed', calls)
      /\ Follows(rows, calls)' <=> Follows(rows', calls)
      /\ Follows(cached, calls)' <=> Follows(cached, calls)
      /\ Follows(fetch.rows, calls)' <=> Follows(fetch.rows, calls)
  BY <1>1 DEF Follows, Said, Rank
<1>8. Heard' = Heard /\ Cardinality(Said(rows))' = Cardinality(Said(rows)) /\ Saved' = Saved
  BY <1>1, <1>5 DEF Heard, Saved
<1>9. HeardInOrder'
  BY <1>1, <1>6, <1>7, <1>8 DEF HeardInOrder
<1>10. SavedInOrder'
  BY <1>1, <1>6, <1>7, <1>8 DEF SavedInOrder
<1> QED
  BY <1>4, <1>9, <1>10

LEMMA TalkFetch == ASSUME Talk, ReadHistory \/ FetchReturns PROVE Talk'
<1> USE DEF Talk
<1>1. /\ \/ fetch' = [at |-> "read", rows |-> rows] /\ cached' = cached
         \/ fetch' = [at |-> "none", rows |-> <<>>] /\ cached' = fetch.rows
      /\ UNCHANGED <<turn, calls, rows, inbox, streamed, missed, unsaved>>
  BY DEF ReadHistory, FetchReturns, NoFetch, agentVars
<1>2. TalkTyped'
  <2>1. CASE fetch' = [at |-> "read", rows |-> rows] /\ cached' = cached
    BY <1>1, <2>1 DEF TalkTyped
  <2>2. CASE fetch' = [at |-> "none", rows |-> <<>>] /\ cached' = fetch.rows
    <3>1. <<>> \in Seq(Messages) /\ fetch.rows \in Seq(Messages)
      BY EmptySeq DEF TalkTyped
    <3> QED
      BY <1>1, <2>2, <3>1 DEF TalkTyped
  <2> QED
    BY <1>1, <2>1, <2>2
<1>3. HeardInOrder'
  BY <1>1 DEF HeardInOrder, Heard, Said, Follows, Rank
<1>4. SavedInOrder'
  <2> SUFFICES ASSUME ~unsaved
               PROVE  /\ Follows(rows, calls) /\ Cardinality(Said(rows)) = Saved
                      /\ Follows(cached', calls) /\ Follows(fetch'.rows, calls)
    BY <1>1 DEF SavedInOrder, Saved, Said, Follows, Rank
  <2> QED
    BY <1>1, NothingSaid DEF SavedInOrder
<1> QED
  BY <1>2, <1>3, <1>4

LEMMA TalkStep == Talk /\ [Next]_vars => Talk'
<1> SUFFICES ASSUME Talk, [Next]_vars PROVE Talk'
  OBVIOUS
<1> USE DEF agentVars, tabVars, bounds
<1>1. CASE \/ UNCHANGED vars
           \/ \E q \in Asked : \/ SubmitAnswers(q)
                               \/ \E i \in Indexes, o \in Options : SelectOption(q, i, o)
           \/ \E i \in DOMAIN post : PostArrives(i) \/ PostReturns(i) \/ PostFails(i)
  BY <1>1, TalkAside
    DEF vars, SelectOption, SubmitAnswers, CardStep, PostArrives, PostReturns, PostFails,
        Settle, talkVars
<1>2. CASE Begin \/ EndTurn
  BY <1>2, TalkTurn DEF Begin, EndTurn, Turns
<1>3. CASE PopAnswer
  <2>1. CASE turn = "waiting" /\ Head(queue).of = Current
    <3>1. Len(calls) > 0
      BY <2>1 DEF Talk, TalkTyped
    <3> QED
      BY <1>3, <2>1, <3>1, TalkTurn DEF PopAnswer, Turns
  <2>2. CASE ~(turn = "waiting" /\ Head(queue).of = Current)
    BY <1>3, <2>2, TalkAside DEF PopAnswer, talkVars
  <2> QED
    BY <2>1, <2>2
<1>4. CASE AgentRestarts
  <2>1. turn' = "idle" /\ (unsaved' \/ ((unsaved' <=> unsaved) /\ turn \notin {"asking", "planning"}))
    <3>1. /\ turn' = "idle"
          /\ unsaved' = (unsaved \/ turn \in {"asking", "planning", "recording"})
      BY <1>4 DEF AgentRestarts
    <3>2. CASE turn \in {"asking", "planning"}
      BY <3>1, <3>2, Zenon
    <3>3. CASE turn = "recording"
      BY <3>1, <3>3, Zenon
    <3>4. CASE turn \notin {"asking", "planning", "recording"}
      BY <3>1, <3>4, Zenon
    <3> QED
      BY <3>2, <3>3, <3>4
  <2>2. UNCHANGED <<calls, rows, inbox, streamed, cached, fetch, missed>>
    BY <1>4 DEF AgentRestarts
  <2> QED
    BY <2>1, <2>2, TalkTurn DEF Turns
<1>5. CASE AskQuestions \/ \E p \in Plans : UpdatePlan(p)
  <2>1. CASE AskQuestions
    <3>1. Len(calls) + 1 \in Ids
      BY <2>1, LenProperties, QuestionnaireAssumption
        DEF AskQuestions, Call, Ids, Talk, TalkTyped
    <3>2. Question(Len(calls) + 1) \in Messages /\ Question(Len(calls) + 1).role = "assistant"
      BY <3>1 DEF Messages, Question, Message
    <3> QED
      BY <2>1, <3>2, TalkCall DEF AskQuestions
  <2>2. ASSUME NEW p \in Plans, UpdatePlan(p) PROVE Talk'
    <3>1. Plan(p) \in Messages /\ Plan(p).role = "assistant"
      BY DEF Messages, Plan, Message
    <3> QED
      BY <2>2, <3>1, TalkCall DEF UpdatePlan
  <2> QED
    BY <1>5, <2>1, <2>2
<1>6. CASE SaveRow
  BY <1>6, TalkSave
<1>7. CASE Hear
  BY <1>7, TalkHear
<1>8. CASE SendPrompt
  BY <1>8, TalkPrompt
<1>9. CASE ReadHistory \/ FetchReturns
  BY <1>9, TalkFetch
<1> QED
  BY <1>1, <1>2, <1>3, <1>4, <1>5, <1>6, <1>7, <1>8, <1>9 DEF Next

LEMMA TalkInvariance == Spec => []Talk
BY TalkInit, TalkStep, PTL DEF Spec

\* A tab that has heard every frame shows the last plan it has heard of or read,
\* as the last one, and no superseded plan, however often plans repeat and
\* whenever the history returns (mergeMessageHistory, buildRenderableMessages).
THEOREM LatestPlanIsShown == Spec => []PlanShownIsLatest
<1>1. Talk => PlanShownIsLatest
  <2> SUFFICES ASSUME Talk, ~missed, ~unsaved, Known > 0,
                      NEW bubbles, bubbles = Bubbles(MergeMessageHistory(cached, streamed))
               PROVE  /\ \E i \in PlansIn(bubbles), p \in PlansIn(calls) :
                           /\ \A j \in PlansIn(bubbles) : j <= i
                           /\ Rank(PlansIn(calls), p) = Known
                           /\ bubbles[i] = calls[p]
                      /\ \A i, j \in PlansIn(bubbles) :
                           i < j /\ (\A k \in i..j : bubbles[k].role # "user")
                             => IsPlanComplete(bubbles[i])
    BY DEF PlanShownIsLatest, Displayed
  <2>1. /\ cached \in Seq(Messages) /\ streamed \in Seq(Messages) /\ calls \in Seq(Messages)
        /\ Follows(cached, calls) /\ Follows(streamed, calls)
    BY DEF Talk, TalkTyped, HeardInOrder, SavedInOrder
  <2>2. Known = IF Cardinality(PlansIn(cached)) > Cardinality(PlansIn(streamed))
                  THEN Cardinality(PlansIn(cached)) ELSE Cardinality(PlansIn(streamed))
    BY DEF Known
  <2> HIDE DEF Known
  <2> QED
    BY <2>1, <2>2, PlansShown
<1> QED
  BY <1>1, TalkInvariance, PTL

-----------------------------------------------------------------------------
(* Type correctness                                                        *)

Cards == [chosen : Answers, posting : BOOLEAN, sent : BOOLEAN]

Others ==
  /\ todo \in 0..MaxPrompts /\ card \in [Ids -> Cards]
  /\ missed \in BOOLEAN /\ unsaved \in BOOLEAN /\ ignored \subseteq Ids
  /\ prompts \in 0..MaxPrompts /\ fetches \in 0..MaxFetches /\ faults \in 0..MaxFaults

otherVars == <<todo, card, missed, unsaved, ignored, prompts, fetches, faults>>

LEMMA WholeAnswers == Whole \subseteq Answers /\ Empty \in Answers
BY DEF Whole, Answers, Empty

LEMMA SentCardTyped == \A answers \in Answers : SentCard(answers) \in Cards
BY DEF SentCard, Card, Cards

LEMMA FaultTyped == ASSUME Others, Fault PROVE faults' \in 0..MaxFaults
BY QuestionnaireAssumption DEF Others, Fault

LEMMA OthersRemount ==
  ASSUME Exchange, Others, NEW remounted, Remount(remounted)
  PROVE  card' \in [Ids -> Cards]
<1>1. ASSUME NEW q \in Ids PROVE Fresh(q) \in Cards
  <2>1. stored[q] \in Whole \union {None}
    BY DEF Exchange, ExchangeTyped
  <2>2. CASE stored[q] = None
    BY <2>2, WholeAnswers DEF Fresh, Card, Cards
  <2>3. CASE stored[q] # None
    BY <2>1, <2>3, WholeAnswers, SentCardTyped DEF Fresh
  <2> QED
    BY <2>2, <2>3
<1> QED
  BY <1>1 DEF Remount, Others

LEMMA OthersSelect ==
  ASSUME Exchange, Others, NEW q \in Asked, NEW i \in Indexes, NEW o \in Options,
         SelectOption(q, i, o)
  PROVE  card' \in [Ids -> Cards]
<1>1. q \in Ids
  BY LenProperties, QuestionnaireAssumption DEF Asked, Ids, Exchange, ExchangeTyped
<1>2. card[q] \in Cards /\ card[q].chosen \in Answers
  BY <1>1 DEF Others, Cards
<1>3. [card[q].chosen EXCEPT ![i] = o] \in Answers
  BY <1>2 DEF Answers
<1>4. [card[q] EXCEPT !.chosen = [card[q].chosen EXCEPT ![i] = o]] \in Cards
  BY <1>2, <1>3 DEF Cards
<1>5. card' = [card EXCEPT ![q] = [card[q] EXCEPT !.chosen = [card[q].chosen EXCEPT ![i] = o]]]
  BY DEF SelectOption
<1> QED
  BY <1>1, <1>4, <1>5 DEF Others

LEMMA OthersSubmit ==
  ASSUME Exchange, Others, NEW q \in Asked, SubmitAnswers(q)
  PROVE  card' \in [Ids -> Cards]
<1>1. q \in Ids
  BY LenProperties, QuestionnaireAssumption DEF Asked, Ids, Exchange, ExchangeTyped
<1>2. [card[q] EXCEPT !.posting = TRUE] \in Cards
  BY <1>1 DEF Others, Cards
<1>3. card' = [card EXCEPT ![q] = [card[q] EXCEPT !.posting = TRUE]]
  BY DEF SubmitAnswers
<1> QED
  BY <1>1, <1>2, <1>3 DEF Others

LEMMA OthersSettle ==
  ASSUME Exchange, Others, NEW i \in DOMAIN post, NEW stage \in {"done", "failed"},
         Settle(i, stage)
  PROVE  card' \in [Ids -> Cards]
<1> DEFINE q == post[i].of
<1> DEFINE r == IF stage = "done" THEN SentCard(card[q].chosen)
                ELSE [card[q] EXCEPT !.posting = FALSE]
<1>1. q \in Ids
  BY PostsAre
<1>2. r \in Cards
  <2>1. card[q] \in Cards /\ card[q].chosen \in Answers
    BY <1>1 DEF Others, Cards
  <2>2. [card[q] EXCEPT !.posting = FALSE] \in Cards
    BY <2>1 DEF Cards
  <2> QED
    BY <2>1, <2>2, SentCardTyped
<1>3. card' = IF post[i].mounted THEN [card EXCEPT ![q] = r] ELSE card
  BY DEF Settle
<1> HIDE DEF r
<1> QED
  BY <1>1, <1>2, <1>3 DEF Others

LEMMA OthersStep == Exchange /\ Talk /\ Others /\ [Next]_vars => Others'
<1> SUFFICES ASSUME Exchange, Talk, Others, [Next]_vars PROVE Others'
  OBVIOUS
<1> USE DEF agentVars, tabVars, bounds, CardStep
<1>1. CASE UNCHANGED vars \/ EndTurn \/ Hear
  BY <1>1 DEF vars, EndTurn, Hear, Others
<1>2. CASE Begin
  BY <1>2, QuestionnaireAssumption DEF Begin, Others
<1>3. CASE AskQuestions \/ \E p \in Plans : UpdatePlan(p)
  <2>1. /\ (missed' = missed /\ faults' = faults) \/ (missed' = TRUE /\ Fault)
        /\ UNCHANGED <<todo, card, unsaved, ignored, prompts, fetches>>
    <3>1. ASSUME NEW m, NEW next, Call(m, next)
          PROVE  /\ (missed' = missed /\ faults' = faults) \/ (missed' = TRUE /\ Fault)
                 /\ UNCHANGED <<todo, card, unsaved, ignored, prompts, fetches>>
      BY <3>1 DEF Call, Publish
    <3> QED
      BY <1>3, <3>1 DEF AskQuestions, UpdatePlan
  <2> QED
    BY <2>1, FaultTyped DEF Others
<1>4. CASE SaveRow
  <2>1. /\ (unsaved' = unsaved /\ faults' = faults) \/ (unsaved' = TRUE /\ Fault)
        /\ UNCHANGED <<todo, card, missed, ignored, prompts, fetches>>
    BY <1>4 DEF SaveRow, Save
  <2> QED
    BY <2>1, FaultTyped DEF Others
<1>5. CASE PopAnswer
  <2>1. /\ ignored' = ignored \/ ignored' = ignored \union {Head(queue).of}
        /\ UNCHANGED <<todo, card, missed, unsaved, prompts, fetches, faults>>
    BY <1>5 DEF PopAnswer
  <2>2. Head(queue).of \in Ids
    <3>1. Head(queue) \in Replies
      BY <1>5, HeadTailProperties DEF PopAnswer, Exchange, ExchangeTyped
    <3> QED
      BY <3>1 DEF Replies
  <2> QED
    BY <2>1, <2>2 DEF Others
<1>6. CASE AgentRestarts
  <2>1. unsaved' \in BOOLEAN
    BY <1>6 DEF AgentRestarts
  <2> QED
    BY <1>6, <2>1, FaultTyped DEF AgentRestarts, Others
<1>7. CASE ReadHistory
  BY <1>7, QuestionnaireAssumption DEF ReadHistory, Others
<1>8. CASE FetchReturns
  <2>1. card' \in [Ids -> Cards]
    BY <1>8, OthersRemount DEF FetchReturns
  <2> QED
    BY <1>8, <2>1 DEF FetchReturns, Others
<1>9. CASE SendPrompt
  <2>1. prompts \in Nat /\ prompts < MaxPrompts /\ prompts' = prompts + 1 /\ todo = 0 /\ todo' = 1
    BY <1>9 DEF SendPrompt, Others
  <2>2. prompts' \in 0..MaxPrompts /\ todo' \in 0..MaxPrompts
    BY <2>1, QuestionnaireAssumption
  <2> QED
    BY <1>9, <2>2 DEF SendPrompt, Others
<1>10. ASSUME NEW q \in Asked, SubmitAnswers(q) PROVE Others'
  BY <1>10, OthersSubmit DEF SubmitAnswers, Others
<1>11. ASSUME NEW q \in Asked, NEW i \in Indexes, NEW o \in Options, SelectOption(q, i, o)
       PROVE  Others'
  BY <1>11, OthersSelect DEF SelectOption, Others
<1>12. ASSUME NEW i \in DOMAIN post, PostArrives(i) PROVE Others'
  BY <1>12 DEF PostArrives, Others
<1>13. ASSUME NEW i \in DOMAIN post, PostReturns(i) PROVE Others'
  <2>1. card' \in [Ids -> Cards]
    BY <1>13, OthersSettle DEF PostReturns
  <2> QED
    BY <1>13, <2>1 DEF PostReturns, Settle, Others
<1>14. ASSUME NEW i \in DOMAIN post, PostFails(i) PROVE Others'
  <2>1. card' \in [Ids -> Cards]
    BY <1>14, OthersSettle DEF PostFails
  <2> QED
    BY <1>14, <2>1, FaultTyped DEF PostFails, Settle, Others
<1> QED
  BY <1>1, <1>2, <1>3, <1>4, <1>5, <1>6, <1>7, <1>8, <1>9, <1>10, <1>11, <1>12,
     <1>13, <1>14 DEF Next

LEMMA SeqOfMore ==
  ASSUME NEW S, NEW T, S \subseteq T, NEW s \in Seq(S)
  PROVE  s \in Seq(T)
<1>1. /\ Len(s) \in Nat /\ DOMAIN s = 1..Len(s) /\ s \in [1..Len(s) -> S]
  BY LenProperties
<1> QED
  BY <1>1, SeqDef

THEOREM TypeCorrect == Spec => []TypeOK
<1>1. Init => Others
  <2>1. Card(Empty, FALSE, FALSE) \in Cards
    BY WholeAnswers DEF Card, Cards
  <2>2. Init => card \in [Ids -> Cards]
    BY <2>1 DEF Init
  <2>3. 0 \in 0..MaxPrompts /\ 0 \in 0..MaxFetches /\ 0 \in 0..MaxFaults
    BY QuestionnaireAssumption
  <2> QED
    BY <2>2, <2>3 DEF Init, Others
<1>2. ASSUME Exchange, Talk, Others PROVE TypeOK
  <2>1. /\ taken \in [Ids -> Answers \union {None}]
        /\ stored \in [Ids -> Answers \union {None}]
    BY <1>2, WholeAnswers DEF Exchange, ExchangeTyped
  <2>2. queue \in Seq([of : Ids, answers : Answers])
    <3> DEFINE T == [of : Ids, answers : Answers]
    <3>1. Replies \subseteq T
      BY ONLY WholeAnswers DEF Replies
    <3> HIDE DEF T
    <3>2. queue \in Seq(T)
      BY <1>2, <3>1, SeqOfMore DEF Exchange, ExchangeTyped
    <3> QED
      BY <3>2 DEF T
  <2>3. post \in Seq([of : Ids, answers : Answers, mounted : BOOLEAN,
                      stage : {"sent", "pushed", "done", "failed"}])
    <3> DEFINE T == [of : Ids, answers : Answers, mounted : BOOLEAN,
                     stage : {"sent", "pushed", "done", "failed"}]
    <3>1. Posts \subseteq T
      BY ONLY WholeAnswers DEF Posts
    <3> HIDE DEF T
    <3>2. post \in Seq(T)
      BY <1>2, <3>1, SeqOfMore DEF Exchange, ExchangeTyped
    <3> QED
      BY <3>2 DEF T
  <2> QED
    BY <1>2, <2>1, <2>2, <2>3 DEF TypeOK, Talk, TalkTyped, Turns, Others, Cards
<1> QED
  BY <1>1, <1>2, ExchangeInvariance, TalkInvariance, OthersStep, PTL DEF Spec

=============================================================================
