------------------------------- MODULE Browser -------------------------------
(***************************************************************************)
(* One browser tab: the route, the chat it shows (stored history merged    *)
(* with what was streamed), messages and file requests over HTTP, and the  *)
(* socket client underneath. Backend, database and agents are an           *)
(* environment that may be slow, fail, or answer in any order.             *)
(*                                                                         *)
(* isStreaming and error only choose a label beside the chat and are left  *)
(* out. A text of an assistant is the number of its chunks.                *)
(***************************************************************************)
EXTENDS SocketClient, MessageDedupe

CONSTANTS Texts,        \* what the user types
          Keys,         \* what file requests ask for: the list, or a path
          Old,          \* conversations with a history when the page is opened
          MaxStored,    \* bound on the rows of each of them
          MaxCalls,     \* bound on the messages and file requests together
          MaxSays,      \* bound on the frames of the agents' chat
          MaxVisits,    \* bound on the user's navigations
          MaxFaults     \* lost connections and failed HTTP calls

ASSUME BrowserAssumption ==
  /\ MaxStored \in Nat /\ MaxCalls \in Nat /\ MaxSays \in Nat
  /\ MaxVisits \in Nat /\ MaxFaults \in Nat

VARIABLES
  view,      \* routeConversationId
  streamed,  \* streamedMessages
  cached,    \* messageHistory of each conversation as last fetched
  fetches,   \* the running details query of each conversation
  creating,  \* isCreatingConversationRef
  sends,     \* every message sent in the tab
  requests,  \* every file request
  stored,    \* what message_history held when the page was opened
  rows,      \* message_history of each conversation
  queue,     \* messages each conversation's agent has not answered
  said,      \* chunks of the answer an agent is giving
  jobs,      \* file requests pushed to an agent and not served
  visits, says, faults

chatVars   == <<streamed, cached, fetches, creating, sends>>
serverVars == <<stored, rows, queue, said, jobs>>
bounds     == <<visits, says, faults>>
vars == <<socketVars, view, chatVars, requests, serverVars, bounds>>

User(t)      == [role |-> "user", content |-> t]
Assistant(n) == [role |-> "assistant", content |-> n]
\* A tool-status announcement, a question or a plan: no string, never merged.
Status       == Assistant(0)
Messages     == [role : {"user"}, content : Texts]
                  \union [role : {"assistant"}, content : Nat]

\* What earlier pages may have left: texts of the user, of which alone the
\* properties speak.
Histories(c) == UNION {[1..n -> {User(t) : t \in Texts}] :
                         n \in IF c \in Old THEN 1..MaxStored ELSE {0}}

Frame(type, key) == [type |-> type, key |-> key]
ChatFrames       == {"text", "status", "done"}
FileFrames       == {"file", "error"}

NoFetch  == [at |-> "none", rows |-> <<>>]
Fetching == [at |-> "asked", rows |-> <<>>]

SendStages == {"posting", "saved", "queued", "returned", "failed"}
Calls      == {"posting", "pushed", "answered", "failed"}
Promises   == {"new", "pending", "resolved", "rejected", "dropped"}

TypeOK ==
  /\ SocketTypeOK
  /\ inbox \in Seq({Frame(type, None) : type \in ChatFrames}
                    \union {Frame(type, key) : type \in FileFrames, key \in Keys})
  /\ view \in Conversations \union {None}
  /\ streamed \in Seq(Messages)
  /\ cached \in [Conversations -> Seq(Messages)]
  /\ fetches \in [Conversations -> [at : {"none", "asked", "read"}, rows : Seq(Messages)]]
  /\ creating \in BOOLEAN
  /\ sends \in Seq([to : Conversations \union {None}, new : BOOLEAN,
                    text : Texts, stage : SendStages])
  /\ requests \in Seq([of : Conversations, key : Keys, call : Calls,
                       promise : Promises])
  /\ stored \in [Conversations -> Seq(Messages)]
  /\ rows \in [Conversations -> Seq(Messages)]
  /\ queue \in [Conversations -> Nat]
  /\ said \in [Conversations -> Nat]
  /\ jobs \subseteq DOMAIN requests
  /\ visits \in 0..MaxVisits /\ says \in 0..MaxSays /\ faults \in 0..MaxFaults

\* A page just opened, at a conversation that has a history or at none.
Init ==
  /\ view \in (Conversations \intersect Old) \union {None}
  /\ SocketInit(view)
  /\ streamed = <<>> /\ sends = <<>> /\ requests = <<>>
  /\ cached = [c \in Conversations |-> <<>>]
  /\ fetches = [c \in Conversations |-> NoFetch]
  /\ creating = FALSE
  /\ stored \in [Conversations -> UNION {Histories(c) : c \in Conversations}]
  /\ \A c \in Conversations : stored[c] \in Histories(c)
  /\ rows = stored
  /\ queue = [c \in Conversations |-> 0]
  /\ said = [c \in Conversations |-> 0]
  /\ jobs = {}
  /\ visits = 0 /\ says = 0 /\ faults = 0

Fault == faults < MaxFaults /\ faults' = faults + 1

-----------------------------------------------------------------------------
(* Merging                                                                 *)

\* appendStreamFrame: a text joins the assistant's text before it.
AppendStreamFrame(messages, type) ==
  LET last == Len(messages)
      merges == /\ type = "text" /\ last > 0
                /\ messages[last].role = "assistant" /\ messages[last] # Status
  IN  IF merges THEN [messages EXCEPT ![last].content = @ + 1]
      ELSE Append(messages, IF type = "text" THEN Assistant(1) ELSE Status)

Displayed ==
  MergeMessageHistory(IF view = None THEN <<>> ELSE cached[view], streamed)

-----------------------------------------------------------------------------
(* The route and the details query                                         *)

\* The effect of useConversationStream after a change of the route. The state of
\* the hook, streamedMessages among it, outlives the change.
Show(c) ==
  /\ view' = c
  /\ IF c = None THEN Disconnect ELSE Connect(c)

Navigate(c) ==
  /\ visits < MaxVisits /\ visits' = visits + 1
  /\ c # view
  /\ Show(c)
  /\ UNCHANGED <<chatVars, requests, serverVars, says, faults>>

\* On the first view of a conversation, on focus, on a refetch; one per key.
StartFetch(c) ==
  /\ view = c
  /\ fetches[c].at = "none"
  /\ fetches' = [fetches EXCEPT ![c] = Fetching]
  /\ UNCHANGED <<socketVars, view, streamed, cached, creating, sends, requests,
                 serverVars, bounds>>

\* getConversation, in one query.
ReadHistory(c) ==
  /\ fetches[c].at = "asked"
  /\ fetches' = [fetches EXCEPT ![c] = [at |-> "read", rows |-> rows[c]]]
  /\ UNCHANGED <<socketVars, view, streamed, cached, creating, sends, requests,
                 serverVars, bounds>>

FetchReturns(c) ==
  /\ fetches[c].at = "read"
  /\ cached' = [cached EXCEPT ![c] = fetches[c].rows]
  /\ fetches' = [fetches EXCEPT ![c] = NoFetch]
  /\ UNCHANGED <<socketVars, view, streamed, creating, sends, requests,
                 serverVars, bounds>>

FetchFails(c) ==
  /\ fetches[c].at # "none"
  /\ Fault
  /\ fetches' = [fetches EXCEPT ![c] = NoFetch]
  /\ UNCHANGED <<socketVars, view, streamed, cached, creating, sends, requests,
                 serverVars, visits, says>>

-----------------------------------------------------------------------------
(* Sending a message                                                       *)

\* sendMessage up to the POST; the message is shown at once.
SendMessage(t) ==
  /\ Len(sends) + Len(requests) < MaxCalls
  /\ ~(view = None /\ creating)
  /\ streamed' = Append(streamed, User(t))
  /\ creating' = (creating \/ view = None)
  /\ sends' = Append(sends, [to |-> view, new |-> view = None,
                             text |-> t, stage |-> "posting"])
  /\ UNCHANGED <<socketVars, view, cached, fetches, requests, serverVars, bounds>>

\* handleMessage: the row, in a conversation that nobody used before if it is new.
SaveMessage(i) ==
  /\ sends[i].stage = "posting"
  /\ \E c \in Conversations :
       /\ IF sends[i].new THEN /\ \A j \in DOMAIN sends : sends[j].to # c
                               /\ stored[c] = <<>> /\ view # c /\ fetches[c] = NoFetch
                          ELSE c = sends[i].to
       /\ rows' = [rows EXCEPT ![c] = Append(@, User(sends[i].text))]
       /\ sends' = [sends EXCEPT ![i].to = c, ![i].stage = "saved"]
  /\ UNCHANGED <<socketVars, view, streamed, cached, fetches, creating, requests,
                 stored, queue, said, jobs, bounds>>

QueueMessage(i) ==
  /\ sends[i].stage = "saved"
  /\ queue' = [queue EXCEPT ![sends[i].to] = @ + 1]
  /\ sends' = [sends EXCEPT ![i].stage = "queued"]
  /\ UNCHANGED <<socketVars, view, streamed, cached, fetches, creating, requests,
                 stored, rows, said, jobs, bounds>>

\* The response. connect takes its conversation, whatever the tab shows by now;
\* a new conversation's history is set to none, whatever a fetch has brought, and
\* its route is navigated to.
SendReturns(i) ==
  /\ sends[i].stage = "queued"
  /\ sends' = [sends EXCEPT ![i].stage = "returned"]
  /\ Connect(sends[i].to)
  /\ view' = IF sends[i].new THEN sends[i].to ELSE view
  /\ cached' = IF sends[i].new THEN [cached EXCEPT ![sends[i].to] = <<>>] ELSE cached
  /\ creating' = (creating /\ ~sends[i].new)
  /\ UNCHANGED <<streamed, fetches, requests, serverVars, bounds>>

\* The request or the response is lost, or the backend answers with an error. What
\* the backend does after the tab has given up counts as done before.
SendFails(i) ==
  /\ sends[i].stage \in {"posting", "saved", "queued"}
  /\ Fault
  /\ sends' = [sends EXCEPT ![i].stage = "failed"]
  /\ creating' = (creating /\ ~sends[i].new)
  /\ UNCHANGED <<socketVars, view, streamed, cached, fetches, requests, serverVars,
                 visits, says>>

-----------------------------------------------------------------------------
(* File requests: workspaceFileClient                                      *)

Unsettled(r) == r.call # "failed" /\ r.promise \in {"new", "pending"}

Request(c, k, promise) ==
  /\ view = c
  /\ Len(sends) + Len(requests) < MaxCalls
  /\ ~\E r \in DOMAIN requests :
        requests[r].of = c /\ requests[r].key = k /\ Unsettled(requests[r])
  /\ requests' = Append(requests, [of |-> c, key |-> k, call |-> "posting",
                                   promise |-> promise])
  /\ UNCHANGED <<socketVars, view, chatVars, serverVars, bounds>>

\* Mutant of RequestFiles: no entry is registered.
RequestFilesUnregistered(c, k) == Request(c, k, "new")

\* The entry is registered before the call is made; the query runs once per key.
RequestFiles(c, k) == Request(c, k, "pending")

\* The backend pushes the job.
PushJob(r) ==
  /\ requests[r].call = "posting"
  /\ requests' = [requests EXCEPT ![r].call = "pushed"]
  /\ jobs' = jobs \union {r}
  /\ UNCHANGED <<socketVars, view, chatVars, stored, rows, queue, said, bounds>>

RequestReturns(r) ==
  /\ requests[r].call = "pushed"
  /\ requests' = [requests EXCEPT ![r].call = "answered"]
  /\ UNCHANGED <<socketVars, view, chatVars, serverVars, bounds>>

\* A response that is not ok removes the entry; a fetch that throws leaves it to
\* the next frame or to its timeout.
RequestFails(r) ==
  /\ requests[r].call \in {"posting", "pushed"}
  /\ Fault
  /\ \/ requests' = [requests EXCEPT ![r].call = "failed"]
     \/ requests' = [requests EXCEPT ![r].call = "failed",
                       ![r].promise = IF @ = "pending" THEN "dropped" ELSE @]
  /\ UNCHANGED <<socketVars, view, chatVars, serverVars, visits, says>>

TimeOut(r) ==
  /\ requests[r].promise = "pending"
  /\ requests' = [requests EXCEPT ![r].promise = "rejected"]
  /\ UNCHANGED <<socketVars, view, chatVars, serverVars, bounds>>

\* A file frame settles every entry of its key, of whatever conversation.
Settle(rs, frame) ==
  [r \in DOMAIN rs |->
     IF rs[r].promise = "pending" /\ rs[r].key = frame.key
     THEN [rs[r] EXCEPT !.promise = IF frame.type = "file" THEN "resolved" ELSE "rejected"]
     ELSE rs[r]]

-----------------------------------------------------------------------------
(* The socket's events                                                     *)

\* onmessage: chat frames count only for the conversation on view.
Hear ==
  /\ socket = "open" /\ inbox # <<>>
  /\ inbox' = Tail(inbox)
  /\ LET frame == Head(inbox)
         isChat == frame.type \in {"text", "status"} /\ wanted = view
     IN  /\ streamed' = IF isChat THEN AppendStreamFrame(streamed, frame.type) ELSE streamed
         /\ requests' = IF frame.type \in FileFrames THEN Settle(requests, frame) ELSE requests
  /\ UNCHANGED <<wanted, socket, timer, view, cached, fetches, creating, sends,
                 serverVars, bounds>>

SocketEvent ==
  /\ Opens \/ OnClose \/ TimerFires
  /\ UNCHANGED <<view, chatVars, requests, serverVars, bounds>>

ConnectionLost ==
  /\ Drops /\ Fault
  /\ UNCHANGED <<view, chatVars, requests, serverVars, visits, says>>

-----------------------------------------------------------------------------
(* The agents (module Harness, module AgentWorker)                         *)

\* A chunk, or the status of a tool call after which the next text begins.
AgentSays(c) ==
  /\ queue[c] > 0 /\ says < MaxSays
  /\ says' = says + 1
  /\ \/ Publish(c, Frame("text", None)) /\ said' = [said EXCEPT ![c] = @ + 1]
     \/ Publish(c, Frame("status", None)) /\ said' = [said EXCEPT ![c] = 0]
  /\ UNCHANGED <<view, chatVars, requests, stored, rows, queue, jobs, visits, faults>>

\* [DONE], and the row of the last text.
AgentEnds(c) ==
  /\ queue[c] > 0 /\ said[c] > 0
  /\ Publish(c, Frame("done", None))
  /\ rows' = [rows EXCEPT ![c] = Append(@, Assistant(said[c]))]
  /\ queue' = [queue EXCEPT ![c] = @ - 1]
  /\ said' = [said EXCEPT ![c] = 0]
  /\ UNCHANGED <<view, chatVars, requests, stored, jobs, bounds>>

AgentServes(r) ==
  /\ r \in jobs
  /\ jobs' = jobs \ {r}
  /\ \E type \in FileFrames : Publish(requests[r].of, Frame(type, requests[r].key))
  /\ UNCHANGED <<view, chatVars, requests, stored, rows, queue, said, bounds>>

-----------------------------------------------------------------------------
Next ==
  \/ \E c \in Conversations \union {None} : Navigate(c)
  \/ \E c \in Conversations :
       \/ StartFetch(c) \/ ReadHistory(c) \/ FetchReturns(c) \/ FetchFails(c)
       \/ AgentSays(c) \/ AgentEnds(c)
       \/ \E k \in Keys : RequestFiles(c, k)
  \/ \E t \in Texts : SendMessage(t)
  \/ \E i \in DOMAIN sends :
       SaveMessage(i) \/ QueueMessage(i) \/ SendReturns(i) \/ SendFails(i)
  \/ \E r \in DOMAIN requests :
       \/ PushJob(r) \/ RequestReturns(r) \/ RequestFails(r) \/ TimeOut(r)
       \/ AgentServes(r)
  \/ Hear \/ SocketEvent \/ ConnectionLost

Spec == Init /\ [][Next]_vars

\* The browser connects, closes and fires timers.
FairSpec == Spec /\ WF_vars(SocketEvent)

-----------------------------------------------------------------------------
(* Properties                                                              *)

\* The optimistic entry and the stored row of a message do not double up, and two
\* equal messages are not taken for one (messageDedupe.ts): however POSTs, rows,
\* fetches and navigations interleave, the chat on view drops nothing of the history
\* it has fetched, shows a text as often as it was sent there, at least, and no more
\* often than it was stored before and sent there, or than the tab has typed it, the
\* stream being the same for every conversation.
\*
\* The two do not add up: a row from before the page was opened uses up the entry
\* of an equal text sent now, which stays hidden until its own row is fetched,
\* although "genuinely repeated identical messages ... aren't under-counted".
PromptsShownOnce ==
  view # None =>
    \A t \in Texts :
      LET typed == {i \in DOMAIN sends : sends[i].text = t}
          here  == {i \in typed : sends[i].to = view}
          shown == Count(Displayed, User(t))
      IN  /\ Cardinality(here) <= shown /\ Count(cached[view], User(t)) <= shown
          /\ \/ shown <= Count(stored[view], User(t)) + Cardinality(here)
             \/ shown <= Cardinality(typed)

\* "a response that arrives on the already-open websocket ahead of that request's
\* own HTTP round trip can never go unheard" (workspaceFileClient.ts): a frame
\* that reaches the tab settles every request of its key that still waits.
NeverUnheard ==
  [][\A r \in DOMAIN requests :
       (/\ socket = "open" /\ inbox # <<>> /\ inbox' = Tail(inbox) /\ socket' = "open"
        /\ Head(inbox) \in {Frame("file", requests[r].key), Frame("error", requests[r].key)}
        /\ Unsettled(requests[r]))
         => requests'[r].promise \in {"resolved", "rejected"}]_vars

\* "A connection that drops unexpectedly reconnects itself ... callers never need
\* to retry manually" (conversationSocketClient.ts): the conversation on view gets
\* an open socket, unless the tab moves on or a late response of another
\* conversation takes the socket (SendReturns).
ViewIsServed ==
  \A c \in Conversations :
    (view = c /\ wanted = c) ~> (view # c \/ wanted # c \/ socket = "open")

=============================================================================
