--------------------------- MODULE AccountsProofs ---------------------------
(***************************************************************************)
(* Theorems about Accounts, for any number of tabs, names, session         *)
(* requests, submissions and faults.                                       *)
(***************************************************************************)
EXTENDS Accounts, TLAPS

-----------------------------------------------------------------------------
(* Type correctness                                                        *)

LEMMA TypeInit == Init => TypeOK
<1>1. Unsent \in SubmissionRecords
  BY DEF Unsent, SubmissionRecords, Stages, NoName, Results
<1>2. Init => session \in [Sessions -> {"unsent", "sent", "created", "stored", "failed"}]
  BY DEF Init
<1>3. Init => submission \in [Submissions -> SubmissionRecords]
  BY <1>1 DEF Init
<1>4. (Init => crossed \in BOOLEAN) /\ (Init => faults \in Nat)
  <2>1. Init => crossed \in BOOLEAN
    BY DEF Init
  <2>2. Init => faults \in Nat
    BY DEF Init
  <2> QED
    BY <2>1, <2>2
<1>5. Init => /\ username \in [Users -> NoName] /\ identity \in NoName
              /\ shown \in [Tabs -> NoName]
  BY DEF Init, NoName
<1> QED
  BY <1>2, <1>3, <1>4, <1>5 DEF Init, TypeOK

\* The steps of a tab that concern its session.
TabStep(t) ==
  OpenTab(t) \/ Enter(t) \/ CloseDialog(t) \/ \E i \in Sessions : GetSessionToken(t, i)

LEMMA TypeTab == ASSUME TypeOK, NEW t \in Tabs, TabStep(t) PROVE TypeOK'
<1> USE DEF TypeOK, server, storage
<1>1. CASE OpenTab(t)
  BY <1>1 DEF OpenTab
<1>2. CASE Enter(t)
  BY <1>2 DEF Enter
<1>3. CASE CloseDialog(t)
  BY <1>3 DEF CloseDialog
<1>4. ASSUME NEW i \in Sessions, GetSessionToken(t, i) PROVE TypeOK'
  BY <1>4 DEF GetSessionToken
<1> QED
  BY <1>1, <1>2, <1>3, <1>4 DEF TabStep

\* The steps of a session request.
SessionStep(i) == CreateAnonymousUser(i) \/ StoreToken(i) \/ SessionFails(i)

LEMMA TypeSession == ASSUME TypeOK, NEW i \in Sessions, SessionStep(i) PROVE TypeOK'
<1> USE DEF TypeOK, server, storage, tabVars
<1>1. CASE CreateAnonymousUser(i)
  BY <1>1 DEF CreateAnonymousUser
<1>2. CASE StoreToken(i)
  <2>1. crossed' \in BOOLEAN
    BY <1>2 DEF StoreToken
  <2>2. token' \in Users /\ session' \in [Sessions -> {"unsent", "sent", "created", "stored", "failed"}]
    BY <1>2 DEF StoreToken, Users
  <2>3. pending' \in [Tabs -> Sessions \union {None}]
    BY <1>2 DEF StoreToken
  <2> QED
    BY <1>2, <2>1, <2>2, <2>3 DEF StoreToken
<1>3. CASE SessionFails(i)
  <2>1. faults' \in Nat
    BY <1>3 DEF SessionFails, Fault
  <2>2. session' \in [Sessions -> {"unsent", "sent", "created", "stored", "failed"}]
    BY <1>3 DEF SessionFails
  <2>3. pending' \in [Tabs -> Sessions \union {None}]
    BY <1>3 DEF SessionFails
  <2> QED
    BY <1>3, <2>1, <2>2, <2>3 DEF SessionFails
<1> QED
  BY <1>1, <1>2, <1>3 DEF SessionStep

LEMMA TypeSubmit ==
  ASSUME TypeOK, NEW s \in Submissions, NEW t \in Tabs, NEW n \in Names,
         NEW kind \in {"claim", "signin"}, Submit(s, t, kind, n)
  PROVE  TypeOK'
<1>1. [at |-> "finding", kind |-> kind, tab |-> t, name |-> n,
       user |-> IF kind = "claim" THEN token ELSE None, result |-> None]
        \in SubmissionRecords
  BY DEF TypeOK, SubmissionRecords, Stages, NoName, Results
<1>2. submission' \in [Submissions -> SubmissionRecords]
  BY <1>1 DEF TypeOK, Submit
<1>3. dialog' \in [Tabs -> Submissions \union {None}]
  BY DEF TypeOK, Submit
<1>4. crossed' \in BOOLEAN
  BY DEF Submit
<1> QED
  BY <1>2, <1>3, <1>4 DEF TypeOK, Submit, server, storage

\* What an answer makes of a submission.
LEMMA AnswerType ==
  ASSUME TypeOK, NEW s \in Submissions, NEW u \in Users \union {None},
         NEW result \in Results, AnswerWith(s, u, result)
  PROVE  submission' \in [Submissions -> SubmissionRecords]
<1> DEFINE Typed(f) == f \in [Submissions -> SubmissionRecords]
           at     == [submission EXCEPT ![s].at = "answered"]
           user   == [at EXCEPT ![s].user = u]
<1>1. Typed(at)
  BY DEF TypeOK, SubmissionRecords, Stages
<1> HIDE DEF at
<1>2. Typed(user)
  BY <1>1 DEF SubmissionRecords
<1> HIDE DEF user
<1>3. Typed([user EXCEPT ![s].result = result])
  BY <1>2 DEF SubmissionRecords
<1>4. submission' = [user EXCEPT ![s].result = result]
  BY DEF AnswerWith, user, at
<1> QED
  BY <1>3, <1>4

\* The steps of the server and the dialog on a submission.
SubmissionStep(s) == Answer(s) \/ SubmissionFails(s) \/ Complete(s) \/ ShowError(s)

LEMMA TypeSubmission ==
  ASSUME TypeOK, NEW s \in Submissions, SubmissionStep(s) PROVE TypeOK'
<1>0. /\ submission[s] \in SubmissionRecords
      /\ submission[s].name \in NoName
      /\ submission[s].user \in Users \union {None}
      /\ submission[s].tab \in Tabs \union {None}
      /\ {"ok", "conflict", "missing", "error"} \subseteq Results
  BY DEF TypeOK, SubmissionRecords, Results
<1> USE DEF server, storage, tabVars
<1>1. CASE ClaimFinds(s)
  <2>1. submission' \in [Submissions -> SubmissionRecords]
    <3>1. CASE AnswerWith(s, submission[s].user, "conflict")
      BY <1>0, <3>1, AnswerType
    <3>2. CASE submission' = [submission EXCEPT ![s].at = "updating"]
      BY <3>2 DEF TypeOK, SubmissionRecords, Stages
    <3> QED
      BY <1>1, <3>1, <3>2 DEF ClaimFinds
  <2> QED
    BY <1>1, <2>1 DEF ClaimFinds, TypeOK
<1>2. CASE ClaimUpdates(s)
  <2>1. submission' \in [Submissions -> SubmissionRecords]
    BY <1>0, <1>2, AnswerType DEF ClaimUpdates
  <2>2. username' \in [Users -> NoName]
    BY <1>0, <1>2 DEF ClaimUpdates, TypeOK
  <2> QED
    BY <1>2, <2>1, <2>2 DEF ClaimUpdates, TypeOK
<1>3. CASE SignInFinds(s)
  <2>1. submission' \in [Submissions -> SubmissionRecords]
    BY <1>0, <1>3, AnswerType DEF SignInFinds, Owners
  <2> QED
    BY <1>3, <2>1 DEF SignInFinds, TypeOK
<1>4. CASE SubmissionFails(s)
  <2>1. submission' \in [Submissions -> SubmissionRecords]
    BY <1>0, <1>4, AnswerType DEF SubmissionFails
  <2> QED
    BY <1>4, <2>1 DEF SubmissionFails, Fault, TypeOK
<1>5. ASSUME Finish(s) PROVE submission' \in [Submissions -> SubmissionRecords]
  <2>1. submission \in [Submissions -> SubmissionRecords]
    BY DEF TypeOK
  <2>2. [submission[s] EXCEPT !.at = "done"] \in SubmissionRecords
    BY <1>0 DEF SubmissionRecords, Stages
  <2>3. submission' = [submission EXCEPT ![s] = [submission[s] EXCEPT !.at = "done"]]
    BY <1>5 DEF Finish
  <2> QED
    BY <2>1, <2>2, <2>3
<1>6. CASE Complete(s)
  <2>1. submission' \in [Submissions -> SubmissionRecords]
    BY <1>6, <1>5 DEF Complete
  <2> DEFINE t == submission[s].tab
             name == submission[s].name
  <2>2. /\ token' \in Users \union {None}
        /\ identity' = name
        /\ shown' = [shown EXCEPT ![t] = name]
        /\ dialog' = [dialog EXCEPT ![t] = None]
        /\ UNCHANGED <<server, opened, inside, pending, crossed, faults>>
    BY <1>0, <1>6 DEF Complete, TypeOK
  <2>3. t \in Tabs \union {None} /\ name \in NoName
    BY <1>0
  <2>4. /\ shown' \in [Tabs -> NoName]
        /\ dialog' \in [Tabs -> Submissions \union {None}]
    BY <2>2, <2>3 DEF TypeOK
  <2>5. identity' \in NoName
    BY <2>2, <2>3
  <2> HIDE DEF t, name
  <2> QED
    BY <2>1, <2>2, <2>4, <2>5 DEF TypeOK
<1>7. CASE ShowError(s)
  <2>1. submission' \in [Submissions -> SubmissionRecords]
    BY <1>7, <1>5 DEF ShowError
  <2> QED
    BY <1>0, <1>7, <2>1 DEF ShowError, TypeOK
<1> QED
  BY <1>1, <1>2, <1>3, <1>4, <1>6, <1>7 DEF SubmissionStep, Answer

LEMMA TypeOther == ASSUME TypeOK, NEW n \in Names, OtherClaims(n) PROVE TypeOK'
BY DEF TypeOK, OtherClaims, NoName, storage, tabVars

\* The disjuncts of Next, by actor.
LEMMA NextSteps ==
  Next => \/ \E t \in Tabs : TabStep(t)
          \/ \E i \in Sessions : SessionStep(i)
          \/ \E s \in Submissions, t \in Tabs, n \in Names, kind \in {"claim", "signin"} :
               Submit(s, t, kind, n)
          \/ \E s \in Submissions : SubmissionStep(s)
          \/ \E n \in Names : OtherClaims(n)
BY Zenon DEF Next, TabStep, SessionStep, SubmissionStep

LEMMA TypeNext == TypeOK /\ [Next]_vars => TypeOK'
<1> SUFFICES ASSUME TypeOK, [Next]_vars PROVE TypeOK'
  OBVIOUS
<1>1. CASE UNCHANGED vars
  BY <1>1 DEF TypeOK, vars, server, storage, tabVars
<1>2. CASE Next
  BY <1>2, NextSteps, TypeTab, TypeSession, TypeSubmit, TypeSubmission, TypeOther
<1> QED
  BY <1>1, <1>2

\* Whatever tabs, server and other browsers do, every variable keeps its type:
\* tokens are tokens of users, dialogs wait for submissions.
THEOREM TypeCorrect == Spec => []TypeOK
BY TypeInit, TypeNext, PTL DEF Spec

-----------------------------------------------------------------------------
(* One anonymous user per tab                                              *)

\* Requests and pendingTokenRequest agree: a request not sent has no tab; a
\* request under way is its tab's pending one unless a request has failed; and
\* a stored token is never taken away.
RequestsTracked ==
  /\ \A i \in Sessions : session[i] = "unsent" <=> origin[i] = None
  /\ \A i \in Sessions : session[i] = "stored" => token # None
  /\ faults = 0 => \A i \in Sessions :
       /\ session[i] # "failed"
       /\ session[i] \in {"sent", "created"} => pending[origin[i]] = i

\* A sign-in that succeeds names a user, so that completing it keeps a token.
AnswersNameUsers ==
  \A s \in Submissions : submission[s].kind = "signin" =>
    /\ submission[s].result = "ok" => submission[s].user \in Users
    /\ submission[s].at # "updating"

SessionInv == TypeOK /\ RequestsTracked /\ AnswersNameUsers /\ OneUserPerTab

LEMMA NoneDiffers == None \notin Users /\ None \notin Tabs /\ None \notin Sessions
BY AccountsAssumption DEF Users, Sessions, Other

LEMMA SessionInvInit == Init => SessionInv
<1>1. Init => RequestsTracked
  BY NoneDiffers DEF Init, RequestsTracked
<1>2. Init => AnswersNameUsers
  BY DEF Init, AnswersNameUsers, Unsent
<1>3. Init => OneUserPerTab
  BY DEF Init, OneUserPerTab
<1> QED
  BY <1>1, <1>2, <1>3, TypeInit DEF SessionInv

\* Steps that leave requests, origins, pending and faults alone and keep a token.
LEMMA RequestsKept ==
  ASSUME RequestsTracked, OneUserPerTab,
         UNCHANGED <<session, origin, pending>>,
         token # None => token' # None,
         faults' = 0 => faults = 0
  PROVE  RequestsTracked' /\ OneUserPerTab'
BY DEF RequestsTracked, OneUserPerTab

LEMMA RequestsTab ==
  ASSUME SessionInv, NEW t \in Tabs, TabStep(t)
  PROVE  RequestsTracked' /\ OneUserPerTab'
<1> USE DEF SessionInv
<1>1. CASE OpenTab(t) \/ Enter(t) \/ CloseDialog(t)
  BY <1>1, RequestsKept DEF OpenTab, Enter, CloseDialog, server, storage
<1>2. ASSUME NEW i \in Sessions, GetSessionToken(t, i)
      PROVE  RequestsTracked' /\ OneUserPerTab'
  <2>1. /\ session' = [session EXCEPT ![i] = "sent"]
        /\ origin' = [origin EXCEPT ![i] = t]
        /\ pending' = [pending EXCEPT ![t] = i]
        /\ session[i] = "unsent" /\ token = None /\ pending[t] = None
        /\ token' = token /\ faults' = faults
    BY <1>2 DEF GetSessionToken, IsNext, storage
  <2>2. faults = 0 => \A j \in Sessions : origin[j] # t
    <3> SUFFICES ASSUME faults = 0, NEW j \in Sessions, origin[j] = t PROVE FALSE
      OBVIOUS
    <3>1. session[j] \in {"sent", "created"}
      BY <2>1, NoneDiffers DEF RequestsTracked, TypeOK
    <3> QED
      BY <2>1, <3>1, NoneDiffers DEF RequestsTracked
  <2>3. RequestsTracked'
    <3>1. \A j \in Sessions : session'[j] = "unsent" <=> origin'[j] = None
      BY <2>1, NoneDiffers DEF RequestsTracked, TypeOK
    <3>2. \A j \in Sessions : session'[j] = "stored" => token' # None
      BY <2>1 DEF RequestsTracked, TypeOK
    <3>3. ASSUME faults' = 0, NEW j \in Sessions
          PROVE  /\ session'[j] # "failed"
                 /\ session'[j] \in {"sent", "created"} => pending'[origin'[j]] = j
      <4>1. CASE j = i
        BY <2>1, <4>1 DEF TypeOK
      <4>2. CASE j # i
        BY <2>1, <2>2, <3>3, <4>2 DEF RequestsTracked, TypeOK
      <4> QED
        BY <4>1, <4>2
    <3> QED
      BY <3>1, <3>2, <3>3 DEF RequestsTracked
  <2>4. OneUserPerTab'
    BY <2>1, <2>2 DEF OneUserPerTab, TypeOK
  <2> QED
    BY <2>3, <2>4
<1> QED
  BY <1>1, <1>2 DEF TabStep

LEMMA RequestsSession ==
  ASSUME SessionInv, NEW i \in Sessions, SessionStep(i)
  PROVE  RequestsTracked' /\ OneUserPerTab'
<1> USE DEF SessionInv
<1>1. CASE CreateAnonymousUser(i)
  <2>1. /\ session' = [session EXCEPT ![i] = "created"] /\ session[i] = "sent"
        /\ UNCHANGED <<origin, pending, token, faults>>
    BY <1>1 DEF CreateAnonymousUser, storage, tabVars
  <2> QED
    BY <2>1 DEF RequestsTracked, OneUserPerTab, TypeOK
<1>2. CASE StoreToken(i)
  <2>1. /\ session' = [session EXCEPT ![i] = "stored"] /\ session[i] = "created"
        /\ pending' = [pending EXCEPT ![origin[i]] = None]
        /\ token' = i /\ UNCHANGED <<origin, faults>>
    BY <1>2 DEF StoreToken
  <2>2. \A j \in Sessions : session'[j] = "unsent" <=> origin'[j] = None
    BY <2>1 DEF RequestsTracked, TypeOK
  <2>3. token' # None
    BY <2>1, NoneDiffers
  <2>4. ASSUME faults' = 0, NEW j \in Sessions
        PROVE  /\ session'[j] # "failed"
               /\ session'[j] \in {"sent", "created"} => pending'[origin'[j]] = j
    <3>1. origin[i] = origin[j] /\ origin[i] # None => i = j
      BY <2>1, <2>4 DEF OneUserPerTab
    <3> QED
      BY <2>1, <2>4, <3>1 DEF RequestsTracked, TypeOK
  <2>5. RequestsTracked'
    BY <2>2, <2>3, <2>4 DEF RequestsTracked
  <2> QED
    BY <2>1, <2>5 DEF OneUserPerTab
<1>3. CASE SessionFails(i)
  <2>1. /\ session' = [session EXCEPT ![i] = "failed"]
        /\ session[i] \in {"sent", "created"}
        /\ UNCHANGED <<origin, token>>
    BY <1>3 DEF SessionFails, storage
  <2>2. faults' # 0
    BY <1>3 DEF SessionFails, Fault, TypeOK
  <2> QED
    BY <2>1, <2>2 DEF RequestsTracked, OneUserPerTab, TypeOK
<1> QED
  BY <1>1, <1>2, <1>3 DEF SessionStep

\* The fields of a submission that is answered, and the other submissions.
LEMMA AnswerFields ==
  ASSUME TypeOK, NEW s \in Submissions, NEW u, NEW result, AnswerWith(s, u, result)
  PROVE  /\ submission'[s].at = "answered"
         /\ submission'[s].kind = submission[s].kind
         /\ submission'[s].name = submission[s].name
         /\ submission'[s].user = u /\ submission'[s].result = result
         /\ \A r \in Submissions : r # s => submission'[r] = submission[r]
<1>1. submission \in [Submissions -> SubmissionRecords]
  BY DEF TypeOK
<1> QED
  BY <1>1 DEF AnswerWith, SubmissionRecords

LEMMA UsersNamed == ASSUME SessionInv, Next PROVE AnswersNameUsers'
<1> USE DEF SessionInv
<1>1. CASE UNCHANGED submission
  BY <1>1 DEF AnswersNameUsers
<1>2. ASSUME NEW s \in Submissions, NEW u, NEW result, AnswerWith(s, u, result),
             result = "ok" /\ submission[s].kind = "signin" => u \in Users
      PROVE  AnswersNameUsers'
  BY <1>2, AnswerFields DEF AnswersNameUsers
<1>3. ASSUME NEW s \in Submissions, NEW stage,
             submission' = [submission EXCEPT ![s].at = stage],
             stage = "updating" => submission[s].kind = "claim"
      PROVE  AnswersNameUsers'
  <2>1. submission \in [Submissions -> SubmissionRecords]
    BY DEF TypeOK
  <2>2. \A r \in Submissions : /\ submission'[r].kind = submission[r].kind
                               /\ submission'[r].result = submission[r].result
                               /\ submission'[r].user = submission[r].user
                               /\ r # s => submission'[r].at = submission[r].at
    BY <1>3, <2>1 DEF SubmissionRecords
  <2>3. submission'[s].at = stage
    BY <1>3, <2>1 DEF SubmissionRecords
  <2> QED
    BY <1>3, <2>2, <2>3 DEF AnswersNameUsers
<1>4. ASSUME NEW t \in Tabs, TabStep(t) PROVE UNCHANGED submission
  BY <1>4 DEF TabStep, OpenTab, Enter, CloseDialog, GetSessionToken
<1>5. ASSUME NEW i \in Sessions, SessionStep(i) PROVE UNCHANGED submission
  BY <1>5 DEF SessionStep, CreateAnonymousUser, StoreToken, SessionFails
<1>6. ASSUME NEW s \in Submissions, NEW t \in Tabs, NEW n \in Names,
             NEW kind \in {"claim", "signin"}, Submit(s, t, kind, n)
      PROVE  AnswersNameUsers'
  <2>1. submission'[s].result = None /\ submission'[s].at = "finding"
    BY <1>6 DEF Submit, TypeOK
  <2>2. \A r \in Submissions : r # s => submission'[r] = submission[r]
    BY <1>6 DEF Submit, TypeOK
  <2>3. None # "ok"
    BY AccountsAssumption
  <2> QED
    BY <2>1, <2>2, <2>3 DEF AnswersNameUsers
<1>7. ASSUME NEW s \in Submissions, SubmissionStep(s) PROVE AnswersNameUsers'
  <2>1. CASE ClaimFinds(s)
    BY <1>2, <1>3, <2>1 DEF ClaimFinds
  <2>2. CASE ClaimUpdates(s)
    <3>1. submission[s].kind # "signin"
      BY <2>2 DEF ClaimUpdates, AnswersNameUsers
    <3> QED
      BY <1>2, <2>2, <3>1 DEF ClaimUpdates
  <2>3. CASE SignInFinds(s)
    BY <1>2, <2>3 DEF SignInFinds, Owners
  <2>4. CASE SubmissionFails(s)
    BY <1>2, <2>4 DEF SubmissionFails
  <2>5. CASE Complete(s) \/ ShowError(s)
    BY <1>3, <2>5 DEF Complete, ShowError, Finish
  <2> QED
    BY <1>7, <2>1, <2>2, <2>3, <2>4, <2>5 DEF SubmissionStep, Answer
<1>8. ASSUME NEW n \in Names, OtherClaims(n) PROVE UNCHANGED submission
  BY <1>8 DEF OtherClaims
<1> QED
  BY <1>1, <1>4, <1>5, <1>6, <1>7, <1>8, NextSteps

LEMMA SessionInvNext == SessionInv /\ [Next]_vars => SessionInv'
<1> SUFFICES ASSUME SessionInv, [Next]_vars PROVE SessionInv'
  OBVIOUS
<1>0. TypeOK'
  BY TypeNext DEF SessionInv
<1>1. CASE UNCHANGED vars
  BY <1>0, <1>1 DEF SessionInv, RequestsTracked, AnswersNameUsers, OneUserPerTab,
       vars, server, storage, tabVars
<1>2. CASE Next
  <2>1. AnswersNameUsers'
    BY <1>2, UsersNamed
  <2>2. ASSUME NEW t \in Tabs, TabStep(t) PROVE RequestsTracked' /\ OneUserPerTab'
    BY <2>2, RequestsTab
  <2>3. ASSUME NEW i \in Sessions, SessionStep(i)
        PROVE  RequestsTracked' /\ OneUserPerTab'
    BY <2>3, RequestsSession
  <2>4. ASSUME NEW s \in Submissions, NEW t \in Tabs, NEW n \in Names,
               NEW kind \in {"claim", "signin"}, Submit(s, t, kind, n)
        PROVE  RequestsTracked' /\ OneUserPerTab'
    BY <2>4, RequestsKept DEF Submit, SessionInv, server, storage
  <2>5. ASSUME NEW s \in Submissions, SubmissionStep(s)
        PROVE  RequestsTracked' /\ OneUserPerTab'
    <3>1. UNCHANGED <<session, origin, pending>>
      BY <2>5 DEF SubmissionStep, Answer, ClaimFinds, ClaimUpdates, SignInFinds,
           SubmissionFails, Complete, ShowError, server, tabVars
    <3>2. faults' = 0 => faults = 0
      <4>1. CASE SubmissionFails(s)
        BY <4>1 DEF SubmissionFails, Fault, SessionInv, TypeOK
      <4>2. CASE ~SubmissionFails(s)
        BY <2>5, <4>2 DEF SubmissionStep, Answer, ClaimFinds, ClaimUpdates, SignInFinds,
             Complete, ShowError
      <4> QED
        BY <4>1, <4>2
    <3>3. token # None => token' # None
      <4>1. CASE Complete(s)
        <5>1. submission[s].kind = "signin" => submission[s].user # None
          BY <4>1, NoneDiffers DEF Complete, SessionInv, AnswersNameUsers
        <5> QED
          BY <4>1, <5>1 DEF Complete
      <4>2. CASE ~Complete(s)
        BY <2>5, <4>2 DEF SubmissionStep, Answer, ClaimFinds, ClaimUpdates, SignInFinds,
             SubmissionFails, ShowError, storage
      <4> QED
        BY <4>1, <4>2
    <3> QED
      BY <3>1, <3>2, <3>3, RequestsKept DEF SessionInv
  <2>6. ASSUME NEW n \in Names, OtherClaims(n)
        PROVE  RequestsTracked' /\ OneUserPerTab'
    BY <2>6, RequestsKept DEF OtherClaims, SessionInv, storage, tabVars
  <2> QED
    BY <1>0, <1>2, <2>1, <2>2, <2>3, <2>4, <2>5, <2>6, NextSteps DEF SessionInv
<1> QED
  BY <1>1, <1>2

LEMMA SessionInvariance == Spec => []SessionInv
BY SessionInvInit, SessionInvNext, PTL DEF Spec

\* For any number of tabs and requests, one tab makes at most one anonymous
\* user unless a request fails (getSessionToken, pendingTokenRequest).
THEOREM OneAnonymousUser == Spec => []OneUserPerTab
<1>1. SessionInv => OneUserPerTab
  BY DEF SessionInv
<1> QED
  BY <1>1, SessionInvariance, PTL

-----------------------------------------------------------------------------
(* The identity on display                                                 *)

Succeeded(s) == submission[s].at = "answered" /\ submission[s].result = "ok"

\* While a submission is in flight, and within the tabs, there is a token.
TokenHeld ==
  /\ inside # {} => token # None
  /\ \A s \in Submissions : InFlight(s) => token # None /\ submission[s].name \in Names

\* Without overlaps and faults one submission at a time is in flight, a claim
\* of the stored token's user, and a successful one has its name already;
\* what is displayed is true or about to be replaced.
IdentityTracked ==
  ~crossed /\ faults = 0 =>
    /\ \A r, s \in Submissions : InFlight(r) /\ InFlight(s) => r = s
    /\ \A s \in Submissions :
         /\ InFlight(s) /\ submission[s].kind = "claim" => submission[s].user = token
         /\ Succeeded(s) => submission[s].user \in Users
                            /\ username[submission[s].user] = submission[s].name
    /\ \/ identity = None
       \/ \E s \in Submissions : Succeeded(s)
       \/ token # None /\ username[token] = identity

IdentityInv == SessionInv /\ TokenHeld /\ IdentityTracked

LEMMA IdentityInvInit == Init => IdentityInv
<1>1. Init => \A s \in Submissions : ~InFlight(s) /\ ~Succeeded(s)
  BY DEF Init, InFlight, Succeeded, Unsent
<1>2. Init => TokenHeld
  BY <1>1 DEF Init, TokenHeld
<1>3. Init => IdentityTracked
  BY <1>1 DEF Init, IdentityTracked
<1> QED
  BY <1>2, <1>3, SessionInvInit DEF IdentityInv

\* The other fields of a submission that changes its stage only.
LEMMA StageFields ==
  ASSUME TypeOK, NEW s \in Submissions, NEW stage,
         submission' = [submission EXCEPT ![s].at = stage]
  PROVE  /\ submission'[s].at = stage
         /\ submission'[s].kind = submission[s].kind
         /\ submission'[s].name = submission[s].name
         /\ submission'[s].user = submission[s].user
         /\ submission'[s].result = submission[s].result
         /\ \A r \in Submissions : r # s => submission'[r] = submission[r]
<1>1. submission \in [Submissions -> SubmissionRecords]
  BY DEF TypeOK
<1> QED
  BY <1>1 DEF SubmissionRecords

\* Steps that change neither submissions nor what they are about.
LEMMA IdentityKept ==
  ASSUME TokenHeld, IdentityTracked,
         UNCHANGED <<submission, token, identity, username>>,
         inside' # {} => inside # {} \/ token # None,
         ~crossed' => ~crossed, faults' = 0 => faults = 0
  PROVE  TokenHeld' /\ IdentityTracked'
BY DEF TokenHeld, IdentityTracked, InFlight, Succeeded

LEMMA IdentityTab ==
  ASSUME IdentityInv, NEW t \in Tabs, TabStep(t)
  PROVE  TokenHeld' /\ IdentityTracked'
<1>1. UNCHANGED <<submission, token, identity, username, crossed, faults>>
  BY DEF TabStep, OpenTab, Enter, CloseDialog, GetSessionToken, server, storage
<1>2. inside' # {} => inside # {} \/ token # None
  BY DEF TabStep, OpenTab, Enter, CloseDialog, GetSessionToken
<1> QED
  BY <1>1, <1>2, IdentityKept DEF IdentityInv

LEMMA IdentitySession ==
  ASSUME IdentityInv, NEW i \in Sessions, SessionStep(i)
  PROVE  TokenHeld' /\ IdentityTracked'
<1> USE DEF IdentityInv
<1>1. CASE CreateAnonymousUser(i)
  BY <1>1, IdentityKept DEF CreateAnonymousUser, storage, tabVars
<1>2. CASE StoreToken(i)
  <2>1. /\ token' = i /\ i # None /\ crossed' = (crossed \/ token # None)
        /\ UNCHANGED <<submission, identity, username, inside, faults>>
    BY <1>2, NoneDiffers DEF StoreToken
  <2>2. TokenHeld'
    BY <2>1 DEF TokenHeld, InFlight
  <2>3. ASSUME ~crossed', faults' = 0 PROVE IdentityTracked'
    <3>1. ~crossed /\ faults = 0 /\ token = None
      BY <2>1, <2>3
    <3>2. \A s \in Submissions : ~InFlight(s)
      BY <3>1 DEF TokenHeld
    <3>3. \A s \in Submissions : ~Succeeded(s)
      BY <3>2 DEF InFlight, Succeeded
    <3>4. identity = None
      BY <3>1, <3>3 DEF IdentityTracked
    <3> QED
      BY <2>1, <3>2, <3>3, <3>4 DEF IdentityTracked, InFlight, Succeeded
  <2> QED
    BY <2>2, <2>3 DEF IdentityTracked
<1>3. CASE SessionFails(i)
  <2>1. faults' # 0
    BY <1>3 DEF SessionFails, Fault, SessionInv, TypeOK
  <2>2. UNCHANGED <<submission, token, inside>>
    BY <1>3 DEF SessionFails, storage
  <2> QED
    BY <2>1, <2>2 DEF TokenHeld, IdentityTracked, InFlight
<1> QED
  BY <1>1, <1>2, <1>3 DEF SessionStep

LEMMA IdentitySubmit ==
  ASSUME IdentityInv, NEW s \in Submissions, NEW t \in Tabs, NEW n \in Names,
         NEW kind \in {"claim", "signin"}, Submit(s, t, kind, n)
  PROVE  TokenHeld' /\ IdentityTracked'
<1> USE DEF IdentityInv
<1>1. /\ submission'[s].at = "finding" /\ submission'[s].name = n
      /\ submission'[s].kind = kind /\ submission'[s].result = None
      /\ kind = "claim" => submission'[s].user = token
      /\ \A r \in Submissions : r # s => submission'[r] = submission[r]
  BY DEF Submit, SessionInv, TypeOK
<1>2. UNCHANGED <<token, identity, username, inside, faults>>
  BY DEF Submit, server, storage
<1>3. TokenHeld'
  <2>1. token # None
    BY DEF Submit, TokenHeld
  <2> QED
    BY <1>1, <1>2, <2>1 DEF TokenHeld, InFlight
<1>4. ASSUME ~crossed', faults' = 0 PROVE IdentityTracked'
  <2>1. ~crossed /\ faults = 0 /\ \A r \in Submissions : ~InFlight(r)
    BY <1>2, <1>4 DEF Submit
  <2>2. \A r \in Submissions : r # s => ~InFlight(r)'
    BY <1>1, <2>1 DEF InFlight
  <2>3. \A r \in Submissions : ~Succeeded(r) /\ ~Succeeded(r)'
    <3>1. \A r \in Submissions : ~Succeeded(r)
      BY <2>1 DEF InFlight, Succeeded
    <3>2. ~Succeeded(s)'
      BY <1>1 DEF Succeeded
    <3>3. \A r \in Submissions : r # s => ~Succeeded(r)'
      BY <2>2 DEF InFlight, Succeeded
    <3> QED
      BY <3>1, <3>2, <3>3
  <2>4. identity = None \/ (token # None /\ username[token] = identity)
    BY <2>1, <2>3 DEF IdentityTracked
  <2> QED
    BY <1>1, <1>2, <2>2, <2>3, <2>4 DEF IdentityTracked
<1> QED
  BY <1>3, <1>4 DEF IdentityTracked

\* What an answer other than a success leaves true.
LEMMA IdentityUnanswered ==
  ASSUME IdentityInv, NEW s \in Submissions, InFlight(s),
         submission[s].at # "answered" \/ submission[s].result # "ok",
         submission'[s].kind = submission[s].kind, submission'[s].name = submission[s].name,
         submission'[s].user = submission[s].user \/ submission[s].kind = "signin",
         submission'[s].at # "answered" \/ submission'[s].result # "ok",
         \A r \in Submissions : r # s => submission'[r] = submission[r],
         UNCHANGED <<token, identity, username, inside, crossed, faults>>
  PROVE  TokenHeld' /\ IdentityTracked'
<1> USE DEF IdentityInv
<1>1. TokenHeld'
  BY DEF TokenHeld, InFlight
<1>2. ASSUME ~crossed, faults = 0 PROVE IdentityTracked'
  <2>1. \A r \in Submissions : r # s => ~InFlight(r) /\ ~InFlight(r)'
    BY <1>2 DEF IdentityTracked, InFlight
  <2>2. \A r \in Submissions : ~Succeeded(r) /\ ~Succeeded(r)'
    <3>1. \A r \in Submissions : r # s => ~Succeeded(r) /\ ~Succeeded(r)'
      BY <2>1 DEF InFlight, Succeeded
    <3>2. ~Succeeded(s) /\ ~Succeeded(s)'
      BY DEF Succeeded
    <3> QED
      BY <3>1, <3>2
  <2>3. identity = None \/ (token # None /\ username[token] = identity)
    BY <1>2, <2>2 DEF IdentityTracked
  <2>4. InFlight(s)' /\ submission'[s].kind = "claim" => submission'[s].user = token'
    BY <1>2 DEF IdentityTracked
  <2> QED
    BY <2>1, <2>2, <2>3, <2>4 DEF IdentityTracked
<1> QED
  BY <1>1, <1>2 DEF IdentityTracked

\* A success: the answered user has the name.
LEMMA IdentitySucceeds ==
  ASSUME IdentityInv, NEW s \in Submissions, InFlight(s), NEW u \in Users,
         submission[s].kind = "claim" => submission[s].user = u,
         AnswerWith(s, u, "ok"), username'[u] = submission[s].name,
         UNCHANGED <<token, identity, inside, crossed, faults>>
  PROVE  TokenHeld' /\ IdentityTracked'
<1> USE DEF IdentityInv
<1>1. /\ Succeeded(s)'
      /\ submission'[s].kind = submission[s].kind
      /\ submission'[s].name = submission[s].name /\ submission'[s].user = u
      /\ \A r \in Submissions : r # s => submission'[r] = submission[r]
  BY AnswerFields DEF SessionInv, Succeeded
<1>2. TokenHeld'
  BY <1>1 DEF TokenHeld, InFlight
<1>3. ASSUME ~crossed, faults = 0 PROVE IdentityTracked'
  <2>1. \A r \in Submissions : r # s => ~InFlight(r) /\ ~InFlight(r)'
    BY <1>1, <1>3 DEF IdentityTracked, InFlight
  <2>2. \A r \in Submissions : r # s => ~Succeeded(r)'
    BY <2>1 DEF InFlight, Succeeded
  <2>3. submission'[s].kind = "claim" => submission'[s].user = token'
    BY <1>1, <1>3 DEF IdentityTracked
  <2> QED
    BY <1>1, <2>1, <2>2, <2>3 DEF IdentityTracked
<1> QED
  BY <1>2, <1>3 DEF IdentityTracked

LEMMA IdentityAnswer ==
  ASSUME IdentityInv, NEW s \in Submissions, Answer(s)
  PROVE  TokenHeld' /\ IdentityTracked'
<1> USE DEF IdentityInv, SessionInv
<1>0. UNCHANGED <<token, identity, inside, crossed, faults>>
  BY DEF Answer, ClaimFinds, ClaimUpdates, SignInFinds, storage, tabVars
<1>1. CASE ClaimFinds(s)
  <2>1. InFlight(s) /\ submission[s].at # "answered" /\ UNCHANGED username
    BY <1>1 DEF ClaimFinds, InFlight, server
  <2>2. CASE AnswerWith(s, submission[s].user, "conflict")
    BY <1>0, <2>1, <2>2, AnswerFields, IdentityUnanswered
  <2>3. CASE submission' = [submission EXCEPT ![s].at = "updating"]
    BY <1>0, <2>1, <2>3, StageFields, IdentityUnanswered
  <2> QED
    BY <1>1, <2>2, <2>3 DEF ClaimFinds
<1>2. CASE ClaimUpdates(s)
  <2>1. InFlight(s) /\ submission[s].at # "answered"
    BY <1>2 DEF ClaimUpdates, InFlight
  <2>2. ASSUME NEW r \in {"conflict", "error"}, AnswerWith(s, submission[s].user, r),
               UNCHANGED username
        PROVE  TokenHeld' /\ IdentityTracked'
    BY <1>0, <2>1, <2>2, AnswerFields, IdentityUnanswered
  <2>3. CASE /\ username' = [username EXCEPT ![submission[s].user] = submission[s].name]
             /\ AnswerWith(s, submission[s].user, "ok")
    <3>1. CASE submission[s].user \in Users
      BY <1>0, <2>1, <2>3, <3>1, IdentitySucceeds DEF TypeOK
    <3>2. CASE submission[s].user \notin Users
      <4>1. submission[s].kind = "claim"
        <5>1. submission[s] \in SubmissionRecords
          BY DEF TypeOK
        <5> QED
          BY <1>2, <5>1 DEF ClaimUpdates, AnswersNameUsers, SubmissionRecords
      <4>2. token \in Users
        BY <2>1 DEF TokenHeld, TypeOK
      <4>3. crossed \/ faults # 0
        BY <2>1, <3>2, <4>1, <4>2 DEF IdentityTracked
      <4>4. TokenHeld'
        BY <1>0, <2>1, <2>3, AnswerFields DEF TokenHeld, InFlight
      <4> QED
        BY <1>0, <4>3, <4>4 DEF IdentityTracked
    <3> QED
      BY <3>1, <3>2
  <2> QED
    BY <1>2, <2>2, <2>3 DEF ClaimUpdates
<1>3. CASE SignInFinds(s)
  <2>1. /\ InFlight(s) /\ submission[s].at # "answered" /\ UNCHANGED username
        /\ submission[s].kind = "signin"
    BY <1>3 DEF SignInFinds, InFlight, server
  <2>2. ASSUME NEW u \in Owners(submission[s].name), AnswerWith(s, u, "ok")
        PROVE  TokenHeld' /\ IdentityTracked'
    BY <1>0, <2>1, <2>2, IdentitySucceeds DEF Owners
  <2>3. CASE AnswerWith(s, None, "missing")
    BY <1>0, <2>1, <2>3, AnswerFields, IdentityUnanswered
  <2> QED
    BY <1>3, <2>2, <2>3 DEF SignInFinds
<1> QED
  BY <1>1, <1>2, <1>3 DEF Answer

LEMMA IdentityDialog ==
  ASSUME IdentityInv, NEW s \in Submissions,
         SubmissionFails(s) \/ Complete(s) \/ ShowError(s)
  PROVE  TokenHeld' /\ IdentityTracked'
<1> USE DEF IdentityInv, SessionInv
<1>1. CASE SubmissionFails(s)
  <2>1. faults' # 0
    BY <1>1 DEF SubmissionFails, Fault, TypeOK
  <2>2. UNCHANGED <<token, inside>> /\ InFlight(s)
    BY <1>1 DEF SubmissionFails, storage, tabVars
  <2>3. TokenHeld'
    BY <1>1, <2>2, AnswerFields DEF SubmissionFails, TokenHeld, InFlight
  <2> QED
    BY <2>1, <2>3 DEF IdentityTracked
<1>2. CASE Complete(s)
  <2>0. /\ Succeeded(s) /\ InFlight(s)
        /\ submission' = [submission EXCEPT ![s].at = "done"]
        /\ token' = IF submission[s].kind = "signin" THEN submission[s].user ELSE token
        /\ identity' = submission[s].name
        /\ UNCHANGED <<username, inside, crossed, faults>>
    BY <1>2 DEF Complete, Finish, Succeeded, InFlight, server
  <2>1. /\ submission'[s].at = "done" /\ submission'[s].name = submission[s].name
        /\ \A r \in Submissions : r # s => submission'[r] = submission[r]
    BY <2>0, StageFields
  <2>2. token' # None
    BY <2>0, NoneDiffers DEF TokenHeld, AnswersNameUsers, Succeeded
  <2>3. TokenHeld'
    BY <2>0, <2>1, <2>2 DEF TokenHeld, InFlight
  <2>4. ASSUME ~crossed', faults' = 0 PROVE IdentityTracked'
    <3>1. \A r \in Submissions : ~InFlight(r)'
      BY <2>0, <2>1, <2>4 DEF IdentityTracked, InFlight
    <3>2. \A r \in Submissions : ~Succeeded(r)'
      BY <3>1 DEF InFlight, Succeeded
    <3>3. submission[s].kind \in {"claim", "signin"}
      BY DEF TypeOK, SubmissionRecords
    <3>4. token' = submission[s].user
      BY <2>0, <2>4, <3>3 DEF IdentityTracked
    <3>5. username'[token'] = identity'
      BY <2>0, <2>4, <3>4 DEF IdentityTracked
    <3> QED
      BY <2>2, <3>1, <3>2, <3>5 DEF IdentityTracked
  <2> QED
    BY <2>3, <2>4 DEF IdentityTracked
<1>3. CASE ShowError(s)
  <2>1. /\ submission' = [submission EXCEPT ![s].at = "done"]
        /\ UNCHANGED <<token, identity, username, inside, crossed, faults>>
        /\ InFlight(s) /\ submission[s].result # "ok"
    BY <1>3 DEF ShowError, Finish, InFlight, server, storage
  <2> QED
    BY <2>1, StageFields, IdentityUnanswered
<1> QED
  BY <1>1, <1>2, <1>3

LEMMA IdentityOther ==
  ASSUME IdentityInv, NEW n \in Names, OtherClaims(n)
  PROVE  TokenHeld' /\ IdentityTracked'
<1> USE DEF IdentityInv
<1>1. /\ username[Other] = None /\ username' = [username EXCEPT ![Other] = n]
      /\ UNCHANGED <<submission, token, identity, inside, crossed, faults>>
  BY DEF OtherClaims, storage, tabVars
<1>2. \A u \in Users : username[u] # None => username'[u] = username[u]
  BY <1>1 DEF SessionInv, TypeOK
<1>3. \A s \in Submissions : Succeeded(s) => submission[s].name # None
  BY AccountsAssumption DEF TokenHeld, InFlight, Succeeded
<1> QED
  BY <1>1, <1>2, <1>3 DEF SessionInv, TypeOK, TokenHeld, IdentityTracked, InFlight, Succeeded

LEMMA IdentityInvNext == IdentityInv /\ [Next]_vars => IdentityInv'
<1> SUFFICES ASSUME IdentityInv, [Next]_vars PROVE IdentityInv'
  OBVIOUS
<1>0. SessionInv'
  BY SessionInvNext DEF IdentityInv
<1>1. UNCHANGED vars => TokenHeld' /\ IdentityTracked'
  BY DEF IdentityInv, TokenHeld, IdentityTracked, InFlight, Succeeded,
    vars, server, storage, tabVars
<1>2. ASSUME NEW s \in Submissions, SubmissionStep(s) PROVE TokenHeld' /\ IdentityTracked'
  BY <1>2, IdentityAnswer, IdentityDialog DEF SubmissionStep
<1>3. Next => TokenHeld' /\ IdentityTracked'
  BY <1>2, NextSteps, IdentityTab, IdentitySession, IdentitySubmit, IdentityOther
<1> QED
  BY <1>0, <1>1, <1>3 DEF IdentityInv

\* The identity that the tabs store and show is the name of the account their
\* token is of, unless submissions overlap, tabs make users at the same time or
\* an answer is lost (claimAccount, signInWithUsername).
THEOREM IdentityIsTrue == Spec => []IdentityNamesAccount
<1>1. IdentityInv => IdentityNamesAccount
  BY DEF IdentityInv, IdentityTracked, IdentityNamesAccount, InFlight, Succeeded
<1> QED
  BY <1>1, IdentityInvInit, IdentityInvNext, PTL DEF Spec

-----------------------------------------------------------------------------
(* Claimed names                                                           *)

\* No two users have one name (the constraint of users.username).
NamesTold ==
  \A u, v \in Users : username[u] = username[v] /\ username[u] # None => u = v

\* A claim under way or over is of a user, and for a name.
ClaimantsKnown ==
  \A s \in Submissions : submission[s].kind = "claim" /\ submission[s].at # "new" =>
    submission[s].user \in Users /\ submission[s].name \in Names

\* Who was granted a name has the name of one of its claims.
Holds(r, u) ==
  /\ submission[r].kind = "claim" /\ submission[r].at # "new"
  /\ submission[r].user = u /\ username[u] = submission[r].name
GrantsHeld ==
  \A s \in Submissions : submission[s].at # "new" /\ Granted(s) =>
    \E r \in Submissions : Holds(r, submission[s].user)

\* The dialog's submissions are numbered as they come, and one that has not
\* come has no result.
NoResultYet == \A s \in Submissions : submission[s].at = "new" => submission[s].result = None

ClaimInv ==
  IdentityInv /\ NamesTold /\ ClaimantsKnown /\ GrantsHeld /\ NoResultYet

LEMMA ClaimInvInit == Init => ClaimInv
<1>1. Init => NamesTold
  BY DEF Init, NamesTold
<1>2. Init => ClaimantsKnown /\ GrantsHeld /\ NoResultYet
  BY DEF Init, ClaimantsKnown, GrantsHeld, NoResultYet, Unsent
<1> QED
  BY <1>1, <1>2, IdentityInvInit DEF ClaimInv

\* What a submission keeps as it goes from stage to stage, and the claims keep
\* with the names left alone.
LEMMA ClaimsKept ==
  ASSUME ClaimInv, UNCHANGED username,
         \A s \in Submissions :
           /\ submission'[s].at = "new" <=> submission[s].at = "new"
           /\ submission'[s].kind = submission[s].kind
           /\ submission'[s].name = submission[s].name
           /\ submission[s].kind = "claim" => submission'[s].user = submission[s].user
           /\ submission'[s].result = submission[s].result
                \/ ( /\ submission[s].at # "new"
                     /\ submission[s].kind = "claim" => submission'[s].result # "ok")
  PROVE  NamesTold' /\ ClaimantsKnown' /\ GrantsHeld' /\ NoResultYet'
<1>1. NamesTold' /\ ClaimantsKnown' /\ NoResultYet'
  BY DEF ClaimInv, NamesTold, ClaimantsKnown, NoResultYet
<1>2. GrantsHeld'
  <2> SUFFICES ASSUME NEW s \in Submissions, submission'[s].at # "new", Granted(s)'
               PROVE  \E r \in Submissions : Holds(r, submission[s].user)'
    BY DEF GrantsHeld, Granted
  <2>1. submission[s].at # "new" /\ Granted(s)
    BY DEF Granted
  <2>2. PICK r \in Submissions : Holds(r, submission[s].user)
    BY <2>1 DEF ClaimInv, GrantsHeld
  <2>3. submission'[s].user = submission[s].user
    BY <2>1 DEF Granted
  <2> QED
    BY <2>2, <2>3 DEF Holds
<1> QED
  BY <1>1, <1>2

\* A claim is granted to its user; nobody else has the name.
LEMMA ClaimGranted ==
  ASSUME ClaimInv, NEW s \in Submissions, submission[s].at = "updating",
         Owners(submission[s].name) \ {submission[s].user} = {},
         username' = [username EXCEPT ![submission[s].user] = submission[s].name],
         AnswerWith(s, submission[s].user, "ok")
  PROVE  NamesTold' /\ ClaimantsKnown' /\ GrantsHeld' /\ NoResultYet'
<1> DEFINE user == submission[s].user
           name == submission[s].name
<1>0. TypeOK /\ submission[s].kind = "claim" /\ user \in Users /\ name \in Names
  <2>1. TypeOK /\ AnswersNameUsers
    BY DEF ClaimInv, IdentityInv, SessionInv
  <2>2. submission[s].kind \in {"claim", "signin"}
    BY <2>1 DEF TypeOK, SubmissionRecords
  <2>3. submission[s].kind = "claim"
    BY <2>1, <2>2 DEF AnswersNameUsers
  <2> QED
    BY <2>1, <2>3 DEF ClaimInv, ClaimantsKnown
<1>1. /\ submission'[s].at = "answered" /\ submission'[s].kind = "claim"
      /\ submission'[s].name = name /\ submission'[s].user = user
      /\ \A r \in Submissions : r # s => submission'[r] = submission[r]
  BY <1>0, AnswerFields
<1>2. username'[user] = name /\ \A u \in Users \ {user} : username'[u] = username[u]
  BY <1>0 DEF TypeOK
<1>3. \A u \in Users \ {user} : username[u] # name
  BY DEF Owners
<1>4. NamesTold'
  <2> SUFFICES ASSUME NEW u \in Users, NEW v \in Users, username'[u] = username'[v],
                      username'[u] # None
               PROVE  u = v
    BY DEF NamesTold
  <2>1. CASE u = user \/ v = user
    BY <1>2, <1>3, <2>1
  <2>2. CASE u # user /\ v # user
    BY <1>2, <2>2 DEF ClaimInv, NamesTold
  <2> QED
    BY <2>1, <2>2
<1>5. ClaimantsKnown' /\ NoResultYet'
  BY <1>0, <1>1 DEF ClaimInv, ClaimantsKnown, NoResultYet
<1>6. GrantsHeld'
  <2> SUFFICES ASSUME NEW q \in Submissions, submission'[q].at # "new", Granted(q)'
               PROVE  \E r \in Submissions : Holds(r, submission[q].user)'
    BY DEF GrantsHeld
  <2>1. CASE submission'[q].user = user
    BY <1>1, <1>2, <2>1 DEF Holds
  <2>2. CASE submission'[q].user # user
    <3>1. q # s /\ submission'[q] = submission[q]
      BY <1>1, <2>2
    <3>2. submission[q].user \in Users /\ submission[q].user # user
      BY <2>2, <3>1 DEF Granted, ClaimInv, ClaimantsKnown
    <3>3. PICK r \in Submissions : Holds(r, submission[q].user)
      BY <3>1 DEF Granted, ClaimInv, GrantsHeld
    <3>4. r # s
      BY <3>2, <3>3 DEF Holds
    <3> QED
      BY <1>1, <1>2, <3>1, <3>2, <3>3, <3>4 DEF Holds
  <2> QED
    BY <2>1, <2>2
<1> QED
  BY <1>4, <1>5, <1>6

LEMMA ClaimSubmit ==
  ASSUME ClaimInv, NEW s \in Submissions, NEW t \in Tabs, NEW n \in Names,
         NEW kind \in {"claim", "signin"}, Submit(s, t, kind, n)
  PROVE  NamesTold' /\ ClaimantsKnown' /\ GrantsHeld' /\ NoResultYet'
<1>0. TypeOK /\ TokenHeld
  BY DEF ClaimInv, IdentityInv, SessionInv
<1>1. /\ UNCHANGED username /\ submission[s].at = "new"
      /\ submission'[s].at = "finding" /\ submission'[s].kind = kind
      /\ submission'[s].name = n /\ submission'[s].result = None
      /\ kind = "claim" => submission'[s].user = token
      /\ \A r \in Submissions : r # s => submission'[r] = submission[r]
  BY <1>0 DEF Submit, TypeOK, server
<1>2. token \in Users
  BY <1>0 DEF Submit, TokenHeld, TypeOK
<1>3. NamesTold' /\ ClaimantsKnown' /\ NoResultYet'
  BY <1>1, <1>2 DEF ClaimInv, NamesTold, ClaimantsKnown, NoResultYet
<1>4. GrantsHeld'
  <2> SUFFICES ASSUME NEW q \in Submissions, submission'[q].at # "new", Granted(q)'
               PROVE  \E r \in Submissions : Holds(r, submission[q].user)'
    BY DEF GrantsHeld
  <2>1. q # s
    BY <1>1, AccountsAssumption DEF Granted
  <2>2. PICK r \in Submissions : Holds(r, submission[q].user)
    BY <1>1, <2>1 DEF Granted, ClaimInv, GrantsHeld
  <2> QED
    BY <1>1, <2>1, <2>2 DEF Holds
<1> QED
  BY <1>3, <1>4

LEMMA ClaimStep ==
  ASSUME ClaimInv, NEW s \in Submissions, SubmissionStep(s)
  PROVE  NamesTold' /\ ClaimantsKnown' /\ GrantsHeld' /\ NoResultYet'
<1>0. TypeOK /\ AnswersNameUsers
  BY DEF ClaimInv, IdentityInv, SessionInv
<1>1. ASSUME NEW u, NEW result, AnswerWith(s, u, result), UNCHANGED username,
             submission[s].at # "new",
             submission[s].kind = "claim" => u = submission[s].user /\ result # "ok"
      PROVE  NamesTold' /\ ClaimantsKnown' /\ GrantsHeld' /\ NoResultYet'
  BY <1>0, <1>1, AnswerFields, ClaimsKept
<1>2. ASSUME NEW stage, submission' = [submission EXCEPT ![s].at = stage],
             UNCHANGED username, submission[s].at # "new", stage # "new"
      PROVE  NamesTold' /\ ClaimantsKnown' /\ GrantsHeld' /\ NoResultYet'
  BY <1>0, <1>2, StageFields, ClaimsKept
<1>3. CASE ClaimFinds(s)
  BY <1>1, <1>2, <1>3 DEF ClaimFinds, server
<1>4. CASE ClaimUpdates(s)
  <2>1. CASE Owners(submission[s].name) \ {submission[s].user} = {}
    BY <1>4, <2>1, ClaimGranted DEF ClaimUpdates
  <2>2. CASE Owners(submission[s].name) \ {submission[s].user} # {}
    BY <1>1, <1>4, <2>2 DEF ClaimUpdates
  <2> QED
    BY <2>1, <2>2
<1>5. CASE SignInFinds(s)
  BY <1>1, <1>5 DEF SignInFinds, server
<1>6. CASE SubmissionFails(s)
  BY <1>1, <1>6 DEF SubmissionFails, InFlight, server
<1>7. CASE Complete(s) \/ ShowError(s)
  BY <1>2, <1>7 DEF Complete, ShowError, Finish, server
<1> QED
  BY <1>3, <1>4, <1>5, <1>6, <1>7 DEF SubmissionStep, Answer

LEMMA ClaimOther ==
  ASSUME ClaimInv, NEW n \in Names, OtherClaims(n)
  PROVE  NamesTold' /\ ClaimantsKnown' /\ GrantsHeld' /\ NoResultYet'
<1>0. TypeOK /\ Other \in Users
  BY DEF ClaimInv, IdentityInv, SessionInv, Users
<1>1. /\ UNCHANGED submission /\ username[Other] = None /\ username'[Other] = n
      /\ \A u \in Users \ {Other} : username'[u] = username[u] /\ username[u] # n
  BY <1>0 DEF OtherClaims, Owners, TypeOK
<1>2. NamesTold'
  BY <1>1 DEF ClaimInv, NamesTold
<1>3. ClaimantsKnown' /\ NoResultYet'
  BY <1>1 DEF ClaimInv, ClaimantsKnown, NoResultYet
<1>4. GrantsHeld'
  <2> SUFFICES ASSUME NEW q \in Submissions, submission[q].at # "new", Granted(q)
               PROVE  \E r \in Submissions : Holds(r, submission[q].user)'
    BY <1>1 DEF GrantsHeld, Granted
  <2>1. PICK r \in Submissions : Holds(r, submission[q].user)
    BY DEF ClaimInv, GrantsHeld
  <2>2. submission[r].user \in Users /\ submission[r].name \in Names
    BY <2>1 DEF Holds, ClaimInv, ClaimantsKnown
  <2>3. submission[q].user \in Users \ {Other}
    BY <1>1, <2>1, <2>2, AccountsAssumption DEF Holds
  <2> QED
    BY <1>1, <2>1, <2>3 DEF Holds
<1> QED
  BY <1>2, <1>3, <1>4

LEMMA ClaimInvNext == ClaimInv /\ [Next]_vars => ClaimInv'
<1> SUFFICES ASSUME ClaimInv, [Next]_vars PROVE ClaimInv'
  OBVIOUS
<1> DEFINE Kept == NamesTold' /\ ClaimantsKnown' /\ GrantsHeld' /\ NoResultYet'
<1>1. IdentityInv'
  BY IdentityInvNext DEF ClaimInv
<1>2. ASSUME UNCHANGED <<username, submission>> PROVE Kept
  BY <1>2, ClaimsKept
<1>3. ASSUME UNCHANGED vars PROVE Kept
  BY <1>2, <1>3 DEF vars, server
<1>4. ASSUME NEW t \in Tabs, TabStep(t) PROVE Kept
  BY <1>2, <1>4 DEF TabStep, OpenTab, Enter, CloseDialog, GetSessionToken, server
<1>5. ASSUME NEW i \in Sessions, SessionStep(i) PROVE Kept
  BY <1>2, <1>5 DEF SessionStep, CreateAnonymousUser, StoreToken, SessionFails
<1>6. Next => Kept
  BY <1>4, <1>5, NextSteps, ClaimSubmit, ClaimStep, ClaimOther
<1> QED
  BY <1>1, <1>3, <1>6 DEF ClaimInv

\* For any number of claims between query and update, of this browser's users and
\* of others: whoever was granted a name is the only owner of it, or of another
\* one that it claimed (claimUser under the constraint of users.username).
THEOREM GrantedNamesAreHeld == Spec => []ClaimedNameIsHeld
<1>1. ClaimInv => ClaimedNameIsHeld
  <2> SUFFICES ASSUME ClaimInv, NEW s \in Submissions, Granted(s)
               PROVE  \E r \in Submissions :
                        /\ submission[r].kind = "claim"
                        /\ submission[r].user = submission[s].user
                        /\ Owners(submission[r].name) = {submission[s].user}
    BY DEF ClaimedNameIsHeld
  <2>1. submission[s].at # "new"
    BY AccountsAssumption DEF ClaimInv, NoResultYet, Granted
  <2>2. PICK r \in Submissions : Holds(r, submission[s].user)
    BY <2>1 DEF ClaimInv, GrantsHeld
  <2>3. submission[r].user \in Users /\ submission[r].name \in Names
    BY <2>2 DEF ClaimInv, ClaimantsKnown, Holds
  <2>4. submission[r].name # None
    BY <2>3, AccountsAssumption
  <2>5. Owners(submission[r].name) = {submission[s].user}
    BY <2>2, <2>3, <2>4 DEF Owners, Holds, ClaimInv, NamesTold
  <2> QED
    BY <2>2, <2>5 DEF Holds
<1> QED
  BY <1>1, ClaimInvInit, ClaimInvNext, PTL DEF Spec

=============================================================================
