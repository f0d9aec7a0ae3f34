------------------------------ MODULE Accounts ------------------------------
(***************************************************************************)
(* Anonymous users, claims of a username and sign-ins, as several tabs of  *)
(* one browser see them: the tabs share the session token and the identity *)
(* in localStorage, each has its own pendingTokenRequest and shows its own *)
(* copy of the identity.  The server's claimUser reads the name and then   *)
(* updates it, under the unique constraint of users.username.              *)
(*                                                                         *)
(* A session request and the anonymous user it creates have one id.  A     *)
(* user of another browser is number 0.  Each tab views a conversation, so  *)
(* its heartbeat asks for a session as the start page does.                *)
(***************************************************************************)
EXTENDS Naturals, FiniteSets

CONSTANTS Tabs,           \* tabs of one browser
          MaxSessions,    \* POST /api/session requests, numbered as they come
          MaxSubmissions, \* submissions of the username dialog, likewise
          Names,
          None,           \* no name, no token, no request
          MaxFaults       \* requests that fail or whose answer is lost

ASSUME AccountsAssumption ==
  /\ None \notin Nat \union Names \union Tabs \union {"ok", "conflict", "error"}
  /\ MaxSessions \in Nat /\ MaxSubmissions \in Nat /\ MaxFaults \in Nat

VARIABLES
  session,     \* per session request, "unsent", "sent", "created", "stored" or "failed"
  origin,      \* the tab that sent it
  username,    \* the server's users: their names
  token,       \* localStorage: whose session token is stored
  identity,    \* localStorage: the name stored as identity
  opened,      \* tabs that are open
  inside,      \* of these, the ones past the start page (hasSession)
  pending,     \* per tab, pendingTokenRequest
  shown,       \* per tab, the identity it shows
  dialog,      \* per tab, the submission its dialog waits for
  submission,
  crossed,     \* history: submissions overlapped, or a tab's new session
               \* replaced another one's
  faults

server  == <<session, origin, username>>
storage == <<token, identity>>
tabVars == <<opened, inside, pending, shown, dialog>>
vars    == <<server, storage, tabVars, submission, crossed, faults>>

Sessions    == 1..MaxSessions
Submissions == 1..MaxSubmissions
Other       == 0
Users       == Sessions \union {Other}
NoName     == Names \union {None}
Unsent   == [at |-> "new", kind |-> "claim", tab |-> None, name |-> None,
             user |-> None, result |-> None]
Stages   == {"new", "finding", "updating", "answered", "done"}
Results  == {None, "ok", "conflict", "missing", "error"}

SubmissionRecords ==
  [at : Stages, kind : {"claim", "signin"}, tab : Tabs \union {None},
   name : NoName, user : Users \union {None}, result : Results]

TypeOK ==
  /\ session \in [Sessions -> {"unsent", "sent", "created", "stored", "failed"}]
  /\ origin \in [Sessions -> Tabs \union {None}]
  /\ username \in [Users -> NoName]
  /\ token \in Users \union {None}
  /\ identity \in NoName
  /\ opened \in SUBSET Tabs /\ inside \in SUBSET Tabs
  /\ pending \in [Tabs -> Sessions \union {None}]
  /\ shown \in [Tabs -> NoName]
  /\ dialog \in [Tabs -> Submissions \union {None}]
  /\ submission \in [Submissions -> SubmissionRecords]
  /\ crossed \in BOOLEAN
  /\ faults \in Nat

Init ==
  /\ session = [i \in Sessions |-> "unsent"]
  /\ origin = [i \in Sessions |-> None]
  /\ username = [u \in Users |-> None]
  /\ token = None /\ identity = None
  /\ opened = {} /\ inside = {}
  /\ pending = [t \in Tabs |-> None]
  /\ shown = [t \in Tabs |-> None]
  /\ dialog = [t \in Tabs |-> None]
  /\ submission = [s \in Submissions |-> Unsent]
  /\ crossed = FALSE
  /\ faults = 0

Fault == faults < MaxFaults /\ faults' = faults + 1

InFlight(s) == submission[s].at \notin {"new", "done"}
Owners(n)   == {u \in Users : username[u] = n}

-----------------------------------------------------------------------------
(* Tabs and their session: session.ts, LandingPage.tsx, WorkspaceRoute.tsx *)

\* WorkspaceRoute reads both items once, when it mounts.
OpenTab(t) ==
  /\ t \notin opened
  /\ opened' = opened \union {t}
  /\ inside' = IF token # None THEN inside \union {t} ELSE inside
  /\ shown' = [shown EXCEPT ![t] = identity]
  /\ UNCHANGED <<server, storage, pending, dialog, submission, crossed, faults>>

IsNext(i) == session[i] = "unsent" /\ \A j \in 1..(i - 1) : session[j] # "unsent"

\* Mutant of GetSessionToken: calls do not share the request under way.
GetSessionTokenUnshared(t, i) ==
  /\ t \in opened
  /\ token = None
  /\ IsNext(i)
  /\ session' = [session EXCEPT ![i] = "sent"]
  /\ origin' = [origin EXCEPT ![i] = t]
  /\ pending' = [pending EXCEPT ![t] = i]
  /\ UNCHANGED <<username, storage, opened, inside, shown, dialog, submission,
                 crossed, faults>>

\* Without a stored token, the first of a tab's calls requests one.
GetSessionToken(t, i) ==
  /\ t \in opened
  /\ token = None /\ pending[t] = None
  /\ IsNext(i)
  /\ session' = [session EXCEPT ![i] = "sent"]
  /\ origin' = [origin EXCEPT ![i] = t]
  /\ pending' = [pending EXCEPT ![t] = i]
  /\ UNCHANGED <<username, storage, opened, inside, shown, dialog, submission,
                 crossed, faults>>

CreateAnonymousUser(i) ==
  /\ session[i] = "sent"
  /\ session' = [session EXCEPT ![i] = "created"]
  /\ UNCHANGED <<origin, username, storage, tabVars, submission, crossed, faults>>

\* The pending request is cleared (finally), whatever the token is by now.
StoreToken(i) ==
  /\ session[i] = "created"
  /\ session' = [session EXCEPT ![i] = "stored"]
  /\ token' = i
  /\ pending' = [pending EXCEPT ![origin[i]] = None]
  /\ crossed' = (crossed \/ token # None)
  /\ UNCHANGED <<origin, username, identity, opened, inside, shown, dialog,
                 submission, faults>>

\* Mutant of SessionFails: the rejected promise stays pending.
SessionFailsForGood(i) ==
  /\ Fault
  /\ session[i] \in {"sent", "created"}
  /\ session' = [session EXCEPT ![i] = "failed"]
  /\ UNCHANGED <<origin, username, storage, tabVars, submission, crossed>>

\* The request fails, before or after its user was created.
SessionFails(i) ==
  /\ Fault
  /\ session[i] \in {"sent", "created"}
  /\ session' = [session EXCEPT ![i] = "failed"]
  /\ pending' = [pending EXCEPT ![origin[i]] = None]
  /\ UNCHANGED <<origin, username, storage, opened, inside, shown, dialog,
                 submission, crossed>>

\* handleStart: a token is there, from this tab's request or another's.
Enter(t) ==
  /\ t \in opened \ inside
  /\ token # None
  /\ inside' = inside \union {t}
  /\ UNCHANGED <<server, storage, opened, pending, shown, dialog, submission,
                 crossed, faults>>

-----------------------------------------------------------------------------
(* The username dialog: UsernameDialog.tsx, identity.ts                    *)

\* The panel offers the dialog while it shows an anonymous user.  A claim goes
\* out with the token stored now.
Submit(s, t, kind, n) ==
  /\ t \in inside
  /\ shown[t] = None /\ dialog[t] = None
  /\ submission[s].at = "new" /\ \A r \in 1..(s - 1) : submission[r].at # "new"
  /\ submission' = [submission EXCEPT ![s] =
       [at |-> "finding", kind |-> kind, tab |-> t, name |-> n,
        user |-> IF kind = "claim" THEN token ELSE None, result |-> None]]
  /\ dialog' = [dialog EXCEPT ![t] = s]
  /\ crossed' = (crossed \/ \E r \in Submissions : InFlight(r))
  /\ UNCHANGED <<server, storage, opened, inside, pending, shown, faults>>

\* The dialog can be closed while it submits; the submission goes on.
CloseDialog(t) ==
  /\ dialog[t] # None
  /\ dialog' = [dialog EXCEPT ![t] = None]
  /\ UNCHANGED <<server, storage, opened, inside, pending, shown, submission,
                 crossed, faults>>

AnswerWith(s, user, result) ==
  submission' = [submission EXCEPT ![s].at = "answered", ![s].user = user,
                                   ![s].result = result]

\* claimUser, its query.
ClaimFinds(s) ==
  /\ submission[s].at = "finding" /\ submission[s].kind = "claim"
  /\ IF Owners(submission[s].name) \ {submission[s].user} # {}
       THEN AnswerWith(s, submission[s].user, "conflict")
       ELSE submission' = [submission EXCEPT ![s].at = "updating"]
  /\ UNCHANGED <<server, storage, tabVars, crossed, faults>>

\* Mutant of ClaimUpdates: users.username is not unique.
ClaimUpdatesUnconstrained(s) ==
  /\ submission[s].at = "updating"
  /\ username' = [username EXCEPT ![submission[s].user] = submission[s].name]
  /\ AnswerWith(s, submission[s].user, "ok")
  /\ UNCHANGED <<session, origin, storage, tabVars, crossed, faults>>

\* claimUser, its update: the constraint refuses a name taken since the query,
\* which is answered as a conflict or, if the driver's error comes wrapped, as
\* an internal error.
ClaimUpdates(s) ==
  LET user == submission[s].user
      name == submission[s].name
  IN /\ submission[s].at = "updating"
     /\ IF Owners(name) \ {user} = {}
          THEN /\ username' = [username EXCEPT ![user] = name]
               /\ AnswerWith(s, user, "ok")
          ELSE /\ \E r \in {"conflict", "error"} : AnswerWith(s, user, r)
               /\ UNCHANGED username
     /\ UNCHANGED <<session, origin, storage, tabVars, crossed, faults>>

\* findClaimedUserByUsername: the answer carries the user's token.
SignInFinds(s) ==
  /\ submission[s].at = "finding" /\ submission[s].kind = "signin"
  /\ \/ \E u \in Owners(submission[s].name) : AnswerWith(s, u, "ok")
     \/ Owners(submission[s].name) = {} /\ AnswerWith(s, None, "missing")
  /\ UNCHANGED <<server, storage, tabVars, crossed, faults>>

\* An answer lost, or a query that fails, is an error to the dialog.
SubmissionFails(s) ==
  /\ Fault
  /\ InFlight(s) /\ submission[s].result \notin {"error", "missing"}
  /\ AnswerWith(s, submission[s].user, "error")
  /\ UNCHANGED <<server, storage, tabVars, crossed>>

Finish(s) == submission' = [submission EXCEPT ![s].at = "done"]

\* Mutant of Complete: a sign-in stores the identity only.
CompleteKeepsToken(s) ==
  LET t == submission[s].tab
  IN /\ submission[s].at = "answered" /\ submission[s].result = "ok"
     /\ Finish(s)
     /\ identity' = submission[s].name
     /\ shown' = [shown EXCEPT ![t] = submission[s].name]
     /\ dialog' = [dialog EXCEPT ![t] = None]
     /\ UNCHANGED <<server, token, opened, inside, pending, crossed, faults>>

\* claimAccount and signInWithUsername store what was answered; onComplete
\* closes the dialog that is open now, which may be a later one.
Complete(s) ==
  LET t == submission[s].tab
  IN /\ submission[s].at = "answered" /\ submission[s].result = "ok"
     /\ Finish(s)
     /\ token' = IF submission[s].kind = "signin" THEN submission[s].user ELSE token
     /\ identity' = submission[s].name
     /\ shown' = [shown EXCEPT ![t] = submission[s].name]
     /\ dialog' = [dialog EXCEPT ![t] = None]
     /\ UNCHANGED <<server, opened, inside, pending, crossed, faults>>

\* The dialog shows the error and can submit again.
ShowError(s) ==
  LET t == submission[s].tab
  IN /\ submission[s].at = "answered" /\ submission[s].result # "ok"
     /\ Finish(s)
     /\ dialog' = IF dialog[t] = s THEN [dialog EXCEPT ![t] = None] ELSE dialog
     /\ UNCHANGED <<server, storage, opened, inside, pending, shown, crossed,
                    faults>>

-----------------------------------------------------------------------------
(* Another browser                                                         *)

OtherClaims(n) ==
  /\ username[Other] = None
  /\ Owners(n) = {}
  /\ username' = [username EXCEPT ![Other] = n]
  /\ UNCHANGED <<session, origin, storage, tabVars, submission, crossed, faults>>

-----------------------------------------------------------------------------
Answer(s) == ClaimFinds(s) \/ ClaimUpdates(s) \/ SignInFinds(s)

Next ==
  \/ \E t \in Tabs : \/ OpenTab(t) \/ Enter(t) \/ CloseDialog(t)
                     \/ \E i \in Sessions : GetSessionToken(t, i)
                     \/ \E s \in Submissions, n \in Names :
                          Submit(s, t, "claim", n) \/ Submit(s, t, "signin", n)
  \/ \E i \in Sessions : CreateAnonymousUser(i) \/ StoreToken(i) \/ SessionFails(i)
  \/ \E s \in Submissions : \/ Answer(s) \/ SubmissionFails(s)
                            \/ Complete(s) \/ ShowError(s)
  \/ \E n \in Names : OtherClaims(n)

Spec == Init /\ [][Next]_vars

\* Heartbeats repeat every 30 seconds, and session requests are answered.
Fairness ==
  /\ \A t \in Tabs : WF_vars(\E i \in Sessions : GetSessionToken(t, i))
  /\ \A i \in Sessions : WF_vars(CreateAnonymousUser(i) \/ StoreToken(i))

FairSpec == Spec /\ Fairness

-----------------------------------------------------------------------------
(* Properties                                                              *)

\* However many calls of a tab need a token at once, and whatever the other
\* tabs store meanwhile, one tab makes at most one anonymous user, unless a
\* request fails (getSessionToken, pendingTokenRequest).
OneUserPerTab ==
  faults = 0 =>
    \A i, j \in Sessions : origin[i] # None /\ origin[i] = origin[j] => i = j

\* "Identity display is best-effort; the session token remains the source of
\* auth" (identity.ts): what it is good for.  The stored identity names the
\* account of the stored token, unless submissions overlapped, the tabs made
\* two anonymous users, or an answer was lost.
IdentityNamesAccount ==
  ~crossed /\ faults = 0 /\ identity # None
    /\ (\A s \in Submissions : ~InFlight(s))
    => token # None /\ username[token] = identity

Granted(s) == submission[s].kind = "claim" /\ submission[s].result = "ok"

\* Of the claims that pass the query of claimUser before one of them updates, one
\* is granted: a user whose claim was granted is the only owner of the name, or,
\* having claimed again, of the name of another of its claims.  A name so leads
\* its user back to one account (findClaimedUserByUsername).
ClaimedNameIsHeld ==
  \A s \in Submissions : Granted(s) =>
    \E r \in Submissions : /\ submission[r].kind = "claim"
                           /\ submission[r].user = submission[s].user
                           /\ Owners(submission[r].name) = {submission[s].user}

\* A tab that is open gets a session, even if its first request fails: the
\* failed one does not stay pending.
SessionIsObtained == \A t \in Tabs : t \in opened ~> token # None

=============================================================================
