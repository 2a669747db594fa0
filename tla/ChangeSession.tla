--------------------------- MODULE ChangeSession ---------------------------
(***************************************************************************)
(* One browser, its session cookie and the change records: the handlers of *)
(* internal/api/session_change.go, changes.go and auth.go on top of        *)
(* middleware/session.go.                                                  *)
(*                                                                         *)
(* The server keeps no session.  A request carries the cookie the browser  *)
(* has when it sends it, the handler works on that copy, and the browser   *)
(* takes whatever cookie comes back with the answer.  Several requests may *)
(* be on their way: tabs, or clicks while STS is slow.                     *)
(*                                                                         *)
(* A change is identified by its number: numbers are unique and no handler *)
(* deletes a change.  Other users' saves come between the steps of a       *)
(* request just as this browser's own.                                     *)
(***************************************************************************)
EXTENDS Integers, Sequences, SequencesExt

CONSTANTS
  Keys,          \* the AWS credentials the user has
  CredentialEnv, \* key -> the environment STS accepts it in
  AccountOf,     \* key -> the account STS names
  Numbers,       \* change numbers
  FirstChanges,  \* the changes there are at first: number -> instances
  FirstCookies,  \* the sessions the browser may have at first
  Requests,      \* the requests the user may make, as Blank describes them
  DevMode,       \* config.DevMode: credentials are not validated
  MaxInFlight,   \* bound: requests on their way at once
  MaxRequests,   \* bound: requests made
  MaxFaults      \* bound: statements that return an error, and crashes

Envs     == {"com", "gov"}
NoKey    == "none"
NoChange == "none"

ASSUME SessionAssumption ==
  /\ NoKey \notin Keys /\ NoChange \notin Numbers
  /\ DevMode \in BOOLEAN
  /\ {MaxInFlight, MaxRequests, MaxFaults} \subseteq Nat

VARIABLES
  cookie,    \* the session in the browser's cookie
  changes,   \* the changes table: number -> its instances, in order
  requests,  \* the requests on their way, and where the handler of each stands
  used,      \* how much of each bound is used up
  saved,     \* history: the lists that have been saved, with their numbers
  asked      \* history: what the answers so far made of the session

sessionVars == <<cookie, changes, requests, used, saved, asked>>

NoSession == [key |-> NoKey, env |-> "none", account |-> "none", change |-> NoChange]

Sessions == [key : Keys \cup {NoKey}, env : Envs \cup {"none"},
             account : Range(AccountOf) \cup {"none", "dev-mode"},
             change : Numbers \cup {NoChange}]

\* What there is at first: the session was made, and its change saved, by an
\* earlier run of the server.
ASSUME FirstAssumption ==
  /\ DOMAIN AccountOf = Keys
  /\ DOMAIN FirstChanges \subseteq Numbers
  /\ FirstCookies \subseteq Sessions
  /\ \A c \in FirstCookies :
       /\ c.change \in DOMAIN FirstChanges \cup {NoChange}
       /\ c.key # NoKey /\ ~DevMode =>
            CredentialEnv[c.key] = c.env /\ AccountOf[c.key] = c.account

\* A request and its handler's local state, which begins with "sess".  "targets"
\* to "jobs" serve the handlers that start batches.
Blank ==
  [kind |-> "none", number |-> NoChange, list |-> <<>>, key |-> NoKey, env |-> "com",
   ids |-> <<>>, id |-> 0, keep |-> FALSE, account |-> "none", region |-> "none",
   sess |-> NoSession, stage |-> "idle", targets |-> <<>>, script |-> 0, plan |-> {},
   jobs |-> {}, answer |-> "none", set |-> NoSession]

InFlight == 1 .. MaxInFlight

\* The requests whose answer may bring a cookie.
Writers == {"load", "save", "manual", "csv", "clear", "credentials", "signOut"}

\* Those that are about a change they name.
Naming == {"load", "save", "manual", "csv", "create"}

Arguments ==
  {"kind", "number", "list", "key", "env", "ids", "id", "keep", "account", "region"}

\* A request is a kind and its arguments.
ASSUME RequestsAssumption ==
  \A q \in Requests :
    /\ DOMAIN q = DOMAIN Blank /\ \A f \in DOMAIN Blank \ Arguments : q[f] = Blank[f]
    /\ q.kind \in Naming => q.number \in Numbers
    /\ q.kind = "credentials" => q.key \in Keys /\ q.env \in Envs

SessionInit ==
  /\ cookie \in FirstCookies
  /\ changes = FirstChanges
  /\ requests = [r \in InFlight |-> Blank]
  /\ used = [requests |-> 0, faults |-> 0]
  /\ saved = {<<n, FirstChanges[n]>> : n \in DOMAIN FirstChanges}
  /\ asked = [key |-> cookie.key, change |-> cookie.change]

Statement(ok) ==
  \/ ok /\ UNCHANGED used
  \/ ~ok /\ used.faults < MaxFaults /\ used' = [used EXCEPT !.faults = @ + 1]

\* requireAWSSession, and FromSession: are there credentials in the session?
HasKeys(sess) == sess.key # NoKey

-----------------------------------------------------------------------------
(* The browser and the session middleware.                                 *)

\* Two requests that set the cookie are on their way at once: which answer comes
\* last decides, and what the user was told no longer says what the session is.
Unclear == [key |-> "unclear", change |-> "unclear"]

WriterUnderWay == \E r \in InFlight : requests[r].kind \in Writers

\* The browser sends request q with its cookie; loadSession finds the session.
Submit(r, q) ==
  /\ requests[r].stage = "idle" /\ \A s \in 1 .. r - 1 : requests[s].stage # "idle"
  /\ used.requests < MaxRequests
  /\ used' = [used EXCEPT !.requests = @ + 1]
  /\ requests' = [requests EXCEPT ![r] = [q EXCEPT !.stage = "sent", !.sess = cookie]]
  /\ asked' = IF q.kind \in Writers /\ WriterUnderWay THEN Unclear ELSE asked
  /\ UNCHANGED <<cookie, changes, saved>>

\* The lifetime is over: the browser drops the cookie, or loadSession does.
Expire ==
  /\ cookie # NoSession
  /\ cookie' = NoSession
  /\ asked' = IF WriterUnderWay THEN Unclear ELSE [key |-> NoKey, change |-> NoChange]
  /\ UNCHANGED <<changes, requests, used, saved>>

\* The handler of q returns, and what it knew is gone.
Answered(q, answer) ==
  [Blank EXCEPT !.kind = q.kind, !.number = q.number, !.key = q.key, !.plan = q.plan,
                !.jobs = q.jobs, !.stage = "answer", !.answer = answer]

Refuse(r) == requests' = [requests EXCEPT ![r] = Answered(@, "error")]

\* SaveSession and ClearSession: the answer brings a cookie.
SaveSession(r, sess) ==
  requests' = [requests EXCEPT ![r] = [Answered(@, "cookie") EXCEPT !.set = sess]]

\* What a user who gets this answer takes the session to be.
Expected(q) ==
  IF asked = Unclear THEN Unclear
  ELSE CASE q.kind \in {"load", "save", "manual", "csv"} -> [asked EXCEPT !.change = q.number]
         [] q.kind = "clear" -> [asked EXCEPT !.change = NoChange]
         [] q.kind = "credentials" -> [asked EXCEPT !.key = q.key]
         [] q.kind = "signOut" -> [key |-> NoKey, change |-> NoChange]

\* The answer arrives; the cookie that comes with it replaces the one there is.
Receive(r) ==
  /\ requests[r].stage = "answer"
  /\ IF requests[r].answer = "cookie"
     THEN cookie' = requests[r].set /\ asked' = Expected(requests[r])
     ELSE UNCHANGED <<cookie, asked>>
  /\ requests' = [requests EXCEPT ![r] = Blank]
  /\ UNCHANGED <<changes, used, saved>>

Handling(r, kind) == requests[r].stage = "sent" /\ requests[r].kind = kind

-----------------------------------------------------------------------------
(* Credentials.                                                            *)

\* Mutants of Authenticated: a new session is made, without the change; the
\* environment is the one there was.
AuthenticatedAnew(sess, key, env, account) ==
  [NoSession EXCEPT !.key = key, !.env = env, !.account = account]

AuthenticatedInPlace(sess, key, env, account) ==
  [sess EXCEPT !.key = key, !.env = IF @ = "none" THEN env ELSE @, !.account = account]

\* The session with other credentials.
Authenticated(sess, key, env, account) ==
  [sess EXCEPT !.key = key, !.env = env, !.account = account]

\* The account STS names for the key, if it accepts it in the environment that was
\* asked for; in dev mode nobody is asked.
Accepted(q) ==
  IF DevMode THEN {"dev-mode"}
  ELSE IF CredentialEnv[q.key] = q.env THEN {AccountOf[q.key]} ELSE {}

\* handleCreateCredentials; STS may always fail to answer.
CreateCredentials(r) ==
  /\ Handling(r, "credentials")
  /\ LET q == requests[r] IN
       \/ \E account \in Accepted(q) :
            SaveSession(r, Authenticated(q.sess, q.key, q.env, account))
       \/ ~DevMode /\ Refuse(r)
  /\ UNCHANGED <<cookie, changes, used, saved, asked>>

\* handleDeleteCredentials clears the cookie, the change with it.
DeleteCredentials(r) ==
  /\ Handling(r, "signOut")
  /\ SaveSession(r, NoSession)
  /\ UNCHANGED <<cookie, changes, used, saved, asked>>

-----------------------------------------------------------------------------
(* Changes.                                                                *)

\* Put change n into the session of r; the change itself stays as it is.
LoadChange(r) ==
  /\ Handling(r, "load")
  /\ \/ /\ Statement(TRUE)
        /\ IF requests[r].number \in DOMAIN changes
           THEN SaveSession(r, [requests[r].sess EXCEPT !.change = requests[r].number])
           ELSE Refuse(r)
     \/ Statement(FALSE) /\ Refuse(r)
  /\ UNCHANGED <<cookie, changes, saved, asked>>

ClearChange(r) ==
  /\ Handling(r, "clear")
  /\ SaveSession(r, [requests[r].sess EXCEPT !.change = NoChange])
  /\ UNCHANGED <<cookie, changes, used, saved, asked>>

\* Mutant of Replaced: the instances of an earlier save are not deleted.
ReplacedNone(n, rows) ==
  [m \in DOMAIN changes \cup {n} |->
     IF m # n THEN changes[m] ELSE IF n \in DOMAIN changes THEN changes[n] \o rows ELSE rows]

\* Change n is found or created, and its instances are replaced.
Replaced(n, rows) ==
  [m \in DOMAIN changes \cup {n} |-> IF m = n THEN rows ELSE changes[m]]

\* The transaction that all three save handlers end with, and the session.
StoreChange(r, rows) ==
  LET n == requests[r].number IN
    \/ /\ Statement(TRUE)
       /\ changes' = Replaced(n, rows)
       /\ saved' = saved \cup {<<n, rows>>}
       /\ SaveSession(r, [requests[r].sess EXCEPT !.change = n])
    \/ /\ Statement(FALSE)
       /\ Refuse(r)
       /\ UNCHANGED <<changes, saved>>

\* The rows without repetitions, in their order.
Deduplicated(rows) ==
  FoldLeft(LAMBDA seen, x : IF x \in Range(seen) THEN seen ELSE Append(seen, x), <<>>, rows)

\* The list as the page has it, an empty one too.
SaveChangeWithInstances(r) ==
  /\ Handling(r, "save")
  /\ StoreChange(r, requests[r].list)
  /\ UNCHANGED <<cookie, asked>>

\* Instance IDs from a text area, for one account and region.
SaveManualChange(r) ==
  /\ Handling(r, "manual")
  /\ IF HasKeys(requests[r].sess) /\ requests[r].list # <<>>
     THEN StoreChange(r, Deduplicated(requests[r].list))
     ELSE Refuse(r) /\ UNCHANGED <<changes, used, saved>>
  /\ UNCHANGED <<cookie, asked>>

\* The rows of a file, repetitions too; one row at least.
UploadChangeCSV(r) ==
  /\ Handling(r, "csv")
  /\ IF requests[r].list # <<>>
     THEN StoreChange(r, requests[r].list)
     ELSE Refuse(r) /\ UNCHANGED <<changes, used, saved>>
  /\ UNCHANGED <<cookie, asked>>

\* handleCreateChange: a change without instances, unless the number is taken or
\* the insert fails.  It does not enter the session.
CreateChange(r) ==
  /\ Handling(r, "create")
  /\ LET n == requests[r].number IN
       \/ /\ n \notin DOMAIN changes
          /\ Statement(TRUE)
          /\ changes' = Replaced(n, <<>>)
          /\ saved' = saved \cup {<<n, <<>>>>}
          /\ requests' = [requests EXCEPT ![r] = Answered(@, "ok")]
       \/ /\ Statement(n \in DOMAIN changes)
          /\ Refuse(r)
          /\ UNCHANGED <<changes, saved>>
  /\ UNCHANGED <<cookie, asked>>

\* handleGetCurrentChange and loadSessionChange: the row the session points to.
CurrentChange(sess) ==
  IF sess.change = NoChange THEN "no change loaded"
  ELSE IF sess.change \in DOMAIN changes THEN "found" ELSE "change not found"

-----------------------------------------------------------------------------
SessionStep ==
  \/ \E r \in InFlight :
       \/ \E q \in Requests : Submit(r, q)
       \/ Receive(r)
       \/ CreateCredentials(r) \/ DeleteCredentials(r)
       \/ LoadChange(r) \/ ClearChange(r) \/ CreateChange(r)
       \/ SaveChangeWithInstances(r) \/ SaveManualChange(r) \/ UploadChangeCSV(r)
  \/ Expire
=============================================================================
