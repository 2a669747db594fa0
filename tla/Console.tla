------------------------------ MODULE Console ------------------------------
(***************************************************************************)
(* The handlers that start batches, on top of ChangeSession: the tool      *)
(* pages (internal/api/compat_tools.go), the script runner                 *)
(* (compat_exec.go), the tools API (tools.go), handleExecScript (exec.go), *)
(* the script library (scripts.go), and the part of Runner.start that      *)
(* resolves the script and creates the batch.                              *)
(*                                                                         *)
(* A handler is a sequence of statements; other requests run in between,   *)
(* and the server may die.  What becomes of a batch is BatchRunner's.      *)
(***************************************************************************)
EXTENDS ChangeSession, FiniteSets

CONSTANTS
  Inventory,   \* instances that were synchronised -> their account and region
  SafeNumbers, \* change numbers that may go into a script
  ToolScripts  \* number of scripts of the tool, the first of the library

ASSUME ConsoleAssumption == SafeNumbers \subseteq Numbers /\ ToolScripts \in Nat

VARIABLES
  scripts,  \* the scripts table
  batches,  \* the execution_batches table
  orphans   \* history: inline scripts of starts that were cut off

consoleVars == <<scripts, batches, orphans>>
vars        == <<sessionVars, consoleVars>>

\* HomeRegion: the region a client is built for, from the environment alone.
Home(env) == IF env = "gov" THEN "us-gov-west-1" ELSE "us-east-1"

LibraryScript == [ephemeral |-> FALSE, live |-> TRUE]
InlineScript  == [ephemeral |-> TRUE, live |-> TRUE]

\* handleListScripts, handleScriptLibrary and their single-script forms.
Library == {i \in DOMAIN scripts : scripts[i].live /\ ~scripts[i].ephemeral}

Init ==
  /\ SessionInit
  /\ scripts = [i \in 1 .. ToolScripts |-> LibraryScript]
  /\ batches = <<>> /\ orphans = {}

At(r, stage, kinds) == requests[r].stage = stage /\ requests[r].kind \in kinds

Goto(r, q, stage) == requests' = [requests EXCEPT ![r] = [q EXCEPT !.stage = stage]]

\* The requests that start batches, from the pages or from the API.
OnPages  == {"qcStep", "qcPost", "rhsa", "scriptRunner", "sft"}
Starters == OnPages \cup {"exec", "tool"}

unchangedSession == <<cookie, changes, saved, asked>>

Ok(r, q) == requests' = [requests EXCEPT ![r] = Answered(q, "ok")]

-----------------------------------------------------------------------------
(* Which instances, in which account and region.                           *)

Pairs(rows) == {rows[i].pair : i \in DOMAIN rows}

\* resolveChangeInstances: those of the change that were asked for, all when
\* none is named; they must share an account and a region.
Chosen(rows, ids) == SelectSeq(rows, LAMBDA x : ids = <<>> \/ x.id \in Range(ids))

Uniform(pairs) == \E p \in pairs : pairs = {p}

\* injectQCParams refuses a change number that is not plain.
CanInject(number) == number \in SafeNumbers

Ids(rows) == [i \in DOMAIN rows |-> rows[i].id]

\* On the wanted instances of the current change, as its rows are now.
StartOnChange(r, wanted) ==
  /\ LET q == requests[r]
         n == q.sess.change
         rows == Chosen(changes[n], wanted)
         pair == CHOOSE p \in Pairs(rows) : TRUE
     IN  \/ /\ Statement(TRUE)
            /\ IF CurrentChange(q.sess) = "found" /\ Uniform(Pairs(rows))
                  /\ CanInject(n) /\ HasKeys(q.sess)
               THEN Goto(r, [q EXCEPT !.targets = Ids(rows), !.account = pair.account,
                                      !.region = pair.region, !.number = n], "script")
               ELSE Refuse(r)
         \/ Statement(FALSE) /\ Refuse(r)
  /\ UNCHANGED <<unchangedSession, consoleVars>>

\* handleQCStep: on all of them.
QCStep(r) == At(r, "sent", {"qcStep"}) /\ StartOnChange(r, <<>>)

\* handleLinuxQCPostExec: on those the request names, one at least.
LinuxQCPostExec(r) ==
  At(r, "sent", {"qcPost"}) /\ requests[r].ids # <<>> /\ StartOnChange(r, requests[r].ids)

\* resolveUniformMeta: the inventory's word, or the session's for the others.
PairOf(id, sess) ==
  IF id \in DOMAIN Inventory THEN Inventory[id]
  ELSE [account |-> sess.account, region |-> Home(sess.env)]

UniformMeta(ids, sess) == {PairOf(ids[i], sess) : i \in DOMAIN ids}

\* On instances named by ID.
StartOnIds(r, stage) ==
  /\ LET q == requests[r]
         metas == UniformMeta(q.ids, q.sess)
         pair == CHOOSE p \in metas : TRUE
     IN  \/ /\ Statement(TRUE)
            /\ IF HasKeys(q.sess) /\ Uniform(metas)
               THEN Goto(r, [q EXCEPT !.targets = q.ids, !.account = pair.account,
                                      !.region = pair.region], stage)
               ELSE Refuse(r)
         \/ Statement(FALSE) /\ Refuse(r)
  /\ UNCHANGED <<unchangedSession, consoleVars>>

RHSAExecute(r) == At(r, "sent", {"rhsa"}) /\ StartOnIds(r, "script")

ScriptRunnerExec(r) ==
  At(r, "sent", {"scriptRunner"}) /\ StartOnIds(r, IF requests[r].keep THEN "library" ELSE "script")

\* Account and region as the request has them.
StartDirect(r) ==
  /\ IF HasKeys(requests[r].sess)
     THEN Goto(r, [requests[r] EXCEPT !.targets = requests[r].ids], "script")
     ELSE Refuse(r)
  /\ UNCHANGED <<unchangedSession, used, consoleVars>>

\* handleSFTExecScript: a script of the server's on one instance.
SFTExecScript(r) == At(r, "sent", {"sft"}) /\ StartDirect(r)

\* handleExecScript: an inline script, or one of the library.
ExecScript(r) == At(r, "sent", {"exec"}) /\ StartDirect(r)

\* Scripts are loaded, and turned to, in the order of their IDs.
Least(i, ids) == \A j \in ids : i <= j

\* handleExecuteTool: the scripts the tool has now, one batch for each.
LoadTool(r) ==
  /\ At(r, "sent", {"tool"})
  /\ LET q == requests[r]
         plan == Library \cap (1 .. ToolScripts)
     IN  \/ /\ Statement(TRUE)
            /\ IF plan # {} /\ HasKeys(q.sess)
               THEN \E i \in plan :
                      /\ Least(i, plan)
                      /\ Goto(r, [q EXCEPT !.targets = q.ids, !.plan = plan, !.id = i], "script")
               ELSE Refuse(r)
         \/ Statement(FALSE) /\ Refuse(r)
  /\ UNCHANGED <<unchangedSession, consoleVars>>

-----------------------------------------------------------------------------
(* Runner.start.                                                           *)

\* save_to_library: the script is saved first and then started by its ID.
SaveToLibrary(r) ==
  /\ At(r, "library", {"scriptRunner"})
  /\ \/ /\ Statement(TRUE)
        /\ scripts' = Append(scripts, LibraryScript)
        /\ Goto(r, [requests[r] EXCEPT !.id = Len(scripts) + 1], "script")
     \/ /\ Statement(FALSE) /\ Refuse(r)
        /\ UNCHANGED scripts
  /\ UNCHANGED <<unchangedSession, batches, orphans>>

\* resolveScript: a script of the library by its ID, which may be gone, or a
\* new row for the inline one.
ResolveScript(r) ==
  /\ requests[r].stage = "script"
  /\ LET q == requests[r] IN
       \/ /\ Statement(TRUE)
          /\ \/ /\ q.id # 0
                /\ IF q.id \in Library THEN Goto(r, [q EXCEPT !.script = q.id], "batch")
                   ELSE Refuse(r)
                /\ UNCHANGED scripts
             \/ /\ q.id = 0
                /\ scripts' = Append(scripts, InlineScript)
                /\ Goto(r, [q EXCEPT !.script = Len(scripts) + 1], "batch")
       \/ Statement(FALSE) /\ Refuse(r) /\ UNCHANGED scripts
  /\ UNCHANGED <<unchangedSession, batches, orphans>>

\* The rest of a tool's scripts, after the one that was just turned to.
NextOfPlan(q) == {i \in q.plan : i > q.id}

\* After a batch: the tool's next script, or the answer.
Proceed(r, q) ==
  IF NextOfPlan(q) # {}
  THEN \E i \in NextOfPlan(q) :
         Least(i, NextOfPlan(q)) /\ Goto(r, [q EXCEPT !.id = i, !.script = 0], "script")
  ELSE Ok(r, q)

\* The batch row; CallerKey is set for the pages only.
BatchOf(script, q) ==
  [script |-> script, targets |-> q.targets, account |-> q.account, region |-> q.region,
   change |-> IF q.kind \in {"qcStep", "qcPost"} THEN q.number ELSE NoChange, sentTo |-> Home(q.sess.env),
   callerKey |-> IF q.kind \in OnPages THEN q.sess.key ELSE NoKey]

\* Mutant of NewBatch: the script that was asked for, not the resolved one.
NewBatchById(q) == BatchOf(q.id, q)

NewBatch(q) == BatchOf(q.script, q)

\* Mutant of CreateBatch: a script whose batch is refused is passed over.
CreateBatchOrSkip(r) ==
  /\ requests[r].stage = "batch"
  /\ LET q == requests[r] IN
       \/ /\ Statement(TRUE)
          /\ batches' = Append(batches, NewBatch(q))
          /\ Proceed(r, [q EXCEPT !.jobs = @ \cup {Len(batches) + 1}])
       \/ /\ Statement(FALSE)
          /\ IF scripts[q.script].ephemeral THEN Goto(r, q, "cleanUp") ELSE Proceed(r, q)
          /\ UNCHANGED batches
  /\ UNCHANGED <<unchangedSession, scripts, orphans>>

\* Mutant: a refused batch leaves the inline script behind.
CreateBatchNoCleanUp(r) ==
  /\ requests[r].stage = "batch"
  /\ LET q == requests[r] IN
       \/ /\ Statement(TRUE)
          /\ batches' = Append(batches, NewBatch(q))
          /\ Proceed(r, [q EXCEPT !.jobs = @ \cup {Len(batches) + 1}])
       \/ Statement(FALSE) /\ Refuse(r) /\ UNCHANGED batches
  /\ UNCHANGED <<unchangedSession, scripts, orphans>>

\* The batch is created and its goroutine launched; a refusal ends the request,
\* but the inline script is deleted first.
CreateBatch(r) ==
  /\ requests[r].stage = "batch"
  /\ LET q == requests[r] IN
       \/ /\ Statement(TRUE)
          /\ batches' = Append(batches, NewBatch(q))
          /\ Proceed(r, [q EXCEPT !.jobs = @ \cup {Len(batches) + 1}])
       \/ /\ Statement(FALSE)
          /\ IF scripts[q.script].ephemeral THEN Goto(r, q, "cleanUp") ELSE Refuse(r)
          /\ UNCHANGED batches
  /\ UNCHANGED <<unchangedSession, scripts, orphans>>

CleanUp(r) ==
  /\ requests[r].stage = "cleanUp"
  /\ \/ /\ Statement(TRUE)
        /\ scripts' = [scripts EXCEPT ![requests[r].script].live = FALSE]
        /\ UNCHANGED orphans
     \/ /\ Statement(FALSE)
        /\ orphans' = orphans \cup {requests[r].script}
        /\ UNCHANGED scripts
  /\ Refuse(r)
  /\ UNCHANGED <<unchangedSession, batches>>

-----------------------------------------------------------------------------
(* The script library.                                                     *)

CreateScript(r) ==
  /\ At(r, "sent", {"createScript"})
  /\ \/ /\ Statement(TRUE)
        /\ scripts' = Append(scripts, LibraryScript)
        /\ Ok(r, requests[r])
     \/ Statement(FALSE) /\ Refuse(r) /\ UNCHANGED scripts
  /\ UNCHANGED <<unchangedSession, batches, orphans>>

\* A soft delete: batches keep their reference.
DeleteScript(r) ==
  /\ At(r, "sent", {"deleteScript"})
  /\ \/ /\ Statement(TRUE)
        /\ IF requests[r].id \in Library
           THEN /\ scripts' = [scripts EXCEPT ![requests[r].id].live = FALSE]
                /\ Ok(r, requests[r])
           ELSE Refuse(r) /\ UNCHANGED scripts
     \/ Statement(FALSE) /\ Refuse(r) /\ UNCHANGED scripts
  /\ UNCHANGED <<unchangedSession, batches, orphans>>

-----------------------------------------------------------------------------
\* The server dies: no answer comes to any request, and nothing at the next
\* start looks at scripts without a batch.
Crash ==
  /\ used.faults < MaxFaults
  /\ used' = [used EXCEPT !.faults = @ + 1]
  /\ requests' = [r \in InFlight |-> Blank]
  /\ orphans' = orphans \cup {requests[r].script : r \in
       {x \in InFlight : requests[x].stage \in {"batch", "cleanUp"}}}
  /\ UNCHANGED <<unchangedSession, scripts, batches>>

Next ==
  \/ SessionStep /\ UNCHANGED consoleVars
  \/ \E r \in InFlight :
       \/ QCStep(r) \/ LinuxQCPostExec(r) \/ RHSAExecute(r) \/ ScriptRunnerExec(r)
       \/ SFTExecScript(r) \/ ExecScript(r) \/ LoadTool(r)
       \/ SaveToLibrary(r) \/ ResolveScript(r) \/ CreateBatch(r) \/ CleanUp(r)
       \/ CreateScript(r) \/ DeleteScript(r)
  \/ Crash

Spec == Init /\ [][Next]_vars

-----------------------------------------------------------------------------
(* Properties.                                                             *)

Stages == {"idle", "sent", "library", "script", "batch", "cleanUp", "answer"}

Script == [ephemeral : BOOLEAN, live : BOOLEAN]

TypeOK ==
  /\ cookie \in Sessions
  /\ DOMAIN changes \subseteq Numbers /\ \A n \in DOMAIN changes : <<n, changes[n]>> \in saved
  /\ DOMAIN requests = InFlight
  /\ \A r \in InFlight :
       LET q == requests[r] IN
         /\ DOMAIN q = DOMAIN Blank
         /\ q.stage \in Stages /\ q.sess \in Sessions /\ q.set \in Sessions
         /\ q.answer \in {"none", "ok", "cookie", "error"}
         /\ q.script \in 0 .. Len(scripts) /\ q.jobs \subseteq DOMAIN batches
  /\ scripts \in Seq(Script) /\ batches \in Seq(Range(batches))
  /\ \A b \in DOMAIN batches : batches[b].script \in DOMAIN scripts
  /\ orphans \subseteq DOMAIN scripts

\* Whatever requests overlap, the key, environment and account of the cookie
\* are those STS confirmed together, and its change has a row: a cookie is some
\* handler's session as a whole, never a mixture, so current-change never has
\* to clear a stale reference.
SessionIsWhole ==
  /\ HasKeys(cookie) =>
       /\ CredentialEnv[cookie.key] = cookie.env
       /\ AccountOf[cookie.key] = cookie.account
  /\ CurrentChange(cookie) # "change not found"

\* As long as no two requests that set the cookie were on their way at once the
\* session is what the answers said: entering credentials keeps the change that
\* is loaded, and loading a change keeps the credentials.
CookieFollowsAnswers ==
  asked # Unclear => asked = [key |-> cookie.key, change |-> cookie.change]

\* The instances that some request names in one of the saves of change n, or all
\* of them.
OfOneSave(saves, n, targets, account, region) ==
  \E v \in saves :
    /\ v[1] = n
    /\ \E wanted \in {<<>>} \cup {q.ids : q \in Requests} :
         /\ Ids(Chosen(v[2], wanted)) = targets
         /\ Uniform(Pairs(Chosen(v[2], wanted)))
         /\ \A p \in Pairs(Chosen(v[2], wanted)) : p.account = account /\ p.region = region

\* A batch of a change runs on instances of one save of that change, all of the
\* account and region its rows record, whatever saves, loads and clears come
\* between reading the change and creating the batch.
TargetsOfOneSave ==
  \A b \in DOMAIN batches :
    batches[b].change # NoChange =>
      OfOneSave(saved, batches[b].change, batches[b].targets, batches[b].account,
                batches[b].region)

\* Request r has made script i, or found it, and its batch is still to come.
Holds(r, i) == requests[r].script = i /\ requests[r].stage \in {"batch", "cleanUp"}

\* Every inline script belongs to exactly one batch, or to a start that is
\* still under way; only a crash or a clean-up that itself was refused leaves one
\* behind.  None is ever in the library.
InlineScriptsAccounted ==
  \A i \in DOMAIN scripts :
    scripts[i].ephemeral =>
      /\ i \notin Library
      /\ Cardinality({b \in DOMAIN batches : batches[b].script = i}) <= 1
      /\ scripts[i].live =>
           \/ \E b \in DOMAIN batches : batches[b].script = i
           \/ \E r \in InFlight : Holds(r, i)
           \/ i \in orphans

Started(q) == {batches[b].script : b \in q.jobs}

\* An answer tells the truth about what was started: a good one names every
\* batch of the request, for a tool one for each of its scripts; after an error
\* nothing was started, unless the request was a tool's and an earlier script of
\* it is already running.
AnswersAreTrue ==
  \A r \in InFlight :
    LET q == requests[r]
        started == Started(q)
    IN  q.stage = "answer" /\ q.kind \in Starters =>
          /\ q.answer = "ok" => started # {} /\ q.plan \subseteq started
          /\ q.answer = "error" /\ started # {} => q.plan \ started # {}

(***************************************************************************)
(* Inductive invariants.                                                   *)
(***************************************************************************)

\* Where a handler stands tells the kind of its request, and what it has.
RequestInv ==
  \A r \in InFlight :
    LET q == requests[r] IN
      /\ q.stage \in {"library", "script", "batch", "cleanUp"} => q.kind \in Starters
      /\ q.stage \in {"batch", "cleanUp"} => q.script # 0
      /\ q.answer = "cookie" => q.kind \in Writers
      /\ q.stage = "sent" /\ q.kind \in Naming => q.number \in Numbers
      /\ q.stage = "sent" /\ q.kind = "credentials" => q.key \in Keys /\ q.env \in Envs

Whole(sess) ==
  /\ HasKeys(sess) => CredentialEnv[sess.key] = sess.env /\ AccountOf[sess.key] = sess.account
  /\ sess.change \in DOMAIN changes \cup {NoChange}

\* Every session is whole: the browser's, those requests were sent with, and
\* those that are on their way back.
WholeInv ==
  Whole(cookie) /\ \A r \in InFlight : Whole(requests[r].sess) /\ Whole(requests[r].set)

\* Unless two of them met, the one request that may set the cookie works on the
\* session there is, and brings the one its user expects.
AskedInv ==
  asked # Unclear =>
    /\ asked = [key |-> cookie.key, change |-> cookie.change]
    /\ \A r \in InFlight :
         LET q == requests[r] IN
           q.kind \in Writers =>
             /\ \A x \in InFlight : requests[x].kind \in Writers => x = r
             /\ q.stage = "sent" => q.sess.key = cookie.key /\ q.sess.change = cookie.change
             /\ q.answer = "cookie" => Expected(q) = [key |-> q.set.key, change |-> q.set.change]

\* A request has found its instances in one save before its batch is created.
TargetsInv ==
  /\ TargetsOfOneSave
  /\ \A r \in InFlight :
       LET q == requests[r] IN
         q.kind \in {"qcStep", "qcPost"} =>
           /\ q.stage = "sent" => q.ids \in {<<>>} \cup {p.ids : p \in Requests}
           /\ q.stage \in {"script", "batch"} =>
                OfOneSave(saved, q.number, q.targets, q.account, q.region)

\* An inline script has one batch, or one request that is about to create it.
InlineInv ==
  /\ InlineScriptsAccounted
  /\ \A i \in DOMAIN scripts :
       scripts[i].ephemeral =>
         /\ \A b, c \in DOMAIN batches : batches[b].script = i /\ batches[c].script = i => b = c
         /\ \A r \in InFlight :
              Holds(r, i) => /\ \A b \in DOMAIN batches : batches[b].script # i
                             /\ \A x \in InFlight : Holds(x, i) => x = r

\* Up to its answer a request has started nothing, or the scripts of its plan
\* before the one it has turned to.
AnswersInv ==
  /\ AnswersAreTrue
  /\ \A r \in InFlight :
       LET q == requests[r] IN
         /\ q.stage \in {"sent", "library"} => q.plan = {} /\ q.jobs = {}
         /\ q.stage \in {"script", "batch", "cleanUp"} =>
              \/ q.plan = {} /\ q.jobs = {}
              \/ /\ q.plan \subseteq Nat \ {0} /\ q.id \in q.plan
                 /\ Started(q) = {i \in q.plan : i < q.id}
                 /\ q.stage # "script" => q.script = q.id
=============================================================================
