---------------------------- MODULE ConsoleProofs ----------------------------
(***************************************************************************)
(* What the handlers of Console promise, for any requests, sessions,       *)
(* changes and bounds: types, whole sessions, truthful answers, targets of *)
(* one save, and no inline script forgotten.                               *)
(***************************************************************************)
EXTENDS Console, SequenceTheorems, FiniteSetTheorems, TLAPS

USE DEF sessionVars, consoleVars, unchangedSession

-----------------------------------------------------------------------------
(* Sequences and records.                                                  *)

LEMMA Narrowed ==
  ASSUME NEW A, NEW S, NEW T, NEW f \in [A -> S], \A a \in A : f[a] \in T
  PROVE  f \in [A -> T]
  OBVIOUS

LEMMA IsSeq ==
  ASSUME NEW S, NEW n \in Nat, NEW f \in [1 .. n -> S]
  PROVE  f \in Seq(S)
  <1>1. f \in UNION {[1 .. m -> S] : m \in Nat}
    OBVIOUS
  <1> QED
    BY <1>1, SeqDef

\* What Append does to a table.
LEMMA Appended ==
  ASSUME NEW s, s \in Seq(Range(s)), NEW x
  PROVE  LET t == Append(s, x) IN
           /\ t \in Seq(Range(t)) /\ Len(t) = Len(s) + 1 /\ Len(s) \in Nat
           /\ DOMAIN s = 1 .. Len(s) /\ DOMAIN t = 1 .. Len(t)
           /\ DOMAIN t = DOMAIN s \cup {Len(t)} /\ Len(t) \notin DOMAIN s
           /\ t[Len(t)] = x /\ \A i \in DOMAIN s : t[i] = s[i]
  <1> DEFINE t == Append(s, x)  S == Range(s) \cup {x}
  <1>1. s \in Seq(S) /\ x \in S
    BY SeqMonotonic
  <1>2. Len(s) \in Nat /\ DOMAIN s = 1 .. Len(s)
    BY LenProperties
  <1>3. /\ t \in Seq(S) /\ Len(t) = Len(s) + 1
        /\ \A i \in 1 .. Len(s) : t[i] = s[i]
        /\ t[Len(s) + 1] = x
    BY <1>1, AppendProperties
  <1>4. DOMAIN t = 1 .. Len(t)
    BY <1>3, LenProperties
  <1>5. t \in [1 .. Len(t) -> Range(t)]
    <2>1. t \in [1 .. Len(t) -> S]
      BY <1>3, LenProperties
    <2>2. \A i \in 1 .. Len(t) : t[i] \in Range(t)
      BY <1>4 DEF Range
    <2> QED
      BY <2>1, <2>2, Narrowed
  <1>6. t \in Seq(Range(t))
    <2>1. Len(t) \in Nat
      BY <1>2, <1>3
    <2> HIDE DEF t
    <2> QED
      BY <1>5, <2>1, IsSeq
  <1> QED
    BY <1>2, <1>3, <1>4, <1>6

\* A request that has returned.
LEMMA AnsweredFields ==
  ASSUME NEW q, NEW a
  PROVE  LET p == Answered(q, a) IN
           /\ DOMAIN p = DOMAIN Blank
           /\ p.kind = q.kind /\ p.number = q.number /\ p.key = q.key
           /\ p.plan = q.plan /\ p.jobs = q.jobs /\ p.stage = "answer" /\ p.answer = a
           /\ p.sess = NoSession /\ p.set = NoSession /\ p.script = 0
  BY DEF Answered, Blank

LEMMA BlankFields ==
  /\ Blank.kind = "none" /\ Blank.stage = "idle" /\ Blank.answer = "none"
  /\ Blank.sess = NoSession /\ Blank.set = NoSession /\ Blank.script = 0
  /\ Blank.plan = {} /\ Blank.jobs = {}
  BY DEF Blank

\* A request that has been sent.
LEMMA SentFields ==
  ASSUME NEW q \in Requests, NEW c
  PROVE  LET p == [q EXCEPT !.stage = "sent", !.sess = c] IN
           /\ DOMAIN p = DOMAIN Blank
           /\ p.kind = q.kind /\ p.number = q.number /\ p.key = q.key /\ p.env = q.env
           /\ p.ids = q.ids /\ p.stage = "sent" /\ p.sess = c
           /\ p.answer = "none" /\ p.set = NoSession /\ p.script = 0
           /\ p.plan = {} /\ p.jobs = {}
  <1>1. /\ DOMAIN q = DOMAIN Blank
        /\ \A f \in DOMAIN Blank \ Arguments : q[f] = Blank[f]
    BY RequestsAssumption
  <1>2. q.answer = "none" /\ q.set = NoSession /\ q.script = 0 /\ q.plan = {} /\ q.jobs = {}
    BY <1>1 DEF Blank, Arguments
  <1> QED
    BY <1>1, <1>2 DEF Blank

-----------------------------------------------------------------------------
(* What a step can do.  Each handler's refusing branches are one kind of   *)
(* step; its other branch is another.                                      *)

\* Request r becomes q, the others stay.
Becomes(r, q) ==
  /\ DOMAIN requests' = InFlight /\ requests'[r] = q
  /\ \A x \in InFlight : x # r => requests'[x] = requests[x]

LEMMA Update ==
  ASSUME TypeOK, NEW r \in InFlight, NEW q, requests' = [requests EXCEPT ![r] = q]
  PROVE  Becomes(r, q)
  BY DEF TypeOK, Becomes

\* The session side stays as it is.
Apart == UNCHANGED <<cookie, changes, saved, asked>>

\* What a handler keeps of its request up to the answer.
Kept(p, q) ==
  /\ DOMAIN p = DOMAIN Blank
  /\ p.kind = q.kind /\ p.sess = q.sess /\ p.set = q.set /\ p.answer = q.answer

Same(p, q) ==
  /\ Kept(p, q)
  /\ p.number = q.number /\ p.targets = q.targets /\ p.account = q.account
  /\ p.region = q.region /\ p.plan = q.plan

\* Nothing but the browser's session moves, if that.
Still ==
  UNCHANGED <<requests, changes, saved, consoleVars>> /\ (Expire \/ UNCHANGED <<cookie, asked>>)

Refused(r) ==
  /\ requests[r].stage \in {"sent", "library", "script", "batch"}
  /\ requests[r].stage = "batch" => ~scripts[requests[r].script].ephemeral
  /\ Becomes(r, Answered(requests[r], "error"))
  /\ Apart /\ UNCHANGED consoleVars

\* A handler that answers with a session, and what it did to the changes.
Brings(r, sess) ==
  LET q == requests[r] IN
    /\ q.stage = "sent"
    /\ Becomes(r, [Answered(q, "cookie") EXCEPT !.set = sess])
    /\ UNCHANGED <<cookie, asked, consoleVars>>
    /\ \/ /\ q.kind = "credentials" /\ UNCHANGED <<changes, saved>>
          /\ \E account \in Accepted(q) : sess = Authenticated(q.sess, q.key, q.env, account)
       \/ q.kind = "signOut" /\ sess = NoSession /\ UNCHANGED <<changes, saved>>
       \/ /\ q.kind = "load" /\ q.number \in DOMAIN changes /\ UNCHANGED <<changes, saved>>
          /\ sess = [q.sess EXCEPT !.change = q.number]
       \/ /\ q.kind = "clear" /\ sess = [q.sess EXCEPT !.change = NoChange]
          /\ UNCHANGED <<changes, saved>>
       \/ /\ q.kind \in {"save", "manual", "csv"} /\ sess = [q.sess EXCEPT !.change = q.number]
          /\ \E rows : changes' = Replaced(q.number, rows) /\ saved' = saved \cup {<<q.number, rows>>}

Deleted(i) == scripts' = [scripts EXCEPT ![i].live = FALSE]

\* A handler that is done, and has started nothing.
Creates(r) ==
  LET q == requests[r] IN
    /\ q.stage = "sent"
    /\ Becomes(r, Answered(q, "ok"))
    /\ \/ /\ q.kind = "create" /\ UNCHANGED <<cookie, asked, consoleVars>>
          /\ changes' = Replaced(q.number, <<>>) /\ saved' = saved \cup {<<q.number, <<>>>>}
       \/ /\ q.kind = "createScript" /\ Apart /\ UNCHANGED <<batches, orphans>>
          /\ scripts' = Append(scripts, LibraryScript)
       \/ /\ q.kind = "deleteScript" /\ Apart /\ UNCHANGED <<batches, orphans>>
          /\ q.id \in Library /\ Deleted(q.id)

\* A start has its instances, account and region; a tool's also its plan.
Finds(r) ==
  LET q == requests[r]  p == requests'[r] IN
    /\ q.stage = "sent" /\ q.kind \in Starters
    /\ Becomes(r, p) /\ Kept(p, q) /\ p.jobs = q.jobs /\ p.script = q.script
    /\ Apart /\ UNCHANGED consoleVars
    /\ p.stage \in {"library", "script"}
    /\ \/ p.plan = q.plan
       \/ /\ p.stage = "script" /\ p.plan \subseteq Library \cap (1 .. ToolScripts)
          /\ p.id \in p.plan /\ Least(p.id, p.plan)
    /\ p.kind \in {"qcStep", "qcPost"} => OfOneSave(saved, p.number, p.targets, p.account, p.region)

\* The script that is to be kept is in the library.
Keeps(r) ==
  LET q == requests[r]  p == requests'[r] IN
    /\ q.stage = "library" /\ q.kind = "scriptRunner"
    /\ Becomes(r, p) /\ Same(p, q) /\ p.jobs = q.jobs /\ p.script = q.script /\ p.stage = "script"
    /\ scripts' = Append(scripts, LibraryScript)
    /\ Apart /\ UNCHANGED <<batches, orphans>>

\* The script is there.
Resolves(r) ==
  LET q == requests[r]  p == requests'[r] IN
    /\ q.stage = "script"
    /\ Becomes(r, p) /\ Same(p, q) /\ p.jobs = q.jobs /\ p.id = q.id /\ p.stage = "batch"
    /\ Apart /\ UNCHANGED <<batches, orphans>>
    /\ \/ q.id # 0 /\ q.id \in Library /\ p.script = q.id /\ UNCHANGED scripts
       \/ q.id = 0 /\ scripts' = Append(scripts, InlineScript) /\ p.script = Len(scripts) + 1

\* The batch is there; the next script of a plan, or the answer.
Launches(r) ==
  LET q == requests[r]  p == requests'[r] IN
    /\ q.stage = "batch"
    /\ Becomes(r, p) /\ p.jobs = q.jobs \cup {Len(batches) + 1}
    /\ batches' = Append(batches, NewBatch(q))
    /\ Apart /\ UNCHANGED <<scripts, orphans>>
    /\ \/ /\ p.stage = "script" /\ Same(p, q) /\ p.script = 0
          /\ p.id \in NextOfPlan(q) /\ Least(p.id, NextOfPlan(q))
       \/ /\ p = Answered([q EXCEPT !.jobs = @ \cup {Len(batches) + 1}], "ok")
          /\ NextOfPlan(q) = {}

\* The batch was refused, and its inline script is to go.
Undoes(r) ==
  LET q == requests[r]  p == requests'[r] IN
    /\ q.stage = "batch" /\ scripts[q.script].ephemeral
    /\ Becomes(r, p) /\ Same(p, q) /\ p.jobs = q.jobs /\ p.id = q.id /\ p.script = q.script
    /\ p.stage = "cleanUp"
    /\ Apart /\ UNCHANGED consoleVars

\* ... and it went, or could not be deleted.
Clears(r) ==
  LET q == requests[r] IN
    /\ q.stage = "cleanUp"
    /\ Becomes(r, Answered(q, "error"))
    /\ Apart /\ UNCHANGED batches
    /\ \/ Deleted(q.script) /\ UNCHANGED orphans
       \/ orphans' = orphans \cup {q.script} /\ UNCHANGED scripts

\* The steps of a handler, by what they come to.
Handles(r) ==
  \/ Refused(r) \/ (\E sess : Brings(r, sess)) \/ Creates(r) \/ Finds(r) \/ Keeps(r)
  \/ Resolves(r) \/ Launches(r) \/ Undoes(r) \/ Clears(r)

LEMMA Refusing ==
  ASSUME TypeOK, NEW r \in InFlight, Refuse(r)
  PROVE  Becomes(r, Answered(requests[r], "error"))
  <1>1. requests' = [requests EXCEPT ![r] = Answered(requests[r], "error")]
    BY DEF Refuse
  <1> QED
    BY <1>1, Update

LEMMA Bringing ==
  ASSUME TypeOK, NEW r \in InFlight, NEW sess, SaveSession(r, sess)
  PROVE  Becomes(r, [Answered(requests[r], "cookie") EXCEPT !.set = sess])
  <1>1. requests' = [requests EXCEPT ![r] = [Answered(requests[r], "cookie") EXCEPT !.set = sess]]
    BY DEF SaveSession
  <1> QED
    BY <1>1, Update

LEMMA SessionHandlers ==
  ASSUME TypeOK, NEW r \in InFlight, UNCHANGED consoleVars,
         \/ CreateCredentials(r) \/ DeleteCredentials(r) \/ LoadChange(r) \/ ClearChange(r)
         \/ CreateChange(r) \/ SaveChangeWithInstances(r) \/ SaveManualChange(r)
         \/ UploadChangeCSV(r)
  PROVE  Handles(r)
  <1> DEFINE q == requests[r]
  <1>1. q.stage = "sent" /\ UNCHANGED cookie /\ UNCHANGED asked
    BY DEF CreateCredentials, DeleteCredentials, LoadChange, ClearChange, CreateChange,
           SaveChangeWithInstances, SaveManualChange, UploadChangeCSV, Handling
  <1>2. ASSUME Refuse(r), UNCHANGED <<changes, saved>> PROVE Handles(r)
    <2>1. Refused(r)
      BY <1>1, <1>2, Refusing DEF Refused, Apart
    <2> QED
      BY <2>1 DEF Handles
  <1>3. ASSUME NEW sess, Brings(r, sess) PROVE Handles(r)
    BY <1>3 DEF Handles
  <1>4. CASE CreateCredentials(r)
    <2>1. q.kind = "credentials" /\ UNCHANGED <<changes, saved>>
      BY <1>4 DEF CreateCredentials, Handling
    <2>2. ASSUME NEW account \in Accepted(q),
                 SaveSession(r, Authenticated(q.sess, q.key, q.env, account))
          PROVE  Brings(r, Authenticated(q.sess, q.key, q.env, account))
      BY <1>1, <2>1, <2>2, Bringing DEF Brings
    <2> QED
      BY <1>2, <1>3, <1>4, <2>1, <2>2 DEF CreateCredentials
  <1>5. CASE DeleteCredentials(r)
    <2>1. Brings(r, NoSession)
      BY <1>1, <1>5, Bringing DEF DeleteCredentials, Handling, Brings
    <2> QED
      BY <1>3, <2>1
  <1>6. CASE LoadChange(r)
    <2>1. q.kind = "load" /\ UNCHANGED <<changes, saved>>
      BY <1>6 DEF LoadChange, Handling
    <2>2. ASSUME SaveSession(r, [q.sess EXCEPT !.change = q.number]), q.number \in DOMAIN changes
          PROVE  Brings(r, [q.sess EXCEPT !.change = q.number])
      BY <1>1, <2>1, <2>2, Bringing DEF Brings
    <2> QED
      BY <1>2, <1>3, <1>6, <2>1, <2>2 DEF LoadChange
  <1>7. CASE ClearChange(r)
    <2>1. Brings(r, [q.sess EXCEPT !.change = NoChange])
      BY <1>1, <1>7, Bringing DEF ClearChange, Handling, Brings
    <2> QED
      BY <1>3, <2>1
  <1>8. CASE CreateChange(r)
    <2>1. ASSUME q.number \notin DOMAIN changes,
                 changes' = Replaced(q.number, <<>>), saved' = saved \cup {<<q.number, <<>>>>},
                 requests' = [requests EXCEPT ![r] = Answered(q, "ok")]
          PROVE  Creates(r)
      <3>1. Becomes(r, Answered(q, "ok"))
        BY <2>1, Update
      <3> QED
        BY <1>1, <1>8, <2>1, <3>1 DEF CreateChange, Handling, Creates
    <2> QED
      BY <1>2, <1>8, <2>1 DEF CreateChange, Handles
  <1>9. ASSUME NEW rows, StoreChange(r, rows), q.kind \in {"save", "manual", "csv"}
        PROVE  Handles(r)
    <2>1. ASSUME SaveSession(r, [q.sess EXCEPT !.change = q.number]),
                 changes' = Replaced(q.number, rows), saved' = saved \cup {<<q.number, rows>>}
          PROVE  Brings(r, [q.sess EXCEPT !.change = q.number])
      BY <1>1, <1>9, <2>1, Bringing DEF Brings
    <2> QED
      BY <1>2, <1>3, <1>9, <2>1 DEF StoreChange
  <1>10. CASE SaveChangeWithInstances(r) \/ SaveManualChange(r) \/ UploadChangeCSV(r)
    BY <1>2, <1>9, <1>10 DEF SaveChangeWithInstances, SaveManualChange, UploadChangeCSV, Handling
  <1> QED
    BY <1>4, <1>5, <1>6, <1>7, <1>8, <1>10

LEMMA Going ==
  ASSUME TypeOK, NEW r \in InFlight, NEW q, NEW stage, Goto(r, q, stage)
  PROVE  Becomes(r, [q EXCEPT !.stage = stage])
  <1>1. requests' = [requests EXCEPT ![r] = [q EXCEPT !.stage = stage]]
    BY DEF Goto
  <1> QED
    BY <1>1, Update

\* The pages of a change.
LEMMA ChangePages ==
  ASSUME TypeOK, TargetsInv, NEW r \in InFlight, QCStep(r) \/ LinuxQCPostExec(r)
  PROVE  Handles(r)
  <1> DEFINE q == requests[r]  n == q.sess.change
  <1>1. PICK wanted \in {<<>>} \cup {p.ids : p \in Requests} :
          StartOnChange(r, wanted) /\ q.stage = "sent" /\ q.kind \in {"qcStep", "qcPost"}
    BY DEF QCStep, LinuxQCPostExec, At, TargetsInv
  <1>2. Apart /\ UNCHANGED consoleVars
    BY <1>1 DEF StartOnChange, Apart
  <1>3. CASE Refuse(r)
    <2>1. Refused(r)
      BY <1>1, <1>2, <1>3, Refusing DEF Refused
    <2> QED
      BY <2>1 DEF Handles
  <1>4. CASE ~Refuse(r)
    <2> DEFINE rows == Chosen(changes[n], wanted)
               pair == CHOOSE p \in Pairs(rows) : TRUE
               next == [q EXCEPT !.targets = Ids(rows), !.account = pair.account,
                                 !.region = pair.region, !.number = n]
    <2>1. /\ CurrentChange(q.sess) = "found" /\ Uniform(Pairs(rows))
          /\ Goto(r, next, "script")
      BY <1>1, <1>4 DEF StartOnChange
    <2>2. n \in DOMAIN changes
      BY <2>1 DEF CurrentChange
    <2>3. <<n, changes[n]>> \in saved
      BY <2>2 DEF TypeOK
    <2>4. PICK only \in Pairs(rows) : Pairs(rows) = {only}
      BY <2>1 DEF Uniform
    <2>5. pair = only
      BY <2>4
    <2> HIDE DEF rows, pair
    <2>6. OfOneSave(saved, n, Ids(rows), pair.account, pair.region)
      <3>1. \A x \in Pairs(rows) : x.account = pair.account /\ x.region = pair.region
        BY <2>4, <2>5
      <3> QED
        BY <2>1, <2>3, <3>1 DEF OfOneSave, rows
    <2>7. Becomes(r, [next EXCEPT !.stage = "script"])
      BY <2>1, Going
    <2>8. DOMAIN q = DOMAIN Blank
      BY DEF TypeOK
    <2>9. LET p == [next EXCEPT !.stage = "script"] IN
            /\ Kept(p, q) /\ p.jobs = q.jobs /\ p.script = q.script /\ p.plan = q.plan
            /\ p.stage = "script" /\ p.number = n /\ p.targets = Ids(rows)
            /\ p.account = pair.account /\ p.region = pair.region
      BY <2>8 DEF Kept, Blank
    <2>10. requests'[r] = [next EXCEPT !.stage = "script"]
      BY <2>7 DEF Becomes
    <2> HIDE DEF next
    <2>11. Finds(r)
      BY <1>1, <1>2, <2>6, <2>7, <2>9, <2>10 DEF Finds, Starters, OnPages
    <2> QED
      BY <2>11 DEF Handles
  <1> QED
    BY <1>3, <1>4

\* Everything else that starts on instances named by ID.
LEMMA IdPages ==
  ASSUME TypeOK, NEW r \in InFlight,
         RHSAExecute(r) \/ ScriptRunnerExec(r) \/ SFTExecScript(r) \/ ExecScript(r)
  PROVE  Handles(r)
  <1> DEFINE q == requests[r]
  <1>1. /\ q.stage = "sent" /\ q.kind \in {"rhsa", "scriptRunner", "sft", "exec"}
        /\ (\E stage \in {"library", "script"} : StartOnIds(r, stage)) \/ StartDirect(r)
    BY DEF RHSAExecute, ScriptRunnerExec, SFTExecScript, ExecScript, At
  <1>2. Apart /\ UNCHANGED consoleVars
    BY <1>1 DEF StartOnIds, StartDirect, Apart
  <1>3. CASE Refuse(r)
    <2>1. Refused(r)
      BY <1>1, <1>2, <1>3, Refusing DEF Refused
    <2> QED
      BY <2>1 DEF Handles
  <1>4. CASE ~Refuse(r)
    <2> DEFINE Found(stage, p) ==
                 /\ Goto(r, p, stage)
                 /\ \/ p = [q EXCEPT !.targets = q.ids]
                    \/ \E a, g : p = [q EXCEPT !.targets = q.ids, !.account = a, !.region = g]
    <2>1. \E stage \in {"library", "script"} : \E p : Found(stage, p)
      <3>1. CASE StartDirect(r)
        <4>1. Goto(r, [q EXCEPT !.targets = q.ids], "script")
          BY <1>4, <3>1 DEF StartDirect
        <4> QED
          BY <4>1
      <3>2. ASSUME NEW stage \in {"library", "script"}, StartOnIds(r, stage)
            PROVE  \E p : Found(stage, p)
        <4>1. \E a, g : Goto(r, [q EXCEPT !.targets = q.ids, !.account = a, !.region = g], stage)
          BY <1>4, <3>2 DEF StartOnIds
        <4> QED
          BY <4>1
      <3> QED
        BY <1>1, <3>1, <3>2
    <2>2. PICK stage \in {"library", "script"} : \E p : Found(stage, p)
      BY <2>1
    <2>3. PICK p : Found(stage, p)
      BY <2>2
    <2>4. DOMAIN q = DOMAIN Blank
      BY DEF TypeOK
    <2>5. DOMAIN p = DOMAIN Blank /\ p.kind = q.kind /\ p.sess = q.sess /\ p.set = q.set
          /\ p.answer = q.answer /\ p.jobs = q.jobs /\ p.script = q.script /\ p.plan = q.plan
      BY <2>3, <2>4 DEF Blank
    <2>6. Becomes(r, [p EXCEPT !.stage = stage])
      BY <2>3, Going
    <2>7. LET n == [p EXCEPT !.stage = stage] IN
            Kept(n, q) /\ n.jobs = q.jobs /\ n.script = q.script /\ n.plan = q.plan /\ n.stage = stage
      BY <2>5 DEF Kept, Blank
    <2>8. requests'[r] = [p EXCEPT !.stage = stage]
      BY <2>6 DEF Becomes
    <2>9. Finds(r)
      BY <1>1, <1>2, <2>6, <2>7, <2>8 DEF Finds, Starters, OnPages, Kept
    <2> QED
      BY <2>9 DEF Handles
  <1> QED
    BY <1>3, <1>4

LEMMA ToolPage ==
  ASSUME TypeOK, NEW r \in InFlight, LoadTool(r)
  PROVE  Handles(r)
  <1> DEFINE q == requests[r]  plan == Library \cap (1 .. ToolScripts)
  <1>1. q.stage = "sent" /\ q.kind = "tool" /\ Apart /\ UNCHANGED consoleVars
    BY DEF LoadTool, At, Apart
  <1>2. CASE Refuse(r)
    <2>1. Refused(r)
      BY <1>1, <1>2, Refusing DEF Refused
    <2> QED
      BY <2>1 DEF Handles
  <1>3. CASE ~Refuse(r)
    <2>1. PICK i \in plan :
            /\ Least(i, plan)
            /\ Goto(r, [q EXCEPT !.targets = q.ids, !.plan = plan, !.id = i], "script")
      BY <1>3 DEF LoadTool
    <2> HIDE DEF plan
    <2> DEFINE p == [[q EXCEPT !.targets = q.ids, !.plan = plan, !.id = i] EXCEPT !.stage = "script"]
    <2>2. DOMAIN q = DOMAIN Blank
      BY DEF TypeOK
    <2>3. Becomes(r, p)
      BY <2>1, Going
    <2>4. Kept(p, q) /\ p.jobs = q.jobs /\ p.script = q.script /\ p.plan = plan /\ p.id = i
          /\ p.stage = "script"
      BY <2>2 DEF Kept, Blank
    <2>5. requests'[r] = p
      BY <2>3 DEF Becomes
    <2> HIDE DEF p
    <2>6. Finds(r)
      BY <1>1, <2>1, <2>3, <2>4, <2>5 DEF Finds, Starters, OnPages, Kept, plan
    <2> QED
      BY <2>6 DEF Handles
  <1> QED
    BY <1>2, <1>3

LEMMA LibraryHandlers ==
  ASSUME TypeOK, NEW r \in InFlight,
         SaveToLibrary(r) \/ CreateScript(r) \/ DeleteScript(r)
  PROVE  Handles(r)
  <1> DEFINE q == requests[r]
  <1>1. q.stage \in {"sent", "library"} /\ Apart /\ UNCHANGED <<batches, orphans>>
    BY DEF SaveToLibrary, CreateScript, DeleteScript, At, Apart
  <1>2. CASE Refuse(r) /\ UNCHANGED scripts
    <2>1. Refused(r)
      BY <1>1, <1>2, Refusing DEF Refused
    <2> QED
      BY <2>1 DEF Handles
  <1>3. ASSUME Ok(r, q) PROVE Becomes(r, Answered(q, "ok"))
    <2>1. requests' = [requests EXCEPT ![r] = Answered(q, "ok")]
      BY <1>3 DEF Ok
    <2> QED
      BY <2>1, Update
  <1>4. CASE SaveToLibrary(r) /\ ~(Refuse(r) /\ UNCHANGED scripts)
    <2> DEFINE p == [[q EXCEPT !.id = Len(scripts) + 1] EXCEPT !.stage = "script"]
    <2>1. /\ q.stage = "library" /\ q.kind = "scriptRunner"
          /\ scripts' = Append(scripts, LibraryScript)
          /\ Goto(r, [q EXCEPT !.id = Len(scripts) + 1], "script")
      BY <1>4 DEF SaveToLibrary, At
    <2>2. Becomes(r, p)
      BY <2>1, Going
    <2>3. DOMAIN q = DOMAIN Blank
      BY DEF TypeOK
    <2>4. Same(p, q) /\ p.jobs = q.jobs /\ p.script = q.script /\ p.stage = "script"
      BY <2>3 DEF Same, Kept, Blank
    <2>5. requests'[r] = p
      BY <2>2 DEF Becomes
    <2> HIDE DEF p
    <2>6. Keeps(r)
      BY <1>1, <2>1, <2>2, <2>4, <2>5 DEF Keeps
    <2> QED
      BY <2>6 DEF Handles
  <1>5. CASE CreateScript(r) /\ ~(Refuse(r) /\ UNCHANGED scripts)
    <2>1. Creates(r)
      BY <1>1, <1>3, <1>5 DEF CreateScript, At, Creates
    <2> QED
      BY <2>1 DEF Handles
  <1>6. CASE DeleteScript(r) /\ ~(Refuse(r) /\ UNCHANGED scripts)
    <2>1. Creates(r)
      BY <1>1, <1>3, <1>6 DEF DeleteScript, At, Creates, Deleted
    <2> QED
      BY <2>1 DEF Handles
  <1> QED
    BY <1>2, <1>4, <1>5, <1>6

LEMMA Resolving ==
  ASSUME TypeOK, NEW r \in InFlight, ResolveScript(r)
  PROVE  Handles(r)
  <1> DEFINE q == requests[r]
  <1>1. q.stage = "script" /\ Apart /\ UNCHANGED <<batches, orphans>>
    BY DEF ResolveScript, Apart
  <1>2. CASE Refuse(r) /\ UNCHANGED scripts
    <2>1. Refused(r)
      BY <1>1, <1>2, Refusing DEF Refused
    <2> QED
      BY <2>1 DEF Handles
  <1>3. CASE ~(Refuse(r) /\ UNCHANGED scripts)
    <2>1. PICK i :
            /\ Goto(r, [q EXCEPT !.script = i], "batch")
            /\ \/ q.id # 0 /\ q.id \in Library /\ i = q.id /\ UNCHANGED scripts
               \/ q.id = 0 /\ scripts' = Append(scripts, InlineScript) /\ i = Len(scripts) + 1
      BY <1>3 DEF ResolveScript
    <2> DEFINE p == [[q EXCEPT !.script = i] EXCEPT !.stage = "batch"]
    <2>2. Becomes(r, p)
      BY <2>1, Going
    <2>3. DOMAIN q = DOMAIN Blank
      BY DEF TypeOK
    <2>4. Same(p, q) /\ p.jobs = q.jobs /\ p.id = q.id /\ p.script = i /\ p.stage = "batch"
      BY <2>3 DEF Same, Kept, Blank
    <2>5. requests'[r] = p
      BY <2>2 DEF Becomes
    <2> HIDE DEF p
    <2>6. Resolves(r)
      BY <1>1, <2>1, <2>2, <2>4, <2>5 DEF Resolves
    <2> QED
      BY <2>6 DEF Handles
  <1> QED
    BY <1>2, <1>3

LEMMA Creating ==
  ASSUME TypeOK, NEW r \in InFlight, CreateBatch(r)
  PROVE  Handles(r)
  <1> DEFINE q == requests[r]  n == [q EXCEPT !.jobs = @ \cup {Len(batches) + 1}]
  <1>1. q.stage = "batch" /\ Apart /\ UNCHANGED <<scripts, orphans>>
    BY DEF CreateBatch, Apart
  <1>2. DOMAIN q = DOMAIN Blank
    BY DEF TypeOK
  <1>3. CASE batches' = Append(batches, NewBatch(q)) /\ Proceed(r, n)
    <2>1. Same(n, q) /\ n.jobs = q.jobs \cup {Len(batches) + 1} /\ n.id = q.id
      BY <1>2 DEF Same, Kept, Blank
    <2>2. NextOfPlan(n) = NextOfPlan(q)
      BY <2>1 DEF NextOfPlan, Same
    <2>3. CASE NextOfPlan(q) # {}
      <3>1. PICK i \in NextOfPlan(q) :
              Least(i, NextOfPlan(q)) /\ Goto(r, [n EXCEPT !.id = i, !.script = 0], "script")
        BY <1>3, <2>2, <2>3 DEF Proceed
      <3> DEFINE p == [[n EXCEPT !.id = i, !.script = 0] EXCEPT !.stage = "script"]
      <3>2. Becomes(r, p)
        BY <3>1, Going
      <3> HIDE DEF n
      <3>3. Same(p, n) /\ p.jobs = n.jobs /\ p.id = i /\ p.script = 0 /\ p.stage = "script"
        BY <2>1 DEF Same, Kept, Blank
      <3>4. requests'[r] = p
        BY <3>2 DEF Becomes
      <3> HIDE DEF p
      <3>5. Launches(r)
        BY <1>1, <1>3, <2>1, <3>1, <3>2, <3>3, <3>4 DEF Launches, Same, Kept
      <3> QED
        BY <3>5 DEF Handles
    <2>4. CASE NextOfPlan(q) = {}
      <3>1. requests' = [requests EXCEPT ![r] = Answered(n, "ok")]
        BY <1>3, <2>2, <2>4 DEF Proceed, Ok
      <3>2. Becomes(r, Answered(n, "ok"))
        BY <3>1, Update
      <3>3. requests'[r] = Answered(n, "ok") /\ Answered(n, "ok").jobs = n.jobs
        BY <3>2, AnsweredFields DEF Becomes
      <3>4. Launches(r)
        BY <1>1, <1>3, <2>1, <2>4, <3>2, <3>3 DEF Launches
      <3> QED
        BY <3>4 DEF Handles
    <2> QED
      BY <2>3, <2>4
  <1>4. CASE scripts[q.script].ephemeral /\ Goto(r, q, "cleanUp") /\ UNCHANGED batches
    <2> DEFINE p == [q EXCEPT !.stage = "cleanUp"]
    <2>1. Becomes(r, p)
      BY <1>4, Going
    <2>2. Same(p, q) /\ p.jobs = q.jobs /\ p.id = q.id /\ p.script = q.script /\ p.stage = "cleanUp"
      BY <1>2 DEF Same, Kept, Blank
    <2>3. requests'[r] = p
      BY <2>1 DEF Becomes
    <2> HIDE DEF p
    <2>4. Undoes(r)
      BY <1>1, <1>4, <2>1, <2>2, <2>3 DEF Undoes
    <2> QED
      BY <2>4 DEF Handles
  <1>5. CASE ~scripts[q.script].ephemeral /\ Refuse(r) /\ UNCHANGED batches
    <2>1. Refused(r)
      BY <1>1, <1>5, Refusing DEF Refused
    <2> QED
      BY <2>1 DEF Handles
  <1> QED
    BY <1>3, <1>4, <1>5 DEF CreateBatch

LEMMA Clearing ==
  ASSUME TypeOK, NEW r \in InFlight, CleanUp(r)
  PROVE  Handles(r)
  <1>1. Becomes(r, Answered(requests[r], "error"))
    BY Refusing DEF CleanUp
  <1>2. Clears(r)
    BY <1>1 DEF CleanUp, Clears, Apart, Deleted
  <1> QED
    BY <1>2 DEF Handles

\* What a step of Console comes to.
LEMMA Steps ==
  ASSUME TypeOK, TargetsInv, [Next]_vars
  PROVE  \/ Still
         \/ Crash
         \/ \E r \in InFlight :
              \/ UNCHANGED consoleVars /\ (Receive(r) \/ \E q \in Requests : Submit(r, q))
              \/ Handles(r)
  <1>1. CASE UNCHANGED vars
    BY <1>1 DEF vars, Still
  <1>2. CASE SessionStep /\ UNCHANGED consoleVars
    BY <1>2, SessionHandlers DEF SessionStep, Still, Expire
  <1> QED
    BY <1>1, <1>2, ChangePages, IdPages, ToolPage, LibraryHandlers, Resolving, Creating, Clearing
       DEF Next

-----------------------------------------------------------------------------
(* Types.                                                                  *)

\* The tables only grow: no row goes, scripts stay inline or of the library,
\* batches stay as they are.
Grow ==
  /\ scripts' \in Seq(Script) /\ batches' \in Seq(Range(batches'))
  /\ Len(scripts) \in Nat /\ Len(scripts') \in Nat /\ Len(scripts) <= Len(scripts')
  /\ DOMAIN scripts = 1 .. Len(scripts) /\ DOMAIN scripts' = 1 .. Len(scripts')
  /\ \A i \in DOMAIN scripts : scripts'[i].ephemeral = scripts[i].ephemeral
  /\ DOMAIN batches \subseteq DOMAIN batches'
  /\ \A b \in DOMAIN batches : batches'[b] = batches[b]
  /\ DOMAIN changes \subseteq DOMAIN changes' /\ saved \subseteq saved'

\* One more script.
LEMMA MoreScripts ==
  ASSUME TypeOK, NEW x \in Script, scripts' = Append(scripts, x)
  PROVE  /\ scripts' \in Seq(Script)
         /\ Len(scripts) \in Nat /\ Len(scripts') = Len(scripts) + 1
         /\ DOMAIN scripts = 1 .. Len(scripts) /\ DOMAIN scripts' = 1 .. Len(scripts')
         /\ \A i \in DOMAIN scripts : scripts'[i] = scripts[i]
         /\ scripts'[Len(scripts) + 1] = x
  <1>1. scripts \in Seq(Script)
    BY DEF TypeOK
  <1>2. /\ scripts' \in Seq(Script) /\ Len(scripts') = Len(scripts) + 1
        /\ \A i \in 1 .. Len(scripts) : scripts'[i] = scripts[i]
        /\ scripts'[Len(scripts) + 1] = x
    BY <1>1, AppendProperties
  <1> QED
    BY <1>1, <1>2, LenProperties

\* A script that is deleted.
LEMMA DeletedScript ==
  ASSUME TypeOK, NEW n \in DOMAIN scripts, Deleted(n)
  PROVE  /\ scripts' \in Seq(Script) /\ Len(scripts') = Len(scripts)
         /\ Len(scripts) \in Nat
         /\ DOMAIN scripts = 1 .. Len(scripts) /\ DOMAIN scripts' = 1 .. Len(scripts)
         /\ \A i \in DOMAIN scripts :
              /\ scripts'[i].ephemeral = scripts[i].ephemeral
              /\ scripts'[i].live = IF i = n THEN FALSE ELSE scripts[i].live
  <1>1. scripts \in Seq(Script) /\ DOMAIN scripts = 1 .. Len(scripts) /\ Len(scripts) \in Nat
    BY LenProperties DEF TypeOK
  <1> DEFINE x == [scripts[n] EXCEPT !.live = FALSE]
  <1>2. scripts[n] \in Script
    BY <1>1, ElementOfSeq
  <1>3. x \in Script /\ x.ephemeral = scripts[n].ephemeral /\ x.live = FALSE
    BY <1>2 DEF Script
  <1>4. scripts' = [scripts EXCEPT ![n] = x]
    BY DEF Deleted
  <1> HIDE DEF x
  <1> DEFINE t == [scripts EXCEPT ![n] = x]
  <1>5. /\ t \in Seq(Script) /\ Len(t) = Len(scripts)
        /\ \A i \in 1 .. Len(scripts) : t[i] = IF i = n THEN x ELSE scripts[i]
    <2>1. n \in 1 .. Len(scripts)
      BY <1>1
    <2> QED
      BY <1>1, <1>3, <2>1, ExceptSeq
  <1>6. DOMAIN t = 1 .. Len(t)
    BY <1>5, LenProperties
  <1> HIDE DEF t
  <1> QED
    BY <1>1, <1>3, <1>4, <1>5, <1>6 DEF t

\* The library is part of the table.
LEMMA InTable == Library \subseteq DOMAIN scripts
  BY DEF Library

LEMMA TablesGrow ==
  ASSUME TypeOK, RequestInv, NEW r \in InFlight, Handles(r)
  PROVE  Grow
  <1> DEFINE q == requests[r]
  <1>1. /\ scripts \in Seq(Script) /\ Len(scripts) \in Nat /\ DOMAIN scripts = 1 .. Len(scripts)
        /\ batches \in Seq(Range(batches))
    BY LenProperties DEF TypeOK
  <1> DEFINE S == /\ scripts' \in Seq(Script)
                  /\ Len(scripts') \in Nat /\ Len(scripts) <= Len(scripts')
                  /\ DOMAIN scripts' = 1 .. Len(scripts')
                  /\ \A i \in DOMAIN scripts : scripts'[i].ephemeral = scripts[i].ephemeral
             B == /\ batches' \in Seq(Range(batches'))
                  /\ DOMAIN batches \subseteq DOMAIN batches'
                  /\ \A b \in DOMAIN batches : batches'[b] = batches[b]
             C == DOMAIN changes \subseteq DOMAIN changes' /\ saved \subseteq saved'
  <1>2. UNCHANGED scripts => S
    BY <1>1
  <1>3. UNCHANGED batches => B
    BY <1>1
  <1>4. UNCHANGED <<changes, saved>> => C
    OBVIOUS
  <1>5. ASSUME NEW x \in Script, scripts' = Append(scripts, x) PROVE S
    BY <1>5, MoreScripts
  <1>6. ASSUME NEW n \in DOMAIN scripts, Deleted(n) PROVE S
    <2>1. \A i \in DOMAIN scripts : scripts'[i].ephemeral = scripts[i].ephemeral
      BY <1>6, DeletedScript
    <2>2. /\ scripts' \in Seq(Script) /\ Len(scripts') = Len(scripts)
          /\ DOMAIN scripts' = 1 .. Len(scripts')
      BY <1>6, DeletedScript
    <2>3. Len(scripts') \in Nat /\ Len(scripts) <= Len(scripts')
      BY <1>1, <2>2
    <2> QED
      BY <2>1, <2>2, <2>3
  <1>7. ASSUME NEW n, NEW rows, changes' = Replaced(n, rows), saved' = saved \cup {<<n, rows>>}
        PROVE  C
    BY <1>7 DEF Replaced
  <1>8. LibraryScript \in Script /\ InlineScript \in Script
    BY DEF LibraryScript, InlineScript, Script
  <1>9. q.stage = "cleanUp" => q.script \in DOMAIN scripts
    BY <1>1 DEF TypeOK, RequestInv
  <1>10. S
    <2>1. \/ UNCHANGED scripts
          \/ \E x \in Script : scripts' = Append(scripts, x)
          \/ \E n \in DOMAIN scripts : Deleted(n)
      BY <1>8, <1>9, InTable
         DEF Handles, Refused, Brings, Creates, Finds, Keeps, Resolves, Launches, Undoes, Clears
    <2> QED
      BY <1>2, <1>5, <1>6, <2>1
  <1>11. B
    <2>1. ASSUME NEW x, batches' = Append(batches, x) PROVE B
      BY <1>1, <2>1, Appended
    <2> QED
      BY <1>3, <2>1
         DEF Handles, Refused, Brings, Creates, Finds, Keeps, Resolves, Launches, Undoes, Clears
  <1>12. C
    BY <1>4, <1>7 DEF Handles, Refused, Brings, Creates, Finds, Keeps, Resolves, Launches, Undoes,
                      Clears, Apart
  <1> QED
    BY <1>1, <1>10, <1>11, <1>12 DEF Grow

\* One request of TypeOK, and of RequestInv.
Typed(q) ==
  /\ DOMAIN q = DOMAIN Blank
  /\ q.stage \in Stages /\ q.sess \in Sessions /\ q.set \in Sessions
  /\ q.answer \in {"none", "ok", "cookie", "error"}
  /\ q.script \in 0 .. Len(scripts) /\ q.jobs \subseteq DOMAIN batches

Placed(q) ==
  /\ q.stage \in {"library", "script", "batch", "cleanUp"} => q.kind \in Starters
  /\ q.stage \in {"batch", "cleanUp"} => q.script # 0
  /\ q.answer = "cookie" => q.kind \in Writers
  /\ q.stage = "sent" /\ q.kind \in Naming => q.number \in Numbers
  /\ q.stage = "sent" /\ q.kind = "credentials" => q.key \in Keys /\ q.env \in Envs

\* As the tables grow it is enough to look at the request that moves.
LEMMA RequestsTyped ==
  ASSUME TypeOK, RequestInv, Grow, NEW r \in InFlight, Becomes(r, requests'[r]),
         Typed(requests[r])', Placed(requests[r])'
  PROVE  \A x \in InFlight : Typed(requests[x])' /\ Placed(requests[x])'
  <1> SUFFICES ASSUME NEW x \in InFlight, x # r
               PROVE  Typed(requests[x])' /\ Placed(requests[x])'
    OBVIOUS
  <1>1. requests'[x] = requests[x]
    BY DEF Becomes
  <1>2. Typed(requests[x]) /\ Placed(requests[x])
    BY DEF TypeOK, RequestInv, Typed, Placed
  <1>3. Typed(requests[x])'
    <2>1. requests[x].script \in 0 .. Len(scripts') /\ requests[x].jobs \subseteq DOMAIN batches'
      BY <1>2 DEF Typed, Grow
    <2> QED
      BY <1>1, <1>2, <2>1 DEF Typed
  <1>4. Placed(requests[x])'
    BY <1>1, <1>2 DEF Placed
  <1> QED
    BY <1>3, <1>4

\* A session a handler answers with.
LEMMA BroughtType ==
  ASSUME TypeOK, RequestInv, NEW r \in InFlight, NEW sess, Brings(r, sess)
  PROVE  sess \in Sessions /\ requests[r].kind \in Writers
  <1> DEFINE q == requests[r]
  <1>1. q.sess \in Sessions
    BY DEF TypeOK
  <1>2. q.kind \in Naming /\ q.stage = "sent" => q.number \in Numbers
    BY DEF RequestInv
  <1>3. ASSUME NEW n \in Numbers \cup {NoChange} PROVE [q.sess EXCEPT !.change = n] \in Sessions
    BY <1>1, <1>3 DEF Sessions
  <1>4. ASSUME q.kind = "credentials", q.stage = "sent", NEW account \in Accepted(q)
        PROVE  Authenticated(q.sess, q.key, q.env, account) \in Sessions
    <2>1. q.key \in Keys /\ q.env \in Envs
      BY <1>4 DEF RequestInv
    <2>2. account \in Range(AccountOf) \cup {"dev-mode"}
      BY <1>4, <2>1, FirstAssumption DEF Accepted, Range
    <2> QED
      BY <1>1, <2>1, <2>2 DEF Authenticated, Sessions
  <1>5. NoSession \in Sessions
    BY DEF NoSession, Sessions
  <1> QED
    BY <1>2, <1>3, <1>4, <1>5 DEF Brings, Naming, Writers

LEMMA SessionType == NoSession \in Sessions
  BY DEF NoSession, Sessions

\* The request that a handler works on.
LEMMA HandledType ==
  ASSUME TypeOK, RequestInv, NEW r \in InFlight, Handles(r)
  PROVE  Typed(requests[r])' /\ Placed(requests[r])'
  <1> DEFINE q == requests[r]  p == requests'[r]
  <1>1. Grow
    BY TablesGrow
  <1>2. Typed(q) /\ Placed(q)
    BY DEF TypeOK, RequestInv, Typed, Placed
  <1>3. q.jobs \subseteq DOMAIN batches' /\ q.script \in 0 .. Len(scripts')
    BY <1>1, <1>2 DEF Grow, Typed
  <1>4. ASSUME NEW a \in {"ok", "error"}, p = Answered(q, a)
        PROVE  Typed(requests[r])' /\ Placed(requests[r])'
    BY <1>1, <1>3, <1>4, AnsweredFields, SessionType DEF Typed, Placed, Stages, Grow
  <1>5. CASE Refused(r) \/ Clears(r) \/ Creates(r)
    BY <1>4, <1>5 DEF Refused, Clears, Creates, Becomes
  <1>6. ASSUME NEW sess, Brings(r, sess) PROVE Typed(requests[r])' /\ Placed(requests[r])'
    <2>1. p = [Answered(q, "cookie") EXCEPT !.set = sess]
      BY <1>6 DEF Brings, Becomes
    <2> DEFINE a == Answered(q, "cookie")
    <2>2. /\ DOMAIN a = DOMAIN Blank /\ a.kind = q.kind /\ a.jobs = q.jobs /\ a.stage = "answer"
          /\ a.answer = "cookie" /\ a.sess = NoSession /\ a.script = 0
      BY AnsweredFields
    <2> HIDE DEF a
    <2>3. /\ DOMAIN p = DOMAIN Blank /\ p.kind = q.kind /\ p.jobs = q.jobs /\ p.stage = "answer"
          /\ p.answer = "cookie" /\ p.sess = NoSession /\ p.script = 0 /\ p.set = sess
      BY <2>1, <2>2 DEF a, Blank
    <2>4. sess \in Sessions /\ q.kind \in Writers
      BY <1>6, BroughtType
    <2> QED
      BY <1>1, <1>3, <2>3, <2>4, SessionType DEF Typed, Placed, Stages, Grow
  <1>7. CASE Finds(r)
    BY <1>1, <1>2, <1>3, <1>7 DEF Finds, Kept, Typed, Placed, Stages
  <1>8. CASE Keeps(r)
    BY <1>1, <1>2, <1>3, <1>8 DEF Keeps, Same, Kept, Typed, Placed, Stages
  <1>9. CASE Resolves(r)
    <2>1. p.script \in 1 .. Len(scripts')
      <3>1. CASE p.script = q.id /\ q.id \in Library
        BY <1>1, <3>1, InTable DEF Grow
      <3>2. CASE scripts' = Append(scripts, InlineScript) /\ p.script = Len(scripts) + 1
        BY <3>2, MoreScripts DEF InlineScript, Script
      <3> QED
        BY <1>9, <3>1, <3>2 DEF Resolves
    <2>2. p.script \in 0 .. Len(scripts') /\ p.script # 0
      BY <1>1, <2>1 DEF Grow
    <2> QED
      BY <1>1, <1>2, <1>3, <1>9, <2>2 DEF Resolves, Same, Kept, Typed, Placed, Stages
  <1>10. CASE Launches(r)
    <2>1. p.jobs \subseteq DOMAIN batches'
      <3>1. Len(batches) + 1 \in DOMAIN batches'
        BY <1>10, Appended DEF Launches, TypeOK
      <3> QED
        BY <1>3, <1>10, <3>1 DEF Launches
    <2>2. CASE p.stage = "script" /\ Same(p, q) /\ p.script = 0
      BY <1>1, <1>2, <2>1, <2>2, <1>10 DEF Launches, Same, Kept, Typed, Placed, Stages, Grow
    <2>3. CASE p = Answered([q EXCEPT !.jobs = @ \cup {Len(batches) + 1}], "ok")
      <3> DEFINE n == [q EXCEPT !.jobs = @ \cup {Len(batches) + 1}]
      <3> HIDE DEF n
      <3>1. /\ DOMAIN p = DOMAIN Blank /\ p.stage = "answer" /\ p.answer = "ok"
            /\ p.sess = NoSession /\ p.set = NoSession /\ p.script = 0
        BY <2>3, AnsweredFields DEF n
      <3> QED
        BY <1>1, <2>1, <3>1, SessionType DEF Typed, Placed, Stages, Grow
    <2> QED
      BY <1>10, <2>2, <2>3 DEF Launches
  <1>11. CASE Undoes(r)
    BY <1>1, <1>2, <1>3, <1>11 DEF Undoes, Same, Kept, Typed, Placed, Stages
  <1> QED
    BY <1>5, <1>6, <1>7, <1>8, <1>9, <1>10, <1>11 DEF Handles

LEMMA BlankTyped == Len(scripts) \in Nat => Typed(Blank) /\ Placed(Blank)
  BY BlankFields, SessionType DEF Typed, Placed, Stages

LEMMA TypeInit == Init => TypeOK /\ RequestInv
  <1> SUFFICES ASSUME Init PROVE TypeOK /\ RequestInv
    OBVIOUS
  <1>1. scripts \in Seq(Script)
    <2>1. scripts \in [1 .. ToolScripts -> Script]
      BY DEF Init, LibraryScript, Script
    <2> QED
      BY <2>1, ConsoleAssumption, IsSeq
  <1>2. batches \in Seq(Range(batches)) /\ DOMAIN batches = {}
    BY EmptySeq DEF Init
  <1>3. Len(scripts) \in Nat
    BY <1>1, LenProperties
  <1>4. \A r \in InFlight : Typed(requests[r]) /\ Placed(requests[r])
    BY <1>3, BlankTyped DEF Init, SessionInit
  <1>5. /\ cookie \in Sessions /\ DOMAIN requests = InFlight /\ orphans = {}
        /\ DOMAIN changes \subseteq Numbers /\ \A n \in DOMAIN changes : <<n, changes[n]>> \in saved
    BY FirstAssumption DEF Init, SessionInit
  <1> QED
    BY <1>1, <1>2, <1>4, <1>5 DEF TypeOK, RequestInv, Typed, Placed

\* The tables and the session under a step of a handler.
LEMMA TablesTyped ==
  ASSUME TypeOK, RequestInv, NEW r \in InFlight, Handles(r)
  PROVE  /\ cookie' \in Sessions /\ DOMAIN changes' \subseteq Numbers
         /\ \A n \in DOMAIN changes' : <<n, changes'[n]>> \in saved'
         /\ \A b \in DOMAIN batches' : batches'[b].script \in DOMAIN scripts'
         /\ orphans' \subseteq DOMAIN scripts'
  <1> DEFINE q == requests[r]
  <1>1. Grow
    BY TablesGrow
  <1>2. DOMAIN scripts \subseteq DOMAIN scripts'
    BY <1>1 DEF Grow
  <1>3. cookie' \in Sessions
    BY DEF TypeOK, Handles, Refused, Brings, Creates, Finds, Keeps, Resolves, Launches, Undoes,
           Clears, Apart
  <1>4. DOMAIN changes' \subseteq Numbers /\ \A n \in DOMAIN changes' : <<n, changes'[n]>> \in saved'
    <2>1. CASE UNCHANGED <<changes, saved>>
      BY <2>1 DEF TypeOK
    <2>2. ASSUME NEW rows, q.stage = "sent", q.kind \in Naming, changes' = Replaced(q.number, rows),
                 saved' = saved \cup {<<q.number, rows>>}
          PROVE  /\ DOMAIN changes' \subseteq Numbers
                 /\ \A n \in DOMAIN changes' : <<n, changes'[n]>> \in saved'
      <3>1. q.number \in Numbers
        BY <2>2 DEF RequestInv
      <3> QED
        BY <2>2, <3>1 DEF TypeOK, Replaced
    <2> QED
      BY <2>1, <2>2 DEF Handles, Refused, Brings, Creates, Finds, Keeps, Resolves, Launches, Undoes,
                        Clears, Apart, Naming
  <1>5. \A b \in DOMAIN batches' : batches'[b].script \in DOMAIN scripts'
    <2>1. CASE UNCHANGED batches
      BY <1>2, <2>1 DEF TypeOK
    <2>2. CASE Launches(r)
      <3>1. q.script \in DOMAIN scripts
        BY <1>1, <2>2 DEF TypeOK, RequestInv, Launches, Grow
      <3>2. NewBatch(q).script = q.script
        BY DEF NewBatch, BatchOf
      <3>3. /\ batches' = Append(batches, NewBatch(q)) /\ batches \in Seq(Range(batches))
            /\ scripts' = scripts
        BY <2>2 DEF Launches, TypeOK
      <3>4. \A b \in DOMAIN batches' : b \in DOMAIN batches \/ batches'[b] = NewBatch(q)
        BY <3>3, Appended
      <3> QED
        BY <1>1, <3>1, <3>2, <3>3, <3>4 DEF TypeOK, Grow
    <2> QED
      BY <2>1, <2>2 DEF Handles, Refused, Brings, Creates, Finds, Keeps, Resolves, Undoes, Clears
  <1>6. orphans' \subseteq DOMAIN scripts'
    <2>1. CASE UNCHANGED orphans
      BY <1>2, <2>1 DEF TypeOK
    <2>2. CASE Clears(r)
      <3>1. q.script \in DOMAIN scripts
        BY <1>1, <2>2 DEF TypeOK, RequestInv, Clears, Grow
      <3> QED
        BY <1>2, <2>1, <2>2, <3>1 DEF TypeOK, Clears
    <2> QED
      BY <2>1, <2>2 DEF Handles, Refused, Brings, Creates, Finds, Keeps, Resolves, Launches, Undoes
  <1> QED
    BY <1>3, <1>4, <1>5, <1>6

LEMMA TypeStep ==
  ASSUME TypeOK, RequestInv, TargetsInv, [Next]_vars
  PROVE  TypeOK' /\ RequestInv'
  <1>1. Len(scripts) \in Nat /\ DOMAIN scripts = 1 .. Len(scripts)
    BY LenProperties DEF TypeOK
  <1>2. \A x \in InFlight : Typed(requests[x]) /\ Placed(requests[x])
    BY DEF TypeOK, RequestInv, Typed, Placed
  <1>3. ASSUME DOMAIN requests' = InFlight, cookie' \in Sessions,
               UNCHANGED <<changes, saved, scripts, batches>>, orphans' \subseteq DOMAIN scripts,
               \A x \in InFlight : Typed(requests'[x]) /\ Placed(requests'[x])
        PROVE  TypeOK' /\ RequestInv'
    BY <1>3 DEF TypeOK, RequestInv, Typed, Placed
  <1>4. CASE Still
    <2>1. cookie' \in Sessions
      BY <1>4, SessionType DEF Still, Expire, TypeOK
    <2> QED
      BY <1>2, <1>3, <1>4, <2>1 DEF Still, TypeOK
  <1>5. CASE Crash
    <2>1. DOMAIN requests' = InFlight /\ \A x \in InFlight : requests'[x] = Blank
      BY <1>5 DEF Crash
    <2>2. orphans' \subseteq DOMAIN scripts
      BY <1>1, <1>5 DEF Crash, TypeOK, RequestInv
    <2> QED
      BY <1>1, <1>3, <1>5, <2>1, <2>2, BlankTyped DEF Crash, TypeOK
  <1>6. ASSUME NEW r \in InFlight, UNCHANGED consoleVars, Receive(r) PROVE TypeOK' /\ RequestInv'
    <2>1. requests' = [requests EXCEPT ![r] = Blank]
      BY <1>6 DEF Receive
    <2>2. Becomes(r, Blank)
      BY <2>1, Update
    <2>3. \A x \in InFlight : Typed(requests'[x]) /\ Placed(requests'[x])
      BY <1>1, <1>2, <2>2, BlankTyped DEF Becomes
    <2>4. cookie' \in Sessions
      BY <1>6 DEF Receive, TypeOK
    <2> QED
      BY <1>3, <1>6, <2>2, <2>3, <2>4 DEF Receive, Becomes, TypeOK
  <1>7. ASSUME NEW r \in InFlight, UNCHANGED consoleVars, NEW q \in Requests, Submit(r, q)
        PROVE  TypeOK' /\ RequestInv'
    <2> DEFINE p == [q EXCEPT !.stage = "sent", !.sess = cookie]
    <2>1. requests' = [requests EXCEPT ![r] = p] /\ UNCHANGED <<cookie, changes, saved>>
      BY <1>7 DEF Submit
    <2>2. Becomes(r, p)
      BY <2>1, Update
    <2>3. Typed(p) /\ Placed(p)
      <3>1. /\ DOMAIN p = DOMAIN Blank
            /\ p.kind = q.kind /\ p.number = q.number /\ p.key = q.key /\ p.env = q.env
            /\ p.stage = "sent" /\ p.sess = cookie /\ p.answer = "none" /\ p.set = NoSession
            /\ p.script = 0 /\ p.jobs = {}
        BY SentFields
      <3> HIDE DEF p
      <3>2. cookie \in Sessions
        BY DEF TypeOK
      <3> QED
        BY <1>1, <3>1, <3>2, RequestsAssumption, SessionType DEF Typed, Placed, Stages
    <2> HIDE DEF p
    <2>4. \A x \in InFlight : Typed(requests'[x]) /\ Placed(requests'[x])
      BY <1>2, <2>2, <2>3 DEF Becomes
    <2> QED
      BY <1>3, <1>7, <2>1, <2>2, <2>4 DEF Becomes, TypeOK
  <1>8. ASSUME NEW r \in InFlight, Handles(r) PROVE TypeOK' /\ RequestInv'
    <2>1. Becomes(r, requests'[r])
      BY <1>8 DEF Handles, Refused, Brings, Creates, Finds, Keeps, Resolves, Launches, Undoes,
                  Clears, Becomes
    <2>2. \A x \in InFlight : Typed(requests[x])' /\ Placed(requests[x])'
      BY <1>8, <2>1, TablesGrow, HandledType, RequestsTyped
    <2>3. DOMAIN requests' = InFlight
      BY <2>1 DEF Becomes
    <2>4. scripts' \in Seq(Script) /\ batches' \in Seq(Range(batches'))
      BY <1>8, TablesGrow DEF Grow
    <2> QED
      BY <1>8, <2>2, <2>3, <2>4, TablesTyped DEF TypeOK, RequestInv, Typed, Placed
  <1> QED
    BY <1>4, <1>5, <1>6, <1>7, <1>8, Steps

-----------------------------------------------------------------------------
(* The targets of a batch.                                                 *)

LEMMA SavesGrow ==
  ASSUME NEW S, NEW T, S \subseteq T, NEW n, NEW targets, NEW account, NEW region,
         OfOneSave(S, n, targets, account, region)
  PROVE  OfOneSave(T, n, targets, account, region)
  BY DEF OfOneSave

\* One request of TargetsInv.
Aims(saves, q) ==
  q.kind \in {"qcStep", "qcPost"} =>
    /\ q.stage = "sent" => q.ids \in {<<>>} \cup {p.ids : p \in Requests}
    /\ q.stage \in {"script", "batch"} => OfOneSave(saves, q.number, q.targets, q.account, q.region)

LEMMA BlankAims == \A S : Aims(S, Blank)
  BY BlankFields DEF Aims

\* Saves are never forgotten.
LEMMA SavedGrow ==
  ASSUME TypeOK, RequestInv, TargetsInv, [Next]_vars
  PROVE  saved \subseteq saved'
  <1>1. Still \/ Crash \/ (\E r \in InFlight, q \in Requests : Submit(r, q)) => UNCHANGED saved
    BY DEF Still, Crash, Submit
  <1>2. \A r \in InFlight : Receive(r) => UNCHANGED saved
    BY DEF Receive
  <1>3. \A r \in InFlight : Handles(r) => saved \subseteq saved'
    BY TablesGrow DEF Grow
  <1> QED
    BY <1>1, <1>2, <1>3, Steps

LEMMA HandledAims ==
  ASSUME TypeOK, RequestInv, TargetsInv, NEW r \in InFlight, Handles(r)
  PROVE  Aims(saved', requests'[r])
  <1> DEFINE q == requests[r]  p == requests'[r]
  <1>1. Aims(saved, q)
    BY DEF TargetsInv, Aims
  <1>2. CASE p.stage = "answer"
    BY <1>2 DEF Aims
  <1>3. CASE Refused(r) \/ Clears(r) \/ Creates(r) \/ Undoes(r)
    BY <1>2, <1>3, AnsweredFields DEF Refused, Clears, Creates, Undoes, Becomes, Aims
  <1>4. ASSUME NEW sess, Brings(r, sess) PROVE p.stage = "answer"
    <2> DEFINE a == Answered(q, "cookie")
    <2>1. p = [a EXCEPT !.set = sess] /\ a.stage = "answer" /\ DOMAIN a = DOMAIN Blank
      BY <1>4, AnsweredFields DEF Brings, Becomes
    <2> HIDE DEF a
    <2> QED
      BY <2>1 DEF Blank
  <1>5. CASE Finds(r)
    BY <1>5 DEF Finds, Aims, Apart
  <1>6. CASE Keeps(r)
    BY <1>6 DEF Keeps, Aims, Same, Kept
  <1>7. CASE Resolves(r)
    BY <1>1, <1>7 DEF Resolves, Aims, Same, Kept, Apart
  <1>8. CASE Launches(r)
    <2>1. CASE p = Answered([q EXCEPT !.jobs = @ \cup {Len(batches) + 1}], "ok")
      BY <1>2, <2>1, AnsweredFields
    <2>2. CASE p.stage = "script" /\ Same(p, q)
      BY <1>1, <1>8, <2>2 DEF Launches, Aims, Same, Kept, Apart
    <2> QED
      BY <1>8, <2>1, <2>2 DEF Launches
  <1> QED
    BY <1>2, <1>3, <1>4, <1>5, <1>6, <1>7, <1>8 DEF Handles

LEMMA TargetsStep ==
  ASSUME TypeOK, RequestInv, TargetsInv, [Next]_vars
  PROVE  TargetsInv'
  <1>1. saved \subseteq saved'
    BY SavedGrow
  <1>2. \A x \in InFlight : Aims(saved', requests[x])
    <2> SUFFICES ASSUME NEW x \in InFlight PROVE Aims(saved', requests[x])
      OBVIOUS
    <2>1. Aims(saved, requests[x])
      BY DEF TargetsInv, Aims
    <2> QED
      BY <1>1, <2>1, SavesGrow DEF Aims
  <1>3. \A x \in InFlight : Aims(saved', requests'[x])
    <2>1. CASE Still
      BY <1>2, <2>1 DEF Still
    <2>2. CASE Crash
      BY <2>2, BlankAims DEF Crash
    <2>3. ASSUME NEW r \in InFlight, Receive(r) PROVE \A x \in InFlight : Aims(saved', requests'[x])
      <3>1. requests' = [requests EXCEPT ![r] = Blank]
        BY <2>3 DEF Receive
      <3> QED
        BY <1>2, <3>1, Update, BlankAims DEF Becomes
    <2>4. ASSUME NEW r \in InFlight, NEW q \in Requests, Submit(r, q)
          PROVE  \A x \in InFlight : Aims(saved', requests'[x])
      <3> DEFINE p == [q EXCEPT !.stage = "sent", !.sess = cookie]
      <3>1. requests' = [requests EXCEPT ![r] = p]
        BY <2>4 DEF Submit
      <3>2. Aims(saved', p)
        BY SentFields DEF Aims
      <3> HIDE DEF p
      <3> QED
        BY <1>2, <3>1, <3>2, Update DEF Becomes
    <2>5. ASSUME NEW r \in InFlight, Handles(r) PROVE \A x \in InFlight : Aims(saved', requests'[x])
      <3>1. \A x \in InFlight : x # r => requests'[x] = requests[x]
        BY <2>5 DEF Handles, Refused, Brings, Creates, Finds, Keeps, Resolves, Launches, Undoes,
                    Clears, Becomes
      <3> QED
        BY <1>2, <2>5, <3>1, HandledAims
    <2> QED
      BY <2>1, <2>2, <2>3, <2>4, <2>5, Steps
  <1>4. TargetsOfOneSave'
    <2>1. CASE UNCHANGED batches
      <3> SUFFICES ASSUME NEW b \in DOMAIN batches, batches[b].change # NoChange
                   PROVE  OfOneSave(saved', batches[b].change, batches[b].targets,
                                    batches[b].account, batches[b].region)
        BY <2>1 DEF TargetsOfOneSave
      <3> QED
        BY <1>1, SavesGrow DEF TargetsInv, TargetsOfOneSave
    <2>2. ASSUME NEW r \in InFlight, Launches(r) PROVE TargetsOfOneSave'
      <3> DEFINE q == requests[r]  n == NewBatch(q)
      <3>1. batches' = Append(batches, n) /\ q.stage = "batch" /\ saved' = saved
            /\ batches \in Seq(Range(batches))
        BY <2>2 DEF Launches, TypeOK, Apart
      <3>2. n.change # NoChange => OfOneSave(saved, n.change, n.targets, n.account, n.region)
        <4>1. /\ n.change = IF q.kind \in {"qcStep", "qcPost"} THEN q.number ELSE NoChange
              /\ n.targets = q.targets /\ n.account = q.account /\ n.region = q.region
          BY DEF NewBatch, BatchOf
        <4> HIDE DEF n
        <4> QED
          BY <3>1, <4>1 DEF TargetsInv
      <3> HIDE DEF n
      <3>3. \A b \in DOMAIN batches' :
              batches'[b] = n \/ (b \in DOMAIN batches /\ batches'[b] = batches[b])
        BY <3>1, Appended
      <3> QED
        BY <3>1, <3>2, <3>3 DEF TargetsInv, TargetsOfOneSave
    <2>3. UNCHANGED batches \/ \E r \in InFlight : Launches(r)
      BY Steps DEF Still, Crash, Handles, Refused, Brings, Creates, Finds, Keeps, Resolves, Undoes,
                   Clears
    <2> QED
      BY <2>1, <2>2, <2>3
  <1> QED
    BY <1>3, <1>4 DEF TargetsInv, Aims

LEMMA TargetsInit == Init => TargetsInv
  BY BlankFields DEF Init, SessionInit, TargetsInv, TargetsOfOneSave

LEMMA ConsoleInvariant == Spec => [](TypeOK /\ RequestInv /\ TargetsInv)
  <1>1. Init => TypeOK /\ RequestInv /\ TargetsInv
    BY TypeInit, TargetsInit
  <1>2. TypeOK /\ RequestInv /\ TargetsInv /\ [Next]_vars => TypeOK' /\ RequestInv' /\ TargetsInv'
    BY TypeStep, TargetsStep
  <1> QED
    BY <1>1, <1>2, PTL DEF Spec

\* The types of Console hold for any requests, sessions and bounds: tables only
\* refer to rows that are there.
THEOREM TypeCorrect == Spec => []TypeOK
  BY ConsoleInvariant, PTL

\* A batch of a change runs on instances of one save of it, all of one account
\* and region, for any changes, requests and interleavings of them.
THEOREM TargetsOfOneSaveCorrect == Spec => []TargetsOfOneSave
  <1>1. TargetsInv => TargetsOfOneSave
    BY DEF TargetsInv
  <1> QED
    BY <1>1, ConsoleInvariant, PTL

-----------------------------------------------------------------------------
(* Whole sessions.                                                         *)

\* A handler moves its own request, and neither the cookie nor the history of
\* the answers.
LEMMA OneMoves ==
  ASSUME NEW r \in InFlight, Handles(r)
  PROVE  Becomes(r, requests'[r]) /\ UNCHANGED <<cookie, asked>>
  BY DEF Handles, Refused, Brings, Creates, Finds, Keeps, Resolves, Launches, Undoes, Clears,
         Becomes, Apart

\* Whole, with the changes there are.
WholeIn(C, sess) ==
  /\ HasKeys(sess) => CredentialEnv[sess.key] = sess.env /\ AccountOf[sess.key] = sess.account
  /\ sess.change \in C \cup {NoChange}

LEMMA WholeStays ==
  ASSUME NEW C, NEW D, C \subseteq D, NEW sess, WholeIn(C, sess)
  PROVE  WholeIn(D, sess)
  BY DEF WholeIn

LEMMA NoneIsWhole == \A C : WholeIn(C, NoSession)
  BY DEF WholeIn, NoSession, HasKeys

LEMMA BlankIsWhole == \A C : WholeIn(C, Blank.sess) /\ WholeIn(C, Blank.set)
  BY BlankFields, NoneIsWhole

\* The session of a request with another change is whole, if the change is there.
LEMMA WholeWith ==
  ASSUME NEW C, NEW sess \in Sessions, WholeIn(C, sess), NEW n \in C \cup {NoChange}
  PROVE  WholeIn(C, [sess EXCEPT !.change = n])
  BY DEF WholeIn, HasKeys, Sessions

\* Whatever session a handler answers with is whole.
LEMMA BroughtWhole ==
  ASSUME DevMode = FALSE, TypeOK, RequestInv, WholeInv, NEW r \in InFlight, NEW sess,
         Brings(r, sess)
  PROVE  WholeIn(DOMAIN changes', sess)
  <1> DEFINE q == requests[r]
  <1>1. q.sess \in Sessions /\ WholeIn(DOMAIN changes, q.sess)
    BY DEF TypeOK, WholeInv, Whole, WholeIn
  <1>2. CASE q.kind = "credentials" /\ UNCHANGED changes
    <2>1. PICK account \in Accepted(q) : sess = Authenticated(q.sess, q.key, q.env, account)
      BY <1>2 DEF Brings
    <2>2. CredentialEnv[q.key] = q.env /\ AccountOf[q.key] = account
      BY <2>1 DEF Accepted
    <2>3. /\ sess.key = q.key /\ sess.env = q.env /\ sess.account = account
          /\ sess.change = q.sess.change
      BY <1>1, <2>1 DEF Authenticated, Sessions
    <2> QED
      BY <1>1, <1>2, <2>2, <2>3 DEF WholeIn
  <1>3. CASE q.kind = "signOut"
    BY <1>3, NoneIsWhole DEF Brings
  <1>4. ASSUME NEW n \in DOMAIN changes' \cup {NoChange}, DOMAIN changes \subseteq DOMAIN changes',
               sess = [q.sess EXCEPT !.change = n]
        PROVE  WholeIn(DOMAIN changes', sess)
    <2>1. WholeIn(DOMAIN changes', q.sess)
      BY <1>1, <1>4, WholeStays
    <2> QED
      BY <1>1, <1>4, <2>1, WholeWith
  <1>5. CASE q.kind \in {"load", "clear"}
    BY <1>4, <1>5 DEF Brings
  <1>6. CASE q.kind \in {"save", "manual", "csv"}
    BY <1>4, <1>6 DEF Brings, Replaced
  <1> QED
    BY <1>2, <1>3, <1>5, <1>6 DEF Brings

LEMMA HandledWhole ==
  ASSUME DevMode = FALSE, TypeOK, RequestInv, WholeInv, NEW r \in InFlight, Handles(r)
  PROVE  WholeIn(DOMAIN changes', requests'[r].sess) /\ WholeIn(DOMAIN changes', requests'[r].set)
  <1> DEFINE q == requests[r]  p == requests'[r]
  <1>1. WholeIn(DOMAIN changes', q.sess) /\ WholeIn(DOMAIN changes', q.set)
    <2>1. WholeIn(DOMAIN changes, q.sess) /\ WholeIn(DOMAIN changes, q.set)
      BY DEF WholeInv, Whole, WholeIn
    <2> QED
      BY <2>1, TablesGrow, WholeStays DEF Grow
  <1>2. CASE p.sess = q.sess /\ p.set = q.set
    BY <1>1, <1>2
  <1>3. ASSUME NEW n, NEW a, p = Answered(n, a) PROVE p.sess = NoSession /\ p.set = NoSession
    BY <1>3, AnsweredFields
  <1>4. CASE Refused(r) \/ Clears(r) \/ Creates(r)
    BY <1>3, <1>4, NoneIsWhole DEF Refused, Clears, Creates, Becomes
  <1>5. ASSUME NEW sess, Brings(r, sess) PROVE p.sess = NoSession /\ p.set = sess
    <2> DEFINE a == Answered(q, "cookie")
    <2>1. p = [a EXCEPT !.set = sess] /\ a.sess = NoSession /\ DOMAIN a = DOMAIN Blank
      BY <1>5, AnsweredFields DEF Brings, Becomes
    <2> HIDE DEF a
    <2> QED
      BY <2>1 DEF Blank
  <1>6. CASE Launches(r)
    BY <1>2, <1>3, <1>6, NoneIsWhole DEF Launches, Same, Kept
  <1>7. CASE Finds(r) \/ Keeps(r) \/ Resolves(r) \/ Undoes(r)
    BY <1>2, <1>7 DEF Finds, Keeps, Resolves, Undoes, Same, Kept
  <1> QED
    BY <1>4, <1>5, <1>6, <1>7, BroughtWhole, NoneIsWhole DEF Handles

LEMMA WholeStep ==
  ASSUME DevMode = FALSE, TypeOK, RequestInv, TargetsInv, WholeInv, [Next]_vars
  PROVE  WholeInv'
  <1> DEFINE All(C) == \A x \in InFlight :
                         WholeIn(C, requests'[x].sess) /\ WholeIn(C, requests'[x].set)
  <1>1. /\ WholeIn(DOMAIN changes, cookie)
        /\ \A x \in InFlight : WholeIn(DOMAIN changes, requests[x].sess)
                              /\ WholeIn(DOMAIN changes, requests[x].set)
    BY DEF WholeInv, Whole, WholeIn
  <1>2. ASSUME WholeIn(DOMAIN changes', cookie'), All(DOMAIN changes') PROVE WholeInv'
    BY <1>2 DEF WholeInv, Whole, WholeIn
  <1>3. CASE Still
    BY <1>1, <1>2, <1>3, NoneIsWhole DEF Still, Expire
  <1>4. CASE Crash
    BY <1>1, <1>2, <1>4, BlankIsWhole DEF Crash
  <1>5. ASSUME NEW r \in InFlight, Receive(r) PROVE WholeInv'
    <2>1. requests' = [requests EXCEPT ![r] = Blank] /\ changes' = changes
      BY <1>5 DEF Receive
    <2>2. WholeIn(DOMAIN changes, cookie')
      BY <1>1, <1>5 DEF Receive
    <2> QED
      BY <1>1, <1>2, <2>1, <2>2, Update, BlankIsWhole DEF Becomes
  <1>6. ASSUME NEW r \in InFlight, NEW q \in Requests, Submit(r, q) PROVE WholeInv'
    <2> DEFINE p == [q EXCEPT !.stage = "sent", !.sess = cookie]
    <2>1. requests' = [requests EXCEPT ![r] = p] /\ UNCHANGED <<changes, cookie>>
      BY <1>6 DEF Submit
    <2>2. p.sess = cookie /\ p.set = NoSession
      BY SentFields
    <2> HIDE DEF p
    <2> QED
      BY <1>1, <1>2, <2>1, <2>2, Update, NoneIsWhole DEF Becomes
  <1>7. ASSUME NEW r \in InFlight, Handles(r) PROVE WholeInv'
    <2>1. DOMAIN changes \subseteq DOMAIN changes'
      BY <1>7, TablesGrow DEF Grow
    <2>2. WholeIn(DOMAIN changes', cookie')
      BY <1>1, <1>7, <2>1, OneMoves, WholeStays
    <2>3. All(DOMAIN changes')
      <3> SUFFICES ASSUME NEW x \in InFlight
                   PROVE  /\ WholeIn(DOMAIN changes', requests'[x].sess)
                          /\ WholeIn(DOMAIN changes', requests'[x].set)
        OBVIOUS
      <3>1. CASE x = r
        BY <1>7, <3>1, HandledWhole
      <3>2. CASE x # r
        BY <1>1, <1>7, <2>1, <3>2, OneMoves, WholeStays DEF Becomes
      <3> QED
        BY <3>1, <3>2
    <2> QED
      BY <1>2, <2>2, <2>3
  <1> QED
    BY <1>3, <1>4, <1>5, <1>6, <1>7, Steps

LEMMA WholeInit == ASSUME DevMode = FALSE, Init PROVE WholeInv
  <1>1. cookie \in FirstCookies /\ changes = FirstChanges /\ \A r \in InFlight : requests[r] = Blank
    BY DEF Init, SessionInit
  <1>2. WholeIn(DOMAIN changes, cookie)
    BY <1>1, FirstAssumption DEF WholeIn, HasKeys
  <1> QED
    BY <1>1, <1>2, BlankIsWhole DEF WholeInv, Whole, WholeIn

\* Whenever credentials are validated, the session in the browser is always some
\* handler's as a whole: key, environment and account as STS confirmed them
\* together, and a change that has a row.
THEOREM SessionIsWholeCorrect ==
  ASSUME DevMode = FALSE
  PROVE  Spec => []SessionIsWhole
  <1>1. Init => WholeInv
    BY WholeInit
  <1>2. TypeOK /\ RequestInv /\ TargetsInv /\ WholeInv /\ [Next]_vars => WholeInv'
    BY WholeStep
  <1>3. WholeInv => SessionIsWhole
    BY DEF WholeInv, Whole, SessionIsWhole, CurrentChange
  <1> QED
    BY <1>1, <1>2, <1>3, ConsoleInvariant, PTL DEF Spec

-----------------------------------------------------------------------------
(* The session, and what the answers said of it.                           *)

\* One request of AskedInv.
Follows(q) ==
  q.kind \in Writers =>
    /\ q.stage = "sent" => q.sess.key = cookie.key /\ q.sess.change = cookie.change
    /\ q.answer = "cookie" => Expected(q) = [key |-> q.set.key, change |-> q.set.change]

\* No two requests that set the cookie are on their way.
Alone(reqs) ==
  \A r, x \in InFlight : reqs[r].kind \in Writers /\ reqs[x].kind \in Writers => x = r

LEMMA AskedParts ==
  AskedInv <=>
    (asked # Unclear =>
       /\ asked = [key |-> cookie.key, change |-> cookie.change]
       /\ Alone(requests)
       /\ \A r \in InFlight : Follows(requests[r]))
  BY DEF AskedInv, Alone, Follows

\* Requests of the other kinds do not matter.
LEMMA OthersFollow == ASSUME NEW q, q.kind \notin Writers PROVE Follows(q)
  BY DEF Follows

\* A handler answers with the session its user expects.
LEMMA BroughtExpected ==
  ASSUME TypeOK, AskedInv, asked # Unclear, NEW r \in InFlight, NEW sess, Brings(r, sess)
  PROVE  Expected(requests'[r]) = [key |-> sess.key, change |-> sess.change]
  <1> DEFINE q == requests[r]  p == requests'[r]  a == Answered(q, "cookie")
  <1>1. q.sess \in Sessions /\ q.stage = "sent"
    BY DEF TypeOK, Brings
  <1>2. p.kind = q.kind /\ p.number = q.number /\ p.key = q.key
    <2>1. /\ p = [a EXCEPT !.set = sess] /\ a.kind = q.kind /\ a.number = q.number /\ a.key = q.key
          /\ DOMAIN a = DOMAIN Blank
      BY AnsweredFields DEF Brings, Becomes
    <2> HIDE DEF a
    <2> QED
      BY <2>1 DEF Blank
  <1>3. q.kind \in Writers =>
          asked = [key |-> q.sess.key, change |-> q.sess.change]
    BY <1>1 DEF AskedInv
  <1> HIDE DEF p, q
  <1>4. CASE q.kind = "credentials"
    <2>1. sess.key = q.key /\ sess.change = q.sess.change
      BY <1>1, <1>4 DEF Brings, Authenticated, Sessions, q
    <2>2. Expected(p) = [asked EXCEPT !.key = q.key]
      BY <1>2, <1>4 DEF Expected
    <2> QED
      BY <1>3, <1>4, <2>1, <2>2 DEF Writers, p
  <1>5. CASE q.kind = "signOut"
    <2>1. Expected(p) = [key |-> NoKey, change |-> NoChange] /\ sess = NoSession
      BY <1>2, <1>5 DEF Expected, Brings, q
    <2> QED
      BY <2>1 DEF NoSession, p
  <1>6. CASE q.kind = "clear"
    <2>1. sess.key = q.sess.key /\ sess.change = NoChange
      BY <1>1, <1>6 DEF Brings, Sessions, q
    <2>2. Expected(p) = [asked EXCEPT !.change = NoChange]
      BY <1>2, <1>6 DEF Expected
    <2> QED
      BY <1>3, <1>6, <2>1, <2>2 DEF Writers, p
  <1>7. CASE q.kind \in {"load", "save", "manual", "csv"}
    <2>1. sess.key = q.sess.key /\ sess.change = q.number
      BY <1>1, <1>7 DEF Brings, Sessions, q
    <2>2. Expected(p) = [asked EXCEPT !.change = q.number]
      BY <1>2, <1>7 DEF Expected
    <2> QED
      BY <1>3, <1>7, <2>1, <2>2 DEF Writers, p
  <1> QED
    BY <1>4, <1>5, <1>6, <1>7 DEF Brings, q

\* A handler keeps the kind of its request, and is past its beginning.
LEMMA HandledKind ==
  ASSUME NEW r \in InFlight, Handles(r)
  PROVE  requests'[r].kind = requests[r].kind /\ requests'[r].stage # "sent"
  <1> DEFINE q == requests[r]  p == requests'[r]
  <1>1. ASSUME NEW a, p = Answered(q, a) PROVE p.kind = q.kind /\ p.stage # "sent"
    BY <1>1, AnsweredFields
  <1>2. CASE Refused(r) \/ Clears(r) \/ Creates(r)
    BY <1>1, <1>2 DEF Refused, Clears, Creates, Becomes
  <1>3. ASSUME NEW sess, Brings(r, sess) PROVE p.kind = q.kind /\ p.stage # "sent"
    <2> DEFINE a == Answered(q, "cookie")
    <2>1. p = [a EXCEPT !.set = sess] /\ a.kind = q.kind /\ a.stage = "answer"
          /\ DOMAIN a = DOMAIN Blank
      BY <1>3, AnsweredFields DEF Brings, Becomes
    <2> HIDE DEF a
    <2> QED
      BY <2>1 DEF Blank
  <1>4. CASE Finds(r) \/ Keeps(r) \/ Resolves(r) \/ Undoes(r)
    BY <1>4 DEF Finds, Keeps, Resolves, Undoes, Same, Kept
  <1>5. CASE Launches(r)
    <2> DEFINE n == [q EXCEPT !.jobs = @ \cup {Len(batches) + 1}]
    <2>1. CASE p = Answered(n, "ok")
      <3>1. n.kind = q.kind
        OBVIOUS
      <3> HIDE DEF n
      <3> QED
        BY <2>1, <3>1, AnsweredFields
    <2> QED
      BY <1>5, <2>1 DEF Launches, Same, Kept
  <1> QED
    BY <1>2, <1>3, <1>4, <1>5 DEF Handles

LEMMA AskedStep ==
  ASSUME TypeOK, RequestInv, TargetsInv, AskedInv, [Next]_vars
  PROVE  AskedInv'
  <1>1. asked # Unclear =>
          /\ asked = [key |-> cookie.key, change |-> cookie.change]
          /\ Alone(requests)
          /\ \A r \in InFlight : Follows(requests[r])
    BY AskedParts
  <1>2. ASSUME UNCHANGED <<cookie, asked>>, Alone(requests'),
               \A x \in InFlight : requests'[x] = requests[x] \/ requests'[x].kind \notin Writers,
               asked # Unclear
        PROVE  AskedInv'
    BY <1>1, <1>2 DEF AskedInv, Alone, Follows, Expected
  <1>3. ASSUME asked' = [key |-> cookie'.key, change |-> cookie'.change],
               \A x \in InFlight : requests'[x].kind \notin Writers
        PROVE  AskedInv'
    BY <1>3 DEF AskedInv
  <1>4. asked' = Unclear => AskedInv'
    BY DEF AskedInv
  <1>5. CASE Still
    <2>1. CASE Expire
      BY <1>3, <1>4, <1>5, <2>1 DEF Still, Expire, WriterUnderWay, NoSession
    <2>2. CASE UNCHANGED <<cookie, asked>>
      BY <1>1, <1>2, <1>4, <1>5, <2>2 DEF Still
    <2> QED
      BY <1>5, <2>1, <2>2 DEF Still
  <1>6. CASE Crash
    <2>1. Alone(requests') /\ \A x \in InFlight : requests'[x].kind \notin Writers
      BY <1>6, BlankFields DEF Crash, Alone, Writers
    <2> QED
      BY <1>2, <1>4, <1>6, <2>1 DEF Crash
  <1>7. ASSUME NEW r \in InFlight, Receive(r) PROVE AskedInv'
    <2>1. requests' = [requests EXCEPT ![r] = Blank]
      BY <1>7 DEF Receive
    <2>2. /\ requests'[r].kind \notin Writers
          /\ \A x \in InFlight : x # r => requests'[x] = requests[x]
      BY <2>1, Update, BlankFields DEF Becomes, Writers
    <2>3. CASE requests[r].answer = "cookie" /\ asked # Unclear
      <3>1. requests[r].kind \in Writers
        BY <2>3 DEF RequestInv
      <3>2. \A x \in InFlight : requests'[x].kind \notin Writers
        BY <1>1, <2>2, <2>3, <3>1 DEF Alone
      <3>3. /\ cookie' = requests[r].set
            /\ asked' = Expected(requests[r])
        BY <1>7, <2>3 DEF Receive
      <3>4. Expected(requests[r]) = [key |-> requests[r].set.key, change |-> requests[r].set.change]
        BY <1>1, <2>3, <3>1 DEF Follows
      <3> QED
        BY <1>3, <3>2, <3>3, <3>4
    <2>4. CASE asked = Unclear
      BY <1>4, <1>7, <2>4 DEF Receive, Expected
    <2>5. CASE requests[r].answer # "cookie" /\ asked # Unclear
      BY <1>1, <1>2, <1>7, <2>2, <2>5 DEF Receive, Alone
    <2> QED
      BY <2>3, <2>4, <2>5
  <1>8. ASSUME NEW r \in InFlight, NEW q \in Requests, Submit(r, q) PROVE AskedInv'
    <2> DEFINE p == [q EXCEPT !.stage = "sent", !.sess = cookie]
    <2>1. requests' = [requests EXCEPT ![r] = p] /\ UNCHANGED cookie
      BY <1>8 DEF Submit
    <2>2. p.kind = q.kind /\ p.sess = cookie /\ p.answer = "none"
      BY SentFields
    <2> HIDE DEF p
    <2>3. requests'[r] = p /\ \A x \in InFlight : x # r => requests'[x] = requests[x]
      BY <2>1, Update DEF Becomes
    <2>4. CASE q.kind \in Writers /\ WriterUnderWay
      BY <1>4, <1>8, <2>4 DEF Submit
    <2>5. CASE q.kind \in Writers /\ ~WriterUnderWay
      <3>1. \A x \in InFlight : x # r => requests'[x].kind \notin Writers
        BY <2>3, <2>5 DEF WriterUnderWay
      <3>2. asked' = asked
        BY <1>8, <2>5 DEF Submit
      <3> QED
        BY <1>1, <2>1, <2>2, <2>3, <3>1, <3>2 DEF AskedInv
    <2>6. CASE q.kind \notin Writers
      <3>1. asked' = asked
        BY <1>8, <2>6 DEF Submit
      <3> QED
        BY <1>1, <1>2, <1>4, <2>1, <2>2, <2>3, <2>6, <3>1 DEF Alone
    <2> QED
      BY <2>4, <2>5, <2>6
  <1>9. ASSUME NEW r \in InFlight, Handles(r) PROVE AskedInv'
    <2> DEFINE q == requests[r]  p == requests'[r]
    <2>1. p.kind = q.kind /\ p.stage # "sent"
      BY <1>9, HandledKind
    <2>2. UNCHANGED <<cookie, asked>> /\ \A x \in InFlight : x # r => requests'[x] = requests[x]
      BY <1>9, OneMoves DEF Becomes
    <2>3. asked # Unclear => Alone(requests')
      BY <1>1, <2>1, <2>2 DEF Alone
    <2>4. CASE q.kind \notin Writers
      BY <1>2, <1>4, <2>1, <2>2, <2>3, <2>4
    <2>5. CASE q.kind \in Writers /\ asked # Unclear
      <3>1. p.answer = "cookie" => Expected(p) = [key |-> p.set.key, change |-> p.set.change]
        <4>1. ASSUME NEW sess, Brings(r, sess) PROVE p.set = sess
          <5> DEFINE a == Answered(q, "cookie")
          <5>1. p = [a EXCEPT !.set = sess] /\ DOMAIN a = DOMAIN Blank
            BY <4>1, AnsweredFields DEF Brings, Becomes
          <5> HIDE DEF a
          <5> QED
            BY <5>1 DEF Blank
        <4>2. CASE Refused(r) \/ Clears(r)
          BY <4>2, AnsweredFields DEF Refused, Clears, Becomes
        <4>3. ~(Creates(r) \/ Finds(r) \/ Keeps(r) \/ Resolves(r) \/ Launches(r) \/ Undoes(r))
          BY <2>5 DEF Creates, Finds, Keeps, Resolves, Launches, Undoes, RequestInv, Writers,
                      Starters, OnPages
        <4> QED
          BY <1>9, <2>5, <4>1, <4>2, <4>3, BroughtExpected DEF Handles
      <3>2. Follows(requests[r])'
        BY <2>1, <2>2, <3>1 DEF Follows, Expected
      <3>3. \A x \in InFlight : x # r => Follows(requests[x])'
        BY <1>1, <2>2, <2>5 DEF Follows, Expected
      <3>4. asked' = [key |-> cookie'.key, change |-> cookie'.change] /\ Alone(requests)'
        BY <1>1, <2>2, <2>3, <2>5 DEF Alone
      <3> QED
        BY <3>2, <3>3, <3>4 DEF AskedInv, Alone, Follows
    <2> QED
      BY <1>4, <2>2, <2>4, <2>5
  <1> QED
    BY <1>5, <1>6, <1>7, <1>8, <1>9, Steps

\* Unless two requests that set the cookie were on their way at once the session
\* is what the answers said it is, for any requests, and any of the others in
\* between.
THEOREM CookieFollowsAnswersCorrect == Spec => []CookieFollowsAnswers
  <1>1. Init => AskedInv
    BY BlankFields DEF Init, SessionInit, AskedInv, Writers
  <1>2. TypeOK /\ RequestInv /\ TargetsInv /\ AskedInv /\ [Next]_vars => AskedInv'
    BY AskedStep
  <1>3. AskedInv => CookieFollowsAnswers
    BY DEF AskedInv, CookieFollowsAnswers
  <1> QED
    BY <1>1, <1>2, <1>3, ConsoleInvariant, PTL DEF Spec

-----------------------------------------------------------------------------
(* Inline scripts.                                                         *)

\* One script of InlineInv.
Kempt(i) ==
  /\ \A b, c \in DOMAIN batches : batches[b].script = i /\ batches[c].script = i => b = c
  /\ \A r \in InFlight :
       Holds(r, i) => /\ \A b \in DOMAIN batches : batches[b].script # i
                      /\ \A x \in InFlight : Holds(x, i) => x = r
  /\ scripts[i].live =>
       \/ \E b \in DOMAIN batches : batches[b].script = i
       \/ \E r \in InFlight : Holds(r, i)
       \/ i \in orphans

LEMMA InlineParts == InlineInv <=> \A i \in DOMAIN scripts : scripts[i].ephemeral => Kempt(i)
  <1>1. InlineInv => \A i \in DOMAIN scripts : scripts[i].ephemeral => Kempt(i)
    BY DEF InlineInv, InlineScriptsAccounted, Kempt
  <1>2. ASSUME NEW i \in DOMAIN scripts, Kempt(i)
        PROVE  Cardinality({b \in DOMAIN batches : batches[b].script = i}) <= 1
    <2> DEFINE B == {b \in DOMAIN batches : batches[b].script = i}
    <2>1. \A b, c \in B : b = c
      BY <1>2 DEF Kempt
    <2> SUFFICES Cardinality(B) <= 1
      OBVIOUS
    <2> HIDE DEF B
    <2>2. CASE B = {}
      BY <2>2, FS_EmptySet
    <2>3. CASE B # {}
      <3>1. PICK b : B = {b}
        BY <2>1, <2>3
      <3> QED
        BY <3>1, FS_Singleton
    <2> QED
      BY <2>2, <2>3
  <1>3. \A i \in DOMAIN scripts : scripts[i].ephemeral => i \notin Library
    BY DEF Library
  <1> QED
    BY <1>1, <1>2, <1>3 DEF InlineInv, InlineScriptsAccounted, Kempt

\* A step that is not about script i.
LEMMA StaysKempt ==
  ASSUME NEW i, Kempt(i), scripts'[i].live => scripts[i].live,
         \A x \in InFlight : Holds(x, i)' <=> Holds(x, i),
         DOMAIN batches \subseteq DOMAIN batches',
         \A b \in DOMAIN batches : batches'[b] = batches[b],
         \A b \in DOMAIN batches' : batches'[b].script = i => b \in DOMAIN batches,
         orphans \subseteq orphans'
  PROVE  Kempt(i)'
  <1>1. \A b \in DOMAIN batches' : batches'[b].script = i => batches[b].script = i
    OBVIOUS
  <1>2. (\A b, c \in DOMAIN batches : batches[b].script = i /\ batches[c].script = i => b = c)'
    BY <1>1 DEF Kempt
  <1>3. ASSUME NEW r \in InFlight, Holds(r, i)'
        PROVE  (/\ \A b \in DOMAIN batches : batches[b].script # i
                /\ \A x \in InFlight : Holds(x, i) => x = r)'
    <2>1. Holds(r, i)
      BY <1>3
    <2> QED
      BY <1>1, <2>1 DEF Kempt
  <1>4. scripts'[i].live => (\/ \E b \in DOMAIN batches : batches[b].script = i
                             \/ \E r \in InFlight : Holds(r, i)
                             \/ i \in orphans)'
    BY DEF Kempt
  <1> QED
    BY <1>2, <1>3, <1>4 DEF Kempt

\* A step that leaves the scripts and batches, and all that hold one.
LEMMA AllStayKempt ==
  ASSUME InlineInv, UNCHANGED consoleVars,
         NEW r \in InFlight, \A x \in InFlight : x # r => requests'[x] = requests[x],
         \A i \in DOMAIN scripts : scripts[i].ephemeral => (Holds(r, i)' <=> Holds(r, i))
  PROVE  InlineInv'
  <1>1. ASSUME NEW i \in DOMAIN scripts, scripts[i].ephemeral PROVE Kempt(i)'
    <2>1. Kempt(i)
      BY <1>1, InlineParts
    <2>2. \A x \in InFlight : Holds(x, i)' <=> Holds(x, i)
      BY <1>1 DEF Holds
    <2> QED
      BY <2>1, <2>2, StaysKempt
  <1>2. (\A i \in DOMAIN scripts : scripts[i].ephemeral => Kempt(i))'
    BY <1>1
  <1>3. (InlineInv <=> \A i \in DOMAIN scripts : scripts[i].ephemeral => Kempt(i))'
    BY InlineParts, PTL
  <1> QED
    BY <1>2, <1>3

\* Which scripts a request holds, before and after its handler moved.
LEMMA HeldBy ==
  ASSUME NEW r \in InFlight, Handles(r), NEW i, Holds(r, i)' \/ Holds(r, i)
  PROVE  \/ Refused(r) /\ requests[r].stage = "batch" /\ i = requests[r].script
         \/ Resolves(r) /\ i = requests'[r].script /\ ~Holds(r, i)
         \/ Launches(r) /\ i = requests[r].script /\ Holds(r, i) /\ ~Holds(r, i)'
         \/ Undoes(r) /\ Holds(r, i)' /\ Holds(r, i)
         \/ Clears(r) /\ i = requests[r].script /\ Holds(r, i) /\ ~Holds(r, i)'
  <1> DEFINE q == requests[r]  p == requests'[r]
  <1>1. ASSUME NEW n, NEW a, p = Answered(n, a) PROVE p.stage = "answer"
    BY <1>1, AnsweredFields
  <1>2. ASSUME NEW sess, Brings(r, sess) PROVE FALSE
    <2> DEFINE a == Answered(q, "cookie")
    <2>1. p = [a EXCEPT !.set = sess] /\ a.stage = "answer" /\ DOMAIN a = DOMAIN Blank
          /\ q.stage = "sent"
      BY <1>2, AnsweredFields DEF Brings, Becomes
    <2> HIDE DEF a
    <2>2. p.stage = "answer"
      BY <2>1 DEF Blank
    <2> QED
      BY <2>1, <2>2 DEF Holds
  <1>3. CASE Refused(r)
    BY <1>1, <1>3 DEF Refused, Becomes, Holds
  <1>4. CASE Clears(r)
    BY <1>1, <1>4 DEF Clears, Becomes, Holds
  <1>5. CASE Creates(r)
    BY <1>1, <1>5 DEF Creates, Becomes, Holds
  <1>6. CASE Launches(r)
    BY <1>1, <1>6 DEF Launches, Holds
  <1>7. CASE Finds(r) \/ Keeps(r)
    BY <1>7 DEF Finds, Keeps, Holds
  <1>8. CASE Resolves(r) \/ Undoes(r)
    BY <1>8 DEF Resolves, Undoes, Holds
  <1> QED
    BY <1>2, <1>3, <1>4, <1>5, <1>6, <1>7, <1>8 DEF Handles

\* What a handler does to the tables.
LEMMA TablesMove ==
  ASSUME TypeOK, RequestInv, NEW r \in InFlight, Handles(r)
  PROVE  /\ \A i \in DOMAIN scripts : scripts'[i].live => scripts[i].live
         /\ \A i \in DOMAIN scripts' \ DOMAIN scripts :
              scripts'[i].ephemeral => Resolves(r) /\ i = requests'[r].script
         /\ \A b \in DOMAIN batches' \ DOMAIN batches :
              /\ Launches(r) /\ batches'[b].script = requests[r].script
              /\ b = Len(batches) + 1
         /\ orphans \subseteq orphans'
  <1> DEFINE q == requests[r]
             Scripts(t) == /\ \A i \in DOMAIN scripts : t[i].live => scripts[i].live
                           /\ \A i \in DOMAIN t \ DOMAIN scripts :
                                t[i].ephemeral => Resolves(r) /\ i = requests'[r].script
  <1>1. ASSUME NEW x \in Script, scripts' = Append(scripts, x),
               x.ephemeral => Resolves(r) /\ requests'[r].script = Len(scripts) + 1
        PROVE  Scripts(scripts')
    BY <1>1, MoreScripts
  <1>2. ASSUME NEW n \in DOMAIN scripts, Deleted(n) PROVE Scripts(scripts')
    BY <1>2, DeletedScript
  <1>3. LibraryScript \in Script /\ ~LibraryScript.ephemeral /\ InlineScript \in Script
    BY DEF LibraryScript, InlineScript, Script
  <1>4. q.stage = "cleanUp" => q.script \in DOMAIN scripts
    BY LenProperties DEF TypeOK, RequestInv
  <1>5. UNCHANGED scripts => Scripts(scripts')
    OBVIOUS
  <1>6. scripts' = Append(scripts, LibraryScript) => Scripts(scripts')
    BY <1>1, <1>3
  <1>7. Resolves(r) => Scripts(scripts')
    BY <1>1, <1>3, <1>5 DEF Resolves
  <1> HIDE DEF Scripts
  <1>8. Scripts(scripts')
    BY <1>2, <1>4, <1>5, <1>6, <1>7, InTable
       DEF Handles, Refused, Brings, Creates, Finds, Keeps, Launches, Undoes, Clears
  <1>9. \A b \in DOMAIN batches' \ DOMAIN batches :
           Launches(r) /\ batches'[b].script = q.script /\ b = Len(batches) + 1
    <2>1. CASE UNCHANGED batches
      BY <2>1
    <2>2. CASE Launches(r)
      <3>1. batches' = Append(batches, NewBatch(q)) /\ batches \in Seq(Range(batches))
        BY <2>2 DEF Launches, TypeOK
      <3>2. NewBatch(q).script = q.script
        BY DEF NewBatch, BatchOf
      <3> QED
        BY <2>2, <3>1, <3>2, Appended
    <2> QED
      BY <2>1, <2>2 DEF Handles, Refused, Brings, Creates, Finds, Keeps, Resolves, Undoes, Clears
  <1>10. orphans \subseteq orphans'
    BY DEF Handles, Refused, Brings, Creates, Finds, Keeps, Resolves, Launches, Undoes, Clears
  <1> QED
    BY <1>8, <1>9, <1>10 DEF Scripts

\* An inline script that a handler has just made.
LEMMA MadeKempt ==
  ASSUME TypeOK, RequestInv, NEW r \in InFlight, Handles(r),
         NEW i \in DOMAIN scripts', i \notin DOMAIN scripts, scripts'[i].ephemeral
  PROVE  Kempt(i)'
  <1> DEFINE p == requests'[r]
  <1>1. Resolves(r) /\ i = p.script
    BY TablesMove
  <1>2. /\ Len(scripts) \in Nat /\ DOMAIN scripts = 1 .. Len(scripts)
        /\ DOMAIN scripts' = 1 .. Len(scripts') /\ Len(scripts') \in Nat
    BY TablesGrow DEF Grow
  <1>3. UNCHANGED batches /\ \A b \in DOMAIN batches : batches[b].script # i
    BY <1>1 DEF Resolves, TypeOK
  <1>4. p.stage = "batch"
    BY <1>1 DEF Resolves
  <1>5. \A x \in InFlight : x # r => requests'[x].script # i
    <2>1. \A x \in InFlight : x # r => requests'[x].script \in 0 .. Len(scripts)
      BY OneMoves DEF Becomes, TypeOK
    <2>2. i \notin 0 .. Len(scripts)
      BY <1>2
    <2> QED
      BY <2>1, <2>2
  <1> QED
    BY <1>1, <1>3, <1>4, <1>5 DEF Kempt, Holds

\* An inline script that there was.
LEMMA HandledKempt ==
  ASSUME TypeOK, RequestInv, NEW r \in InFlight, Handles(r),
         NEW i \in DOMAIN scripts, scripts[i].ephemeral, Kempt(i)
  PROVE  Kempt(i)'
  <1> DEFINE q == requests[r]  p == requests'[r]
  <1>1. /\ DOMAIN batches \subseteq DOMAIN batches' /\ orphans \subseteq orphans'
        /\ \A b \in DOMAIN batches : batches'[b] = batches[b]
        /\ scripts'[i].live => scripts[i].live
    BY TablesGrow, TablesMove DEF Grow
  <1>2. \A x \in InFlight : x # r => (Holds(x, i)' <=> Holds(x, i))
    BY OneMoves DEF Becomes, Holds
  <1>3. CASE Launches(r) /\ i = q.script
    <2>1. Holds(r, i)
      BY <1>3 DEF Launches, Holds
    <2>2. ~Holds(r, i)'
      BY <1>3, <2>1, HeldBy DEF Refused, Resolves, Undoes, Clears, Launches
    <2>3. (\A b \in DOMAIN batches : batches[b].script # i)
          /\ \A x \in InFlight : x # r => ~Holds(x, i)
      BY <2>1 DEF Kempt
    <2>4. \A x \in InFlight : ~Holds(x, i)'
      BY <1>2, <2>2, <2>3
    <2>5. \A b \in DOMAIN batches' : batches'[b].script = i => b = Len(batches) + 1
      BY <1>1, <2>3, TablesMove
    <2>6. \E b \in DOMAIN batches' : batches'[b].script = i
      <3>1. batches' = Append(batches, NewBatch(q)) /\ batches \in Seq(Range(batches))
        BY <1>3 DEF Launches, TypeOK
      <3>2. NewBatch(q).script = i
        BY <1>3 DEF NewBatch, BatchOf
      <3> QED
        BY <3>1, <3>2, Appended
    <2> QED
      BY <2>4, <2>5, <2>6 DEF Kempt
  <1>4. CASE Clears(r) /\ i = q.script
    <2>1. Holds(r, i)
      BY <1>4 DEF Clears, Holds
    <2>2. ~Holds(r, i)'
      BY <1>4, AnsweredFields DEF Clears, Becomes, Holds
    <2>3. \A x \in InFlight : ~Holds(x, i)'
      BY <1>2, <2>1, <2>2 DEF Kempt
    <2>4. UNCHANGED batches /\ \A b \in DOMAIN batches : batches[b].script # i
      BY <1>4, <2>1 DEF Clears, Kempt
    <2>5. scripts'[i].live => i \in orphans'
      <3>1. CASE Deleted(i)
        BY <3>1, DeletedScript
      <3> QED
        BY <1>4, <3>1 DEF Clears
    <2> QED
      BY <2>3, <2>4, <2>5 DEF Kempt
  <1>5. CASE ~(Launches(r) /\ i = q.script) /\ ~(Clears(r) /\ i = q.script)
    <2>1. Holds(r, i)' <=> Holds(r, i)
      <3>1. ~(Refused(r) /\ q.stage = "batch" /\ i = q.script)
        BY DEF Refused
      <3>2. ~(Resolves(r) /\ i = p.script)
        <4>1. i # Len(scripts) + 1
          BY TablesGrow DEF Grow
        <4> QED
          BY <4>1 DEF Resolves, Library
      <3> QED
        BY <1>5, <3>1, <3>2, HeldBy
    <2>2. \A b \in DOMAIN batches' : batches'[b].script = i => b \in DOMAIN batches
      BY <1>5, TablesMove
    <2> QED
      BY <1>1, <1>2, <2>1, <2>2, StaysKempt
  <1> QED
    BY <1>3, <1>4, <1>5

LEMMA InlineStep ==
  ASSUME TypeOK, RequestInv, TargetsInv, InlineInv, [Next]_vars
  PROVE  InlineInv'
  <1>1. CASE Still
    <2>1. UNCHANGED <<requests, consoleVars>>
      BY <1>1 DEF Still
    <2> QED
      BY <2>1 DEF InlineInv, InlineScriptsAccounted, Library, Holds
  <1>2. CASE Crash
    <2>1. ASSUME NEW i \in DOMAIN scripts, scripts[i].ephemeral PROVE Kempt(i)'
      <3>1. Kempt(i)
        BY <2>1, InlineParts
      <3>2. UNCHANGED <<scripts, batches>> /\ \A x \in InFlight : ~Holds(x, i)'
        BY <1>2, BlankFields DEF Crash, Holds
      <3>3. orphans \subseteq orphans' /\ \A x \in InFlight : Holds(x, i) => i \in orphans'
        BY <1>2 DEF Crash, Holds
      <3> QED
        BY <3>1, <3>2, <3>3 DEF Kempt
    <2>2. (\A i \in DOMAIN scripts : scripts[i].ephemeral => Kempt(i))'
      BY <1>2, <2>1 DEF Crash
    <2>3. (InlineInv <=> \A i \in DOMAIN scripts : scripts[i].ephemeral => Kempt(i))'
      BY InlineParts, PTL
    <2> QED
      BY <2>2, <2>3
  <1>3. ASSUME NEW r \in InFlight, UNCHANGED consoleVars, Receive(r) PROVE InlineInv'
    <2>1. requests' = [requests EXCEPT ![r] = Blank] /\ requests[r].stage = "answer"
      BY <1>3 DEF Receive
    <2>2. Becomes(r, Blank)
      BY <2>1, Update
    <2>3. \A i : ~Holds(r, i) /\ ~Holds(r, i)'
      BY <2>1, <2>2, BlankFields DEF Holds, Becomes
    <2> QED
      BY <1>3, <2>2, <2>3, AllStayKempt DEF Becomes
  <1>4. ASSUME NEW r \in InFlight, UNCHANGED consoleVars, NEW q \in Requests, Submit(r, q)
        PROVE  InlineInv'
    <2> DEFINE p == [q EXCEPT !.stage = "sent", !.sess = cookie]
    <2>1. requests' = [requests EXCEPT ![r] = p] /\ requests[r].stage = "idle"
      BY <1>4 DEF Submit
    <2>2. p.stage = "sent"
      BY SentFields
    <2> HIDE DEF p
    <2>3. Becomes(r, p)
      BY <2>1, Update
    <2>4. \A i : ~Holds(r, i) /\ ~Holds(r, i)'
      BY <2>1, <2>2, <2>3 DEF Holds, Becomes
    <2> QED
      BY <1>4, <2>3, <2>4, AllStayKempt DEF Becomes
  <1>5. ASSUME NEW r \in InFlight, Handles(r) PROVE InlineInv'
    <2>1. ASSUME NEW i \in DOMAIN scripts', scripts'[i].ephemeral PROVE Kempt(i)'
      <3>1. CASE i \in DOMAIN scripts
        <4>1. scripts[i].ephemeral
          BY <1>5, <2>1, <3>1, TablesGrow DEF Grow
        <4>2. Kempt(i)
          BY <3>1, <4>1, InlineParts
        <4> QED
          BY <1>5, <3>1, <4>1, <4>2, HandledKempt
      <3> QED
        BY <1>5, <2>1, <3>1, MadeKempt
    <2>2. (\A i \in DOMAIN scripts : scripts[i].ephemeral => Kempt(i))'
      BY <2>1
    <2>3. (InlineInv <=> \A i \in DOMAIN scripts : scripts[i].ephemeral => Kempt(i))'
      BY InlineParts, PTL
    <2> QED
      BY <2>2, <2>3
  <1> QED
    BY <1>1, <1>2, <1>3, <1>4, <1>5, Steps

\* No inline script is left without its batch, given to two, or shown in the
\* library, for any interleaving of starts, refusals, deletions and crashes; only
\* a crash or a clean-up that was refused leaves one behind.
THEOREM InlineScriptsAccountedCorrect == Spec => []InlineScriptsAccounted
  <1>1. Init => InlineInv
    BY DEF Init, InlineInv, InlineScriptsAccounted, LibraryScript
  <1>2. TypeOK /\ RequestInv /\ TargetsInv /\ InlineInv /\ [Next]_vars => InlineInv'
    BY InlineStep
  <1>3. InlineInv => InlineScriptsAccounted
    BY DEF InlineInv
  <1> QED
    BY <1>1, <1>2, <1>3, ConsoleInvariant, PTL DEF Spec

-----------------------------------------------------------------------------
(* Answers.                                                                *)

\* One request of AnswersInv, that has started the scripts of S.
Tells(S, q) ==
  q.stage = "answer" /\ q.kind \in Starters =>
    /\ q.answer = "ok" => S # {} /\ q.plan \subseteq S
    /\ q.answer = "error" /\ S # {} => q.plan \ S # {}

InPlan(S, q) ==
  /\ q.plan \subseteq Nat \ {0} /\ q.id \in q.plan
  /\ S = {i \in q.plan : i < q.id}
  /\ q.stage # "script" => q.script = q.id

Plans(S, q) ==
  /\ q.stage \in {"sent", "library"} => q.plan = {} /\ q.jobs = {}
  /\ q.stage \in {"script", "batch", "cleanUp"} => (q.plan = {} /\ q.jobs = {}) \/ InPlan(S, q)

LEMMA AnswersParts ==
  AnswersInv <=>
    \A r \in InFlight : Tells(Started(requests[r]), requests[r])
                        /\ Plans(Started(requests[r]), requests[r])
  BY DEF AnswersInv, AnswersAreTrue, Tells, Plans, InPlan

LEMMA BlankTells == \A S : Tells(S, Blank) /\ Plans(S, Blank)
  BY BlankFields DEF Tells, Plans

\* The scripts that were started by these batches.
ScriptsOf(table, jobs) == {table[b].script : b \in jobs}

LEMMA StartedIs == \A q : Started(q) = ScriptsOf(batches, q.jobs)
  BY DEF Started, ScriptsOf

\* A batch is never given another script.
LEMMA StartedStays ==
  ASSUME Grow, NEW jobs, jobs \subseteq DOMAIN batches
  PROVE  ScriptsOf(batches', jobs) = ScriptsOf(batches, jobs)
  BY DEF Grow, ScriptsOf

\* A handler that gives up has not finished what it planned.
LEMMA GivesUp ==
  ASSUME NEW S, NEW q, NEW p, Plans(S, q), q.jobs = {} => S = {},
         q.stage \in {"sent", "library", "script", "batch", "cleanUp"},
         p = Answered(q, "error")
  PROVE  Tells(S, p) /\ Plans(S, p)
  <1>1. p.stage = "answer" /\ p.answer = "error" /\ p.plan = q.plan
    BY AnsweredFields
  <1>2. S = {} \/ q.plan \ S # {}
    <2>1. CASE InPlan(S, q)
      <3>1. q.id \in q.plan /\ q.id \notin S
        BY <2>1 DEF InPlan
      <3> QED
        BY <3>1
    <2> QED
      BY <2>1 DEF Plans
  <1> QED
    BY <1>1, <1>2 DEF Tells, Plans

\* One script more, and on to the next or to the answer.
LEMMA LaunchTells ==
  ASSUME NEW S, NEW q, NEW p, NEW n, InPlan(S, q), q.stage = "batch",
         \/ /\ p.stage = "script" /\ p.plan = q.plan
            /\ p.id \in NextOfPlan(q) /\ Least(p.id, NextOfPlan(q))
         \/ p = Answered(n, "ok") /\ n.plan = q.plan /\ NextOfPlan(q) = {}
  PROVE  Tells(S \cup {q.script}, p) /\ Plans(S \cup {q.script}, p)
  <1>1. q.plan \subseteq Nat /\ q.id \in q.plan /\ q.script = q.id /\ S = {i \in q.plan : i < q.id}
    BY DEF InPlan
  <1>2. CASE /\ p.stage = "script" /\ p.plan = q.plan
             /\ p.id \in NextOfPlan(q) /\ Least(p.id, NextOfPlan(q))
    <2>1. p.id \in q.plan /\ p.id > q.id /\ \A i \in q.plan : i > q.id => p.id <= i
      BY <1>2 DEF NextOfPlan, Least
    <2>2. \A i \in q.plan : i < p.id <=> i < q.id \/ i = q.id
      BY <1>1, <2>1
    <2>3. {i \in q.plan : i < p.id} = S \cup {q.id}
      BY <1>1, <2>2
    <2> QED
      BY <1>1, <1>2, <2>1, <2>3 DEF Tells, Plans, InPlan
  <1>3. CASE p = Answered(n, "ok") /\ n.plan = q.plan /\ NextOfPlan(q) = {}
    <2>1. p.stage = "answer" /\ p.answer = "ok" /\ p.plan = q.plan
      BY <1>3, AnsweredFields
    <2>2. \A i \in q.plan : ~(i > q.id)
      BY <1>3 DEF NextOfPlan
    <2>3. q.plan \subseteq S \cup {q.id}
      BY <1>1, <2>2
    <2> QED
      BY <1>1, <2>1, <2>3 DEF Tells, Plans
  <1> QED
    BY <1>2, <1>3

LEMMA HandledTells ==
  ASSUME TypeOK, RequestInv, NEW r \in InFlight, Handles(r),
         Plans(Started(requests[r]), requests[r])
  PROVE  LET S == ScriptsOf(batches', requests'[r].jobs) IN
           Tells(S, requests'[r]) /\ Plans(S, requests'[r])
  <1> DEFINE q == requests[r]  p == requests'[r]
             S == ScriptsOf(batches, q.jobs)  T == ScriptsOf(batches', p.jobs)
  <1>1. Plans(S, q) /\ (q.jobs = {} => S = {})
    BY StartedIs DEF ScriptsOf
  <1>2. q.jobs \subseteq DOMAIN batches
    BY DEF TypeOK
  <1>3. p.jobs = q.jobs => T = S
    BY <1>2, TablesGrow, StartedStays
  <1> HIDE DEF S, T
  <1>4. CASE Refused(r) \/ Clears(r)
    <2>1. /\ q.stage \in {"sent", "library", "script", "batch", "cleanUp"}
          /\ p = Answered(q, "error")
      BY <1>4 DEF Refused, Clears, Becomes
    <2>2. p.jobs = q.jobs
      BY <2>1, AnsweredFields
    <2>3. Tells(S, p) /\ Plans(S, p)
      BY <1>1, <2>1, GivesUp
    <2> QED
      BY <1>3, <2>2, <2>3 DEF T
  <1>5. ASSUME p.stage = "answer", p.kind \notin Starters PROVE Tells(T, p) /\ Plans(T, p)
    BY <1>5 DEF Tells, Plans
  <1>6. ASSUME NEW sess, Brings(r, sess) PROVE Tells(T, p) /\ Plans(T, p)
    <2> DEFINE a == Answered(q, "cookie")
    <2>1. p = [a EXCEPT !.set = sess] /\ a.stage = "answer" /\ a.kind = q.kind
          /\ DOMAIN a = DOMAIN Blank
      BY <1>6, AnsweredFields DEF Brings, Becomes
    <2> HIDE DEF a
    <2>2. p.stage = "answer" /\ p.kind = q.kind
      BY <2>1 DEF Blank
    <2>3. q.kind \notin Starters
      BY <1>6 DEF Brings, Starters, OnPages
    <2> QED
      BY <1>5, <2>2, <2>3
  <1>7. CASE Creates(r)
    <2>1. p = Answered(q, "ok") /\ q.kind \in {"create", "createScript", "deleteScript"}
      BY <1>7 DEF Creates, Becomes
    <2>2. p.stage = "answer" /\ p.kind = q.kind
      BY <2>1, AnsweredFields
    <2>3. q.kind \notin Starters
      BY <2>1 DEF Starters, OnPages
    <2>4. Tells(T, p) /\ Plans(T, p)
      BY <1>5, <2>2, <2>3
    <2> QED
      BY <2>4 DEF T
  <1>8. CASE Finds(r)
    <2>1. q.plan = {} /\ p.jobs = {} /\ T = {}
      BY <1>1, <1>3, <1>8 DEF Finds, Plans
    <2>2. CASE p.plan = {} /\ p.stage \in {"library", "script"}
      <3>1. Tells(T, p) /\ Plans(T, p)
        BY <2>1, <2>2 DEF Tells, Plans
      <3> QED
        BY <3>1 DEF T
    <2>3. CASE /\ p.stage = "script" /\ p.plan \subseteq Library \cap (1 .. ToolScripts)
               /\ p.id \in p.plan /\ Least(p.id, p.plan)
      <3>1. p.plan \subseteq Nat \ {0}
        BY <2>3, ConsoleAssumption
      <3>2. {i \in p.plan : i < p.id} = {}
        BY <2>3, <3>1 DEF Least
      <3>3. Tells(T, p) /\ Plans(T, p)
        BY <2>1, <2>3, <3>1, <3>2 DEF Tells, Plans, InPlan
      <3> QED
        BY <3>3 DEF T
    <2> QED
      BY <1>8, <2>1, <2>2, <2>3 DEF Finds
  <1>9. CASE Keeps(r)
    <2>1. p.plan = {} /\ p.jobs = {} /\ p.stage = "script"
      BY <1>1, <1>9 DEF Keeps, Same, Plans
    <2>2. Tells(T, p) /\ Plans(T, p)
      BY <2>1 DEF Tells, Plans
    <2> QED
      BY <2>2 DEF T
  <1>10. CASE Resolves(r)
    <2>1. /\ q.stage = "script" /\ p.stage = "batch" /\ p.plan = q.plan /\ p.jobs = q.jobs
          /\ p.id = q.id /\ (q.id # 0 => p.script = q.id)
      BY <1>10 DEF Resolves, Same
    <2>2. Tells(S, p) /\ Plans(S, p)
      BY <1>1, <2>1 DEF Tells, Plans, InPlan
    <2> QED
      BY <1>3, <2>1, <2>2 DEF T
  <1>11. CASE Undoes(r)
    <2>1. /\ q.stage = "batch" /\ p.stage = "cleanUp" /\ p.plan = q.plan /\ p.jobs = q.jobs
          /\ p.id = q.id /\ p.script = q.script
      BY <1>11 DEF Undoes, Same
    <2>2. Tells(S, p) /\ Plans(S, p)
      BY <1>1, <2>1 DEF Tells, Plans, InPlan
    <2> QED
      BY <1>3, <2>1, <2>2 DEF T
  <1>12. CASE Launches(r)
    <2>1. T = S \cup {q.script}
      <3>1. /\ batches' = Append(batches, NewBatch(q)) /\ batches \in Seq(Range(batches))
            /\ p.jobs = q.jobs \cup {Len(batches) + 1}
        BY <1>12 DEF Launches, TypeOK
      <3>2. batches'[Len(batches) + 1].script = q.script
        BY <3>1, Appended DEF NewBatch, BatchOf
      <3>3. ScriptsOf(batches', q.jobs) = S
        BY <1>2, TablesGrow, StartedStays DEF S
      <3> QED
        BY <3>1, <3>2, <3>3 DEF T, ScriptsOf
    <2> DEFINE n == [q EXCEPT !.jobs = @ \cup {Len(batches) + 1}]
    <2>2. n.plan = q.plan
      OBVIOUS
    <2>3. /\ q.stage = "batch"
          /\ \/ /\ p.stage = "script" /\ p.plan = q.plan
                /\ p.id \in NextOfPlan(q) /\ Least(p.id, NextOfPlan(q))
             \/ p = Answered(n, "ok") /\ NextOfPlan(q) = {}
      BY <1>12 DEF Launches, Same
    <2> HIDE DEF n
    <2>4. CASE InPlan(S, q)
      <3>1. Tells(T, p) /\ Plans(T, p)
        BY <2>1, <2>2, <2>3, <2>4, LaunchTells
      <3> QED
        BY <3>1 DEF T
    <2>5. CASE q.plan = {}
      <3>1. p = Answered(n, "ok")
        BY <2>3, <2>5 DEF NextOfPlan
      <3>2. p.stage = "answer" /\ p.answer = "ok" /\ p.plan = {}
        BY <2>2, <2>5, <3>1, AnsweredFields
      <3>3. Tells(T, p) /\ Plans(T, p)
        BY <2>1, <3>2 DEF Tells, Plans
      <3> QED
        BY <3>3 DEF T
    <2> QED
      BY <1>1, <2>3, <2>4, <2>5 DEF Plans
  <1> QED
    BY <1>4, <1>6, <1>7, <1>8, <1>9, <1>10, <1>11, <1>12 DEF Handles, T

LEMMA AnswersStep ==
  ASSUME TypeOK, RequestInv, TargetsInv, AnswersInv, [Next]_vars
  PROVE  AnswersInv'
  <1> DEFINE Fine(table, q) == Tells(ScriptsOf(table, q.jobs), q) /\ Plans(ScriptsOf(table, q.jobs), q)
  <1>1. \A x \in InFlight : Fine(batches, requests[x])
    BY AnswersParts, StartedIs
  <1>2. ASSUME \A x \in InFlight : Fine(batches', requests'[x]) PROVE AnswersInv'
    BY <1>2 DEF AnswersInv, AnswersAreTrue, Tells, Plans, InPlan, Started, ScriptsOf
  <1>3. \A table : Fine(table, Blank)
    BY BlankTells
  <1>4. ASSUME NEW r \in InFlight, UNCHANGED batches, NEW q, requests' = [requests EXCEPT ![r] = q],
               Fine(batches, q)
        PROVE  AnswersInv'
    <2>1. Becomes(r, q)
      BY <1>4, Update
    <2> HIDE DEF Fine
    <2> QED
      BY <1>1, <1>2, <1>4, <2>1 DEF Becomes
  <1>5. CASE Still
    BY <1>1, <1>2, <1>5 DEF Still
  <1>6. CASE Crash
    BY <1>2, <1>3, <1>6 DEF Crash
  <1>7. ASSUME NEW r \in InFlight, UNCHANGED consoleVars, Receive(r) PROVE AnswersInv'
    BY <1>3, <1>4, <1>7 DEF Receive
  <1>8. ASSUME NEW r \in InFlight, UNCHANGED consoleVars, NEW q \in Requests, Submit(r, q)
        PROVE  AnswersInv'
    <2> DEFINE p == [q EXCEPT !.stage = "sent", !.sess = cookie]
    <2>1. requests' = [requests EXCEPT ![r] = p]
      BY <1>8 DEF Submit
    <2>2. p.stage = "sent" /\ p.plan = {} /\ p.jobs = {}
      BY SentFields
    <2> HIDE DEF p
    <2>3. Fine(batches, p)
      BY <2>2 DEF Tells, Plans
    <2> QED
      BY <1>4, <1>8, <2>1, <2>3
  <1>9. ASSUME NEW r \in InFlight, Handles(r) PROVE AnswersInv'
    <2>1. Fine(batches', requests'[r])
      BY <1>9, AnswersParts, HandledTells
    <2>2. \A x \in InFlight : x # r => requests'[x] = requests[x]
      BY <1>9, OneMoves DEF Becomes
    <2>3. \A x \in InFlight : ScriptsOf(batches', requests[x].jobs) = ScriptsOf(batches, requests[x].jobs)
      BY <1>9, TablesGrow, StartedStays DEF TypeOK
    <2> QED
      BY <1>1, <1>2, <2>1, <2>2, <2>3
  <1> QED
    BY <1>5, <1>6, <1>7, <1>8, <1>9, Steps

\* An answer says what was started, for any number of scripts of a tool, whatever
\* is refused or deleted on the way: a good one all of the plan, an error nothing
\* or a plan that is not finished.
THEOREM AnswersAreTrueCorrect == Spec => []AnswersAreTrue
  <1>1. Init => AnswersInv
    <2>1. Init => \A r \in InFlight : requests[r] = Blank
      BY DEF Init, SessionInit
    <2> QED
      BY <2>1, BlankTells, AnswersParts
  <1>2. TypeOK /\ RequestInv /\ TargetsInv /\ AnswersInv /\ [Next]_vars => AnswersInv'
    BY AnswersStep
  <1>3. AnswersInv => AnswersAreTrue
    BY DEF AnswersInv
  <1> QED
    BY <1>1, <1>2, <1>3, ConsoleInvariant, PTL DEF Spec

=============================================================================
