-------------------------- MODULE OrgRunnerProofs --------------------------
(***************************************************************************)
(* Theorems about OrgRunner, for every set of regions and hosts, every     *)
(* limit per region and any number of failing statements.                  *)
(***************************************************************************)
EXTENDS OrgRunner, FiniteSetTheorems, TLAPS

USE DEF hostVars, runVars

-----------------------------------------------------------------------------
(* Type correctness.                                                       *)

LEMMA TargetsFinite ==
  ASSUME TypeOK, NEW g \in Regions
  PROVE  targets[g] \subseteq Hosts /\ Cardinality(targets[g]) \in Nat
  <1>1. targets[g] \subseteq Hosts /\ IsFiniteSet(Hosts)
    BY OrgAssumption DEF TypeOK, OrgAssumption
  <1> QED
    BY <1>1, FS_Subset, FS_CardinalityType

\* What a statement does to the batch row keeps its type.
LEMMA BatchType ==
  ASSUME TypeOK
  PROVE  /\ \A st \in {"none", "pending", "running"} \cup Terminal :
              [batch EXCEPT !.status = st] \in OrgBatch
         /\ \A n \in Nat : [batch EXCEPT !.total = @ + n] \in OrgBatch
         /\ [batch EXCEPT !.completed = @ + 1] \in OrgBatch
         /\ [batch EXCEPT !.failed = @ + 1] \in OrgBatch
  <1>1. batch \in OrgBatch
    BY DEF TypeOK
  <1> QED
    BY <1>1 DEF OrgBatch

LEMMA FaultsType ==
  ASSUME TypeOK, NEW ok \in BOOLEAN, Statement(ok)
  PROVE  /\ faults' \in 0 .. MaxFaults /\ faults <= faults'
         /\ ok => faults' = faults
         /\ ~ok => faults' # 0
  BY OrgAssumption DEF OrgAssumption, TypeOK, Statement

LEMMA GotoType ==
  ASSUME TypeOK, NEW h \in Hosts, NEW step \in Steps, NEW st \in RowStatus, Goto(h, step, st)
  PROVE  pc' \in [Hosts -> Steps] /\ mem' \in [Hosts -> RowStatus]
  BY DEF TypeOK, Goto

LEMMA RowType ==
  ASSUME TypeOK, NEW h \in Hosts
  PROVE  /\ mem[h] \in RowStatus
         /\ \A st \in RowStatus : [row EXCEPT ![h] = st] \in [Hosts -> RowStatus]
  BY DEF TypeOK

\* The goroutine of one host.
LEMMA TypeHost ==
  ASSUME TypeOK, NEW h \in Hosts,
         (\E g \in Regions : CreateRow(g, h)) \/ Send(h) \/ SaveCommand(h) \/ WaitForDone(h)
           \/ SaveOutcome(h) \/ Tally(h)
  PROVE  TypeOK'
  <1>1. ASSUME NEW g \in Regions, CreateRow(g, h) PROVE TypeOK'
    <2>1. pc' \in [Hosts -> Steps] /\ mem' \in [Hosts -> RowStatus]
      BY <1>1, GotoType DEF CreateRow, Steps, RowStatus
    <2>2. row' \in [Hosts -> RowStatus]
      BY <1>1, RowType DEF CreateRow, RowStatus, TypeOK
    <2>3. faults' \in 0 .. MaxFaults
      BY <1>1, FaultsType DEF CreateRow
    <2> QED
      BY <1>1, <2>1, <2>2, <2>3 DEF CreateRow, TypeOK
  <1>2. CASE Send(h)
    <2>1. pc' \in [Hosts -> Steps] /\ mem' \in [Hosts -> RowStatus]
      BY <1>2, GotoType, RowType DEF Send, Steps, RowStatus
    <2>2. ssm' \in [Hosts -> {"none", "InProgress"} \cup Ended]
      BY <1>2 DEF Send, TypeOK
    <2> QED
      BY <1>2, <2>1, <2>2 DEF Send, TypeOK
  <1>3. CASE SaveCommand(h)
    <2>1. pc' \in [Hosts -> Steps] /\ mem' \in [Hosts -> RowStatus]
      BY <1>3, GotoType, RowType DEF SaveCommand, Steps
    <2>2. row' \in [Hosts -> RowStatus]
      BY <1>3, RowType DEF SaveCommand, TypeOK
    <2>3. faults' \in 0 .. MaxFaults
      BY <1>3, FaultsType DEF SaveCommand
    <2> QED
      BY <1>3, <2>1, <2>2, <2>3 DEF SaveCommand, TypeOK
  <1>4. CASE WaitForDone(h)
    <2>1. pc' \in [Hosts -> Steps] /\ mem' \in [Hosts -> RowStatus]
      BY <1>4, GotoType DEF WaitForDone, Steps, RowStatus
    <2> QED
      BY <1>4, <2>1 DEF WaitForDone, TypeOK
  <1>5. CASE SaveOutcome(h)
    <2>1. pc' \in [Hosts -> Steps] /\ mem' \in [Hosts -> RowStatus]
      BY <1>5, GotoType, RowType DEF SaveOutcome, Steps
    <2>2. row' \in [Hosts -> RowStatus]
      BY <1>5, RowType DEF SaveOutcome, TypeOK
    <2>3. faults' \in 0 .. MaxFaults
      BY <1>5, FaultsType DEF SaveOutcome
    <2> QED
      BY <1>5, <2>1, <2>2, <2>3 DEF SaveOutcome, TypeOK
  <1>6. CASE Tally(h)
    <2>1. pc' \in [Hosts -> Steps] /\ mem' \in [Hosts -> RowStatus]
      BY <1>6, GotoType DEF Tally, Steps, RowStatus
    <2>2. batch' \in OrgBatch
      BY <1>6, BatchType DEF Tally, TypeOK
    <2>3. faults' \in 0 .. MaxFaults
      BY <1>6, FaultsType DEF Tally
    <2> QED
      BY <1>6, <2>1, <2>2, <2>3 DEF Tally, TypeOK
  <1> QED
    BY <1>1, <1>2, <1>3, <1>4, <1>5, <1>6

\* The call of one region.
LEMMA TypeRegion ==
  ASSUME TypeOK, NEW g \in Regions, ListRegion(g) \/ CountRegion(g) \/ RegionDone(g)
  PROVE  TypeOK'
  <1>1. CASE ListRegion(g)
    BY <1>1 DEF ListRegion, TypeOK
  <1>2. CASE CountRegion(g)
    <2>1. batch' \in OrgBatch /\ faults' \in 0 .. MaxFaults
      BY <1>2, BatchType, FaultsType, TargetsFinite DEF CountRegion, TypeOK
    <2>2. pc' \in [Hosts -> Steps]
      BY <1>2 DEF CountRegion, TypeOK, Steps
    <2> QED
      BY <1>2, <2>1, <2>2 DEF CountRegion, TypeOK
  <1>3. CASE RegionDone(g)
    BY <1>3 DEF RegionDone, TypeOK
  <1> QED
    BY <1>1, <1>2, <1>3

\* The head and the end of the run.
LEMMA TypeRun ==
  ASSUME TypeOK, StartBatch \/ MarkRunning \/ VisitEnds \/ Abort \/ FinalLoad \/ FinalStore
  PROVE  TypeOK'
  <1>1. batch \in OrgBatch /\ verdict \in Terminal \cup {"none"} /\ faults \in 0 .. MaxFaults
    BY DEF TypeOK
  <1>2. CASE StartBatch
    BY <1>2, BatchType DEF StartBatch, TypeOK
  <1>3. CASE MarkRunning
    <2>1. batch' \in OrgBatch /\ faults' \in 0 .. MaxFaults
      BY <1>3, <1>1, BatchType, FaultsType DEF MarkRunning
    <2> QED
      BY <1>3, <2>1 DEF MarkRunning, TypeOK
  <1>4. CASE VisitEnds
    BY <1>4 DEF VisitEnds, TypeOK
  <1>5. CASE Abort
    <2>1. batch' \in OrgBatch /\ faults' \in 0 .. MaxFaults
      BY <1>5, <1>1, BatchType, FaultsType DEF Abort, Terminal
    <2> QED
      BY <1>5, <2>1 DEF Abort, TypeOK
  <1>6. CASE FinalLoad
    <2>1. faults' \in 0 .. MaxFaults
      BY <1>6, FaultsType DEF FinalLoad
    <2>2. verdict' \in Terminal \cup {"none"}
      BY <1>1, <1>6 DEF FinalLoad, Terminal
    <2> QED
      BY <1>6, <2>1, <2>2 DEF FinalLoad, TypeOK
  <1>7. CASE FinalStore
    <2>1. faults' \in 0 .. MaxFaults
      BY <1>7, FaultsType DEF FinalStore
    <2>2. batch' \in OrgBatch
      BY <1>1, <1>7, BatchType DEF FinalStore
    <2> QED
      BY <1>7, <2>1, <2>2 DEF FinalStore, TypeOK
  <1> QED
    BY <1>2, <1>3, <1>4, <1>5, <1>6, <1>7

LEMMA TypeInit == Init => TypeOK
  BY OrgAssumption DEF OrgAssumption, Init, TypeOK, OrgBatch, RowStatus, Steps, Terminal

LEMMA TypeNext == TypeOK /\ [Next]_vars => TypeOK'
  <1> SUFFICES ASSUME TypeOK, [Next]_vars PROVE TypeOK'
    OBVIOUS
  <1>1. ASSUME NEW h \in Hosts, SsmEnds(h) PROVE TypeOK'
    BY <1>1 DEF SsmEnds, TypeOK, Ended
  <1>2. CASE UNCHANGED vars
    BY <1>2 DEF vars, TypeOK
  <1> QED
    BY <1>1, <1>2, TypeHost, TypeRegion, TypeRun DEF Next, Job

\* Every variable of an organisation-wide batch keeps its type.
THEOREM OrgTypeCorrect == Spec => []TypeOK
  BY TypeInit, TypeNext, PTL DEF Spec

-----------------------------------------------------------------------------
(* Nothing is sent without a row.                                          *)

\* A host without a row has no command, and its goroutine is not past the insert;
\* one that is past it holds an execution to write over the row.
RecordInv ==
  \A h \in Hosts :
    /\ row[h] = "none" => ssm[h] = "none"
    /\ pc[h] \in {"send", "saveCmd", "wait", "save"} => row[h] # "none" /\ mem[h] # "none"

LEMMA RecordInit == Init => RecordInv
  BY DEF Init, RecordInv

LEMMA RecordHost ==
  ASSUME TypeOK, RecordInv, NEW h \in Hosts,
         (\E g \in Regions : CreateRow(g, h)) \/ Send(h) \/ SaveCommand(h) \/ WaitForDone(h)
           \/ SaveOutcome(h) \/ Tally(h)
  PROVE  RecordInv'
  <1> USE DEF TypeOK, RecordInv, Goto
  <1>1. ASSUME NEW g \in Regions, CreateRow(g, h) PROVE RecordInv'
    BY <1>1 DEF CreateRow
  <1>2. CASE Send(h)
    BY <1>2 DEF Send
  <1>3. CASE SaveCommand(h)
    BY <1>3 DEF SaveCommand
  <1>4. CASE WaitForDone(h)
    BY <1>4 DEF WaitForDone, Ended
  <1>5. CASE SaveOutcome(h)
    BY <1>5 DEF SaveOutcome
  <1>6. CASE Tally(h)
    BY <1>6 DEF Tally
  <1> QED
    BY <1>1, <1>2, <1>3, <1>4, <1>5, <1>6

LEMMA RecordNext == TypeOK /\ RecordInv /\ [Next]_vars => RecordInv'
  <1> SUFFICES ASSUME TypeOK, RecordInv, [Next]_vars PROVE RecordInv'
    OBVIOUS
  <1>1. ASSUME NEW g \in Regions, CountRegion(g) PROVE RecordInv'
    BY <1>1 DEF CountRegion, RecordInv, TypeOK
  <1>2. ASSUME NEW g \in Regions, ListRegion(g) \/ RegionDone(g) PROVE RecordInv'
    BY <1>2 DEF ListRegion, RegionDone, RecordInv
  <1>3. CASE StartBatch \/ MarkRunning \/ VisitEnds \/ Abort \/ FinalLoad \/ FinalStore
    BY <1>3 DEF StartBatch, MarkRunning, VisitEnds, Abort, FinalLoad, FinalStore, RecordInv
  <1>4. ASSUME NEW h \in Hosts, SsmEnds(h) PROVE RecordInv'
    BY <1>4 DEF SsmEnds, RecordInv, TypeOK
  <1>5. CASE UNCHANGED vars
    BY <1>5 DEF vars, RecordInv
  <1> QED
    BY <1>1, <1>2, <1>3, <1>4, <1>5, RecordHost DEF Next, Job

\* No command runs on a host of which the database knows nothing, whatever
\* statements fail.
THEOREM OrgSentIsRecordedCorrect == Spec => []SentIsRecorded
  <1>1. Init => TypeOK /\ RecordInv
    BY TypeInit, RecordInit
  <1>2. TypeOK /\ RecordInv /\ [Next]_vars => TypeOK' /\ RecordInv'
    BY TypeNext, RecordNext
  <1>3. RecordInv => SentIsRecorded
    BY DEF RecordInv, SentIsRecorded
  <1> QED
    BY <1>1, <1>2, <1>3, PTL DEF Spec

-----------------------------------------------------------------------------
(* The end comes after the last host.                                      *)

\* How far a region's call is tells how far its hosts are; no host belongs to
\* two regions.
VisitInv ==
  /\ \A g \in Regions :
       /\ visit[g] = "waiting" => targets[g] = {}
       /\ visit[g] = "found" => targets[g] # {} /\ \A h \in targets[g] : pc[h] = "none"
       /\ visit[g] = "done" => \A h \in targets[g] : pc[h] = "done"
  /\ \A g, k \in Regions : g # k => targets[g] \cap targets[k] = {}
  /\ \A h \in Hosts : pc[h] # "none" => h \in Found

\* Behind the visit of the organisation no region's call is under way, and the
\* batch has its final status only when the run is over.
PhaseInv ==
  /\ phase \in {"idle", "mark"} => \A g \in Regions : visit[g] = "waiting"
  /\ phase \in {"abort", "load", "store", "done"} =>
       \A g \in Regions : visit[g] \in {"waiting", "done"}
  /\ batch.status \in Terminal => phase = "done"

\* Until a statement fails, a host that is about to be counted has the row it is
\* counted for.
Settled == {"failed"} \cup Ended

SettledInv ==
  faults = 0 => \A h \in Hosts :
    /\ pc[h] = "save" => mem[h] \in Settled
    /\ pc[h] = "tally" => mem[h] = row[h]
    /\ pc[h] \in {"tally", "done"} => row[h] \in Settled

QuietInv == VisitInv /\ PhaseInv /\ SettledInv

LEMMA QuietInit == Init => QuietInv
  BY DEF Init, QuietInv, VisitInv, PhaseInv, SettledInv, Found, Terminal

\* What the goroutine of a host may do to the others: nothing.
LEMMA HostMoves ==
  ASSUME TypeOK, NEW h \in Hosts,
         (\E g \in Regions : CreateRow(g, h)) \/ Send(h) \/ SaveCommand(h) \/ WaitForDone(h)
           \/ SaveOutcome(h) \/ Tally(h)
  PROVE  /\ pc[h] \notin {"none", "done"} /\ pc'[h] # "none"
         /\ pc' = [pc EXCEPT ![h] = pc'[h]]
         /\ \A x \in Hosts \ {h} : row'[x] = row[x] /\ mem'[x] = mem[x] /\ pc'[x] = pc[x]
         /\ UNCHANGED runVars /\ batch'.status = batch.status
         /\ batch'.total = batch.total
         /\ faults <= faults' /\ faults \in Nat
  <1> USE DEF Goto, TypeOK, OrgBatch
  <1>1. ASSUME NEW ok \in BOOLEAN, Statement(ok) PROVE faults <= faults'
    BY <1>1, FaultsType
  <1>2. faults \in Nat
    BY OrgAssumption DEF OrgAssumption
  <1>3. ASSUME NEW g \in Regions, CreateRow(g, h)
        PROVE /\ pc[h] = "queued" /\ \E st \in Steps \ {"none"} : pc' = [pc EXCEPT ![h] = st]
              /\ faults <= faults'
    BY <1>1, <1>3 DEF CreateRow, Steps
  <1>4. CASE \E g \in Regions : CreateRow(g, h)
    BY <1>2, <1>3, <1>4 DEF CreateRow
  <1>5. CASE Send(h)
    BY <1>2, <1>5 DEF Send
  <1>6. CASE SaveCommand(h)
    BY <1>1, <1>2, <1>6 DEF SaveCommand
  <1>7. CASE WaitForDone(h)
    BY <1>2, <1>7 DEF WaitForDone
  <1>8. CASE SaveOutcome(h)
    BY <1>1, <1>2, <1>8 DEF SaveOutcome
  <1>9. CASE Tally(h)
    BY <1>1, <1>2, <1>9 DEF Tally
  <1> QED
    BY <1>4, <1>5, <1>6, <1>7, <1>8, <1>9

LEMMA SettledHost ==
  ASSUME TypeOK, SettledInv, NEW h \in Hosts, faults' = 0,
         (\E g \in Regions : CreateRow(g, h)) \/ Send(h) \/ SaveCommand(h) \/ WaitForDone(h)
           \/ SaveOutcome(h) \/ Tally(h)
  PROVE  /\ faults = 0
         /\ pc'[h] = "save" => mem'[h] \in Settled
         /\ pc'[h] = "tally" => mem'[h] = row'[h]
         /\ pc'[h] \in {"tally", "done"} => row'[h] \in Settled
  <1>1. faults = 0
    BY HostMoves
  <1>2. ASSUME Statement(FALSE) PROVE FALSE
    BY <1>2, FaultsType
  <1> USE <1>1 DEF TypeOK, Goto, SettledInv, Settled
  <1>3. ASSUME NEW g \in Regions, CreateRow(g, h)
        PROVE  pc'[h] = "send"
    BY <1>2, <1>3 DEF CreateRow
  <1>4. CASE Send(h)
    BY <1>4 DEF Send
  <1>5. CASE SaveCommand(h)
    BY <1>5 DEF SaveCommand
  <1>6. CASE WaitForDone(h)
    BY <1>6 DEF WaitForDone
  <1>7. CASE SaveOutcome(h)
    <2>1. row' = [row EXCEPT ![h] = mem[h]] /\ pc[h] = "save"
      BY <1>2, <1>7 DEF SaveOutcome
    <2> QED
      BY <1>7, <2>1 DEF SaveOutcome
  <1>8. CASE Tally(h)
    BY <1>8 DEF Tally
  <1> QED
    BY <1>3, <1>4, <1>5, <1>6, <1>7, <1>8

LEMMA QuietHost ==
  ASSUME TypeOK, QuietInv, NEW h \in Hosts,
         (\E g \in Regions : CreateRow(g, h)) \/ Send(h) \/ SaveCommand(h) \/ WaitForDone(h)
           \/ SaveOutcome(h) \/ Tally(h)
  PROVE  QuietInv'
  <1>1. /\ pc[h] \notin {"none", "done"} /\ pc'[h] # "none"
        /\ \A x \in Hosts \ {h} : row'[x] = row[x] /\ mem'[x] = mem[x] /\ pc'[x] = pc[x]
        /\ UNCHANGED runVars /\ batch'.status = batch.status
        /\ faults <= faults' /\ faults \in Nat
    BY HostMoves
  <1>2. Found' = Found /\ \A g \in Regions : targets[g] \subseteq Hosts
    BY <1>1 DEF Found, TypeOK
  <1>3. VisitInv'
    BY <1>1, <1>2 DEF QuietInv, VisitInv
  <1>4. PhaseInv'
    BY <1>1 DEF QuietInv, PhaseInv
  <1>5. SettledInv'
    <2> SUFFICES ASSUME faults' = 0, NEW x \in Hosts
                 PROVE  /\ pc'[x] = "save" => mem'[x] \in Settled
                        /\ pc'[x] = "tally" => mem'[x] = row'[x]
                        /\ pc'[x] \in {"tally", "done"} => row'[x] \in Settled
      BY DEF SettledInv, Settled
    <2>1. faults = 0 /\ SettledInv
      BY <1>1 DEF QuietInv
    <2>2. CASE x = h
      BY <2>1, <2>2, SettledHost
    <2>3. CASE x # h
      BY <1>1, <2>1, <2>3 DEF SettledInv
    <2> QED
      BY <2>2, <2>3
  <1> QED
    BY <1>3, <1>4, <1>5 DEF QuietInv

LEMMA QuietRegion ==
  ASSUME TypeOK, QuietInv, NEW g \in Regions, ListRegion(g) \/ CountRegion(g) \/ RegionDone(g)
  PROVE  QuietInv'
  <1>1. \A k \in Regions : targets[k] \subseteq Hosts /\ targets[k] \subseteq Found
    BY DEF TypeOK, Found
  <1> USE DEF QuietInv
  <1>2. CASE ListRegion(g)
    <2>1. /\ phase = "visit" /\ visit[g] = "waiting" /\ targets[g] = {}
          /\ UNCHANGED <<batch, hostVars, phase, verdict, faults>>
      BY <1>2 DEF ListRegion, VisitInv
    <2>2. PhaseInv' /\ SettledInv'
      BY <2>1 DEF PhaseInv, SettledInv, Terminal
    <2>3. CASE visit' = [visit EXCEPT ![g] = "done"] /\ UNCHANGED targets
      <3>1. visit'[g] = "done" /\ \A k \in Regions \ {g} : visit'[k] = visit[k]
        BY <2>3 DEF TypeOK
      <3>2. Found' = Found
        BY <2>3 DEF Found
      <3>3. VisitInv'
        BY <2>1, <2>3, <3>1, <3>2 DEF VisitInv
      <3> QED
        BY <2>2, <3>3
    <2>4. ASSUME NEW hs \in (SUBSET (Hosts \ Found)) \ {{}},
                 targets' = [targets EXCEPT ![g] = hs], visit' = [visit EXCEPT ![g] = "found"]
          PROVE  VisitInv'
      <3>1. \A h \in hs : h \in Hosts /\ h \notin Found /\ pc[h] = "none"
        BY <2>4 DEF VisitInv
      <3>2. /\ targets'[g] = hs /\ visit'[g] = "found"
            /\ \A k \in Regions \ {g} : targets'[k] = targets[k] /\ visit'[k] = visit[k]
        BY <2>4 DEF TypeOK
      <3>3. Found \subseteq Found'
        BY <2>1, <3>2 DEF Found
      <3>4. \A k \in Regions \ {g} : targets[k] \cap hs = {}
        BY <1>1, <3>1
      <3>5. pc' = pc /\ hs # {}
        BY <2>1, <2>4
      <3>6. \A k \in Regions :
              /\ visit'[k] = "waiting" => targets'[k] = {}
              /\ visit'[k] = "found" => targets'[k] # {} /\ \A h \in targets'[k] : pc'[h] = "none"
              /\ visit'[k] = "done" => \A h \in targets'[k] : pc'[h] = "done"
        BY <3>1, <3>2, <3>5 DEF VisitInv
      <3>7. \A j, k \in Regions : j # k => targets'[j] \cap targets'[k] = {}
        BY <3>2, <3>4 DEF VisitInv
      <3>8. \A h \in Hosts : pc'[h] # "none" => h \in Found'
        BY <3>3, <3>5 DEF VisitInv
      <3> QED
        BY <3>6, <3>7, <3>8 DEF VisitInv
    <2> QED
      BY <1>2, <2>2, <2>3, <2>4 DEF ListRegion
  <1>3. CASE CountRegion(g)
    <2>1. /\ visit[g] = "found" /\ visit' = [visit EXCEPT ![g] = "fan"]
          /\ pc' = [h \in Hosts |-> IF h \in targets[g] THEN "queued" ELSE pc[h]]
          /\ UNCHANGED <<row, ssm, mem, phase, targets, verdict>>
          /\ batch'.status = batch.status
      BY <1>3 DEF CountRegion, TypeOK, OrgBatch
    <2>2. faults <= faults' /\ faults \in Nat
      BY <1>3, FaultsType, OrgAssumption DEF CountRegion, TypeOK, OrgAssumption
    <2>3. Found' = Found
      BY <2>1 DEF Found
    <2>4. /\ visit'[g] = "fan" /\ \A k \in Regions \ {g} : visit'[k] = visit[k]
          /\ \A h \in targets[g] : pc'[h] = "queued" /\ h \in Found
          /\ \A h \in Hosts \ targets[g] : pc'[h] = pc[h]
      BY <1>1, <2>1 DEF TypeOK
    <2>5. \A k \in Regions \ {g} : \A h \in targets[k] : pc'[h] = pc[h]
      BY <1>1, <2>4 DEF VisitInv
    <2>6. VisitInv'
      BY <2>1, <2>3, <2>4, <2>5 DEF VisitInv
    <2>7. PhaseInv'
      BY <2>1, <2>4 DEF PhaseInv, TypeOK
    <2>8. SettledInv'
      BY <2>1, <2>2, <2>4 DEF SettledInv
    <2> QED
      BY <2>6, <2>7, <2>8
  <1>4. CASE RegionDone(g)
    <2>1. /\ visit[g] = "fan" /\ visit' = [visit EXCEPT ![g] = "done"]
          /\ \A h \in targets[g] : pc[h] = "done"
          /\ UNCHANGED <<batch, hostVars, phase, targets, verdict, faults>>
      BY <1>4 DEF RegionDone
    <2>2. VisitInv'
      BY <2>1 DEF VisitInv, Found, TypeOK
    <2>3. PhaseInv' /\ SettledInv'
      BY <2>1 DEF PhaseInv, SettledInv, TypeOK, Terminal
    <2> QED
      BY <2>2, <2>3
  <1> QED
    BY <1>2, <1>3, <1>4

LEMMA QuietRun ==
  ASSUME TypeOK, QuietInv,
         StartBatch \/ MarkRunning \/ VisitEnds \/ Abort \/ FinalLoad \/ FinalStore
  PROVE  QuietInv'
  <1> USE DEF QuietInv
  <1>1. UNCHANGED <<hostVars, visit, targets>>
    BY DEF StartBatch, MarkRunning, VisitEnds, Abort, FinalLoad, FinalStore
  <1>2. VisitInv'
    BY <1>1 DEF VisitInv, Found
  <1>3. faults <= faults' /\ faults \in Nat
    <2>1. faults \in Nat
      BY OrgAssumption DEF OrgAssumption, TypeOK
    <2>2. CASE StartBatch \/ VisitEnds
      BY <2>1, <2>2 DEF StartBatch, VisitEnds
    <2>3. CASE MarkRunning \/ Abort \/ FinalLoad \/ FinalStore
      BY <2>1, <2>3, FaultsType DEF MarkRunning, Abort, FinalLoad, FinalStore
    <2> QED
      BY <2>2, <2>3
  <1>4. SettledInv'
    BY <1>1, <1>3 DEF SettledInv
  <1>5. PhaseInv'
    <2> USE <1>1 DEF PhaseInv, Terminal, TypeOK, OrgBatch
    <2>1. CASE StartBatch
      BY <2>1 DEF StartBatch
    <2>2. CASE MarkRunning
      BY <2>2 DEF MarkRunning
    <2>3. CASE VisitEnds
      BY <2>3 DEF VisitEnds
    <2>4. CASE Abort
      BY <2>4 DEF Abort
    <2>5. CASE FinalLoad
      BY <2>5 DEF FinalLoad
    <2>6. CASE FinalStore
      BY <2>6 DEF FinalStore
    <2> QED
      BY <2>1, <2>2, <2>3, <2>4, <2>5, <2>6
  <1> QED
    BY <1>2, <1>4, <1>5

LEMMA QuietNext == TypeOK /\ QuietInv /\ [Next]_vars => QuietInv'
  <1> SUFFICES ASSUME TypeOK, QuietInv, [Next]_vars PROVE QuietInv'
    OBVIOUS
  <1>1. ASSUME NEW h \in Hosts, SsmEnds(h) PROVE QuietInv'
    BY <1>1 DEF SsmEnds, QuietInv, VisitInv, PhaseInv, SettledInv, Found
  <1>2. CASE UNCHANGED vars
    BY <1>2 DEF vars, QuietInv, VisitInv, PhaseInv, SettledInv, Found
  <1> QED
    BY <1>1, <1>2, QuietHost, QuietRegion, QuietRun DEF Next, Job

LEMMA QuietInvariant == Spec => [](TypeOK /\ QuietInv)
  <1>1. Init => TypeOK /\ QuietInv
    BY TypeInit, QuietInit
  <1>2. TypeOK /\ QuietInv /\ [Next]_vars => TypeOK' /\ QuietInv'
    BY TypeNext, QuietNext
  <1> QED
    BY <1>1, <1>2, PTL DEF Spec

\* A batch that has ended waits for no host of any region, and until a statement
\* fails every host found has a row that stays.
THEOREM EndedMeansQuietCorrect == Spec => []EndedMeansQuiet
  <1>1. TypeOK /\ QuietInv => EndedMeansQuiet
    <2> SUFFICES ASSUME TypeOK, QuietInv, batch.status \in Terminal
                 PROVE  /\ \A g \in Regions : visit[g] \in {"waiting", "done"}
                        /\ \A h \in Found : pc[h] = "done"
                             /\ (faults = 0 => row[h] \notin {"none", "running"})
      BY DEF EndedMeansQuiet
    <2>1. \A g \in Regions : visit[g] \in {"waiting", "done"}
      BY DEF QuietInv, PhaseInv
    <2>2. ASSUME NEW h \in Found PROVE h \in Hosts /\ pc[h] = "done"
      <3>1. PICK g \in Regions : h \in targets[g]
        BY DEF Found
      <3> QED
        BY <2>1, <3>1 DEF QuietInv, VisitInv, TypeOK
    <2>3. ASSUME NEW h \in Found, faults = 0 PROVE row[h] \notin {"none", "running"}
      BY <2>2, <2>3 DEF QuietInv, SettledInv, Settled, Ended
    <2> QED
      BY <2>1, <2>2, <2>3
  <1> QED
    BY <1>1, QuietInvariant, PTL

-----------------------------------------------------------------------------
(* The batch implements FanOut.                                            *)

Launched == {h \in Hosts : pc[h] # "none"}
Finished == {h \in Hosts : pc[h] = "done"}

\* Until a statement fails the counters are those of the goroutines, and the
\* status is that of the run.
CountInv ==
  faults = 0 =>
    /\ batch.total = Cardinality(Launched)
    /\ batch.completed + batch.failed = Cardinality(Finished)
    /\ phase = "idle" => batch.status = "none"
    /\ phase = "mark" => batch.status = "pending"
    /\ phase \in {"visit", "abort", "load", "store"} => batch.status = "running"
    /\ phase = "done" => batch.status \in Terminal
    /\ phase = "store" => verdict = IF batch.failed = batch.total /\ batch.total > 0
                                    THEN "failed" ELSE "completed"

LEMMA Counts ==
  /\ Launched \subseteq Hosts /\ Finished \subseteq Launched
  /\ IsFiniteSet(Launched) /\ IsFiniteSet(Finished)
  /\ Cardinality(Launched) \in Nat /\ Cardinality(Finished) \in Nat
  /\ Cardinality(Hosts) \in Nat
  <1>1. Launched \subseteq Hosts /\ Finished \subseteq Launched /\ Finished \subseteq Hosts
    BY DEF Launched, Finished
  <1>2. IsFiniteSet(Hosts)
    BY OrgAssumption DEF OrgAssumption
  <1> QED
    BY <1>1, <1>2, FS_Subset, FS_CardinalityType

\* Once no region's call is under way every host that was launched is done.
LEMMA AllFinished ==
  ASSUME TypeOK, VisitInv, \A g \in Regions : visit[g] \in {"waiting", "done"}
  PROVE  Launched = Finished
  <1> SUFFICES ASSUME NEW h \in Hosts, pc[h] # "none" PROVE pc[h] = "done"
    BY DEF Launched, Finished
  <1>1. PICK g \in Regions : h \in targets[g]
    BY DEF VisitInv, Found
  <1> QED
    BY <1>1 DEF VisitInv

LEMMA CountInit == Init => CountInv /\ Client!Init
  <1> SUFFICES ASSUME Init PROVE CountInv /\ Client!Init
    OBVIOUS
  <1>1. Launched = {} /\ Finished = {}
    BY DEF Init, Launched, Finished
  <1>2. Cardinality({}) = 0
    BY FS_EmptySet
  <1> QED
    BY <1>1, <1>2 DEF Init, CountInv, Client!Init

\* A host's goroutine changes the counters in its last step only.
LEMMA FanOutHost ==
  ASSUME TypeOK, QuietInv, CountInv, NEW h \in Hosts, faults' = 0,
         (\E g \in Regions : CreateRow(g, h)) \/ Send(h) \/ SaveCommand(h) \/ WaitForDone(h)
           \/ SaveOutcome(h) \/ Tally(h)
  PROVE  CountInv' /\ (Client!Next \/ UNCHANGED batch)
  <1>1. /\ pc[h] \notin {"none", "done"} /\ pc'[h] # "none" /\ faults = 0
        /\ \A x \in Hosts \ {h} : pc'[x] = pc[x]
        /\ UNCHANGED runVars /\ batch'.status = batch.status /\ batch'.total = batch.total
    BY HostMoves
  <1>2. Launched' = Launched
    BY <1>1 DEF Launched
  <1>3. ~Statement(FALSE)
    BY FaultsType
  <1>4. CASE Tally(h)
    <2>1. /\ pc[h] = "tally" /\ pc'[h] = "done"
          /\ batch' = IF mem[h] = "failed" THEN [batch EXCEPT !.failed = @ + 1]
                     ELSE [batch EXCEPT !.completed = @ + 1]
      BY <1>3, <1>4 DEF Tally, Goto, TypeOK
    <2>2. Finished' = Finished \cup {h} /\ h \notin Finished /\ h \in Launched
      BY <1>1, <2>1 DEF Finished, Launched
    <2>3. Cardinality(Finished') = Cardinality(Finished) + 1
      BY <2>2, Counts, FS_AddElement
    <2>4. Cardinality(Finished') <= Cardinality(Launched)
      <3>1. Finished' \subseteq Launched
        BY <2>2, Counts
      <3> QED
        BY <3>1, Counts, FS_Subset
    <2>5. batch \in OrgBatch
      BY DEF TypeOK
    <2>6. phase \notin {"idle", "mark", "abort", "load", "store", "done"}
      <3>1. Launched # Finished
        BY <2>2
      <3>2. h \in Found
        BY <1>1 DEF QuietInv, VisitInv
      <3>3. ~ \A g \in Regions : visit[g] \in {"waiting", "done"}
        BY <3>1, AllFinished DEF QuietInv
      <3> QED
        BY <3>3 DEF QuietInv, PhaseInv
    <2>7. phase = "visit"
      BY <2>6 DEF TypeOK
    <2>8. batch.status = "running" /\ batch.completed + batch.failed # batch.total
      BY <1>1, <2>3, <2>4, <2>7, Counts DEF CountInv
    <2>9. \/ batch'.completed = batch.completed + 1 /\ batch'.failed = batch.failed
          \/ batch'.failed = batch.failed + 1 /\ batch'.completed = batch.completed
      BY <2>1, <2>5 DEF OrgBatch
    <2>10. Client!Next
      BY <1>1, <2>8, <2>9 DEF Client!Next, Client!Report, Client!AllReported
    <2>11. CountInv'
      <3>1. batch'.completed + batch'.failed = Cardinality(Finished')
        BY <1>1, <2>3, <2>5, <2>9, Counts DEF CountInv, OrgBatch
      <3>2. batch'.total = Cardinality(Launched') /\ phase' = "visit"
            /\ batch'.status = "running"
        BY <1>1, <1>2, <2>7, <2>8 DEF CountInv
      <3> QED
        BY <3>1, <3>2 DEF CountInv
    <2> QED
      BY <2>10, <2>11
  <1>5. CASE ~Tally(h)
    <2>1. UNCHANGED batch
      BY <1>5 DEF CreateRow, Send, SaveCommand, WaitForDone, SaveOutcome
    <2>2. pc'[h] # "done"
      BY <1>5 DEF CreateRow, Send, SaveCommand, WaitForDone, SaveOutcome, Goto, TypeOK
    <2>3. Finished' = Finished
      BY <1>1, <2>2 DEF Finished
    <2> QED
      BY <1>1, <1>2, <2>1, <2>3 DEF CountInv
  <1> QED
    BY <1>4, <1>5

\* A region adds its hosts to the total, at most those there are.
LEMMA FanOutRegion ==
  ASSUME TypeOK, QuietInv, CountInv, NEW g \in Regions, faults' = 0,
         ListRegion(g) \/ CountRegion(g) \/ RegionDone(g)
  PROVE  CountInv' /\ (Client!Next \/ UNCHANGED batch)
  <1>1. CASE ListRegion(g) \/ RegionDone(g)
    <2>1. UNCHANGED <<batch, pc, phase, verdict, faults>>
      BY <1>1 DEF ListRegion, RegionDone
    <2> QED
      BY <2>1 DEF CountInv, Launched, Finished
  <1>2. CASE CountRegion(g)
    <2>1. faults = 0
      BY <1>2, FaultsType, OrgAssumption DEF CountRegion, TypeOK, OrgAssumption
    <2>2. ~Statement(FALSE)
      BY FaultsType
    <2>3. /\ batch' = [batch EXCEPT !.total = @ + Cardinality(targets[g])]
          /\ visit[g] = "found"
          /\ pc' = [h \in Hosts |-> IF h \in targets[g] THEN "queued" ELSE pc[h]]
          /\ UNCHANGED <<phase, verdict>>
      BY <1>2, <2>2 DEF CountRegion
    <2>4. /\ targets[g] # {} /\ targets[g] \subseteq Hosts
          /\ \A h \in targets[g] : pc[h] = "none"
      BY <2>3 DEF QuietInv, VisitInv, TypeOK
    <2>5. Launched' = Launched \cup targets[g] /\ Launched \cap targets[g] = {}
          /\ Finished' = Finished
      BY <2>3, <2>4 DEF Launched, Finished
    <2>6. IsFiniteSet(targets[g]) /\ Cardinality(targets[g]) \in Nat
          /\ Cardinality(targets[g]) # 0
      <3>1. IsFiniteSet(targets[g])
        BY <2>4, FS_Subset, OrgAssumption DEF OrgAssumption
      <3> QED
        BY <2>4, <3>1, FS_EmptySet, FS_CardinalityType
    <2>7. Cardinality(Launched') = Cardinality(Launched) + Cardinality(targets[g])
      <3>1. Cardinality(Launched \cap targets[g]) = 0
        BY <2>5, FS_EmptySet
      <3>2. IsFiniteSet(Launched) /\ Cardinality(Launched) \in Nat
        BY Counts
      <3>3. Cardinality(Launched \cup targets[g])
              = Cardinality(Launched) + Cardinality(targets[g])
                  - Cardinality(Launched \cap targets[g])
        BY <2>6, <3>2, FS_Union, Zenon
      <3> QED
        BY <2>5, <2>6, <3>1, <3>2, <3>3
    <2>8. Cardinality(Launched') <= Cardinality(Hosts)
      <3>1. Launched' \subseteq Hosts /\ IsFiniteSet(Hosts)
        BY <2>4, <2>5, Counts, OrgAssumption DEF OrgAssumption
      <3> QED
        BY <3>1, FS_Subset
    <2>9. batch \in OrgBatch
      BY DEF TypeOK
    <2>10. /\ batch'.total = batch.total + Cardinality(targets[g])
           /\ batch'.status = batch.status /\ batch'.completed = batch.completed
           /\ batch'.failed = batch.failed
      BY <2>3, <2>9 DEF OrgBatch
    <2>11. phase = "visit"
      BY <2>3 DEF QuietInv, PhaseInv, TypeOK
    <2>12. batch.status = "running" /\ batch.total = Cardinality(Launched)
      BY <2>1, <2>11 DEF CountInv
    <2>13. Cardinality(targets[g]) \in 1 .. Cardinality(Hosts) - batch.total
      BY <2>6, <2>7, <2>8, <2>12, Counts
    <2>14. Client!Next
      BY <2>10, <2>12, <2>13 DEF Client!Next, Client!Discover
    <2>15. CountInv'
      BY <2>1, <2>3, <2>5, <2>7, <2>10, <2>11, <2>12 DEF CountInv
    <2> QED
      BY <2>14, <2>15
  <1> QED
    BY <1>1, <1>2

\* The run takes up the job, and ends it when nothing is under way.
LEMMA FanOutRun ==
  ASSUME TypeOK, QuietInv, CountInv, faults' = 0,
         StartBatch \/ MarkRunning \/ VisitEnds \/ Abort \/ FinalLoad \/ FinalStore
  PROVE  CountInv' /\ (Client!Next \/ UNCHANGED batch)
  <1>1. Launched' = Launched /\ Finished' = Finished
    BY DEF StartBatch, MarkRunning, VisitEnds, Abort, FinalLoad, FinalStore, Launched, Finished
  <1>2. ~Statement(FALSE)
    BY FaultsType
  <1>3. faults = 0
    <2>1. CASE StartBatch \/ VisitEnds
      BY <2>1 DEF StartBatch, VisitEnds
    <2>2. CASE MarkRunning \/ Abort \/ FinalLoad \/ FinalStore
      BY <1>2, <2>2 DEF MarkRunning, Abort, FinalLoad, FinalStore, Statement
    <2> QED
      BY <2>1, <2>2
  <1>4. ASSUME NEW st
        PROVE  LET b == [batch EXCEPT !.status = st]
               IN  /\ b.status = st /\ b.total = batch.total
                   /\ b.completed = batch.completed /\ b.failed = batch.failed
    BY DEF TypeOK, OrgBatch
  <1>5. ASSUME phase \in {"abort", "load", "store"}
        PROVE  batch.completed + batch.failed = batch.total /\ batch.status = "running"
    <2>1. Launched = Finished
      BY <1>5, AllFinished DEF QuietInv, PhaseInv
    <2> QED
      BY <1>3, <1>5, <2>1 DEF CountInv
  <1>6. CASE StartBatch
    <2>1. batch' = [batch EXCEPT !.status = "pending"] /\ phase = "idle" /\ phase' = "mark"
      BY <1>6 DEF StartBatch
    <2>2. CountInv'
      BY <1>1, <1>3, <1>4, <2>1 DEF CountInv
    <2>3. Client!Next
      BY <1>3, <1>4, <2>1 DEF CountInv, Client!Next, Client!Accept
    <2> QED
      BY <2>2, <2>3
  <1>7. CASE MarkRunning
    <2>1. batch' = [batch EXCEPT !.status = "running"] /\ phase = "mark" /\ phase' = "visit"
      BY <1>2, <1>7 DEF MarkRunning
    <2>2. CountInv'
      BY <1>1, <1>3, <1>4, <2>1 DEF CountInv
    <2>3. Client!Next
      BY <1>3, <1>4, <2>1 DEF CountInv, Client!Next, Client!Begin
    <2> QED
      BY <2>2, <2>3
  <1>8. CASE VisitEnds
    <2>1. phase = "visit" /\ phase' \in {"load", "abort"} /\ UNCHANGED <<batch, verdict>>
      BY <1>8 DEF VisitEnds
    <2> QED
      BY <1>1, <1>3, <2>1 DEF CountInv
  <1>9. CASE Abort
    <2>1. batch' = [batch EXCEPT !.status = "failed"] /\ phase = "abort" /\ phase' = "done"
      BY <1>2, <1>9 DEF Abort
    <2>2. CountInv'
      BY <1>1, <1>3, <1>4, <2>1 DEF CountInv, Terminal
    <2>3. Client!Next
      BY <1>4, <1>5, <2>1 DEF Client!Next, Client!Finish, Client!AllReported
    <2> QED
      BY <2>2, <2>3
  <1>10. CASE FinalLoad
    <2>1. /\ phase = "load" /\ phase' = "store" /\ UNCHANGED batch
          /\ verdict' = IF batch.failed = batch.total /\ batch.total > 0
                       THEN "failed" ELSE "completed"
      BY <1>2, <1>10 DEF FinalLoad
    <2> QED
      BY <1>1, <1>3, <2>1 DEF CountInv
  <1>11. CASE FinalStore
    <2>1. batch' = [batch EXCEPT !.status = verdict] /\ phase = "store" /\ phase' = "done"
      BY <1>2, <1>11 DEF FinalStore
    <2>2. verdict = IF batch.failed = batch.total /\ batch.total > 0
                    THEN "failed" ELSE "completed"
      BY <1>3, <2>1 DEF CountInv
    <2>3. CountInv'
      BY <1>1, <1>3, <1>4, <2>1, <2>2 DEF CountInv, Terminal
    <2>4. Client!Next
      BY <1>4, <1>5, <2>1, <2>2 DEF Client!Next, Client!Finish, Client!AllReported
    <2> QED
      BY <2>3, <2>4
  <1> QED
    BY <1>6, <1>7, <1>8, <1>9, <1>10, <1>11

LEMMA FanOutNext ==
  TypeOK /\ QuietInv /\ CountInv /\ [Next]_vars =>
    CountInv' /\ [faults' = 0 => Client!Next]_batch
  <1> SUFFICES ASSUME TypeOK, QuietInv, CountInv, [Next]_vars
               PROVE  CountInv' /\ [faults' = 0 => Client!Next]_batch
    OBVIOUS
  <1>1. CASE faults' # 0
    BY <1>1 DEF CountInv
  <1>2. ASSUME faults' = 0, NEW h \in Hosts, SsmEnds(h) PROVE CountInv' /\ UNCHANGED batch
    BY <1>2 DEF SsmEnds, CountInv, Launched, Finished
  <1>3. CASE UNCHANGED vars
    BY <1>3 DEF vars, CountInv, Launched, Finished
  <1> QED
    BY <1>1, <1>2, <1>3, FanOutHost, FanOutRegion, FanOutRun DEF Next, Job

\* An organisation-wide batch is a FanOut until a statement fails: no more hosts
\* reported than found, and the end when all are in.
THEOREM FanOutCorrect == Spec => FanOutSpec
  <1>1. Init => CountInv /\ Client!Init
    BY CountInit
  <1>2. TypeOK /\ QuietInv /\ CountInv /\ [Next]_vars =>
          CountInv' /\ [faults' = 0 => Client!Next]_batch
    BY FanOutNext
  <1> QED
    BY <1>1, <1>2, QuietInvariant, PTL DEF Spec, FanOutSpec
=============================================================================
