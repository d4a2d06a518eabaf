-------------------------- MODULE DelegateWalk_proofs --------------------------
(***************************************************************************)
(* Proofs about DelegateWalk, for any number of predecessors, keys and     *)
(* sessions, any policy, and any pattern of faults, crashes and faulty     *)
(* exports.                                                                *)
(***************************************************************************)
EXTENDS DelegateWalk, TLAPS

-------------------------------------------------------------------------------
(* Type correctness.                                                          *)

LEMMA CurrentGeneration ==
  ASSUME TypeOK, NEW s \in Session, pc[s] # "idle"
  PROVE  cur[s] \in Gen
BY WalkAssumption DEF TypeOK, Gen

\* A step that pushes a row for the current predecessor, of whatever kind.
Reports(s) ==
  \E kind \in Row, terminated \in BOOLEAN, keys \in SUBSET Key :
    Report(s, kind, terminated, keys)

\* What it leaves of the volatile state, as far as types go.
LEMMA ReportType ==
  ASSUME TypeOK, NEW s \in Session, pc[s] # "idle", Reports(s)
  PROVE  /\ pc' \in [Session -> {"idle", "marker", "probe", "fetch", "begin", "items", "seal"}]
         /\ cur' \in [Session -> 0..N]
         /\ \A t \in Session : (cur'[t] = 0) <=> (pc'[t] = "idle")
         /\ prior' \in [Session -> BOOLEAN]
         /\ items' \in [Session -> SUBSET Key]
         /\ withheld' \in [Session -> SUBSET Key]
         /\ row' \in [Session -> [Gen -> Row]]
<1>1. PICK kind \in Row, terminated \in BOOLEAN, keys \in SUBSET Key :
        Report(s, kind, terminated, keys)
  BY DEF Reports
<1>2. cur[s] \in Gen
  BY CurrentGeneration
<1>3. row' \in [Session -> [Gen -> Row]]
  BY <1>1 DEF Report, TypeOK, Row
<1>4. QED
  BY <1>1, <1>2, <1>3, WalkAssumption DEF Report, TypeOK, Gen

LEMMA PolicyAnswersBoolean ==
  \A flag \in BOOLEAN : /\ DataBearingIsAuthoritative(Policy, flag) \in BOOLEAN
                        /\ UnresponsiveTerminates(Policy, flag) \in BOOLEAN
BY DEF DataBearingIsAuthoritative, UnresponsiveTerminates, SnapshotPolicy

LEMMA UnresponsiveReports ==
  ASSUME TypeOK, NEW s \in Session, Unresponsive(s)
  PROVE  Reports(s)
<1>1. UnresponsiveTerminates(Policy, prior[s]) \in BOOLEAN
  BY PolicyAnswersBoolean DEF TypeOK
<1>2. withheld[s] \in SUBSET Key /\ "unresponsive" \in Row
  BY DEF TypeOK, Row
<1>3. QED
  BY <1>1, <1>2 DEF Unresponsive, Reports

LEMMA AuthorityReports ==
  ASSUME TypeOK, NEW s \in Session, NEW kind \in Row, NEW keys \in SUBSET Key,
         Report(s, kind, DataBearingIsAuthoritative(Policy, SawData(s)), keys)
  PROVE  Reports(s)
<1>1. SawData(s) \in BOOLEAN
  BY DEF SawData, TypeOK
<1>2. DataBearingIsAuthoritative(Policy, SawData(s)) \in BOOLEAN
  BY <1>1, PolicyAnswersBoolean
<1>3. QED
  BY <1>2 DEF Reports

LEMMA TallyAsType ==
  ASSUME TypeOK, NEW s \in Session, NEW k \in Key, NEW outcome \in Outcome,
         pc[s] # "idle", TallyAs(s, k, outcome)
  PROVE  tally' \in [Session -> [Gen -> [Key -> Outcome]]]
BY CurrentGeneration DEF TypeOK, TallyAs

LEMMA LandType ==
  ASSUME TypeOK, NEW g \in Gen, NEW keys
  PROVE  Land(g, keys) \in [Key -> Value]
BY WalkAssumption DEF TypeOK, Land, Gen, Value

LEMMA InitType == Init => TypeOK
<1> SUFFICES ASSUME Init PROVE TypeOK
  OBVIOUS
<1>1. store \in [Key -> Value]
  BY WalkAssumption DEF Init, Value, Own, Absent
<1>2. legacy \subseteq Gen
  BY WalkAssumption DEF Init
<1>3. QED
  BY <1>1, <1>2, WalkAssumption DEF Init, TypeOK, MarkerValue, Untallied, Outcome, Row

\* A step of the type invariant, one case per action.
LEMMA StepType == TypeOK /\ [Next]_vars => TypeOK'
<1> SUFFICES ASSUME TypeOK, [Next]_vars PROVE TypeOK'
  OBVIOUS
<1>1. ASSUME NEW s \in Session, StartRun(s) PROVE TypeOK'
  BY <1>1, WalkAssumption
     DEF StartRun, TypeOK, durable, Untallied, Outcome, Row
<1>2. ASSUME NEW s \in Session, ReadMigrationMarker(s) PROVE TypeOK'
  <2>1. CASE IsDone(Marker(cur[s]))
    <3>1. Report(s, "alreadyMigrated",
              DataBearingIsAuthoritative(Policy, Marker(cur[s]) = "doneData"), withheld[s])
      BY <1>2, <2>1 DEF ReadMigrationMarker
    <3>2. Reports(s)
      BY <3>1, PolicyAnswersBoolean DEF Reports, Row, TypeOK
    <3>3. QED
      BY <1>2, <3>2, ReportType DEF ReadMigrationMarker, TypeOK, durable
  <2>2. CASE ~IsDone(Marker(cur[s]))
    BY <1>2, <2>2 DEF ReadMigrationMarker, GoTo, TypeOK, durable
  <2>3. QED
    BY <2>1, <2>2
<1>3. ASSUME NEW s \in Session, MarkerUnreadable(s) PROVE TypeOK'
  <2>1. Reports(s)
    BY <1>3 DEF MarkerUnreadable, WriterUnavailable, Reports, Row, TypeOK
  <2>2. QED
    BY <1>3, <2>1, ReportType DEF MarkerUnreadable, TypeOK, durable
<1>4. ASSUME NEW s \in Session, ProbeExecutable(s) PROVE TypeOK'
  BY <1>4 DEF ProbeExecutable, GoTo, TypeOK, durable
<1>5. ASSUME NEW s \in Session, NoAnswer(s) PROVE TypeOK'
  <2>1. Reports(s)
    BY <1>5, UnresponsiveReports DEF NoAnswer
  <2>2. QED
    BY <1>5, <2>1, ReportType DEF NoAnswer, TypeOK, durable
<1>6. ASSUME NEW s \in Session, FetchSecrets(s) PROVE TypeOK'
  <2>1. PICK exported \in Export(cur[s]) :
          \/ /\ prior[s] /\ exported = {}
             /\ Unresponsive(s)
          \/ /\ ~(prior[s] /\ exported = {})
             /\ items' = [items EXCEPT ![s] = exported]
             /\ GoTo(s, "begin")
             /\ UNCHANGED <<cur, prior, withheld, row>>
    BY <1>6 DEF FetchSecrets
  <2>2. exported \in SUBSET Key
    BY <1>6, CurrentGeneration DEF FetchSecrets, Export, TypeOK
  <2>3. CASE prior[s] /\ exported = {} /\ Unresponsive(s)
    BY <1>6, <2>3, UnresponsiveReports, ReportType DEF FetchSecrets, TypeOK, durable
  <2>4. QED
    BY <1>6, <2>1, <2>2, <2>3 DEF FetchSecrets, GoTo, TypeOK, durable
<1>7. ASSUME NEW s \in Session, RecordInProgress(s) PROVE TypeOK'
  BY <1>7, CurrentGeneration DEF RecordInProgress, GoTo, TypeOK, StickyInProgress, MarkerValue
<1>8. ASSUME NEW s \in Session, BeginMarkerFails(s) PROVE TypeOK'
  <2>1. Reports(s)
    BY <1>8 DEF BeginMarkerFails, WriterUnavailable, Reports, Row, TypeOK
  <2>2. QED
    BY <1>8, <2>1, ReportType DEF BeginMarkerFails, TypeOK, durable
<1>9. ASSUME NEW s \in Session, NEW k \in Key, WithholdItem(s, k) PROVE TypeOK'
  BY <1>9, TallyAsType DEF WithholdItem, TypeOK, durable, Outcome
<1>10. ASSUME NEW s \in Session, NEW k \in Key, WriteSecret(s, k) PROVE TypeOK'
  <2>1. store' \in [Key -> Value]
    BY <1>10, CurrentGeneration, WalkAssumption DEF WriteSecret, TypeOK, Value, Gen
  <2>2. tally' \in [Session -> [Gen -> [Key -> Outcome]]]
    BY <1>10, TallyAsType DEF WriteSecret, Outcome
  <2>3. QED
    BY <1>10, <2>1, <2>2 DEF WriteSecret, TypeOK
<1>11. ASSUME NEW s \in Session, NEW k \in Key, WriteFails(s, k) PROVE TypeOK'
  BY <1>11, TallyAsType DEF WriteFails, TypeOK, durable, Outcome
<1>12. ASSUME NEW s \in Session, Flush(s) PROVE TypeOK'
  <2>1. store' \in [Key -> Value]
    BY <1>12, CurrentGeneration, LandType DEF Flush, TypeOK
  <2>2. CASE IsClean(s)
    BY <1>12, <2>1, <2>2 DEF Flush, GoTo, TypeOK
  <2>3. CASE ~IsClean(s)
    <3>1. OfferedAs(s, "failed") \subseteq Key
      BY DEF OfferedAs
    <3>2. withheld[s] \cup OfferedAs(s, "failed") \in SUBSET Key
      BY <3>1 DEF TypeOK
    <3>3. Reports(s)
      BY <1>12, <2>3, <3>2, AuthorityReports DEF Flush, Row
    <3>4. QED
      BY <1>12, <2>1, <2>3, <3>3, ReportType DEF Flush, TypeOK
  <2>4. QED
    BY <2>2, <2>3
<1>13. ASSUME NEW s \in Session, FlushFails(s) PROVE TypeOK'
  <2>1. store' \in [Key -> Value]
    BY <1>13, CurrentGeneration, LandType DEF FlushFails, TypeOK
  <2>2. tally' \in [Session -> [Gen -> [Key -> Outcome]]]
    BY <1>13, CurrentGeneration DEF FlushFails, TypeOK, Outcome
  <2>3. DEFINE W == withheld[s] \cup OfferedAs(s, "failed")
                    \cup OfferedAs(s, "written") \cup OfferedAs(s, "skipped")
  <2>4. W \in SUBSET Key
    BY DEF OfferedAs, TypeOK
  <2>5. Reports(s)
    BY <1>13, <2>4, AuthorityReports DEF FlushFails, Row
  <2>6. QED
    BY <1>13, <2>1, <2>2, <2>5, ReportType DEF FlushFails, TypeOK
<1>14. ASSUME NEW s \in Session, RecordDone(s) PROVE TypeOK'
  <2>1. withheld[s] \in SUBSET Key
    BY DEF TypeOK
  <2>2. done' \in [Gen -> MarkerValue]
    BY <1>14, CurrentGeneration DEF RecordDone, TypeOK, Flag, MarkerValue
  <2>3. Reports(s)
    BY <1>14, <2>1, AuthorityReports DEF RecordDone, Row
  <2>4. QED
    BY <1>14, <2>2, <2>3, ReportType DEF RecordDone, TypeOK
<1>15. ASSUME NEW s \in Session, CompleteMarkerFails(s) PROVE TypeOK'
  <2>1. withheld[s] \in SUBSET Key
    BY DEF TypeOK
  <2>2. Reports(s)
    BY <1>15, <2>1, AuthorityReports DEF CompleteMarkerFails, Row
  <2>3. QED
    BY <1>15, <2>2, ReportType DEF CompleteMarkerFails, TypeOK, durable
<1>16. ASSUME NEW s \in Session, Crash(s) PROVE TypeOK'
  BY <1>16, WalkAssumption DEF Crash, TypeOK, durable, Untallied, Outcome, Row
<1>17. ASSUME NEW k \in Key, UserWrite(k) PROVE TypeOK'
  BY <1>17, WalkAssumption DEF UserWrite, TypeOK, volatile, Own, Value
<1>18. ASSUME NEW k \in Key, UserDelete(k) PROVE TypeOK'
  BY <1>18, WalkAssumption DEF UserDelete, TypeOK, volatile, Deleted, Value
<1>19. CASE UNCHANGED vars
  BY <1>19 DEF TypeOK, vars, durable, volatile
<1>20. QED
  BY <1>1, <1>2, <1>3, <1>4, <1>5, <1>6, <1>7, <1>8, <1>9, <1>10, <1>11, <1>12,
     <1>13, <1>14, <1>15, <1>16, <1>17, <1>18, <1>19
     DEF Next, Step, Fault, Item

\* The state always has the shape the code gives it: markers, stages, the report.
THEOREM TypeCorrect == Spec => []TypeOK
BY InitType, StepType, PTL DEF Spec

-------------------------------------------------------------------------------
(* A data-bearing seal covers the data.                                       *)

\* Landing a buffer adds the keys it names and removes none.
LEMMA LandHolds ==
  ASSUME TypeOK, NEW g \in Gen, NEW keys, store' = Land(g, keys)
  PROVE  /\ EverHeld \subseteq EverHeld'
         /\ \A k \in Key : k \in keys => k \in EverHeld'
         /\ \A k \in Key : store'[k] = store[k] \/ (store'[k] = g /\ k \in keys)
<1>1. g # Absent
  BY WalkAssumption DEF Gen, Absent
<1>2. \A k \in Key : store'[k] = IF k \in keys /\ ~Present(k) THEN g ELSE store[k]
  BY DEF Land
<1>3. QED
  BY <1>1, <1>2 DEF EverHeld, Present, Absent, Deleted

\* A report leaves the session between two predecessors, with nothing in hand.
LEMMA ReportClears ==
  ASSUME TypeOK, NEW s \in Session, pc[s] # "idle", Reports(s)
  PROVE  /\ pc'[s] \in {"idle", "marker"}
         /\ \A t \in Session : t # s => /\ pc'[t] = pc[t] /\ cur'[t] = cur[t]
                                       /\ items'[t] = items[t] /\ prior'[t] = prior[t]
BY DEF Reports, Report, TypeOK

LEMMA ReportKeepsSealInv ==
  ASSUME SealInv, NEW s \in Session, pc[s] # "idle", Reports(s), UNCHANGED <<durable, tally>>
  PROVE  /\ ExportBelieved' /\ TallyHonest' /\ ReadyToSeal'
         /\ IntentRecorded' /\ SealCoversData'
<1>1. TypeOK
  BY DEF SealInv
<1>2. /\ pc'[s] \in {"idle", "marker"}
      /\ \A t \in Session : t # s => /\ pc'[t] = pc[t] /\ cur'[t] = cur[t]
                                    /\ items'[t] = items[t] /\ prior'[t] = prior[t]
  BY <1>1, ReportClears
<1>3. ExportBelieved' /\ ReadyToSeal'
  BY <1>2 DEF SealInv, ExportBelieved, ReadyToSeal, AfterFetch, EverHeld, durable
<1>4. TallyHonest' /\ SealCoversData'
  BY DEF SealInv, TallyHonest, SealCoversData, EverHeld, durable
<1>5. IntentRecorded'
  BY <1>2 DEF SealInv, IntentRecorded, SawData, durable
<1>6. QED
  BY <1>3, <1>4, <1>5

LEMMA InitSealInv == Init => SealInv
<1> SUFFICES ASSUME Init PROVE SealInv
  OBVIOUS
<1>1. TypeOK
  BY InitType
<1>2. \A k \in Key, g \in Gen : store[k] # g
  BY WalkAssumption DEF Init, Own, Absent, Gen
<1>3. QED
  BY <1>1, <1>2 DEF Init, SealInv, ExportBelieved, TallyHonest, ReadyToSeal, IntentRecorded,
                    SealCoversData, AfterFetch, Untallied

\* A session that only moves to another stage before its items.
LEMMA StageKeepsSealInv ==
  ASSUME SealInv, NEW s \in Session, NEW stage \in {"marker", "probe", "fetch"},
         pc' = [pc EXCEPT ![s] = stage],
         \A t \in Session : t # s => /\ cur'[t] = cur[t] /\ items'[t] = items[t]
                                    /\ prior'[t] = prior[t],
         UNCHANGED durable,
         tally' = tally \/ tally' = [tally EXCEPT ![s] = Untallied]
  PROVE  /\ ExportBelieved' /\ TallyHonest' /\ ReadyToSeal'
         /\ IntentRecorded' /\ SealCoversData'
<1>1. ExportBelieved' /\ ReadyToSeal'
  BY DEF SealInv, TypeOK, ExportBelieved, ReadyToSeal, AfterFetch, EverHeld, durable
<1>2. \A t \in Session, g \in Gen, k \in Key :
        tally'[t][g][k] \in {tally[t][g][k], "none"}
  <2>1. tally \in [Session -> [Gen -> [Key -> Outcome]]]
    BY DEF SealInv, TypeOK
  <2>2. \A g \in Gen, k \in Key : Untallied[g][k] = "none"
    BY DEF Untallied
  <2>3. QED
    BY <2>1, <2>2
<1>3. TallyHonest'
  BY <1>2 DEF SealInv, TallyHonest, EverHeld, durable
<1>4. IntentRecorded'
  BY <1>2 DEF SealInv, TypeOK, IntentRecorded, SawData, durable
<1>5. SealCoversData'
  BY DEF SealInv, SealCoversData, EverHeld, durable
<1>6. QED
  BY <1>1, <1>3, <1>4, <1>5

\* A step of the inductive invariant, one case per action.
LEMMA StepSealInv == SealInv /\ [Next]_vars => SealInv'
<1> SUFFICES ASSUME SealInv, [Next]_vars PROVE SealInv'
  OBVIOUS
<1> DEFINE Kept == /\ ExportBelieved' /\ TallyHonest' /\ ReadyToSeal'
                   /\ IntentRecorded' /\ SealCoversData'
<1>a. TypeOK /\ TypeOK'
  BY StepType DEF SealInv
<1>1. ASSUME NEW s \in Session, StartRun(s) PROVE Kept
  <2>1. \A t \in Session : t # s => /\ cur'[t] = cur[t] /\ items'[t] = items[t]
                                   /\ prior'[t] = prior[t]
    BY <1>1, <1>a DEF StartRun, TypeOK
  <2>2. QED
    BY <1>1, <2>1, StageKeepsSealInv DEF StartRun
<1>2. ASSUME NEW s \in Session, ReadMigrationMarker(s) PROVE Kept
  <2>1. CASE IsDone(Marker(cur[s]))
    <3>1. Report(s, "alreadyMigrated",
              DataBearingIsAuthoritative(Policy, Marker(cur[s]) = "doneData"), withheld[s])
      BY <1>2, <2>1 DEF ReadMigrationMarker
    <3>2. Reports(s)
      BY <1>a, <3>1, PolicyAnswersBoolean DEF Reports, Row, TypeOK
    <3>3. QED
      BY <1>2, <3>2, ReportKeepsSealInv DEF ReadMigrationMarker
  <2>2. CASE ~IsDone(Marker(cur[s]))
    <3>1. /\ pc' = [pc EXCEPT ![s] = "probe"]
          /\ prior' = [prior EXCEPT ![s] = Marker(cur[s]) = "wipData"]
          /\ UNCHANGED <<durable, cur, items, tally>>
      BY <1>2, <2>2 DEF ReadMigrationMarker, GoTo
    <3>2. \A t \in Session : t # s => prior'[t] = prior[t]
      BY <1>a, <3>1 DEF TypeOK
    <3>3. QED
      BY <3>1, <3>2, StageKeepsSealInv
  <2>3. QED
    BY <2>1, <2>2
<1>3. ASSUME NEW s \in Session, MarkerUnreadable(s) PROVE Kept
  <2>1. Reports(s)
    BY <1>3, <1>a DEF MarkerUnreadable, WriterUnavailable, Reports, Row, TypeOK
  <2>2. QED
    BY <1>3, <2>1, ReportKeepsSealInv DEF MarkerUnreadable
<1>4. ASSUME NEW s \in Session, ProbeExecutable(s) PROVE Kept
  BY <1>4, StageKeepsSealInv DEF ProbeExecutable, GoTo
<1>5. ASSUME NEW s \in Session, NoAnswer(s) PROVE Kept
  BY <1>5, <1>a, UnresponsiveReports, ReportKeepsSealInv DEF NoAnswer
<1>6. ASSUME NEW s \in Session, FetchSecrets(s) PROVE Kept
  <2>1. CASE Unresponsive(s)
    BY <1>6, <1>a, <2>1, UnresponsiveReports, ReportKeepsSealInv DEF FetchSecrets
  <2>2. CASE ~Unresponsive(s)
    <3>1. PICK exported \in Export(cur[s]) :
            /\ ~(prior[s] /\ exported = {})
            /\ items' = [items EXCEPT ![s] = exported]
            /\ pc' = [pc EXCEPT ![s] = "begin"]
            /\ UNCHANGED <<cur, prior, durable, tally>>
      BY <1>6, <2>2 DEF FetchSecrets, GoTo
    <3>2. exported = content[cur[s]] \/ exported = {}
      BY DEF Export
    <3>3. ExportBelieved'
      BY <1>a, <3>1, <3>2 DEF SealInv, TypeOK, ExportBelieved, AfterFetch, durable
    <3>4. TallyHonest' /\ SealCoversData'
      BY <3>1 DEF SealInv, TallyHonest, SealCoversData, EverHeld, durable
    <3>5. ReadyToSeal' /\ IntentRecorded'
      BY <1>a, <3>1 DEF SealInv, TypeOK, ReadyToSeal, IntentRecorded, SawData, EverHeld, durable
    <3>6. QED
      BY <3>3, <3>4, <3>5
  <2>3. QED
    BY <2>1, <2>2
<1>7. ASSUME NEW s \in Session, RecordInProgress(s) PROVE Kept
  <2>1. /\ pc[s] = "begin"
        /\ pc' = [pc EXCEPT ![s] = "items"]
        /\ UNCHANGED <<content, legacy, store, done, cur, prior, items, tally>>
    BY <1>7 DEF RecordInProgress, GoTo
  <2>2. \A g \in Gen : wip[g] = "data" => wip'[g] = "data"
    BY <1>7, <1>a DEF RecordInProgress, StickyInProgress, TypeOK
  <2>3. SawData(s) => wip'[cur[s]] = "data"
    BY <1>7, <1>a, CurrentGeneration DEF RecordInProgress, StickyInProgress, TypeOK
  <2>4. \A t \in Session : pc[t] # "idle" => cur[t] \in Gen
    BY <1>a, CurrentGeneration
  <2>5. IntentRecorded'
    BY <1>a, <2>1, <2>2, <2>3, <2>4 DEF SealInv, TypeOK, IntentRecorded, SawData
  <2>6. ExportBelieved' /\ ReadyToSeal'
    BY <1>a, <2>1 DEF SealInv, TypeOK, ExportBelieved, ReadyToSeal, AfterFetch, EverHeld
  <2>7. TallyHonest' /\ SealCoversData'
    BY <2>1 DEF SealInv, TallyHonest, SealCoversData, EverHeld
  <2>8. QED
    BY <2>5, <2>6, <2>7
<1>8. ASSUME NEW s \in Session, BeginMarkerFails(s) PROVE Kept
  <2>1. Reports(s)
    BY <1>8, <1>a DEF BeginMarkerFails, WriterUnavailable, Reports, Row, TypeOK
  <2>2. QED
    BY <1>8, <2>1, ReportKeepsSealInv DEF BeginMarkerFails
<1>9. ASSUME NEW s \in Session, NEW k \in Key,
             WithholdItem(s, k) \/ WriteFails(s, k)
      PROVE  Kept
  <2>1. PICK outcome \in {"withheld", "failed"} :
          /\ tally' = [tally EXCEPT ![s][cur[s]][k] = outcome]
          /\ UNCHANGED <<durable, pc, cur, prior, items>>
    BY <1>9 DEF WithholdItem, WriteFails, TallyAs
  <2>2. \A t \in Session, g \in Gen, j \in Key :
          tally'[t][g][j] \in {tally[t][g][j], "withheld", "failed"}
    BY <1>a, <2>1 DEF TypeOK
  <2>3. TallyHonest' /\ IntentRecorded'
    BY <2>1, <2>2 DEF SealInv, TallyHonest, IntentRecorded, SawData, EverHeld, durable
  <2>4. ExportBelieved' /\ ReadyToSeal' /\ SealCoversData'
    BY <2>1 DEF SealInv, ExportBelieved, ReadyToSeal, SealCoversData, EverHeld, durable
  <2>5. QED
    BY <2>3, <2>4
<1>10. ASSUME NEW s \in Session, NEW k \in Key, WriteSecret(s, k) PROVE Kept
  <2>0. cur[s] \in Gen /\ cur[s] # Absent
    BY <1>10, <1>a, CurrentGeneration, WalkAssumption DEF WriteSecret, Gen, Absent
  <2>1. /\ pc[s] = "items" /\ k \in items[s]
        /\ UNCHANGED <<content, legacy, wip, done, pc, cur, prior, items>>
    BY <1>10 DEF WriteSecret, Pending
  <2>2. PICK outcome \in {"skipped", "rejected", "written"} :
          /\ tally' = [tally EXCEPT ![s][cur[s]][k] = outcome]
          /\ outcome = "skipped" => Present(k)
          /\ outcome = "written" /\ ~Buffering => store' = [store EXCEPT ![k] = cur[s]]
    BY <1>10 DEF WriteSecret, TallyAs
  <2>3. store' = store \/ store' = [store EXCEPT ![k] = cur[s]]
    BY <1>10 DEF WriteSecret
  <2>4. wip[cur[s]] = "data"
    BY <2>1 DEF SealInv, IntentRecorded, SawData
  <2>5. \A j \in Key : /\ j \in EverHeld => j \in EverHeld'
                       /\ store'[j] # store[j] => store'[j] = cur[s]
    BY <1>a, <2>0, <2>3 DEF TypeOK, EverHeld
  <2>6. outcome = "skipped" \/ (outcome = "written" /\ ~Buffering) => k \in EverHeld'
    BY <1>a, <2>0, <2>2, <2>3 DEF TypeOK, EverHeld, Present, Absent
  <2>7. \A t \in Session, g \in Gen, j \in Key :
          \/ tally'[t][g][j] = tally[t][g][j]
          \/ t = s /\ g = cur[s] /\ j = k /\ tally'[t][g][j] = outcome
    BY <1>a, <2>2 DEF TypeOK
  <2>8. TallyHonest'
    BY <2>5, <2>6, <2>7 DEF SealInv, TallyHonest
  <2>9. IntentRecorded'
    BY <2>0, <2>1, <2>4, <2>5, <2>7 DEF SealInv, IntentRecorded, SawData
  <2>10. ExportBelieved' /\ ReadyToSeal' /\ SealCoversData'
    BY <1>a, <2>1, <2>5 DEF SealInv, TypeOK, ExportBelieved, ReadyToSeal, SealCoversData
  <2>11. QED
    BY <2>8, <2>9, <2>10
<1>11. ASSUME NEW s \in Session, Flush(s) PROVE Kept
  <2>0. cur[s] \in Gen
    BY <1>11, <1>a, CurrentGeneration DEF Flush
  <2>1. /\ pc[s] = "items" /\ Pending(s) = {}
        /\ UNCHANGED <<content, legacy, wip, done, tally>>
    BY <1>11 DEF Flush
  <2>2. store' = IF Buffering THEN Land(cur[s], OfferedAs(s, "written")) ELSE store
    BY <1>11 DEF Flush
  <2>3. /\ EverHeld \subseteq EverHeld'
        /\ Buffering => OfferedAs(s, "written") \subseteq EverHeld'
        /\ \A k \in Key : store'[k] = store[k]
                        \/ (store'[k] = cur[s] /\ k \in OfferedAs(s, "written"))
    <3>1. CASE Buffering
      <4>1. store' = Land(cur[s], OfferedAs(s, "written"))
        BY <2>2, <3>1
      <4>2. OfferedAs(s, "written") \subseteq Key
        BY DEF OfferedAs
      <4>3. QED
        BY <1>a, <2>0, <4>1, <4>2, LandHolds
    <3>2. CASE ~Buffering
      BY <2>2, <3>2 DEF EverHeld
    <3>3. QED
      BY <3>1, <3>2
  <2>4. TallyHonest' /\ SealCoversData'
    BY <2>1, <2>3 DEF SealInv, TallyHonest, SealCoversData
  <2>5. \A g \in Gen, k \in Key : store'[k] = g => wip'[g] = "data"
    BY <2>0, <2>1, <2>3 DEF SealInv, IntentRecorded, OfferedAs
  <2>6. CASE IsClean(s)
    <3>1. pc' = [pc EXCEPT ![s] = "seal"] /\ UNCHANGED <<cur, prior, items>>
      BY <1>11, <2>6 DEF Flush, GoTo
    <3>2. \A k \in items[s] : tally[s][cur[s]][k] \in {"written", "skipped"}
      BY <1>a, <2>0, <2>1, <2>6 DEF Pending, IsClean, TypeOK, Outcome
    <3>3. items[s] \subseteq EverHeld'
      <4>1. SUFFICES ASSUME NEW k \in items[s] PROVE k \in EverHeld'
        OBVIOUS
      <4>2. k \in Key
        BY <1>a DEF TypeOK
      <4>3. QED
        BY <2>0, <2>3, <3>2, <4>2 DEF SealInv, TallyHonest, OfferedAs
    <3>4. ReadyToSeal'
      BY <1>a, <2>3, <3>1, <3>3 DEF SealInv, TypeOK, ReadyToSeal
    <3>5. ExportBelieved' /\ IntentRecorded'
      BY <1>a, <2>1, <2>5, <3>1
         DEF SealInv, TypeOK, ExportBelieved, IntentRecorded, SawData, AfterFetch
    <3>6. QED
      BY <2>4, <3>4, <3>5
  <2>7. CASE ~IsClean(s)
    <3>1. withheld[s] \cup OfferedAs(s, "failed") \in SUBSET Key
      BY <1>a DEF OfferedAs, TypeOK
    <3>2. Reports(s)
      BY <1>11, <1>a, <2>7, <3>1, AuthorityReports DEF Flush, Row
    <3>3. /\ pc'[s] \in {"idle", "marker"}
          /\ \A t \in Session : t # s => /\ pc'[t] = pc[t] /\ cur'[t] = cur[t]
                                        /\ items'[t] = items[t] /\ prior'[t] = prior[t]
      BY <1>a, <2>1, <3>2, ReportClears
    <3>4. ExportBelieved' /\ ReadyToSeal'
      BY <2>1, <2>3, <3>3 DEF SealInv, ExportBelieved, ReadyToSeal, AfterFetch
    <3>5. IntentRecorded'
      BY <2>1, <2>5, <3>3 DEF SealInv, IntentRecorded, SawData
    <3>6. QED
      BY <2>4, <3>4, <3>5
  <2>8. QED
    BY <2>6, <2>7
<1>12. ASSUME NEW s \in Session, FlushFails(s) PROVE Kept
  <2>0. cur[s] \in Gen
    BY <1>12, <1>a, CurrentGeneration DEF FlushFails
  <2>1. /\ pc[s] = "items" /\ Buffering
        /\ UNCHANGED <<content, legacy, wip, done>>
    BY <1>12 DEF FlushFails
  <2>2. PICK landed \in SUBSET OfferedAs(s, "written") : store' = Land(cur[s], landed)
    BY <1>12 DEF FlushFails
  <2>3. /\ EverHeld \subseteq EverHeld'
        /\ \A k \in Key : store'[k] = store[k]
                        \/ (store'[k] = cur[s] /\ k \in OfferedAs(s, "written"))
    <3>1. landed \subseteq OfferedAs(s, "written")
      OBVIOUS
    <3>2. /\ EverHeld \subseteq EverHeld'
          /\ \A k \in Key : store'[k] = store[k] \/ (store'[k] = cur[s] /\ k \in landed)
      BY <1>a, <2>0, <2>2, LandHolds
    <3>3. QED
      BY <3>1, <3>2
  <2>4. \A t \in Session, g \in Gen, k \in Key :
          tally'[t][g][k] \in {tally[t][g][k], "failed"}
    BY <1>12, <1>a, <2>0 DEF FlushFails, TypeOK
  <2>5. TallyHonest' /\ SealCoversData'
    BY <2>1, <2>3, <2>4 DEF SealInv, TallyHonest, SealCoversData
  <2>6. Reports(s)
    <3>1. withheld[s] \cup OfferedAs(s, "failed")
            \cup OfferedAs(s, "written") \cup OfferedAs(s, "skipped") \in SUBSET Key
      BY <1>a DEF OfferedAs, TypeOK
    <3>2. QED
      BY <1>12, <1>a, <3>1, AuthorityReports DEF FlushFails, Row
  <2>7. /\ pc'[s] \in {"idle", "marker"}
        /\ \A t \in Session : t # s => /\ pc'[t] = pc[t] /\ cur'[t] = cur[t]
                                      /\ items'[t] = items[t] /\ prior'[t] = prior[t]
    BY <1>a, <2>1, <2>6, ReportClears
  <2>8. ExportBelieved' /\ ReadyToSeal'
    BY <2>1, <2>3, <2>7 DEF SealInv, ExportBelieved, ReadyToSeal, AfterFetch
  <2>9. IntentRecorded'
    <3>1. \A g \in Gen, k \in Key : store'[k] = g => wip'[g] = "data"
      BY <2>0, <2>1, <2>3 DEF SealInv, IntentRecorded, OfferedAs
    <3>2. QED
      BY <2>1, <2>4, <2>7, <3>1 DEF SealInv, IntentRecorded, SawData
  <2>10. QED
    BY <2>5, <2>8, <2>9
<1>13. ASSUME NEW s \in Session, RecordDone(s) PROVE Kept
  <2>0. cur[s] \in Gen
    BY <1>13, <1>a, CurrentGeneration DEF RecordDone
  <2>1. /\ pc[s] = "seal"
        /\ done' = [done EXCEPT ![cur[s]] = Flag(SawData(s))]
        /\ UNCHANGED <<content, legacy, store, wip, tally>>
    BY <1>13 DEF RecordDone
  <2>2. SawData(s) => content[cur[s]] \subseteq EverHeld
    BY <2>1 DEF SealInv, ExportBelieved, ReadyToSeal, SawData, AfterFetch
  <2>3. SealCoversData'
    BY <1>a, <2>0, <2>1, <2>2 DEF SealInv, TypeOK, SealCoversData, Flag, EverHeld
  <2>4. Reports(s)
    BY <1>13, <1>a, AuthorityReports DEF RecordDone, Row, TypeOK
  <2>5. /\ pc'[s] \in {"idle", "marker"}
        /\ \A t \in Session : t # s => /\ pc'[t] = pc[t] /\ cur'[t] = cur[t]
                                      /\ items'[t] = items[t] /\ prior'[t] = prior[t]
    BY <1>a, <2>1, <2>4, ReportClears
  <2>6. ExportBelieved' /\ ReadyToSeal'
    BY <2>1, <2>5 DEF SealInv, ExportBelieved, ReadyToSeal, AfterFetch, EverHeld
  <2>7. TallyHonest'
    BY <2>1 DEF SealInv, TallyHonest, EverHeld
  <2>8. IntentRecorded'
    BY <2>1, <2>5 DEF SealInv, IntentRecorded, SawData
  <2>9. QED
    BY <2>3, <2>6, <2>7, <2>8
<1>14. ASSUME NEW s \in Session, CompleteMarkerFails(s) PROVE Kept
  <2>1. Reports(s)
    BY <1>14, <1>a, AuthorityReports DEF CompleteMarkerFails, Row, TypeOK
  <2>2. QED
    BY <1>14, <2>1, ReportKeepsSealInv DEF CompleteMarkerFails
<1>15. ASSUME NEW s \in Session, Crash(s) PROVE Kept
  <2>1. \A t \in Session, g \in Gen, k \in Key :
          tally'[t][g][k] \in {tally[t][g][k], "none"}
    BY <1>15, <1>a DEF Crash, Untallied, TypeOK
  <2>2. /\ pc'[s] = "idle"
        /\ \A t \in Session : t # s => /\ pc'[t] = pc[t] /\ cur'[t] = cur[t]
                                      /\ items'[t] = items[t] /\ prior'[t] = prior[t]
    BY <1>15, <1>a DEF Crash, TypeOK
  <2>3. UNCHANGED durable
    BY <1>15 DEF Crash
  <2>4. TallyHonest' /\ SealCoversData'
    BY <2>1, <2>3 DEF SealInv, TallyHonest, SealCoversData, EverHeld, durable
  <2>5. ExportBelieved' /\ ReadyToSeal'
    BY <2>2, <2>3 DEF SealInv, ExportBelieved, ReadyToSeal, AfterFetch, EverHeld, durable
  <2>6. IntentRecorded'
    BY <2>1, <2>2, <2>3 DEF SealInv, IntentRecorded, SawData, durable
  <2>7. QED
    BY <2>4, <2>5, <2>6
<1>16. ASSUME NEW k \in Key, UserWrite(k) \/ UserDelete(k) PROVE Kept
  <2>1. \A j \in Key : /\ j \in EverHeld => j \in EverHeld'
                       /\ store'[j] # store[j] => store'[j] \in {Own, Deleted}
    BY <1>16, <1>a, WalkAssumption
       DEF UserWrite, UserDelete, TypeOK, EverHeld, Own, Deleted, Absent
  <2>2. UNCHANGED <<content, legacy, wip, done, volatile>>
    BY <1>16 DEF UserWrite, UserDelete
  <2>3. Own \notin Gen /\ Deleted \notin Gen
    BY WalkAssumption DEF Own, Deleted, Gen
  <2>4. IntentRecorded'
    BY <2>1, <2>2, <2>3 DEF SealInv, IntentRecorded, SawData, volatile
  <2>5. ExportBelieved' /\ TallyHonest' /\ ReadyToSeal' /\ SealCoversData'
    BY <1>a, <2>1, <2>2 DEF SealInv, TypeOK, ExportBelieved, TallyHonest, ReadyToSeal,
                            SealCoversData, volatile
  <2>6. QED
    BY <2>4, <2>5
<1>17. ASSUME UNCHANGED vars PROVE Kept
  <2>1. UNCHANGED <<content, legacy, store, wip, done, pc, cur, prior, items, tally>>
    BY <1>17 DEF vars, durable, volatile
  <2>2. ExportBelieved' /\ ReadyToSeal' /\ SealCoversData'
    BY <2>1 DEF SealInv, ExportBelieved, ReadyToSeal, SealCoversData, EverHeld
  <2>3. TallyHonest' /\ IntentRecorded'
    BY <2>1 DEF SealInv, TallyHonest, IntentRecorded, SawData, EverHeld
  <2>4. QED
    BY <2>2, <2>3
<1> HIDE DEF Kept
<1>18. Kept
  BY <1>1, <1>2, <1>3, <1>4, <1>5, <1>6, <1>7, <1>8, <1>9, <1>10, <1>11, <1>12, <1>13,
     <1>14, <1>15, <1>16, <1>17 DEF Next, Step, Fault, Item
<1>19. QED
  BY <1>a, <1>18 DEF SealInv, Kept

\* The completion marker of a data-bearing predecessor is only recorded over a
\* complete copy: for any number of sessions, writer, policy and fault pattern.
THEOREM SealCoversDataHolds == Spec => []SealCoversData
<1>1. SealInv => SealCoversData
  BY DEF SealInv
<1>2. QED
  BY <1>1, InitSealInv, StepSealInv, PTL DEF Spec

\* No predecessor reads as sealed empty while a value copied from it is in the
\* successor.
THEOREM EmptySealHidesNoImportHolds == Spec => []EmptySealHidesNoImport
<1>1. SealInv => EmptySealHidesNoImport
  <2>1. SUFFICES ASSUME SealInv, NEW g \in Gen, Marker(g) = "doneEmpty", NEW k \in Key
                 PROVE  store[k] # g
    BY DEF EmptySealHidesNoImport
  <2>2. done[g] = "empty" /\ wip[g] # "data"
    BY <2>1 DEF SealInv, TypeOK, MarkerValue, Marker, ReadMarker, EmptySealContradicted
  <2>3. QED
    BY <2>1, <2>2 DEF SealInv, IntentRecorded
<1>2. QED
  BY <1>1, InitSealInv, StepSealInv, PTL DEF Spec

-------------------------------------------------------------------------------
(* An older generation never fills the hole a newer one left.                 *)

\* The run invariant of one session.
RunOK(s) ==
  /\ pc[s] # "idle" =>
       /\ \A g \in Gen : g <= cur[s] => row[s][g] = "none"
       /\ \A g \in Gen, k \in Key :
            g < cur[s] \/ (g = cur[s] /\ pc[s] \in BeforeItems) => tally[s][g][k] = "none"
       /\ \A h \in Gen, k \in Key : h > cur[s] /\ UnresolvedAt(s, h, k) => k \in withheld[s]
       /\ \A k \in Key : tally[s][cur[s]][k] = "withheld" => k \in withheld[s]
  /\ pc[s] = "seal" => IsClean(s)
  /\ \A g, h \in Gen, k \in Key :
       h > g /\ tally[s][g][k] = "written" => ~UnresolvedAt(s, h, k)

LEMMA RunInvPerSession == RunInv <=> TypeOK /\ \A s \in Session : RunOK(s)
<1>1. ASSUME RunInv PROVE \A s \in Session : RunOK(s)
  <2>1. SUFFICES ASSUME NEW s \in Session PROVE RunOK(s)
    OBVIOUS
  <2>2. pc[s] # "idle" => cur[s] \in Gen
    BY <1>1, CurrentGeneration DEF RunInv
  <2>3. QED
    BY <1>1, <2>2
       DEF RunInv, RunOK, NothingAhead, UnresolvedWithheld, CleanAtSeal, NoShadowInRun
<1>2. ASSUME TypeOK, \A s \in Session : RunOK(s) PROVE RunInv
  <2>1. NothingAhead /\ UnresolvedWithheld
    BY <1>2 DEF RunOK, NothingAhead, UnresolvedWithheld
  <2>2. CleanAtSeal /\ NoShadowInRun
    BY <1>2 DEF RunOK, CleanAtSeal, NoShadowInRun
  <2>3. QED
    BY <1>2, <2>1, <2>2 DEF RunInv
<1>3. QED
  BY <1>1, <1>2 DEF RunInv

\* A session that nothing happens to.
LEMMA RunFrame ==
  ASSUME NEW s \in Session, RunOK(s),
         pc'[s] = pc[s], cur'[s] = cur[s], tally'[s] = tally[s],
         withheld'[s] = withheld[s], row'[s] = row[s]
  PROVE  RunOK(s)'
BY DEF RunOK, UnresolvedAt, IsClean

\* A session that moves to another stage of the same predecessor.
LEMMA RunStage ==
  ASSUME TypeOK, NEW s \in Session, RunOK(s), pc[s] # "idle",
         pc'[s] \in {"probe", "fetch", "begin", "items", "seal"},
         pc'[s] \in BeforeItems => pc[s] \in BeforeItems,
         pc'[s] = "seal" => IsClean(s),
         cur'[s] = cur[s], tally'[s] = tally[s],
         withheld'[s] = withheld[s], row'[s] = row[s]
  PROVE  RunOK(s)'
BY DEF RunOK, UnresolvedAt, IsClean

\* A session whose tally is blank.
LEMMA RunBlank ==
  ASSUME TypeOK, TypeOK', NEW s \in Session,
         tally'[s] = Untallied, \A g \in Gen : row'[s][g] = "none",
         pc'[s] # "seal"
  PROVE  RunOK(s)'
<1>1. \A g \in Gen, k \in Key : tally'[s][g][k] = "none"
  BY DEF Untallied
<1>2. pc'[s] # "idle" => cur'[s] \in Gen
  BY WalkAssumption DEF TypeOK, Gen
<1>3. QED
  BY <1>1, <1>2 DEF RunOK, UnresolvedAt

\* A report that withholds what the predecessor left unresolved.
LEMMA RunReport ==
  ASSUME TypeOK, TypeOK', NEW s \in Session, RunOK(s), pc[s] # "idle",
         NEW kind \in Row, NEW terminated \in BOOLEAN, NEW keys \in SUBSET Key,
         Report(s, kind, terminated, keys),
         withheld[s] \subseteq keys,
         \A g \in Gen : g # cur[s] => tally'[s][g] = tally[s][g],
         \A k \in Key : tally'[s][cur[s]][k] = "written" => tally[s][cur[s]][k] = "written",
         \A k \in Key : tally'[s][cur[s]][k] \in {"failed", "withheld"} => k \in keys,
         \A k \in Key : kind = "flushFailed" /\ tally'[s][cur[s]][k] = "skipped" => k \in keys
  PROVE  RunOK(s)'
<1>1. cur[s] \in Gen
  BY CurrentGeneration
<1>2. \A g \in Gen : /\ g > cur[s] => row'[s][g] = row[s][g]
                     /\ row'[s][cur[s]] = kind
                     /\ g < cur[s] => row'[s][g] \in {"none", "superseded"}
                     /\ g < cur[s] /\ pc'[s] # "idle" => row'[s][g] = "none"
  BY <1>1 DEF Report, RunOK, TypeOK, Gen
<1>3. /\ pc'[s] \in {"idle", "marker"}
      /\ pc'[s] # "idle" => cur'[s] = cur[s] - 1 /\ cur'[s] \in Gen /\ withheld'[s] = keys
  BY <1>1, WalkAssumption DEF Report, TypeOK, Gen
<1>4. \A g \in Gen, k \in Key : g < cur[s] => tally'[s][g][k] = "none"
  BY <1>1 DEF RunOK, Gen
<1>5. \A h \in Gen, k \in Key : h > cur[s] => (UnresolvedAt(s, h, k)' <=> UnresolvedAt(s, h, k))
  BY <1>1, <1>2 DEF UnresolvedAt, Gen
<1>6. \A h \in Gen, k \in Key : h = cur[s] /\ UnresolvedAt(s, h, k)' => k \in keys
  BY <1>1, <1>2 DEF UnresolvedAt
<1>7. ASSUME pc'[s] # "idle", NEW h \in Gen, NEW k \in Key,
             h > cur'[s], UnresolvedAt(s, h, k)'
      PROVE  k \in withheld'[s]
  <2>1. CASE h = cur[s]
    BY <1>3, <1>6, <1>7, <2>1
  <2>2. CASE h > cur[s]
    BY <1>3, <1>5, <1>7, <2>2 DEF RunOK
  <2>3. QED
    BY <1>1, <1>3, <1>7, <2>1, <2>2 DEF Gen
<1>8. ASSUME NEW g \in Gen, NEW h \in Gen, NEW k \in Key,
             h > g, tally'[s][g][k] = "written"
      PROVE  ~UnresolvedAt(s, h, k)'
  <2>1. g >= cur[s]
    BY <1>1, <1>4, <1>8 DEF Gen
  <2>2. h > cur[s] /\ tally[s][g][k] = "written"
    BY <1>1, <1>8, <2>1 DEF Gen
  <2>3. QED
    BY <1>5, <1>8, <2>2 DEF RunOK
<1>9. pc'[s] # "idle" => \A k \in Key : tally'[s][cur'[s]][k] = "none"
  BY <1>1, <1>3, <1>4 DEF Gen
<1>10. pc'[s] # "idle" => \A g \in Gen : g <= cur'[s] => row'[s][g] = "none"
  BY <1>1, <1>2, <1>3 DEF Gen
<1>11. pc'[s] # "idle" => \A g \in Gen, k \in Key : g <= cur'[s] => tally'[s][g][k] = "none"
  BY <1>1, <1>3, <1>4 DEF Gen
<1>12. QED
  <2>1. pc'[s] # "idle" => \A g \in Gen : g < cur'[s] \/ g = cur'[s] => g <= cur'[s]
    BY <1>3 DEF Gen
  <2>2. QED
    BY <1>3, <1>7, <1>8, <1>9, <1>10, <1>11, <2>1 DEF RunOK

\* A step of one session leaves the others alone.
LEMMA RunOthers ==
  ASSUME TypeOK, NEW s \in Session, \A t \in Session : RunOK(t), RunOK(s)',
         \A t \in Session : t # s =>
           /\ pc'[t] = pc[t] /\ cur'[t] = cur[t] /\ tally'[t] = tally[t]
           /\ withheld'[t] = withheld[t] /\ row'[t] = row[t]
  PROVE  \A t \in Session : RunOK(t)'
<1>1. SUFFICES ASSUME NEW t \in Session PROVE RunOK(t)'
  OBVIOUS
<1>2. CASE t = s
  BY <1>2
<1>3. CASE t # s
  BY <1>3, RunFrame
<1>4. QED
  BY <1>2, <1>3

\* A report before any item was offered: nothing more is unresolved.
LEMMA RunReportUntallied ==
  ASSUME TypeOK, TypeOK', NEW s \in Session, RunOK(s), pc[s] \in BeforeItems,
         NEW kind \in Row, NEW terminated \in BOOLEAN,
         Report(s, kind, terminated, withheld[s]), tally' = tally
  PROVE  RunOK(s)'
<1>1. pc[s] # "idle" /\ withheld[s] \in SUBSET Key /\ cur[s] \in Gen
  BY CurrentGeneration DEF BeforeItems, TypeOK
<1>2. \A k \in Key : tally[s][cur[s]][k] = "none"
  BY <1>1 DEF RunOK
<1>3. QED
  BY <1>1, <1>2, RunReport

\* A report once the predecessor's outcome is clean.
LEMMA RunReportClean ==
  ASSUME TypeOK, TypeOK', NEW s \in Session, RunOK(s), pc[s] = "seal",
         NEW kind \in Row, kind # "flushFailed", NEW terminated \in BOOLEAN,
         Report(s, kind, terminated, withheld[s]), tally' = tally
  PROVE  RunOK(s)'
<1>1. pc[s] # "idle" /\ withheld[s] \in SUBSET Key
  BY DEF TypeOK
<1>2. \A k \in Key : tally[s][cur[s]][k] \notin {"failed", "withheld"}
  BY DEF RunOK, IsClean
<1>3. QED
  BY <1>1, <1>2, RunReport

\* Every report leaves the other sessions alone.
LEMMA ReportOthers ==
  ASSUME TypeOK, NEW s \in Session, Reports(s)
  PROVE  \A t \in Session : t # s =>
           /\ pc'[t] = pc[t] /\ cur'[t] = cur[t]
           /\ withheld'[t] = withheld[t] /\ row'[t] = row[t]
BY DEF Reports, Report, TypeOK

LEMMA AuthorityAnswers ==
  ASSUME TypeOK, NEW s \in Session
  PROVE  /\ DataBearingIsAuthoritative(Policy, SawData(s)) \in BOOLEAN
         /\ UnresponsiveTerminates(Policy, prior[s]) \in BOOLEAN
         /\ withheld[s] \in SUBSET Key
<1>1. SawData(s) \in BOOLEAN /\ prior[s] \in BOOLEAN
  BY DEF SawData, TypeOK
<1>2. QED
  BY <1>1, PolicyAnswersBoolean DEF TypeOK

\* An item is offered: its outcome is the first one of its key.
LEMMA RunItem ==
  ASSUME TypeOK, NEW s \in Session, RunOK(s), pc[s] = "items",
         NEW k \in Key, NEW outcome \in Outcome,
         tally' = [tally EXCEPT ![s][cur[s]][k] = outcome],
         (outcome = "withheld") <=> (k \in withheld[s]),
         UNCHANGED <<pc, cur, withheld, row>>
  PROVE  RunOK(s)'
<1>1. cur[s] \in Gen
  BY CurrentGeneration
<1>2. \A g \in Gen, j \in Key :
        \/ tally'[s][g][j] = tally[s][g][j]
        \/ g = cur[s] /\ j = k /\ tally'[s][g][j] = outcome
  BY <1>1 DEF TypeOK
<1>3. \A h \in Gen, j \in Key : h # cur[s] => (UnresolvedAt(s, h, j)' <=> UnresolvedAt(s, h, j))
  BY <1>1 DEF TypeOK, UnresolvedAt
<1>4. \A g \in Gen, j \in Key : g < cur[s] => tally'[s][g][j] = "none"
  BY <1>1, <1>2 DEF RunOK, Gen
<1>5. ASSUME NEW g \in Gen, NEW h \in Gen, NEW j \in Key,
             h > g, tally'[s][g][j] = "written"
      PROVE  ~UnresolvedAt(s, h, j)'
  <2>1. g >= cur[s]
    BY <1>1, <1>5, <1>4 DEF Gen
  <2>2. h > cur[s]
    BY <1>1, <1>5, <2>1 DEF Gen
  <2>3. CASE tally[s][g][j] = "written"
    BY <1>3, <1>5, <2>2, <2>3 DEF RunOK, Gen
  <2>4. CASE tally[s][g][j] # "written"
    <3>1. j = k /\ outcome = "written"
      BY <1>2, <1>5, <2>4
    <3>2. ~UnresolvedAt(s, h, k)
      BY <2>2, <3>1 DEF RunOK
    <3>3. QED
      BY <1>1, <1>3, <2>2, <3>1, <3>2 DEF Gen
  <2>5. QED
    BY <2>3, <2>4
<1>6. \A j \in Key : tally'[s][cur'[s]][j] = "withheld" => j \in withheld'[s]
  BY <1>1, <1>2 DEF RunOK
<1>7. \A h \in Gen, j \in Key : h > cur[s] /\ UnresolvedAt(s, h, j)' => j \in withheld[s]
  BY <1>1, <1>3 DEF RunOK, Gen
<1>8. QED
  BY <1>5, <1>6, <1>4, <1>7 DEF RunOK, BeforeItems

LEMMA InitRunInv == Init => RunInv
<1> SUFFICES ASSUME Init PROVE RunInv
  OBVIOUS
<1>1. TypeOK
  BY InitType
<1>2. ASSUME NEW s \in Session PROVE RunOK(s)
  <2>1. \A g \in Gen, k \in Key : tally[s][g][k] = "none"
    BY DEF Init, Untallied
  <2>2. pc[s] = "idle"
    BY DEF Init
  <2>3. QED
    BY <2>1, <2>2 DEF RunOK, UnresolvedAt
<1>3. QED
  BY <1>1, <1>2, RunInvPerSession

LEMMA StepRunInv == RunInv /\ [Next]_vars => RunInv'
<1> SUFFICES ASSUME RunInv, [Next]_vars PROVE RunInv'
  OBVIOUS
<1>a. TypeOK /\ TypeOK' /\ \A s \in Session : RunOK(s)
  BY StepType, RunInvPerSession DEF RunInv
<1> DEFINE Kept == \A s \in Session : RunOK(s)'
<1>1. ASSUME NEW s \in Session, StartRun(s) PROVE Kept
  <2>1. RunOK(s)'
    BY <1>a, <1>1, RunBlank DEF StartRun, TypeOK
  <2>2. QED
    BY <1>a, <1>1, <2>1, RunOthers DEF StartRun, TypeOK
<1>2. ASSUME NEW s \in Session, ReadMigrationMarker(s) PROVE Kept
  <2>1. CASE IsDone(Marker(cur[s]))
    <3>1. PICK terminated \in BOOLEAN : Report(s, "alreadyMigrated", terminated, withheld[s])
      BY <1>2, <2>1, PolicyAnswersBoolean DEF ReadMigrationMarker
    <3>2. RunOK(s)'
      BY <1>a, <1>2, <3>1, RunReportUntallied DEF ReadMigrationMarker, BeforeItems, Row
    <3>3. Reports(s)
      BY <1>a, <3>1 DEF Reports, Row, TypeOK
    <3>4. QED
      BY <1>a, <1>2, <3>2, <3>3, ReportOthers, RunOthers DEF ReadMigrationMarker
  <2>2. CASE ~IsDone(Marker(cur[s]))
    <3>1. pc' = [pc EXCEPT ![s] = "probe"] /\ UNCHANGED <<cur, tally, withheld, row>>
      BY <1>2, <2>2 DEF ReadMigrationMarker, GoTo
    <3>2. RunOK(s)'
      BY <1>a, <1>2, <3>1, RunStage DEF ReadMigrationMarker, TypeOK, BeforeItems
    <3>3. QED
      BY <1>a, <3>1, <3>2, RunOthers DEF TypeOK
  <2>3. QED
    BY <2>1, <2>2
<1>3. ASSUME NEW s \in Session, MarkerUnreadable(s) \/ BeginMarkerFails(s) PROVE Kept
  <2>1. /\ Report(s, "writerUnavailable", TRUE, withheld[s])
        /\ tally' = tally /\ pc[s] \in BeforeItems
    BY <1>3 DEF MarkerUnreadable, BeginMarkerFails, WriterUnavailable, BeforeItems
  <2>2. RunOK(s)'
    BY <1>a, <2>1, RunReportUntallied DEF Row
  <2>3. Reports(s)
    BY <1>a, <2>1 DEF Reports, Row, TypeOK
  <2>4. QED
    BY <1>a, <2>1, <2>2, <2>3, ReportOthers, RunOthers
<1>4. ASSUME NEW s \in Session, ProbeExecutable(s) PROVE Kept
  <2>1. /\ pc[s] = "probe" /\ pc' = [pc EXCEPT ![s] = "fetch"]
        /\ UNCHANGED <<cur, tally, withheld, row>>
    BY <1>4 DEF ProbeExecutable, GoTo
  <2>2. RunOK(s)'
    BY <1>a, <2>1, RunStage DEF TypeOK, BeforeItems
  <2>3. QED
    BY <1>a, <2>1, <2>2, RunOthers DEF TypeOK
<1>5. ASSUME NEW s \in Session, pc[s] \in {"probe", "fetch"}, Unresponsive(s), tally' = tally
      PROVE  Kept
  <2>1. RunOK(s)'
    BY <1>a, <1>5, AuthorityAnswers, RunReportUntallied DEF Unresponsive, BeforeItems, Row
  <2>2. QED
    BY <1>a, <1>5, <2>1, UnresponsiveReports, ReportOthers, RunOthers
<1>6. ASSUME NEW s \in Session, FetchSecrets(s), ~Unresponsive(s) PROVE Kept
  <2>1. /\ pc[s] = "fetch" /\ pc' = [pc EXCEPT ![s] = "begin"]
        /\ UNCHANGED <<cur, tally, withheld, row>>
    BY <1>6 DEF FetchSecrets, GoTo
  <2>2. RunOK(s)'
    BY <1>a, <2>1, RunStage DEF TypeOK, BeforeItems
  <2>3. QED
    BY <1>a, <2>1, <2>2, RunOthers DEF TypeOK
<1>7. ASSUME NEW s \in Session, RecordInProgress(s) PROVE Kept
  <2>1. /\ pc[s] = "begin" /\ pc' = [pc EXCEPT ![s] = "items"]
        /\ UNCHANGED <<cur, tally, withheld, row>>
    BY <1>7 DEF RecordInProgress, GoTo
  <2>2. RunOK(s)'
    BY <1>a, <2>1, RunStage DEF TypeOK, BeforeItems
  <2>3. QED
    BY <1>a, <2>1, <2>2, RunOthers DEF TypeOK
<1>8. ASSUME NEW s \in Session, NEW k \in Key,
             WithholdItem(s, k) \/ WriteSecret(s, k) \/ WriteFails(s, k)
      PROVE  Kept
  <2>1. PICK outcome \in Outcome :
          /\ tally' = [tally EXCEPT ![s][cur[s]][k] = outcome]
          /\ (outcome = "withheld") <=> (k \in withheld[s])
    BY <1>8 DEF WithholdItem, WriteSecret, WriteFails, TallyAs, Outcome
  <2>2. pc[s] = "items" /\ UNCHANGED <<pc, cur, withheld, row>>
    BY <1>8 DEF WithholdItem, WriteSecret, WriteFails
  <2>3. RunOK(s)'
    BY <1>a, <2>1, <2>2, RunItem
  <2>4. QED
    BY <1>a, <2>1, <2>2, <2>3, RunOthers DEF TypeOK
<1>9. ASSUME NEW s \in Session, Flush(s) PROVE Kept
  <2>1. pc[s] = "items" /\ tally' = tally
    BY <1>9 DEF Flush
  <2>2. CASE IsClean(s)
    <3>1. pc' = [pc EXCEPT ![s] = "seal"] /\ UNCHANGED <<cur, withheld, row>>
      BY <1>9, <2>2 DEF Flush, GoTo
    <3>2. RunOK(s)'
      BY <1>a, <2>1, <2>2, <3>1, RunStage DEF TypeOK, BeforeItems
    <3>3. QED
      BY <1>a, <2>1, <3>1, <3>2, RunOthers DEF TypeOK
  <2>3. CASE ~IsClean(s)
    <3>1. PICK keys \in SUBSET Key : /\ keys = withheld[s] \cup OfferedAs(s, "failed")
                                    /\ Report(s, "incomplete",
                                          DataBearingIsAuthoritative(Policy, SawData(s)), keys)
      BY <1>9, <1>a, <2>3 DEF Flush, OfferedAs, TypeOK
    <3>2. \A k \in Key : tally'[s][cur[s]][k] \in {"failed", "withheld"} => k \in keys
      BY <1>a, <2>1, <3>1 DEF RunOK, OfferedAs
    <3>3. RunOK(s)'
      BY <1>a, <2>1, <3>1, <3>2, AuthorityAnswers, RunReport DEF Row
    <3>4. Reports(s)
      BY <1>a, <3>1, AuthorityReports DEF Row
    <3>5. QED
      BY <1>a, <2>1, <3>3, <3>4, ReportOthers, RunOthers
  <2>4. QED
    BY <2>2, <2>3
<1>10. ASSUME NEW s \in Session, FlushFails(s) PROVE Kept
  <2>0. pc[s] = "items" /\ cur[s] \in Gen
    BY <1>10, <1>a, CurrentGeneration DEF FlushFails
  <2>1. PICK keys \in SUBSET Key :
          /\ keys = withheld[s] \cup OfferedAs(s, "failed")
                       \cup OfferedAs(s, "written") \cup OfferedAs(s, "skipped")
          /\ Report(s, "flushFailed", DataBearingIsAuthoritative(Policy, SawData(s)), keys)
    BY <1>10, <1>a DEF FlushFails, OfferedAs, TypeOK
  <2>2. tally' = [tally EXCEPT ![s][cur[s]] =
                    [k \in Key |-> IF @[k] = "written" THEN "failed" ELSE @[k]]]
    BY <1>10 DEF FlushFails
  <2>3. \A k \in Key : tally'[s][cur[s]][k] =
          IF tally[s][cur[s]][k] = "written" THEN "failed" ELSE tally[s][cur[s]][k]
    BY <1>a, <2>0, <2>2 DEF TypeOK
  <2>4. \A g \in Gen : g # cur[s] => tally'[s][g] = tally[s][g]
    BY <1>a, <2>0, <2>2 DEF TypeOK
  <2>5. \A k \in Key : tally'[s][cur[s]][k] \in {"failed", "withheld", "skipped"} => k \in keys
    BY <1>a, <2>0, <2>1, <2>3 DEF RunOK, OfferedAs
  <2>6. \A k \in Key : tally'[s][cur[s]][k] # "written"
    BY <2>3
  <2>7. RunOK(s)'
    BY <1>a, <2>0, <2>1, <2>4, <2>5, <2>6, AuthorityAnswers, RunReport DEF Row
  <2>8. Reports(s)
    BY <1>a, <2>1, AuthorityReports DEF Row
  <2>9. \A t \in Session : t # s => tally'[t] = tally[t]
    BY <1>a, <2>2 DEF TypeOK
  <2>10. QED
    BY <1>a, <2>7, <2>8, <2>9, ReportOthers, RunOthers
<1>11. ASSUME NEW s \in Session, RecordDone(s) \/ CompleteMarkerFails(s) PROVE Kept
  <2>1. PICK kind \in {"imported", "noData", "sealFailed"} :
          Report(s, kind, DataBearingIsAuthoritative(Policy, SawData(s)), withheld[s])
    BY <1>11 DEF RecordDone, CompleteMarkerFails
  <2>2. pc[s] = "seal" /\ tally' = tally
    BY <1>11 DEF RecordDone, CompleteMarkerFails
  <2>3. kind \in Row /\ kind # "flushFailed"
    BY DEF Row
  <2>4. RunOK(s)'
    BY <1>a, <2>1, <2>2, <2>3, AuthorityAnswers, RunReportClean
  <2>5. Reports(s)
    BY <1>a, <2>1, <2>3, AuthorityAnswers, AuthorityReports
  <2>6. QED
    BY <1>a, <2>2, <2>4, <2>5, ReportOthers, RunOthers
<1>12. ASSUME NEW s \in Session, Crash(s) PROVE Kept
  <2>1. RunOK(s)'
    BY <1>a, <1>12, RunBlank DEF Crash, TypeOK
  <2>2. QED
    BY <1>a, <1>12, <2>1, RunOthers DEF Crash, TypeOK
<1>13. ASSUME UNCHANGED volatile PROVE Kept
  BY <1>a, <1>13, RunFrame DEF volatile
<1>14. ASSUME NEW s \in Session, NoAnswer(s) \/ (FetchSecrets(s) /\ Unresponsive(s)) PROVE Kept
  BY <1>5, <1>14 DEF NoAnswer, FetchSecrets
<1> HIDE DEF Kept
<1>15. Kept
  <2>1. ASSUME NEW s \in Session, StartRun(s) \/ Step(s) \/ Fault(s) \/ Crash(s) PROVE Kept
    BY <2>1, <1>1, <1>2, <1>3, <1>4, <1>6, <1>7, <1>8, <1>9, <1>10, <1>11, <1>12, <1>14
       DEF Step, Fault, Item
  <2>2. ASSUME NEW k \in Key, UserWrite(k) \/ UserDelete(k) PROVE Kept
    BY <2>2, <1>13 DEF UserWrite, UserDelete
  <2>3. ASSUME UNCHANGED vars PROVE Kept
    BY <2>3, <1>13 DEF vars
  <2>4. QED
    BY <2>1, <2>2, <2>3 DEF Next
<1>16. QED
  <2>1. (RunInv <=> TypeOK /\ \A s \in Session : RunOK(s))'
    BY RunInvPerSession, PTL
  <2>2. QED
    BY <1>a, <1>15, <2>1 DEF Kept

\* Within a run, an older generation never supplies a key that a newer one left
\* unresolved: a failed write, or any outcome that went down with a failed flush.
THEOREM NoShadowInRunHolds == Spec => []NoShadowInRun
<1>1. RunInv => NoShadowInRun
  BY DEF RunInv
<1>2. QED
  BY <1>1, InitRunInv, StepRunInv, PTL DEF Spec

-------------------------------------------------------------------------------
(* Who may change what.                                                       *)

Acts(s) == StartRun(s) \/ Step(s) \/ Fault(s) \/ Crash(s)

\* The part of the state that belongs to session t stays as it is.
Rests(t) ==
  /\ pc'[t] = pc[t] /\ cur'[t] = cur[t] /\ prior'[t] = prior[t] /\ items'[t] = items[t]
  /\ tally'[t] = tally[t] /\ withheld'[t] = withheld[t] /\ row'[t] = row[t]

LEMMA ReportLeavesOthers ==
  ASSUME TypeOK, NEW s \in Session, Reports(s), NEW t \in Session, t # s, tally'[t] = tally[t]
  PROVE  Rests(t)
BY DEF Reports, Report, TypeOK, Rests

LEMMA OthersRest ==
  ASSUME TypeOK, NEW s \in Session, Acts(s), NEW t \in Session, t # s
  PROVE  Rests(t)
<1>1. CASE Reports(s) /\ tally' = tally
  BY <1>1, ReportLeavesOthers
<1>2. CASE StartRun(s) \/ Crash(s)
  BY <1>2 DEF StartRun, Crash, TypeOK, Rests
<1>3. CASE ProbeExecutable(s) \/ RecordInProgress(s)
  BY <1>3 DEF ProbeExecutable, RecordInProgress, GoTo, TypeOK, Rests
<1>4. ASSUME NEW k \in Key, WithholdItem(s, k) \/ WriteSecret(s, k) \/ WriteFails(s, k)
      PROVE  Rests(t)
  <2>1. \E outcome \in Outcome : TallyAs(s, k, outcome)
    BY <1>4 DEF WithholdItem, WriteSecret, WriteFails, Outcome
  <2>2. UNCHANGED <<pc, cur, prior, items, withheld, row>>
    BY <1>4 DEF WithholdItem, WriteSecret, WriteFails
  <2>3. QED
    BY <2>1, <2>2 DEF TallyAs, TypeOK, Rests
<1>5. CASE ReadMigrationMarker(s)
  <2>1. CASE IsDone(Marker(cur[s]))
    <3>1. Reports(s)
      BY <1>5, <2>1, PolicyAnswersBoolean DEF ReadMigrationMarker, Reports, Row, TypeOK
    <3>2. QED
      BY <1>1, <1>5, <3>1 DEF ReadMigrationMarker
  <2>2. CASE ~IsDone(Marker(cur[s]))
    BY <1>5, <2>2 DEF ReadMigrationMarker, GoTo, TypeOK, Rests
  <2>3. QED
    BY <2>1, <2>2
<1>6. CASE MarkerUnreadable(s) \/ BeginMarkerFails(s)
  <2>1. Reports(s)
    BY <1>6 DEF MarkerUnreadable, BeginMarkerFails, WriterUnavailable, Reports, Row, TypeOK
  <2>2. QED
    BY <1>1, <1>6, <2>1 DEF MarkerUnreadable, BeginMarkerFails
<1>7. CASE NoAnswer(s)
  BY <1>1, <1>7, UnresponsiveReports DEF NoAnswer
<1>8. CASE FetchSecrets(s)
  <2>1. CASE Unresponsive(s)
    BY <1>1, <1>8, <2>1, UnresponsiveReports DEF FetchSecrets
  <2>2. CASE ~Unresponsive(s)
    BY <1>8, <2>2 DEF FetchSecrets, GoTo, TypeOK, Rests
  <2>3. QED
    BY <2>1, <2>2
<1>9. CASE Flush(s)
  <2>1. CASE IsClean(s)
    BY <1>9, <2>1 DEF Flush, GoTo, TypeOK, Rests
  <2>2. CASE ~IsClean(s)
    <3>1. withheld[s] \cup OfferedAs(s, "failed") \in SUBSET Key
      BY DEF OfferedAs, TypeOK
    <3>2. Reports(s)
      BY <1>9, <2>2, <3>1, AuthorityReports DEF Flush, Row
    <3>3. QED
      BY <1>1, <1>9, <3>2 DEF Flush
  <2>3. QED
    BY <2>1, <2>2
<1>10. CASE FlushFails(s)
  <2>1. withheld[s] \cup OfferedAs(s, "failed") \cup OfferedAs(s, "written")
           \cup OfferedAs(s, "skipped") \in SUBSET Key
    BY DEF OfferedAs, TypeOK
  <2>2. Reports(s)
    BY <1>10, <2>1, AuthorityReports DEF FlushFails, Row
  <2>3. tally'[t] = tally[t]
    BY <1>10 DEF FlushFails, TypeOK
  <2>4. QED
    BY <2>2, <2>3, ReportLeavesOthers
<1>11. CASE RecordDone(s) \/ CompleteMarkerFails(s)
  <2>1. Reports(s)
    BY <1>11, AuthorityAnswers, AuthorityReports DEF RecordDone, CompleteMarkerFails, Row
  <2>2. QED
    BY <1>1, <1>11, <2>1 DEF RecordDone, CompleteMarkerFails
<1>12. QED
  BY <1>2, <1>3, <1>4, <1>5, <1>6, <1>7, <1>8, <1>9, <1>10, <1>11 DEF Acts, Step, Fault, Item

\* Every step is one session's, or none's.
LEMMA WhoActs ==
  [Next]_vars =>
    \/ \E s \in Session : Acts(s)
    \/ /\ UNCHANGED volatile
       /\ \/ UNCHANGED vars
          \/ \E k \in Key : UserWrite(k) \/ UserDelete(k)
BY DEF Next, Acts, UserWrite, UserDelete, vars

\* What a tally calls rejected, the import path refuses.
RejectionsReal ==
  \A s \in Session, g \in Gen, k \in Key :
    tally[s][g][k] = "rejected" => <<g, k>> \in Rejects

\* What a session does to its own tally, and that "rejected" is the import path's.
LEMMA TallyMoves ==
  ASSUME TypeOK, NEW s \in Session, Acts(s)
  PROVE  \/ /\ StartRun(s) \/ Crash(s)
            /\ \A g \in Gen, k \in Key : tally'[s][g][k] = "none"
         \/ /\ pc[s] # "idle"
            /\ \A g \in Gen : g # cur[s] => tally'[s][g] = tally[s][g]
            /\ \A k \in Key : tally'[s][cur[s]][k] = "rejected" =>
                 tally[s][cur[s]][k] = "rejected" \/ <<cur[s], k>> \in Rejects
<1>1. CASE StartRun(s) \/ Crash(s)
  <2>1. tally'[s] = Untallied
    BY <1>1 DEF StartRun, Crash, TypeOK
  <2>2. QED
    BY <1>1, <2>1 DEF Untallied
<1>2. CASE pc[s] # "idle" /\ UNCHANGED tally
  BY <1>2
<1>3. ASSUME NEW k \in Key, NEW outcome \in Outcome, pc[s] # "idle", TallyAs(s, k, outcome),
             outcome = "rejected" => <<cur[s], k>> \in Rejects
      PROVE  /\ \A g \in Gen : g # cur[s] => tally'[s][g] = tally[s][g]
             /\ \A j \in Key : tally'[s][cur[s]][j] = "rejected" =>
                  tally[s][cur[s]][j] = "rejected" \/ <<cur[s], j>> \in Rejects
  <2>1. cur[s] \in Gen
    BY <1>3, CurrentGeneration
  <2>2. \A j \in Key : tally'[s][cur[s]][j] = IF j = k THEN outcome ELSE tally[s][cur[s]][j]
    BY <1>3, <2>1 DEF TallyAs, TypeOK
  <2>3. \A g \in Gen : g # cur[s] => tally'[s][g] = tally[s][g]
    BY <1>3, <2>1 DEF TallyAs, TypeOK
  <2>4. QED
    BY <1>3, <2>2, <2>3
<1>4. ASSUME NEW k \in Key, WithholdItem(s, k) \/ WriteSecret(s, k) \/ WriteFails(s, k)
      PROVE  /\ pc[s] # "idle"
             /\ \A g \in Gen : g # cur[s] => tally'[s][g] = tally[s][g]
             /\ \A j \in Key : tally'[s][cur[s]][j] = "rejected" =>
                  tally[s][cur[s]][j] = "rejected" \/ <<cur[s], j>> \in Rejects
  <2>1. PICK outcome \in Outcome :
          TallyAs(s, k, outcome) /\ (outcome = "rejected" => <<cur[s], k>> \in Rejects)
    BY <1>4 DEF WithholdItem, WriteSecret, WriteFails, Outcome
  <2>2. pc[s] # "idle"
    BY <1>4 DEF WithholdItem, WriteSecret, WriteFails
  <2>3. QED
    BY <1>3, <2>1, <2>2
<1>5. CASE FlushFails(s)
  <2>1. pc[s] = "items" /\ cur[s] \in Gen
    BY <1>5, CurrentGeneration DEF FlushFails
  <2>2. /\ \A g \in Gen : g # cur[s] => tally'[s][g] = tally[s][g]
        /\ \A k \in Key : tally'[s][cur[s]][k] \in {tally[s][cur[s]][k], "failed"}
    BY <1>5, <2>1 DEF FlushFails, TypeOK
  <2>3. QED
    BY <2>1, <2>2
<1>6. CASE \/ ReadMigrationMarker(s) \/ ProbeExecutable(s) \/ FetchSecrets(s)
           \/ RecordInProgress(s) \/ Flush(s) \/ RecordDone(s) \/ MarkerUnreadable(s)
           \/ NoAnswer(s) \/ BeginMarkerFails(s) \/ CompleteMarkerFails(s)
  <2>1. pc[s] # "idle" /\ UNCHANGED tally
    BY <1>6 DEF ReadMigrationMarker, ProbeExecutable, FetchSecrets, RecordInProgress, Flush,
                RecordDone, MarkerUnreadable, NoAnswer, BeginMarkerFails, CompleteMarkerFails
  <2>2. QED
    BY <1>2, <2>1
<1>7. QED
  BY <1>1, <1>4, <1>5, <1>6 DEF Acts, Step, Fault, Item

LEMMA RejectionsKept == TypeOK /\ RejectionsReal /\ [Next]_vars => RejectionsReal'
<1> SUFFICES ASSUME TypeOK, RejectionsReal, [Next]_vars PROVE RejectionsReal'
  OBVIOUS
<1>1. ASSUME NEW s \in Session, Acts(s), NEW t \in Session, NEW g \in Gen, NEW k \in Key,
             tally'[t][g][k] = "rejected"
      PROVE  <<g, k>> \in Rejects
  <2>1. CASE t # s
    BY <1>1, <2>1, OthersRest DEF Rests, RejectionsReal
  <2>2. CASE t = s
    BY <1>1, <2>2, TallyMoves DEF RejectionsReal
  <2>3. QED
    BY <2>1, <2>2
<1>2. CASE UNCHANGED tally
  BY <1>2 DEF RejectionsReal
<1>3. QED
  BY <1>1, <1>2, WhoActs DEF RejectionsReal, volatile

\* What the predecessors hold, and what an older API sealed, never changes.
LEMMA PredecessorsFrozen == [Next]_vars => UNCHANGED <<content, legacy>>
<1> SUFFICES ASSUME [Next]_vars PROVE UNCHANGED <<content, legacy>>
  OBVIOUS
<1>1. ASSUME NEW s \in Session, Acts(s) PROVE UNCHANGED <<content, legacy>>
  <2>1. CASE StartRun(s) \/ Crash(s)
    BY <2>1 DEF StartRun, Crash, durable
  <2>2. CASE Step(s)
    BY <2>2 DEF Step, ReadMigrationMarker, ProbeExecutable, FetchSecrets, RecordInProgress, Item,
                WithholdItem, WriteSecret, Flush, RecordDone, durable
  <2>3. CASE Fault(s)
    BY <2>3 DEF Fault, MarkerUnreadable, NoAnswer, BeginMarkerFails, WriteFails, FlushFails,
                CompleteMarkerFails, durable
  <2>4. QED
    BY <1>1, <2>1, <2>2, <2>3 DEF Acts
<1>2. QED
  BY <1>1, WhoActs DEF UserWrite, UserDelete, vars, durable

-------------------------------------------------------------------------------
(* A session on its own.  Between reading a marker and writing the next one,   *)
(* only the session itself can change what the marker says.                    *)

Asking == {"probe", "fetch", "begin", "items", "seal"}

\* The predecessor it is at still reads as not sealed.
AtUnsealed(s) == pc[s] \in Asking => ~IsDone(Marker(cur[s]))

\* What the session was not told of data in it, no marker tells either.
KnowsWhatMarkersTell(s) ==
  pc[s] \in Asking /\ ~prior[s] /\ (pc[s] \in AfterFetch => items[s] = {}) =>
    wip[cur[s]] # "data"

\* A snapshot walk left no predecessor behind that is known to hold data.
NoDataBehind(s) ==
  SnapshotPolicy(Policy) /\ pc[s] # "idle" =>
    \A h \in Gen : h > cur[s] => wip[h] # "data" /\ done[h] # "data"

AloneInv ==
  TypeOK /\ \A s \in Session : AtUnsealed(s) /\ KnowsWhatMarkersTell(s) /\ NoDataBehind(s)

LEMMA MarkerReads ==
  ASSUME NEW d \in MarkerValue, NEW w \in MarkerValue, NEW b \in BOOLEAN
  PROVE  /\ IsDone(ReadMarker(d, w, b)) <=>
              \/ d = "data" \/ (d = "empty" /\ w # "data") \/ (d = "absent" /\ b)
         /\ ReadMarker(d, w, b) = "doneData" <=> d = "data" \/ (d = "absent" /\ b)
         /\ ReadMarker(d, w, b) = "wipData" <=>
              w = "data" /\ (d = "empty" \/ (d = "absent" /\ ~b))
BY DEF ReadMarker, EmptySealContradicted, IsDone, MarkerValue

LEMMA BridgeAnswers ==
  ASSUME NEW policy, NEW seals, NEW g
  PROVE  LegacyMigrated(policy, seals, g) \in BOOLEAN
<1>1. CASE SnapshotPolicy(policy)
  BY <1>1 DEF LegacyMigrated
<1>2. CASE ~SnapshotPolicy(policy)
  BY <1>2 DEF LegacyMigrated
<1>3. QED
  BY <1>1, <1>2

LEMMA MarkerTells ==
  ASSUME TypeOK, NEW g \in Gen
  PROVE  /\ IsDone(Marker(g)) <=> \/ done[g] = "data" \/ (done[g] = "empty" /\ wip[g] # "data")
                                  \/ (done[g] = "absent" /\ Bridged(g))
         /\ Marker(g) = "doneData" <=> done[g] = "data" \/ (done[g] = "absent" /\ Bridged(g))
         /\ Marker(g) = "wipData" <=>
              wip[g] = "data" /\ (done[g] = "empty" \/ (done[g] = "absent" /\ ~Bridged(g)))
<1>1. done[g] \in MarkerValue /\ wip[g] \in MarkerValue
  BY DEF TypeOK
<1>2. Bridged(g) \in BOOLEAN
  BY BridgeAnswers DEF Bridged
<1>3. QED
  BY <1>1, <1>2, MarkerReads DEF Marker

AloneOK(s) == AtUnsealed(s) /\ KnowsWhatMarkersTell(s) /\ NoDataBehind(s)

\* A report: the walk only goes on past a predecessor not known to hold data.
LEMMA AloneReport ==
  ASSUME TypeOK, NEW s \in Session, pc[s] # "idle", NoDataBehind(s),
         NEW kind, NEW terminated \in BOOLEAN, NEW keys, Report(s, kind, terminated, keys),
         SnapshotPolicy(Policy) /\ ~terminated => wip'[cur[s]] # "data" /\ done'[cur[s]] # "data",
         \A h \in Gen : h > cur[s] => wip'[h] = wip[h] /\ done'[h] = done[h]
  PROVE  AloneOK(s)'
<1>1. cur[s] \in Gen
  BY CurrentGeneration
<1>2. pc'[s] \in {"idle", "marker"}
  BY DEF Report, TypeOK
<1>3. pc'[s] # "idle" => ~terminated /\ cur'[s] = cur[s] - 1
  BY DEF Report, TypeOK
<1>4. ASSUME SnapshotPolicy(Policy), pc'[s] # "idle", NEW h \in Gen, h > cur'[s]
      PROVE  wip'[h] # "data" /\ done'[h] # "data"
  <2>1. h = cur[s] \/ h > cur[s]
    BY <1>1, <1>3, <1>4 DEF Gen
  <2>2. QED
    BY <1>3, <1>4, <2>1 DEF NoDataBehind
<1>5. QED
  BY <1>2, <1>4 DEF AloneOK, AtUnsealed, KnowsWhatMarkersTell, NoDataBehind, Asking, AfterFetch

\* A step on the way, which leaves the markers alone.
LEMMA AloneProceeds ==
  ASSUME TypeOK, NEW s \in Session, AloneOK(s), pc[s] # "idle", cur'[s] = cur[s],
         UNCHANGED <<legacy, wip, done>>,
         pc'[s] \in Asking => ~IsDone(Marker(cur[s])),
         pc'[s] \in Asking /\ ~prior'[s] /\ (pc'[s] \in AfterFetch => items'[s] = {}) =>
           wip[cur[s]] # "data"
  PROVE  AloneOK(s)'
<1>1. cur[s] \in Gen
  BY CurrentGeneration
<1>2. Marker(cur[s])' = Marker(cur[s])
  BY DEF Marker, Bridged
<1>3. QED
  BY <1>2 DEF AloneOK, AtUnsealed, KnowsWhatMarkersTell, NoDataBehind

LEMMA AuthorityOfData ==
  ASSUME TypeOK, NEW s \in Session, SnapshotPolicy(Policy),
         ~DataBearingIsAuthoritative(Policy, SawData(s))
  PROVE  ~prior[s] /\ items[s] = {}
BY DEF DataBearingIsAuthoritative, SawData, TypeOK

LEMMA StepAlone ==
  ASSUME AloneInv, NEW s \in Session, Acts(s)
  PROVE  AloneOK(s)'
<1>a. TypeOK /\ AloneOK(s)
  BY DEF AloneInv, AloneOK
<1>b. pc[s] # "idle" => cur[s] \in Gen
  BY <1>a, CurrentGeneration
<1>1. CASE StartRun(s) \/ Crash(s)
  <2>1. pc'[s] = "idle" \/ (pc'[s] = "marker" /\ cur'[s] = N)
    BY <1>a, <1>1 DEF StartRun, Crash, TypeOK
  <2>2. \A h \in Gen : ~(h > N)
    BY WalkAssumption DEF Gen
  <2>3. QED
    BY <2>1, <2>2 DEF AloneOK, AtUnsealed, KnowsWhatMarkersTell, NoDataBehind, Asking
<1>2. CASE ReadMigrationMarker(s)
  <2>0. pc[s] = "marker" /\ UNCHANGED <<legacy, wip, done>> /\ cur[s] \in Gen
    BY <1>2, <1>b DEF ReadMigrationMarker, durable
  <2>1. CASE IsDone(Marker(cur[s]))
    <3>1. PICK terminated \in BOOLEAN :
            /\ terminated = DataBearingIsAuthoritative(Policy, Marker(cur[s]) = "doneData")
            /\ Report(s, "alreadyMigrated", terminated, withheld[s])
      BY <1>2, <2>1, PolicyAnswersBoolean DEF ReadMigrationMarker
    <3>2. SnapshotPolicy(Policy) /\ ~terminated => Marker(cur[s]) # "doneData"
      BY <3>1 DEF DataBearingIsAuthoritative
    <3>3. SnapshotPolicy(Policy) /\ ~terminated => wip[cur[s]] # "data" /\ done[cur[s]] # "data"
      BY <1>a, <2>0, <2>1, <3>2, MarkerTells
    <3>4. QED
      BY <1>a, <2>0, <3>1, <3>3, AloneReport DEF AloneOK
  <2>2. CASE ~IsDone(Marker(cur[s]))
    <3>1. /\ prior'[s] = (Marker(cur[s]) = "wipData")
          /\ pc'[s] = "probe" /\ cur'[s] = cur[s]
      BY <1>a, <1>2, <2>2 DEF ReadMigrationMarker, GoTo, TypeOK
    <3>2. ~prior'[s] => wip[cur[s]] # "data"
      BY <1>a, <2>0, <2>2, <3>1, MarkerTells DEF TypeOK, MarkerValue
    <3>3. QED
      BY <1>a, <2>0, <2>2, <3>1, <3>2, AloneProceeds
  <2>3. QED
    BY <2>1, <2>2
<1>3. CASE MarkerUnreadable(s) \/ BeginMarkerFails(s)
  <2>1. /\ pc[s] # "idle" /\ UNCHANGED <<wip, done>>
        /\ Report(s, "writerUnavailable", TRUE, withheld[s])
    BY <1>3 DEF MarkerUnreadable, BeginMarkerFails, WriterUnavailable, durable
  <2>2. QED
    BY <1>a, <2>1, AloneReport DEF AloneOK
<1>4. ASSUME pc[s] \in {"probe", "fetch"}, Unresponsive(s), UNCHANGED durable
      PROVE  AloneOK(s)'
  <2>1. PICK terminated \in BOOLEAN :
          /\ terminated = UnresponsiveTerminates(Policy, prior[s])
          /\ Report(s, "unresponsive", terminated, withheld[s])
    BY <1>a, <1>4, AuthorityAnswers DEF Unresponsive
  <2>2. SnapshotPolicy(Policy) /\ ~terminated => ~prior[s]
    BY <2>1, WalkAssumption
       DEF UnresponsiveTerminates, SnapshotPolicy, SecretSelectionPolicy
  <2>3. SnapshotPolicy(Policy) /\ ~terminated => wip[cur[s]] # "data" /\ done[cur[s]] # "data"
    <3>1. ~IsDone(Marker(cur[s])) /\ (~prior[s] => wip[cur[s]] # "data")
      BY <1>a, <1>4 DEF AloneOK, AtUnsealed, KnowsWhatMarkersTell, Asking, AfterFetch
    <3>2. done[cur[s]] # "data"
      BY <1>a, <1>b, <1>4, <3>1, MarkerTells
    <3>3. QED
      BY <2>2, <3>1, <3>2
  <2>4. QED
    BY <1>a, <1>4, <2>1, <2>3, AloneReport DEF AloneOK, durable
<1>5. CASE NoAnswer(s)
  BY <1>4, <1>5 DEF NoAnswer
<1>6. CASE ProbeExecutable(s)
  <2>1. /\ pc[s] = "probe" /\ pc'[s] = "fetch" /\ cur'[s] = cur[s]
        /\ prior'[s] = prior[s] /\ UNCHANGED <<legacy, wip, done>>
    BY <1>a, <1>6 DEF ProbeExecutable, GoTo, TypeOK, durable
  <2>2. QED
    BY <1>a, <2>1, AloneProceeds
       DEF AloneOK, AtUnsealed, KnowsWhatMarkersTell, Asking, AfterFetch
<1>7. CASE FetchSecrets(s)
  <2>1. CASE Unresponsive(s)
    BY <1>4, <1>7, <2>1 DEF FetchSecrets
  <2>2. CASE ~Unresponsive(s)
    <3>1. /\ pc[s] = "fetch" /\ pc'[s] = "begin" /\ cur'[s] = cur[s]
          /\ prior'[s] = prior[s] /\ UNCHANGED <<legacy, wip, done>>
      BY <1>a, <1>7, <2>2 DEF FetchSecrets, GoTo, TypeOK, durable
    <3>2. QED
      BY <1>a, <3>1, AloneProceeds
         DEF AloneOK, AtUnsealed, KnowsWhatMarkersTell, Asking, AfterFetch
  <2>3. QED
    BY <2>1, <2>2
<1>8. CASE RecordInProgress(s)
  <2>1. /\ pc[s] = "begin" /\ pc'[s] = "items" /\ cur'[s] = cur[s] /\ prior'[s] = prior[s]
        /\ items'[s] = items[s] /\ UNCHANGED <<legacy, done>> /\ cur[s] \in Gen
        /\ wip' = [wip EXCEPT ![cur[s]] = StickyInProgress(@, SawData(s))]
    BY <1>a, <1>b, <1>8 DEF RecordInProgress, GoTo, TypeOK
  <2>2. wip'[cur[s]] = StickyInProgress(wip[cur[s]], SawData(s))
    BY <1>a, <2>1 DEF TypeOK
  <2>3. \A h \in Gen : h > cur[s] => wip'[h] = wip[h]
    BY <1>a, <2>1 DEF TypeOK, Gen
  <2>4. ~IsDone(Marker(cur[s]))
    BY <1>a, <2>1 DEF AloneOK, AtUnsealed, Asking
  <2>5. TypeOK' /\ Bridged(cur[s])' = Bridged(cur[s])
    <3>1. [Next]_vars
      BY <1>8 DEF Next, Step
    <3>2. QED
      BY <1>a, <2>1, <3>1, StepType DEF Bridged
  <2>6. ~IsDone(Marker(cur[s]))'
    <3>1. Marker(cur[s])' = ReadMarker(done[cur[s]], wip'[cur[s]], Bridged(cur[s]))
      BY <2>1, <2>5 DEF Marker
    <3>2. /\ done[cur[s]] \in MarkerValue /\ wip'[cur[s]] \in MarkerValue
          /\ Bridged(cur[s]) \in BOOLEAN
      BY <1>a, <2>1, <2>5, BridgeAnswers DEF TypeOK, Bridged
    <3>3. wip'[cur[s]] # "data" => wip[cur[s]] # "data"
      BY <2>2 DEF StickyInProgress
    <3>4. IsDone(Marker(cur[s]))' = IsDone(ReadMarker(done[cur[s]], wip'[cur[s]], Bridged(cur[s])))
      BY <3>1 DEF IsDone
    <3>5. QED
      BY <1>a, <2>1, <2>4, <3>2, <3>3, <3>4, MarkerReads, MarkerTells
  <2>7. ~prior[s] /\ items[s] = {} => wip'[cur[s]] # "data"
    <3>1. ~prior[s] /\ items[s] = {} => wip[cur[s]] # "data" /\ ~SawData(s)
      BY <1>a, <2>1 DEF AloneOK, KnowsWhatMarkersTell, Asking, SawData
    <3>2. QED
      BY <2>2, <3>1 DEF StickyInProgress
  <2>8. QED
    BY <1>a, <2>1, <2>3, <2>6, <2>7
       DEF AloneOK, AtUnsealed, KnowsWhatMarkersTell, NoDataBehind, Asking, AfterFetch
<1>9. CASE Item(s) \/ (\E k \in Key : WriteFails(s, k))
  <2>1. /\ pc[s] = "items" /\ pc'[s] = "items" /\ cur'[s] = cur[s] /\ prior'[s] = prior[s]
        /\ items'[s] = items[s] /\ UNCHANGED <<legacy, wip, done>>
    BY <1>9 DEF Item, WithholdItem, WriteSecret, WriteFails, durable
  <2>2. QED
    BY <1>a, <2>1, AloneProceeds
       DEF AloneOK, AtUnsealed, KnowsWhatMarkersTell, Asking, AfterFetch
<1>10. ASSUME pc[s] \in {"items", "seal"}, NEW kind, NEW keys,
              Report(s, kind, DataBearingIsAuthoritative(Policy, SawData(s)), keys),
              UNCHANGED wip,
              UNCHANGED done \/ done' = [done EXCEPT ![cur[s]] = Flag(SawData(s))]
       PROVE  AloneOK(s)'
  <2>1. PICK terminated \in BOOLEAN :
          /\ terminated = DataBearingIsAuthoritative(Policy, SawData(s))
          /\ Report(s, kind, terminated, keys)
    BY <1>a, <1>10, AuthorityAnswers
  <2>2. ~IsDone(Marker(cur[s])) /\ (~prior[s] /\ items[s] = {} => wip[cur[s]] # "data")
    BY <1>a, <1>10 DEF AloneOK, AtUnsealed, KnowsWhatMarkersTell, Asking
  <2>3. done[cur[s]] # "data"
    BY <1>a, <1>b, <1>10, <2>2, MarkerTells
  <2>4. ASSUME SnapshotPolicy(Policy), ~terminated
        PROVE  wip'[cur[s]] # "data" /\ done'[cur[s]] # "data"
    <3>1. ~prior[s] /\ items[s] = {} /\ ~SawData(s)
      BY <1>a, <2>1, <2>4, AuthorityOfData DEF SawData
    <3>2. Flag(SawData(s)) = "empty"
      BY <3>1 DEF Flag
    <3>3. QED
      BY <1>a, <1>b, <1>10, <2>2, <2>3, <3>1, <3>2 DEF TypeOK
  <2>5. ASSUME NEW h \in Gen, h > cur[s] PROVE wip'[h] = wip[h] /\ done'[h] = done[h]
    <3>1. h # cur[s]
      BY <1>b, <1>10, <2>5 DEF Gen
    <3>2. QED
      BY <1>a, <1>10, <3>1 DEF TypeOK
  <2>6. QED
    BY <1>a, <1>10, <2>1, <2>4, <2>5, AloneReport DEF AloneOK
<1>11. CASE Flush(s)
  <2>1. CASE IsClean(s)
    <3>1. /\ pc[s] = "items" /\ pc'[s] = "seal" /\ cur'[s] = cur[s] /\ prior'[s] = prior[s]
          /\ items'[s] = items[s] /\ UNCHANGED <<legacy, wip, done>>
      BY <1>a, <1>11, <2>1 DEF Flush, GoTo, TypeOK
    <3>2. QED
      BY <1>a, <3>1, AloneProceeds
         DEF AloneOK, AtUnsealed, KnowsWhatMarkersTell, Asking, AfterFetch
  <2>2. CASE ~IsClean(s)
    BY <1>10, <1>11, <2>2 DEF Flush
  <2>3. QED
    BY <2>1, <2>2
<1>12. CASE FlushFails(s) \/ RecordDone(s) \/ CompleteMarkerFails(s)
  <2>1. pc[s] \in {"items", "seal"}
    BY <1>12 DEF FlushFails, RecordDone, CompleteMarkerFails
  <2>2. UNCHANGED wip /\ (UNCHANGED done \/ done' = [done EXCEPT ![cur[s]] = Flag(SawData(s))])
    BY <1>12 DEF FlushFails, RecordDone, CompleteMarkerFails, durable
  <2>3. \E kind \in Row, keys \in {withheld[s], withheld[s] \cup OfferedAs(s, "failed")
                        \cup OfferedAs(s, "written") \cup OfferedAs(s, "skipped")} :
          Report(s, kind, DataBearingIsAuthoritative(Policy, SawData(s)), keys)
    BY <1>12 DEF FlushFails, RecordDone, CompleteMarkerFails, Row
  <2>4. QED
    BY <1>10, <2>1, <2>2, <2>3
<1>13. QED
  BY <1>1, <1>2, <1>3, <1>5, <1>6, <1>7, <1>8, <1>9, <1>11, <1>12 DEF Acts, Step, Fault

OneSession == \A s, t \in Session : s = t

LEMMA InitAloneInv == Init => AloneInv
<1> SUFFICES ASSUME Init PROVE AloneInv
  OBVIOUS
<1>1. \A s \in Session : pc[s] = "idle"
  BY DEF Init
<1>2. QED
  BY <1>1, InitType DEF AloneInv, AtUnsealed, KnowsWhatMarkersTell, NoDataBehind, Asking

LEMMA StepAloneInv == OneSession /\ AloneInv /\ [Next]_vars => AloneInv'
<1> SUFFICES ASSUME OneSession, AloneInv, [Next]_vars PROVE AloneInv'
  OBVIOUS
<1>1. TypeOK'
  BY StepType DEF AloneInv
<1>2. CASE \E s \in Session : Acts(s)
  <2>1. PICK s \in Session : Acts(s)
    BY <1>2
  <2>2. AloneOK(s)' /\ \A t \in Session : t = s
    BY <2>1, StepAlone DEF OneSession
  <2>3. QED
    BY <1>1, <2>2 DEF AloneInv, AloneOK
<1>3. CASE UNCHANGED volatile /\ (UNCHANGED vars \/ \E k \in Key : UserWrite(k) \/ UserDelete(k))
  <2>1. UNCHANGED <<legacy, wip, done, pc, cur, prior, items>>
    BY <1>3 DEF volatile, vars, durable, UserWrite, UserDelete
  <2>2. QED
    BY <1>1, <2>1 DEF AloneInv, AtUnsealed, KnowsWhatMarkersTell, NoDataBehind, Marker, Bridged
<1>4. QED
  BY <1>2, <1>3, WhoActs

\* A value of generation g comes from a session that is at the items of g.
LEMMA WhoCopies ==
  ASSUME TypeOK, [Next]_vars, NEW g \in Gen, NEW k \in Key, Copies(g, k)
  PROVE  \E s \in Session : pc[s] = "items" /\ cur[s] = g
<1>1. store'[k] # store[k] /\ store'[k] = g
  BY DEF Copies
<1>2. ASSUME NEW s \in Session, Acts(s) PROVE pc[s] = "items" /\ cur[s] = g
  <2>1. CASE UNCHANGED store
    BY <1>1, <2>1
  <2>2. ASSUME NEW j \in Key, WriteSecret(s, j) PROVE pc[s] = "items" /\ cur[s] = g
    <3>1. pc[s] = "items" /\ store' \in {store, [store EXCEPT ![j] = cur[s]]}
      BY <2>2 DEF WriteSecret
    <3>2. QED
      BY <1>1, <3>1 DEF TypeOK
  <2>3. ASSUME pc[s] = "items", NEW keys, store' = Land(cur[s], keys)
        PROVE  pc[s] = "items" /\ cur[s] = g
    BY <1>1, <2>3 DEF Land
  <2>4. CASE Flush(s) \/ FlushFails(s)
    BY <2>1, <2>3, <2>4 DEF Flush, FlushFails
  <2>5. CASE StartRun(s) \/ Crash(s)
    BY <2>1, <2>5 DEF StartRun, Crash, durable
  <2>6. CASE ReadMigrationMarker(s) \/ ProbeExecutable(s) \/ FetchSecrets(s)
             \/ RecordInProgress(s) \/ RecordDone(s)
    BY <2>1, <2>6 DEF ReadMigrationMarker, ProbeExecutable, FetchSecrets, RecordInProgress,
                      RecordDone, durable
  <2>7. CASE MarkerUnreadable(s) \/ NoAnswer(s) \/ BeginMarkerFails(s) \/ CompleteMarkerFails(s)
    BY <2>1, <2>7 DEF MarkerUnreadable, NoAnswer, BeginMarkerFails, CompleteMarkerFails, durable
  <2>8. ASSUME NEW j \in Key, WithholdItem(s, j) \/ WriteFails(s, j)
        PROVE  pc[s] = "items" /\ cur[s] = g
    BY <2>1, <2>8 DEF WithholdItem, WriteFails, durable
  <2>9. QED
    BY <1>2, <2>2, <2>4, <2>5, <2>6, <2>7, <2>8 DEF Acts, Step, Fault, Item
<1>3. ASSUME NEW j \in Key, UserWrite(j) \/ UserDelete(j) PROVE FALSE
  <2>1. g # Own /\ g # Deleted
    BY WalkAssumption DEF Gen, Own, Deleted
  <2>2. store' \in {[store EXCEPT ![j] = Own], [store EXCEPT ![j] = Deleted]}
    BY <1>3 DEF UserWrite, UserDelete
  <2>3. QED
    BY <1>1, <2>1, <2>2 DEF TypeOK
<1>4. ~UNCHANGED vars
  BY <1>1 DEF vars, durable
<1>5. QED
  BY <1>2, <1>3, <1>4, WhoActs

\* A predecessor whose migration completed is never copied from again, so what the
\* user deleted since stays deleted.
THEOREM SealedNeverRecopiedHolds ==
  ASSUME OneSession
  PROVE  Spec => SealedNeverRecopied
<1> DEFINE Unsealed == \A g \in Gen, k \in Key :
                         Copies(g, k) => done[g] # "data" /\ ~IsDone(Marker(g))
<1>1. AloneInv /\ [Next]_vars => Unsealed
  <2> SUFFICES ASSUME AloneInv, [Next]_vars, NEW g \in Gen, NEW k \in Key, Copies(g, k)
               PROVE  done[g] # "data" /\ ~IsDone(Marker(g))
    OBVIOUS
  <2>1. PICK s \in Session : pc[s] = "items" /\ cur[s] = g
    BY WhoCopies DEF AloneInv
  <2>2. ~IsDone(Marker(g))
    BY <2>1 DEF AloneInv, AtUnsealed, Asking
  <2>3. QED
    BY <2>2, MarkerTells DEF AloneInv
<1>2. AloneInv /\ [Next]_vars => AloneInv'
  BY StepAloneInv
<1> HIDE DEF Unsealed
<1>3. Spec => [][Unsealed]_vars
  BY <1>1, <1>2, InitAloneInv, PTL DEF Spec
<1>4. QED
  BY <1>3 DEF SealedNeverRecopied, Unsealed

\* Under a snapshot policy the walk never goes on past a generation known to hold
\* data: nothing older than it is copied.
THEOREM KnownDataNeverPassedHolds ==
  ASSUME OneSession, SnapshotPolicy(Policy)
  PROVE  Spec => KnownDataNeverPassed
<1> DEFINE Nearest == \A g, h \in Gen, k \in Key :
                        Copies(g, k) /\ h > g => wip[h] # "data" /\ done[h] # "data"
<1>1. AloneInv /\ [Next]_vars => Nearest
  <2> SUFFICES ASSUME AloneInv, [Next]_vars, NEW g \in Gen, NEW h \in Gen, NEW k \in Key,
                      Copies(g, k), h > g
               PROVE  wip[h] # "data" /\ done[h] # "data"
    OBVIOUS
  <2>1. PICK s \in Session : pc[s] = "items" /\ cur[s] = g
    BY WhoCopies DEF AloneInv
  <2>2. QED
    BY <2>1 DEF AloneInv, NoDataBehind
<1>2. AloneInv /\ [Next]_vars => AloneInv'
  BY StepAloneInv
<1> HIDE DEF Nearest
<1>3. Spec => [][Nearest]_vars
  BY <1>1, <1>2, InitAloneInv, PTL DEF Spec
<1>4. QED
  BY <1>3 DEF KnownDataNeverPassed, Nearest
===============================================================================
