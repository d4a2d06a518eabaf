-------------------- MODULE DelegateWalkRefinement_proofs --------------------
(***************************************************************************)
(* The walk with truthful exports, for every value of the constants and    *)
(* any number of sessions: it implements SecretCopy, what its report says  *)
(* is true, and NewestSnapshotWins takes the newest snapshot only.         *)
(***************************************************************************)
EXTENDS DelegateWalkRefinement, DelegateWalk_proofs

\* With truthful exports a session holds all of what the predecessor has, it
\* writes nothing else, and both kinds of seal cover their predecessor.
WholeExport == \A s \in Session : pc[s] \in AfterFetch => items[s] = content[cur[s]]

WrittenFromContent ==
  \A s \in Session, g \in Gen, k \in Key : tally[s][g][k] = "written" => k \in content[g]

SealsCover == \A g \in Gen : done[g] # "absent" => content[g] \subseteq EverHeld

CopyInv == SealInv /\ WholeExport /\ WrittenFromContent /\ SealsCover

\* The four things a step may do to what SecretCopy sees.
NoChange == UNCHANGED <<content, EverHeld, done>>

Arrival(g) ==
  /\ EverHeld \subseteq EverHeld' /\ EverHeld' \subseteq EverHeld \cup content[g]
  /\ UNCHANGED <<content, done>>

OwnArrival(k) == UserActive /\ EverHeld' = EverHeld \cup {k} /\ UNCHANGED <<content, done>>

Sealing(g) ==
  /\ content[g] \subseteq EverHeld
  /\ \E flag \in {"empty", "data"} : done' = [done EXCEPT ![g] = flag]
  /\ UNCHANGED <<content, EverHeld>>

Visible ==
  \/ NoChange
  \/ \E g \in Gen : Arrival(g) \/ Sealing(g)
  \/ \E k \in Key : OwnArrival(k)

LEMMA InitCopyInv == Init => CopyInv
<1> SUFFICES ASSUME Init PROVE CopyInv
  OBVIOUS
<1>1. SealInv
  BY InitSealInv
<1>2. WholeExport /\ WrittenFromContent /\ SealsCover
  BY DEF Init, WholeExport, WrittenFromContent, SealsCover, AfterFetch, Untallied
<1>3. QED
  BY <1>1, <1>2 DEF CopyInv

\* Steps that touch neither the store nor a completion marker are invisible.
LEMMA StepVisible == CopyInv /\ [Next]_vars => Visible
<1> SUFFICES ASSUME CopyInv, [Next]_vars PROVE Visible
  OBVIOUS
<1>a. TypeOK
  BY DEF CopyInv, SealInv
<1>1. ASSUME UNCHANGED <<content, store, done>> PROVE Visible
  BY <1>1 DEF Visible, NoChange, EverHeld
<1>2. ASSUME NEW s \in Session, NEW k \in Key, WriteSecret(s, k) PROVE Visible
  <2>1. cur[s] \in Gen /\ cur[s] # Absent /\ k \in content[cur[s]]
    BY <1>2, <1>a, CurrentGeneration, WalkAssumption
       DEF WriteSecret, Pending, CopyInv, WholeExport, AfterFetch, Gen, Absent
  <2>2. /\ store' = store \/ store' = [store EXCEPT ![k] = cur[s]]
        /\ UNCHANGED <<content, done>>
    BY <1>2 DEF WriteSecret
  <2>3. Arrival(cur[s])
    BY <1>a, <2>1, <2>2 DEF Arrival, EverHeld, TypeOK
  <2>4. QED
    BY <2>1, <2>3 DEF Visible
<1>3. ASSUME NEW s \in Session, NEW keys \in SUBSET OfferedAs(s, "written"),
             pc[s] = "items", store' = Land(cur[s], keys), UNCHANGED <<content, done>>
      PROVE  Visible
  <2>1. cur[s] \in Gen
    BY <1>3, <1>a, CurrentGeneration
  <2>2. /\ EverHeld \subseteq EverHeld'
        /\ \A k \in Key : store'[k] = store[k] \/ (store'[k] = cur[s] /\ k \in keys)
    BY <1>3, <1>a, <2>1, LandHolds
  <2>3. \A k \in keys : k \in content[cur[s]]
    BY <2>1 DEF CopyInv, WrittenFromContent, OfferedAs
  <2>4. EverHeld' \subseteq EverHeld \cup content[cur[s]]
    BY <2>2, <2>3 DEF EverHeld
  <2>5. QED
    BY <1>3, <2>1, <2>2, <2>4 DEF Visible, Arrival
<1>4. ASSUME NEW s \in Session, Flush(s) \/ FlushFails(s) PROVE Visible
  <2>1. CASE store' = store
    BY <1>1, <1>4, <2>1 DEF Flush, FlushFails
  <2>2. CASE store' # store
    <3>1. PICK keys \in SUBSET OfferedAs(s, "written") : store' = Land(cur[s], keys)
      BY <1>4, <2>2 DEF Flush, FlushFails
    <3>2. QED
      BY <1>3, <1>4, <3>1 DEF Flush, FlushFails
  <2>3. QED
    BY <2>1, <2>2
<1>5. ASSUME NEW s \in Session, RecordDone(s) PROVE Visible
  <2>1. cur[s] \in Gen
    BY <1>5, <1>a, CurrentGeneration DEF RecordDone
  <2>2. content[cur[s]] \subseteq EverHeld
    BY <1>5 DEF RecordDone, CopyInv, SealInv, WholeExport, ReadyToSeal, AfterFetch
  <2>3. /\ done' = [done EXCEPT ![cur[s]] = Flag(SawData(s))]
        /\ UNCHANGED <<content, store>>
    BY <1>5 DEF RecordDone
  <2>4. Flag(SawData(s)) \in {"empty", "data"} /\ EverHeld' = EverHeld
    BY <2>3 DEF Flag, EverHeld
  <2>5. Sealing(cur[s])
    BY <2>2, <2>3, <2>4 DEF Sealing
  <2>6. QED
    BY <2>1, <2>5 DEF Visible
<1>6. ASSUME NEW k \in Key, UserWrite(k) PROVE Visible
  <2>1. EverHeld' = EverHeld \cup {k}
    BY <1>6, <1>a, WalkAssumption DEF UserWrite, EverHeld, TypeOK, Own, Absent
  <2>2. QED
    BY <1>6, <2>1 DEF UserWrite, Visible, OwnArrival
<1>7. ASSUME NEW k \in Key, UserDelete(k) PROVE Visible
  <2>1. EverHeld' = EverHeld
    BY <1>7, <1>a DEF UserDelete, EverHeld, TypeOK, Present, Deleted, Absent
  <2>2. QED
    BY <1>7, <2>1 DEF UserDelete, Visible, NoChange
<1>8. ASSUME NEW s \in Session,
             \/ StartRun(s) \/ ReadMigrationMarker(s) \/ ProbeExecutable(s) \/ FetchSecrets(s)
             \/ RecordInProgress(s) \/ MarkerUnreadable(s) \/ NoAnswer(s)
             \/ BeginMarkerFails(s) \/ CompleteMarkerFails(s) \/ Crash(s)
      PROVE  Visible
  <2>1. UNCHANGED <<content, store, done>>
    BY <1>8 DEF StartRun, ReadMigrationMarker, ProbeExecutable, FetchSecrets, RecordInProgress,
                MarkerUnreadable, NoAnswer, BeginMarkerFails, CompleteMarkerFails, Crash, durable
  <2>2. QED
    BY <1>1, <2>1
<1>9. ASSUME NEW s \in Session, NEW k \in Key, WithholdItem(s, k) \/ WriteFails(s, k)
      PROVE  Visible
  BY <1>1, <1>9 DEF WithholdItem, WriteFails, durable
<1>10. ASSUME UNCHANGED vars PROVE Visible
  BY <1>1, <1>10 DEF vars, durable
<1>11. QED
  BY <1>2, <1>4, <1>5, <1>6, <1>7, <1>8, <1>9, <1>10 DEF Next, Step, Fault, Item

LEMMA SealsCoverKept == TypeOK /\ SealsCover /\ Visible => SealsCover'
<1> SUFFICES ASSUME TypeOK, SealsCover, Visible PROVE SealsCover'
  OBVIOUS
<1>1. CASE NoChange
  BY <1>1 DEF NoChange, SealsCover
<1>2. ASSUME NEW g \in Gen, Arrival(g) PROVE SealsCover'
  BY <1>2 DEF Arrival, SealsCover
<1>3. ASSUME NEW g \in Gen, Sealing(g) PROVE SealsCover'
  BY <1>3 DEF Sealing, SealsCover, TypeOK
<1>4. ASSUME NEW k \in Key, OwnArrival(k) PROVE SealsCover'
  BY <1>4 DEF OwnArrival, SealsCover
<1>5. QED
  BY <1>1, <1>2, <1>3, <1>4 DEF Visible

\* Only a fetch takes anything in hand, and a truthful one takes everything.
LEMMA WholeExportKept ==
  ASSUME FaultyExport = FALSE, CopyInv, [Next]_vars
  PROVE  WholeExport'
<1>a. TypeOK
  BY DEF CopyInv, SealInv
<1>1. UNCHANGED content
  BY StepVisible DEF Visible, NoChange, Arrival, Sealing, OwnArrival
<1>2. ASSUME NEW s \in Session, Reports(s), pc[s] # "idle" PROVE WholeExport'
  <2>1. /\ pc'[s] \in {"idle", "marker"}
        /\ \A t \in Session : t # s => /\ pc'[t] = pc[t] /\ cur'[t] = cur[t]
                                      /\ items'[t] = items[t] /\ prior'[t] = prior[t]
    BY <1>a, <1>2, ReportClears
  <2>2. QED
    BY <1>1, <2>1 DEF CopyInv, WholeExport, AfterFetch
<1>3. ASSUME NEW s \in Session, NEW stage \in {"idle", "marker", "probe", "fetch"},
             pc' = [pc EXCEPT ![s] = stage],
             \A t \in Session : t # s => cur'[t] = cur[t] /\ items'[t] = items[t]
      PROVE  WholeExport'
  BY <1>a, <1>1, <1>3 DEF CopyInv, WholeExport, AfterFetch, TypeOK
<1>4. ASSUME NEW s \in Session, pc[s] \in {"begin", "items"}, NEW stage \in {"items", "seal"},
             pc' = [pc EXCEPT ![s] = stage], UNCHANGED <<cur, items>>
      PROVE  WholeExport'
  BY <1>a, <1>1, <1>4 DEF CopyInv, WholeExport, AfterFetch, TypeOK
<1>5. ASSUME NEW s \in Session, FetchSecrets(s) PROVE WholeExport'
  <2>1. CASE Unresponsive(s)
    BY <1>2, <1>5, <1>a, <2>1, UnresponsiveReports DEF FetchSecrets
  <2>2. CASE ~Unresponsive(s)
    <3>1. /\ items' = [items EXCEPT ![s] = content[cur[s]]]
          /\ pc' = [pc EXCEPT ![s] = "begin"] /\ UNCHANGED cur
      BY <1>5, <2>2 DEF FetchSecrets, GoTo, Export
    <3>2. QED
      BY <1>a, <1>1, <3>1 DEF CopyInv, WholeExport, AfterFetch, TypeOK
  <2>3. QED
    BY <2>1, <2>2
<1>6. ASSUME NEW s \in Session, ReadMigrationMarker(s) PROVE WholeExport'
  <2>1. CASE IsDone(Marker(cur[s]))
    <3>1. \E terminated \in BOOLEAN : Report(s, "alreadyMigrated", terminated, withheld[s])
      BY <1>6, <2>1, PolicyAnswersBoolean DEF ReadMigrationMarker
    <3>2. Reports(s)
      BY <1>a, <3>1 DEF Reports, Row, TypeOK
    <3>3. QED
      BY <1>2, <1>6, <3>2 DEF ReadMigrationMarker
  <2>2. CASE ~IsDone(Marker(cur[s]))
    BY <1>3, <1>6, <2>2 DEF ReadMigrationMarker, GoTo
  <2>3. QED
    BY <2>1, <2>2
<1>7. ASSUME NEW s \in Session, MarkerUnreadable(s) \/ BeginMarkerFails(s) PROVE WholeExport'
  <2>1. Reports(s) /\ pc[s] # "idle"
    BY <1>7, <1>a DEF MarkerUnreadable, BeginMarkerFails, WriterUnavailable, Reports, Row, TypeOK
  <2>2. QED
    BY <1>2, <2>1
<1>8. ASSUME NEW s \in Session, NoAnswer(s) PROVE WholeExport'
  BY <1>2, <1>8, <1>a, UnresponsiveReports DEF NoAnswer
<1>9. ASSUME NEW s \in Session, Flush(s) \/ FlushFails(s) PROVE WholeExport'
  <2>1. CASE Reports(s)
    BY <1>2, <1>9, <2>1 DEF Flush, FlushFails
  <2>2. CASE ~Reports(s)
    <3>1. withheld[s] \cup OfferedAs(s, "failed") \cup OfferedAs(s, "written")
             \cup OfferedAs(s, "skipped") \in SUBSET Key
      BY <1>a DEF OfferedAs, TypeOK
    <3>2. withheld[s] \cup OfferedAs(s, "failed") \in SUBSET Key
      BY <3>1
    <3>3. Flush(s) /\ IsClean(s)
      BY <1>9, <1>a, <2>2, <3>1, <3>2, AuthorityReports DEF Flush, FlushFails, Row
    <3>4. QED
      BY <1>4, <3>3 DEF Flush, GoTo
  <2>3. QED
    BY <2>1, <2>2
<1>10. ASSUME NEW s \in Session, RecordDone(s) \/ CompleteMarkerFails(s) PROVE WholeExport'
  <2>1. Reports(s)
    BY <1>10, <1>a, AuthorityAnswers, AuthorityReports DEF RecordDone, CompleteMarkerFails, Row
  <2>2. QED
    BY <1>2, <1>10, <2>1 DEF RecordDone, CompleteMarkerFails
<1>11. ASSUME NEW s \in Session, StartRun(s) \/ ProbeExecutable(s) \/ Crash(s) PROVE WholeExport'
  <2>1. \A t \in Session : t # s => cur'[t] = cur[t] /\ items'[t] = items[t]
    BY <1>11, <1>a DEF StartRun, ProbeExecutable, Crash, TypeOK
  <2>2. QED
    BY <1>3, <1>11, <2>1 DEF StartRun, ProbeExecutable, Crash, GoTo
<1>12. ASSUME UNCHANGED <<pc, cur, items>> PROVE WholeExport'
  BY <1>1, <1>12 DEF CopyInv, WholeExport
<1>13. ASSUME NEW s \in Session, RecordInProgress(s) PROVE WholeExport'
  BY <1>4, <1>13 DEF RecordInProgress, GoTo
<1>14. ASSUME NEW s \in Session, Item(s) \/ (\E k \in Key : WriteFails(s, k)) PROVE WholeExport'
  BY <1>12, <1>14 DEF Item, WithholdItem, WriteSecret, WriteFails
<1>15. ASSUME NEW k \in Key, UserWrite(k) \/ UserDelete(k) PROVE WholeExport'
  BY <1>12, <1>15 DEF UserWrite, UserDelete, volatile
<1>16. ASSUME UNCHANGED vars PROVE WholeExport'
  BY <1>12, <1>16 DEF vars, volatile
<1>17. QED
  BY <1>5, <1>6, <1>7, <1>8, <1>9, <1>10, <1>11, <1>13, <1>14, <1>15, <1>16 DEF Next, Step, Fault

\* An outcome "written" is only ever given to a key in hand.
LEMMA WrittenKept == CopyInv /\ [Next]_vars => WrittenFromContent'
<1> SUFFICES ASSUME CopyInv, [Next]_vars PROVE WrittenFromContent'
  OBVIOUS
<1>a. TypeOK
  BY DEF CopyInv, SealInv
<1>1. UNCHANGED content
  BY StepVisible DEF Visible, NoChange, Arrival, Sealing, OwnArrival
<1>2. ASSUME \A s \in Session, g \in Gen, k \in Key :
               tally'[s][g][k] = "written" => tally[s][g][k] = "written"
      PROVE  WrittenFromContent'
  BY <1>1, <1>2 DEF CopyInv, WrittenFromContent
<1>3. ASSUME NEW s \in Session, NEW k \in Key, WriteSecret(s, k) PROVE WrittenFromContent'
  <2>1. cur[s] \in Gen /\ k \in content[cur[s]]
    BY <1>3, <1>a, CurrentGeneration
       DEF WriteSecret, Pending, CopyInv, WholeExport, AfterFetch
  <2>2. \A t \in Session, g \in Gen, j \in Key :
          tally'[t][g][j] = tally[t][g][j] \/ (g = cur[s] /\ j = k)
    <3>1. PICK outcome \in Outcome : tally' = [tally EXCEPT ![s][cur[s]][k] = outcome]
      BY <1>3 DEF WriteSecret, TallyAs, Outcome
    <3>2. QED
      BY <1>a, <2>1, <3>1 DEF TypeOK
  <2>3. QED
    BY <1>1, <2>1, <2>2 DEF CopyInv, WrittenFromContent
<1>4. ASSUME NEW s \in Session, NEW k \in Key, WithholdItem(s, k) \/ WriteFails(s, k)
      PROVE  WrittenFromContent'
  <2>1. PICK outcome \in {"withheld", "failed"} :
          tally' = [tally EXCEPT ![s][cur[s]][k] = outcome]
    BY <1>4 DEF WithholdItem, WriteFails, TallyAs
  <2>2. \A t \in Session, g \in Gen, j \in Key :
          tally'[t][g][j] \in {tally[t][g][j], "withheld", "failed"}
    BY <1>a, <2>1 DEF TypeOK
  <2>3. QED
    BY <1>2, <2>2
<1>5. ASSUME NEW s \in Session, FlushFails(s) PROVE WrittenFromContent'
  <2>1. cur[s] \in Gen
    BY <1>5, <1>a, CurrentGeneration DEF FlushFails
  <2>2. \A t \in Session, g \in Gen, k \in Key :
          tally'[t][g][k] \in {tally[t][g][k], "failed"}
    BY <1>5, <1>a, <2>1 DEF FlushFails, TypeOK
  <2>3. QED
    BY <1>2, <2>2
<1>6. ASSUME NEW s \in Session, StartRun(s) \/ Crash(s) PROVE WrittenFromContent'
  <2>1. \A t \in Session, g \in Gen, k \in Key :
          tally'[t][g][k] \in {tally[t][g][k], "none"}
    <3>1. tally' = [tally EXCEPT ![s] = Untallied]
      BY <1>6 DEF StartRun, Crash
    <3>2. \A g \in Gen, k \in Key : Untallied[g][k] = "none"
      BY DEF Untallied
    <3>3. QED
      BY <1>a, <3>1, <3>2 DEF TypeOK
  <2>2. QED
    BY <1>2, <2>1
<1>7. ASSUME UNCHANGED tally PROVE WrittenFromContent'
  BY <1>2, <1>7
<1>8. ASSUME NEW s \in Session,
             \/ ReadMigrationMarker(s) \/ ProbeExecutable(s) \/ FetchSecrets(s)
             \/ RecordInProgress(s) \/ Flush(s) \/ RecordDone(s) \/ MarkerUnreadable(s)
             \/ NoAnswer(s) \/ BeginMarkerFails(s) \/ CompleteMarkerFails(s)
      PROVE  WrittenFromContent'
  <2>1. UNCHANGED tally
    BY <1>8 DEF ReadMigrationMarker, ProbeExecutable, FetchSecrets, RecordInProgress, Flush,
                RecordDone, MarkerUnreadable, NoAnswer, BeginMarkerFails, CompleteMarkerFails
  <2>2. QED
    BY <1>7, <2>1
<1>9. ASSUME NEW k \in Key, UserWrite(k) \/ UserDelete(k) PROVE WrittenFromContent'
  BY <1>7, <1>9 DEF UserWrite, UserDelete, volatile
<1>10. ASSUME UNCHANGED vars PROVE WrittenFromContent'
  BY <1>7, <1>10 DEF vars, volatile
<1>11. QED
  BY <1>3, <1>4, <1>5, <1>6, <1>8, <1>9, <1>10 DEF Next, Step, Fault, Item

LEMMA StepCopyInv == FaultyExport = FALSE /\ CopyInv /\ [Next]_vars => CopyInv'
BY StepSealInv, StepVisible, SealsCoverKept, WholeExportKept, WrittenKept DEF CopyInv, SealInv

\* A visible step is a step of SecretCopy or a stutter.  An arrival from a sealed
\* predecessor (another session sealed it meanwhile) brings nothing new.
LEMMA VisibleImplements ==
  TypeOK /\ SealsCover /\ Visible => [Copy!Next]_Copy!copyVars
<1> SUFFICES ASSUME TypeOK, SealsCover, Visible PROVE [Copy!Next]_Copy!copyVars
  OBVIOUS
<1> DEFINE Sealed == {g \in Gen : done[g] # "absent"}
<1>1. CASE NoChange
  BY <1>1 DEF NoChange, Copy!copyVars
<1>2. ASSUME NEW g \in Gen, Arrival(g) PROVE [Copy!Next]_Copy!copyVars
  <2>1. Sealed' = Sealed
    BY <1>2 DEF Arrival
  <2>2. CASE done[g] # "absent"
    <3>1. EverHeld' = EverHeld
      BY <1>2, <2>2 DEF Arrival, SealsCover
    <3>2. QED
      BY <1>2, <2>1, <3>1 DEF Arrival, Copy!copyVars
  <2>3. CASE done[g] = "absent"
    <3>1. PICK keys \in SUBSET Key : keys \subseteq content[g] /\ EverHeld' = EverHeld \cup keys
      <4>1. EverHeld' = EverHeld \cup (EverHeld' \cap content[g])
        BY <1>2 DEF Arrival
      <4>2. EverHeld' \cap content[g] \in SUBSET Key
        BY DEF TypeOK
      <4>3. QED
        BY <4>1, <4>2
    <3>2. Copy!Import(g, keys)
      BY <1>2, <2>1, <2>3, <3>1 DEF Arrival, Copy!Import
    <3>3. QED
      BY <3>2 DEF Copy!Next
  <2>4. QED
    BY <2>2, <2>3
<1>3. ASSUME NEW g \in Gen, Sealing(g) PROVE [Copy!Next]_Copy!copyVars
  <2>1. Sealed' = Sealed \cup {g}
    BY <1>3 DEF Sealing, TypeOK
  <2>2. Copy!Seal(g)
    BY <1>3, <2>1 DEF Sealing, Copy!Seal
  <2>3. QED
    BY <2>2 DEF Copy!Next
<1>4. ASSUME NEW k \in Key, OwnArrival(k) PROVE [Copy!Next]_Copy!copyVars
  <2>1. Sealed' = Sealed
    BY <1>4 DEF OwnArrival
  <2>2. Copy!OwnWrite(k)
    BY <1>4, <2>1 DEF OwnArrival, Copy!OwnWrite
  <2>3. QED
    BY <2>2 DEF Copy!Next
<1>5. QED
  BY <1>1, <1>2, <1>3, <1>4 DEF Visible

\* With truthful exports the walk implements SecretCopy: its initial states are
\* initial states of SecretCopy and every step is a step of it or a stutter.
THEOREM WalkImplementsSecretCopy ==
  ASSUME FaultyExport = FALSE
  PROVE  Spec => ImplementsSecretCopy
<1>1. Init => Copy!Init
  BY DEF Init, Copy!Init, EverHeld
<1>2. CopyInv /\ [Next]_vars => [Copy!Next]_Copy!copyVars
  BY StepVisible, VisibleImplements DEF CopyInv, SealInv
<1>3. CopyInv /\ [Next]_vars => CopyInv'
  BY StepCopyInv
<1>4. QED
  BY <1>1, <1>2, <1>3, InitCopyInv, PTL DEF Spec, ImplementsSecretCopy, Copy!Spec

-------------------------------------------------------------------------------
(* What the report of a run says is true.                                     *)

\* A completion marker says what the predecessor held.
SealTellsContent ==
  \A g \in Gen : /\ done[g] = "data" => content[g] # {}
                 /\ done[g] = "empty" => content[g] = {}

\* Why a run may say nothing of the predecessors older than h.
EndsAt(s, h) ==
  \/ row[s][h] \in {"unresponsive", "writerUnavailable"}
  \/ SnapshotPolicy(Policy) /\ (content[h] # {} \/ Bridged(h))

\* What each kind of row vouches for.
RowTrue(s, g) ==
  /\ row[s][g] \in {"imported", "noData"} => content[g] \subseteq EverHeld
  /\ row[s][g] = "alreadyMigrated" => Bridged(g) \/ content[g] \subseteq EverHeld
  /\ row[s][g] = "superseded" => \E h \in Gen : h > g /\ EndsAt(s, h)
  /\ row[s][g] = "incomplete" => \A k \in content[g] :
       \/ tally[s][g][k] \in {"failed", "withheld"}
       \/ k \in EverHeld \/ <<g, k>> \in Rejects

ReportTrue == \A s \in Session, g \in Gen : RowTrue(s, g)

TruthInv == CopyInv /\ SealTellsContent /\ RejectionsReal

ReportInv == TruthInv /\ RunInv /\ ReportTrue

\* The successor loses nothing it ever held, and the predecessors stay as they are.
LEMMA HoldsOn ==
  ASSUME CopyInv, [Next]_vars
  PROVE  /\ EverHeld \subseteq EverHeld' /\ UNCHANGED <<content, legacy>>
         /\ \A g \in Gen : Bridged(g)' = Bridged(g)
<1>1. UNCHANGED <<content, legacy>>
  BY PredecessorsFrozen
<1>2. EverHeld \subseteq EverHeld'
  BY StepVisible DEF Visible, NoChange, Arrival, Sealing, OwnArrival
<1>3. QED
  BY <1>1, <1>2 DEF Bridged

\* With a truthful export the data flag says whether the predecessor holds any.
LEMMA FlagTrue ==
  ASSUME CopyInv, NEW s \in Session, pc[s] \in AfterFetch
  PROVE  SawData(s) <=> content[cur[s]] # {}
<1>1. items[s] = content[cur[s]] /\ (prior[s] => items[s] # {})
  BY DEF CopyInv, SealInv, WholeExport, ExportBelieved
<1>2. QED
  BY <1>1 DEF SawData

LEMMA WhoSeals ==
  ASSUME [Next]_vars
  PROVE  UNCHANGED done \/ \E s \in Session : RecordDone(s)
<1>1. ASSUME NEW s \in Session, Acts(s) PROVE UNCHANGED done \/ RecordDone(s)
  <2>1. CASE StartRun(s) \/ Crash(s)
    BY <2>1 DEF StartRun, Crash, durable
  <2>2. CASE Step(s)
    BY <2>2 DEF Step, ReadMigrationMarker, ProbeExecutable, FetchSecrets, RecordInProgress, Item,
                WithholdItem, WriteSecret, Flush, durable
  <2>3. CASE Fault(s)
    BY <2>3 DEF Fault, MarkerUnreadable, NoAnswer, BeginMarkerFails, WriteFails, FlushFails,
                CompleteMarkerFails, durable
  <2>4. QED
    BY <1>1, <2>1, <2>2, <2>3 DEF Acts
<1>2. QED
  BY <1>1, WhoActs DEF UserWrite, UserDelete, vars, durable

LEMMA SealTellsKept ==
  ASSUME CopyInv, SealTellsContent, [Next]_vars
  PROVE  SealTellsContent'
<1>1. UNCHANGED content
  BY PredecessorsFrozen
<1>2. CASE UNCHANGED done
  BY <1>1, <1>2 DEF SealTellsContent
<1>3. ASSUME NEW s \in Session, RecordDone(s) PROVE SealTellsContent'
  <2>1. pc[s] = "seal" /\ done' = [done EXCEPT ![cur[s]] = Flag(SawData(s))]
    BY <1>3 DEF RecordDone
  <2>2. SawData(s) <=> content[cur[s]] # {}
    BY <2>1, FlagTrue DEF AfterFetch
  <2>3. \A g \in Gen : done'[g] = IF g = cur[s] THEN Flag(SawData(s)) ELSE done[g]
    BY <2>1 DEF CopyInv, SealInv, TypeOK
  <2>4. QED
    BY <1>1, <2>2, <2>3 DEF SealTellsContent, Flag
<1>4. QED
  BY <1>2, <1>3, WhoSeals

LEMMA InitTruthInv == Init => TruthInv
<1> SUFFICES ASSUME Init PROVE TruthInv
  OBVIOUS
<1>1. SealTellsContent /\ RejectionsReal
  BY DEF Init, SealTellsContent, RejectionsReal, Untallied
<1>2. QED
  BY <1>1, InitCopyInv DEF TruthInv

LEMMA StepTruthInv == FaultyExport = FALSE /\ TruthInv /\ [Next]_vars => TruthInv'
BY StepCopyInv, SealTellsKept, RejectionsKept DEF TruthInv, CopyInv, SealInv

\* What the row of the current predecessor rests on when it is pushed, and what
\* ending the walk there, or going on, rests on.
RowWarranted(s, kind) ==
  /\ kind \in {"imported", "noData"} => content[cur[s]] \subseteq EverHeld
  /\ kind = "alreadyMigrated" => Bridged(cur[s]) \/ content[cur[s]] \subseteq EverHeld
  /\ kind = "incomplete" => \A k \in content[cur[s]] :
       \/ tally'[s][cur[s]][k] \in {"failed", "withheld"}
       \/ k \in EverHeld' \/ <<cur[s], k>> \in Rejects
  /\ kind # "superseded"

EndWarranted(s, kind, terminated) ==
  /\ terminated => \/ kind \in {"unresponsive", "writerUnavailable"}
                   \/ SnapshotPolicy(Policy) /\ (content[cur[s]] # {} \/ Bridged(cur[s]))
  /\ ~terminated /\ Policy = NewestSnapshotWins => content[cur[s]] = {}

ReportsTruly(s) ==
  \E kind \in Row, terminated \in BOOLEAN :
    /\ \E keys : Report(s, kind, terminated, keys)
    /\ RowWarranted(s, kind) /\ EndWarranted(s, kind, terminated)

\* A report from the items on: the data flag decides whether the walk ends.
LEMMA AuthorityWarranted ==
  ASSUME CopyInv, NEW s \in Session, pc[s] \in AfterFetch, NEW kind \in Row, NEW keys,
         Report(s, kind, DataBearingIsAuthoritative(Policy, SawData(s)), keys),
         RowWarranted(s, kind)
  PROVE  ReportsTruly(s)
<1>1. SawData(s) <=> content[cur[s]] # {}
  BY FlagTrue
<1>2. TypeOK
  BY DEF CopyInv, SealInv
<1>3. DataBearingIsAuthoritative(Policy, SawData(s)) <=> SnapshotPolicy(Policy) /\ content[cur[s]] # {}
  BY <1>1 DEF DataBearingIsAuthoritative
<1>4. Policy = NewestSnapshotWins => SnapshotPolicy(Policy)
  BY DEF SnapshotPolicy, NewestSnapshotWins, UnionAllGenerations
<1>5. EndWarranted(s, kind, DataBearingIsAuthoritative(Policy, SawData(s)))
  BY <1>3, <1>4 DEF EndWarranted
<1>6. QED
  BY <1>2, <1>5, AuthorityAnswers DEF ReportsTruly

\* Every item was offered and flushed: it is in the successor, or its outcome says
\* why not.
LEMMA FlushedOrTold ==
  ASSUME TruthInv, [Next]_vars, NEW s \in Session, Flush(s), NEW k \in content[cur[s]]
  PROVE  \/ tally'[s][cur[s]][k] \in {"failed", "withheld"}
         \/ k \in EverHeld' \/ <<cur[s], k>> \in Rejects
<1>a. CopyInv /\ TypeOK /\ RejectionsReal
  BY DEF TruthInv, CopyInv, SealInv
<1>1. pc[s] = "items" /\ Pending(s) = {} /\ tally' = tally
  BY DEF Flush
<1>2. cur[s] \in Gen /\ k \in Key
  BY <1>a, <1>1, CurrentGeneration DEF TypeOK
<1>3. k \in items[s]
  BY <1>a, <1>1 DEF CopyInv, WholeExport, AfterFetch
<1>4. tally[s][cur[s]][k] # "none" /\ tally[s][cur[s]][k] \in Outcome
  BY <1>a, <1>1, <1>2, <1>3 DEF Pending, TypeOK
<1>5. EverHeld \subseteq EverHeld'
  BY <1>a, HoldsOn
<1>6. CASE tally[s][cur[s]][k] = "rejected"
  BY <1>a, <1>2, <1>6 DEF RejectionsReal
<1>7. CASE tally[s][cur[s]][k] = "skipped" \/ (tally[s][cur[s]][k] = "written" /\ ~Buffering)
  BY <1>a, <1>2, <1>5, <1>7 DEF CopyInv, SealInv, TallyHonest
<1>8. CASE tally[s][cur[s]][k] = "written" /\ Buffering
  <2>1. store' = Land(cur[s], OfferedAs(s, "written")) /\ k \in OfferedAs(s, "written")
    BY <1>2, <1>8 DEF Flush, OfferedAs
  <2>2. QED
    BY <1>a, <1>2, <2>1, LandHolds
<1>9. QED
  BY <1>1, <1>4, <1>6, <1>7, <1>8, WalkAssumption DEF Outcome

\* A session starts over, moves on within the predecessor, or reports truly.
LEMMA RunMoves ==
  ASSUME TruthInv, NEW s \in Session, Acts(s)
  PROVE  \/ (StartRun(s) \/ Crash(s))
         \/ pc[s] # "idle" /\ row'[s] = row[s] /\ cur'[s] = cur[s]
         \/ pc[s] # "idle" /\ ReportsTruly(s)
<1>a. CopyInv /\ TypeOK
  BY DEF TruthInv, CopyInv, SealInv
<1>n. [Next]_vars
  BY DEF Next, Acts
<1>b. pc[s] # "idle" => cur[s] \in Gen
  BY <1>a, CurrentGeneration
<1>1. CASE ReadMigrationMarker(s)
  <2>0. pc[s] = "marker" /\ cur[s] \in Gen
    BY <1>1, <1>b DEF ReadMigrationMarker
  <2>1. CASE IsDone(Marker(cur[s]))
    <3>1. PICK terminated \in BOOLEAN :
            /\ terminated = DataBearingIsAuthoritative(Policy, Marker(cur[s]) = "doneData")
            /\ Report(s, "alreadyMigrated", terminated, withheld[s])
      BY <1>1, <2>1, PolicyAnswersBoolean DEF ReadMigrationMarker
    <3>2. done[cur[s]] # "absent" \/ Bridged(cur[s])
      BY <1>a, <2>0, <2>1, MarkerTells
    <3>3. RowWarranted(s, "alreadyMigrated")
      BY <1>a, <2>0, <3>2 DEF RowWarranted, CopyInv, SealsCover
    <3>4. terminated => SnapshotPolicy(Policy) /\ Marker(cur[s]) = "doneData"
      BY <3>1 DEF DataBearingIsAuthoritative
    <3>5. Policy = NewestSnapshotWins /\ ~terminated => Marker(cur[s]) # "doneData"
      BY <3>1 DEF DataBearingIsAuthoritative, SnapshotPolicy, NewestSnapshotWins,
                  UnionAllGenerations
    <3>6. EndWarranted(s, "alreadyMigrated", terminated)
      <4>1. Marker(cur[s]) = "doneData" => content[cur[s]] # {} \/ Bridged(cur[s])
        BY <1>a, <2>0, MarkerTells DEF TruthInv, SealTellsContent
      <4>2. Marker(cur[s]) # "doneData" => content[cur[s]] = {}
        BY <1>a, <2>0, <2>1, MarkerTells DEF TruthInv, SealTellsContent
      <4>3. QED
        BY <3>4, <3>5, <4>1, <4>2 DEF EndWarranted
    <3>7. "alreadyMigrated" \in Row
      BY DEF Row
    <3>8. QED
      BY <2>0, <3>1, <3>3, <3>6, <3>7 DEF ReportsTruly
  <2>2. CASE ~IsDone(Marker(cur[s]))
    BY <1>1, <2>0, <2>2 DEF ReadMigrationMarker
  <2>3. QED
    BY <2>1, <2>2
<1>2. CASE MarkerUnreadable(s) \/ BeginMarkerFails(s)
  <2>1. pc[s] # "idle" /\ Report(s, "writerUnavailable", TRUE, withheld[s])
    BY <1>2 DEF MarkerUnreadable, BeginMarkerFails, WriterUnavailable
  <2>2. RowWarranted(s, "writerUnavailable") /\ EndWarranted(s, "writerUnavailable", TRUE)
    BY DEF RowWarranted, EndWarranted
  <2>3. "writerUnavailable" \in Row
    BY DEF Row
  <2>4. QED
    BY <2>1, <2>2, <2>3 DEF ReportsTruly
<1>3. ASSUME Unresponsive(s), pc[s] # "idle" PROVE ReportsTruly(s)
  <2>1. PICK terminated \in BOOLEAN :
          /\ terminated = UnresponsiveTerminates(Policy, prior[s])
          /\ Report(s, "unresponsive", terminated, withheld[s])
    BY <1>a, <1>3, AuthorityAnswers DEF Unresponsive
  <2>2. ~terminated => Policy # NewestSnapshotWins
    BY <2>1 DEF UnresponsiveTerminates
  <2>3. RowWarranted(s, "unresponsive") /\ EndWarranted(s, "unresponsive", terminated)
    BY <2>2 DEF RowWarranted, EndWarranted
  <2>4. "unresponsive" \in Row
    BY DEF Row
  <2>5. QED
    BY <2>1, <2>3, <2>4 DEF ReportsTruly
<1>4. CASE NoAnswer(s)
  BY <1>3, <1>4 DEF NoAnswer
<1>5. CASE FetchSecrets(s)
  <2>1. pc[s] = "fetch"
    BY <1>5 DEF FetchSecrets
  <2>2. Unresponsive(s) \/ UNCHANGED <<cur, row>>
    BY <1>5 DEF FetchSecrets
  <2>3. QED
    BY <1>3, <2>1, <2>2
<1>6. CASE \/ ProbeExecutable(s) \/ RecordInProgress(s) \/ Item(s)
           \/ (\E k \in Key : WriteFails(s, k))
  BY <1>6 DEF ProbeExecutable, RecordInProgress, Item, WithholdItem, WriteSecret, WriteFails
<1>7. CASE Flush(s)
  <2>1. pc[s] = "items"
    BY <1>7 DEF Flush
  <2>2. CASE IsClean(s)
    BY <1>7, <2>1, <2>2 DEF Flush
  <2>3. CASE ~IsClean(s)
    <3>1. RowWarranted(s, "incomplete")
      BY <1>7, <1>n, FlushedOrTold DEF RowWarranted
    <3>2. "incomplete" \in Row
      BY DEF Row
    <3>3. Report(s, "incomplete", DataBearingIsAuthoritative(Policy, SawData(s)),
                 withheld[s] \cup OfferedAs(s, "failed"))
      BY <1>7, <2>3 DEF Flush
    <3>4. QED
      BY <1>a, <2>1, <3>1, <3>2, <3>3, AuthorityWarranted DEF AfterFetch
  <2>4. QED
    BY <2>2, <2>3
<1>8. ASSUME NEW kind \in {"flushFailed", "sealFailed"}, NEW keys, pc[s] \in AfterFetch,
             Report(s, kind, DataBearingIsAuthoritative(Policy, SawData(s)), keys)
      PROVE  pc[s] # "idle" /\ ReportsTruly(s)
  <2>1. RowWarranted(s, kind) /\ kind \in Row
    BY <1>8 DEF RowWarranted, Row
  <2>2. QED
    BY <1>a, <1>8, <2>1, AuthorityWarranted DEF AfterFetch
<1>9. CASE FlushFails(s)
  BY <1>8, <1>9 DEF FlushFails, AfterFetch
<1>10. CASE CompleteMarkerFails(s)
  BY <1>8, <1>10 DEF CompleteMarkerFails, AfterFetch
<1>11. CASE RecordDone(s)
  <2>1. pc[s] = "seal"
    BY <1>11 DEF RecordDone
  <2>2. PICK kind \in {"imported", "noData"} :
          Report(s, kind, DataBearingIsAuthoritative(Policy, SawData(s)), withheld[s])
    BY <1>11 DEF RecordDone
  <2>3. content[cur[s]] \subseteq EverHeld
    BY <1>a, <2>1 DEF CopyInv, SealInv, WholeExport, ReadyToSeal, AfterFetch
  <2>4. RowWarranted(s, kind) /\ kind \in Row
    BY <2>2, <2>3 DEF RowWarranted, Row
  <2>5. QED
    BY <1>a, <2>1, <2>2, <2>4, AuthorityWarranted DEF AfterFetch
<1>12. QED
  BY <1>1, <1>2, <1>4, <1>5, <1>6, <1>7, <1>9, <1>10, <1>11 DEF Acts, Step, Fault

\* A row that stays as it is stays true.
LEMMA RowStaysTrue ==
  ASSUME ReportInv, [Next]_vars, NEW s \in Session, NEW g \in Gen,
         row'[s][g] = row[s][g], tally'[s][g] = tally[s][g] \/ row[s][g] = "none",
         \A h \in Gen : h > g => row'[s][h] = row[s][h]
  PROVE  RowTrue(s, g)'
<1>1. /\ EverHeld \subseteq EverHeld' /\ UNCHANGED content
      /\ \A h \in Gen : Bridged(h)' = Bridged(h)
  BY HoldsOn DEF ReportInv, TruthInv
<1>2. RowTrue(s, g)
  BY DEF ReportInv, ReportTrue
<1>3. ASSUME row[s][g] = "superseded" PROVE \E h \in Gen : h > g /\ EndsAt(s, h)'
  <2>1. PICK h \in Gen : h > g /\ EndsAt(s, h)
    BY <1>2, <1>3 DEF RowTrue
  <2>2. EndsAt(s, h)'
    BY <1>1, <2>1 DEF EndsAt
  <2>3. QED
    BY <2>1, <2>2
<1>4. QED
  BY <1>1, <1>2, <1>3 DEF RowTrue

LEMMA StepReportTrue == ReportInv /\ [Next]_vars => ReportTrue'
<1> SUFFICES ASSUME ReportInv, [Next]_vars PROVE ReportTrue'
  OBVIOUS
<1>a. TypeOK /\ NothingAhead /\ TruthInv
  BY DEF ReportInv, RunInv
<1>1. /\ EverHeld \subseteq EverHeld' /\ UNCHANGED content
      /\ \A h \in Gen : Bridged(h)' = Bridged(h)
  BY <1>a, HoldsOn DEF TruthInv
<1>2. ASSUME NEW t \in Session, Rests(t), NEW g \in Gen PROVE RowTrue(t, g)'
  BY <1>2, RowStaysTrue DEF Rests
<1>3. ASSUME NEW s \in Session, Acts(s), NEW g \in Gen PROVE RowTrue(s, g)'
  <2>1. CASE StartRun(s) \/ Crash(s)
    <3>1. row'[s][g] = "none"
      BY <1>a, <2>1 DEF StartRun, Crash, TypeOK
    <3>2. QED
      BY <3>1 DEF RowTrue
  <2>2. ASSUME ~(StartRun(s) \/ Crash(s)), pc[s] # "idle"
        PROVE  /\ cur[s] \in Gen
               /\ \A h \in Gen : h <= cur[s] => row[s][h] = "none"
               /\ \A h \in Gen : h # cur[s] => tally'[s][h] = tally[s][h]
    BY <1>a, <1>3, <2>2, CurrentGeneration, TallyMoves DEF NothingAhead
  <2>3. CASE ~(StartRun(s) \/ Crash(s)) /\ pc[s] # "idle" /\ row'[s] = row[s]
    <3>1. tally'[s][g] = tally[s][g] \/ row[s][g] = "none"
      BY <2>2, <2>3 DEF Gen
    <3>2. QED
      BY <2>3, <3>1, RowStaysTrue
  <2>4. CASE ~(StartRun(s) \/ Crash(s)) /\ pc[s] # "idle" /\ ReportsTruly(s)
    <3>1. PICK kind \in Row, terminated \in BOOLEAN :
            /\ \E keys : Report(s, kind, terminated, keys)
            /\ RowWarranted(s, kind) /\ EndWarranted(s, kind, terminated)
      BY <2>4 DEF ReportsTruly
    <3>2. \A h \in Gen : row'[s][h] = IF h = cur[s] THEN kind
                                      ELSE IF terminated /\ h < cur[s] THEN "superseded"
                                      ELSE row[s][h]
      BY <1>a, <3>1 DEF Report, TypeOK
    <3>3. CASE g = cur[s]
      <4>1. row'[s][g] = kind
        BY <2>2, <2>4, <3>2, <3>3
      <4>2. QED
        BY <1>1, <3>1, <3>3, <4>1 DEF RowTrue, RowWarranted
    <3>4. CASE g > cur[s]
      <4>1. row'[s][g] = row[s][g] /\ \A h \in Gen : h > g => row'[s][h] = row[s][h]
        BY <2>2, <2>4, <3>2, <3>4 DEF Gen
      <4>2. tally'[s][g] = tally[s][g]
        <5>1. g # cur[s]
          BY <2>2, <2>4, <3>4 DEF Gen
        <5>2. QED
          BY <2>2, <2>4, <5>1
      <4>3. QED
        BY <4>1, <4>2, RowStaysTrue
    <3>5. CASE g < cur[s] /\ terminated
      <4>1. row'[s][g] = "superseded" /\ row'[s][cur[s]] = kind /\ cur[s] > g
        BY <2>2, <2>4, <3>2, <3>5 DEF Gen
      <4>2. \/ kind \in {"unresponsive", "writerUnavailable"}
            \/ SnapshotPolicy(Policy) /\ (content[cur[s]] # {} \/ Bridged(cur[s]))
        BY <3>1, <3>5 DEF EndWarranted
      <4>3. \E h \in Gen : h > g /\ EndsAt(s, h)'
        <5>1. PICK h \in Gen : h = cur[s]
          BY <2>2, <2>4
        <5>2. EndsAt(s, h)'
          BY <1>1, <4>1, <4>2, <5>1 DEF EndsAt
        <5>3. QED
          BY <4>1, <5>1, <5>2
      <4>4. QED
        BY <4>1, <4>3 DEF RowTrue
    <3>6. CASE g < cur[s] /\ ~terminated
      <4>1. row'[s][g] = "none"
        BY <2>2, <2>4, <3>2, <3>6 DEF Gen
      <4>2. QED
        BY <4>1 DEF RowTrue
    <3>7. QED
      BY <2>2, <2>4, <3>3, <3>4, <3>5, <3>6 DEF Gen
  <2>5. QED
    BY <1>a, <1>3, <2>1, <2>3, <2>4, RunMoves
<1>4. ASSUME NEW s \in Session, Acts(s) PROVE ReportTrue'
  <2>1. \A t \in Session : t # s => Rests(t)
    BY <1>a, <1>4, OthersRest
  <2>2. QED
    BY <1>2, <1>3, <1>4, <2>1 DEF ReportTrue
<1>5. CASE UNCHANGED volatile
  BY <1>2, <1>5 DEF ReportTrue, Rests, volatile
<1>6. QED
  BY <1>4, <1>5, WhoActs

LEMMA InitReportInv == Init => ReportInv
<1> SUFFICES ASSUME Init PROVE ReportInv
  OBVIOUS
<1>1. ReportTrue
  BY DEF Init, ReportTrue, RowTrue
<1>2. QED
  BY <1>1, InitTruthInv, InitRunInv DEF ReportInv

LEMMA StepReportInv == FaultyExport = FALSE /\ ReportInv /\ [Next]_vars => ReportInv'
BY StepTruthInv, StepRunInv, StepReportTrue DEF ReportInv

THEOREM ReportInvariant ==
  ASSUME FaultyExport = FALSE
  PROVE  Spec => []ReportInv
BY InitReportInv, StepReportInv, PTL DEF Spec

\* No newer predecessor speaks for one that a report answers for.
LEMMA AnswersForItself ==
  ASSUME ReportInv, NEW s \in Session, NEW g \in Gen, Answerable(g), row[s][g] = "superseded"
  PROVE  \E h \in Gen : row[s][h] \in {"unresponsive", "writerUnavailable"}
<1>1. PICK h \in Gen : h > g /\ EndsAt(s, h)
  BY DEF ReportInv, ReportTrue, RowTrue
<1>2. ASSUME SnapshotPolicy(Policy) PROVE content[h] = {} /\ ~Bridged(h)
  <2>1. content[h] = {}
    BY <1>1, <1>2 DEF Answerable
  <2>2. \A newest \in legacy : ~(newest >= g)
    BY <1>2 DEF Answerable, Bridged, LegacyMigrated
  <2>3. legacy \subseteq Gen
    BY DEF ReportInv, TruthInv, CopyInv, SealInv, TypeOK
  <2>4. \A newest \in legacy : ~(newest >= h)
    BY <1>1, <2>2, <2>3 DEF Gen
  <2>5. QED
    BY <1>2, <2>1, <2>4 DEF Bridged, LegacyMigrated
<1>3. QED
  BY <1>1, <1>2 DEF EndsAt

\* A report that reads complete is true, however many sessions run, whatever fails
\* or dies and whatever the user does meanwhile, as long as exports are truthful.
THEOREM CompleteMeansLandedHolds ==
  ASSUME FaultyExport = FALSE
  PROVE  Spec => []CompleteMeansLanded
<1>1. ReportInv => CompleteMeansLanded
  <2> SUFFICES ASSUME ReportInv, NEW s \in Session, NEW g \in Gen,
                      Reported(s), IsComplete(s), Answerable(g)
               PROVE  content[g] \subseteq EverHeld
    BY DEF CompleteMeansLanded
  <2>1. row[s][g] \in Row /\ row[s][g] # "none"
    BY DEF ReportInv, RunInv, TypeOK, Reported
  <2>2. row[s][g] \in {"imported", "noData", "alreadyMigrated", "superseded"}
    BY <2>1 DEF IsComplete, Row
  <2>3. row[s][g] # "superseded"
    BY AnswersForItself DEF IsComplete
  <2>4. QED
    BY <2>2, <2>3 DEF ReportInv, ReportTrue, RowTrue, Answerable
<1>2. QED
  BY <1>1, ReportInvariant, PTL

\* When the report says that a retry cannot help, what is missing of a predecessor
\* it answers for was refused by the import path for good.
THEOREM StopsOnlyOnRejectionsHolds ==
  ASSUME FaultyExport = FALSE
  PROVE  Spec => []StopsOnlyOnRejections
<1>1. ReportInv => StopsOnlyOnRejections
  <2> SUFFICES ASSUME ReportInv, NEW s \in Session, NEW g \in Gen, NEW k \in Key,
                      Reported(s), ~RetryMayHelp(s), Answerable(g), k \in content[g]
               PROVE  k \in EverHeld \/ <<g, k>> \in Rejects
    BY DEF StopsOnlyOnRejections
  <2>1. row[s][g] \in Row /\ row[s][g] # "none"
    BY DEF ReportInv, RunInv, TypeOK, Reported
  <2>2. row[s][g] \in {"imported", "noData", "alreadyMigrated", "superseded", "incomplete"}
    BY <2>1 DEF RetryMayHelp, Row
  <2>3. row[s][g] # "superseded"
    BY AnswersForItself DEF RetryMayHelp
  <2>4. RowTrue(s, g)
    BY DEF ReportInv, ReportTrue
  <2>5. CASE row[s][g] = "incomplete"
    BY <2>4, <2>5 DEF RowTrue, RetryMayHelp
  <2>6. QED
    BY <2>2, <2>3, <2>4, <2>5 DEF RowTrue, Answerable
<1>2. QED
  BY <1>1, ReportInvariant, PTL

-------------------------------------------------------------------------------
(* Only the newest snapshot is taken.                                         *)

\* A NewestSnapshotWins walk goes on only past empty predecessors.
OnlyEmptyBehind ==
  \A s \in Session, h \in Gen : pc[s] # "idle" /\ h > cur[s] => content[h] = {}

SnapshotInv == TruthInv /\ OnlyEmptyBehind /\ NewestSnapshotOnly

LEMMA StepOnlyEmptyBehind ==
  ASSUME Policy = NewestSnapshotWins, SnapshotInv, [Next]_vars
  PROVE  OnlyEmptyBehind'
<1>a. TypeOK /\ TruthInv
  BY DEF SnapshotInv, TruthInv, CopyInv, SealInv
<1>1. UNCHANGED content
  BY PredecessorsFrozen
<1>2. ASSUME NEW t \in Session, pc[t] # "idle" \/ pc'[t] = "idle", cur'[t] = cur[t],
             NEW h \in Gen, pc'[t] # "idle", h > cur'[t]
      PROVE  content'[h] = {}
  BY <1>1, <1>2 DEF SnapshotInv, OnlyEmptyBehind
<1>3. ASSUME NEW s \in Session, Acts(s), NEW h \in Gen, pc'[s] # "idle", h > cur'[s]
      PROVE  content'[h] = {}
  <2>1. CASE StartRun(s) \/ Crash(s)
    <3>1. cur'[s] = N
      BY <1>a, <1>3, <2>1 DEF StartRun, Crash, TypeOK
    <3>2. QED
      BY <1>3, <3>1, WalkAssumption DEF Gen
  <2>2. CASE pc[s] # "idle" /\ cur'[s] = cur[s]
    BY <1>2, <1>3, <2>2
  <2>3. CASE pc[s] # "idle" /\ ReportsTruly(s)
    <3>1. PICK kind \in Row, terminated \in BOOLEAN :
            (\E keys : Report(s, kind, terminated, keys)) /\ EndWarranted(s, kind, terminated)
      BY <2>3 DEF ReportsTruly
    <3>2. cur[s] \in Gen
      BY <1>a, <2>3, CurrentGeneration
    <3>3. ~terminated /\ cur'[s] = cur[s] - 1
      BY <1>a, <1>3, <3>1 DEF Report, TypeOK
    <3>4. content[cur[s]] = {}
      BY <3>1, <3>3 DEF EndWarranted
    <3>5. h = cur[s] \/ h > cur[s]
      BY <1>3, <3>2, <3>3 DEF Gen
    <3>6. QED
      BY <1>1, <2>3, <3>4, <3>5 DEF SnapshotInv, OnlyEmptyBehind
  <2>4. QED
    BY <1>a, <1>3, <2>1, <2>2, <2>3, RunMoves
<1>4. ASSUME NEW t \in Session, Rests(t), NEW h \in Gen, pc'[t] # "idle", h > cur'[t]
      PROVE  content'[h] = {}
  BY <1>2, <1>4 DEF Rests
<1>5. ASSUME NEW s \in Session, Acts(s) PROVE OnlyEmptyBehind'
  <2>1. \A t \in Session : t # s => Rests(t)
    BY <1>a, <1>5, OthersRest
  <2>2. QED
    BY <1>3, <1>4, <1>5, <2>1 DEF OnlyEmptyBehind
<1>6. CASE UNCHANGED volatile
  BY <1>4, <1>6 DEF OnlyEmptyBehind, Rests, volatile
<1>7. QED
  BY <1>5, <1>6, WhoActs

LEMMA StepSnapshotInv ==
  FaultyExport = FALSE /\ Policy = NewestSnapshotWins /\ SnapshotInv /\ [Next]_vars => SnapshotInv'
<1> SUFFICES ASSUME FaultyExport = FALSE, Policy = NewestSnapshotWins, SnapshotInv, [Next]_vars
             PROVE  SnapshotInv'
  OBVIOUS
<1>1. TruthInv' /\ OnlyEmptyBehind'
  BY StepTruthInv, StepOnlyEmptyBehind DEF SnapshotInv
<1>2. UNCHANGED content
  BY PredecessorsFrozen
<1>3. TypeOK
  BY DEF SnapshotInv, TruthInv, CopyInv, SealInv
<1>4. ASSUME NEW k \in Key, NEW h \in Gen, store'[k] \in Gen, h > store'[k]
      PROVE  content'[h] = {}
  <2>1. CASE store[k] = store'[k]
    BY <1>2, <1>4, <2>1 DEF SnapshotInv, NewestSnapshotOnly
  <2>2. CASE store[k] # store'[k]
    <3>1. PICK g \in Gen : g = store'[k]
      BY <1>4
    <3>2. Copies(g, k)
      BY <2>2, <3>1 DEF Copies
    <3>3. PICK s \in Session : pc[s] = "items" /\ cur[s] = g
      BY <1>3, <3>2, WhoCopies
    <3>4. QED
      BY <1>2, <1>4, <3>1, <3>3 DEF SnapshotInv, OnlyEmptyBehind
  <2>3. QED
    BY <2>1, <2>2
<1>5. QED
  BY <1>1, <1>4 DEF SnapshotInv, NewestSnapshotOnly

\* Delete-by-absence: under NewestSnapshotWins a value from a generation is in the
\* successor only if every newer generation is empty, with any number of sessions.
THEOREM NewestSnapshotOnlyHolds ==
  ASSUME FaultyExport = FALSE, Policy = NewestSnapshotWins
  PROVE  Spec => []NewestSnapshotOnly
<1>1. Init => SnapshotInv
  <2> SUFFICES ASSUME Init PROVE SnapshotInv
    OBVIOUS
  <2>1. OnlyEmptyBehind
    BY DEF Init, OnlyEmptyBehind
  <2>2. \A k \in Key : store[k] \notin Gen
    BY WalkAssumption DEF Init, Own, Absent, Gen
  <2>3. QED
    BY <2>1, <2>2, InitTruthInv DEF SnapshotInv, NewestSnapshotOnly
<1>2. SnapshotInv /\ [Next]_vars => SnapshotInv'
  BY StepSnapshotInv
<1>3. SnapshotInv => NewestSnapshotOnly
  BY DEF SnapshotInv
<1>4. QED
  BY <1>1, <1>2, <1>3, PTL DEF Spec
===============================================================================
