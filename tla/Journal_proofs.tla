---------------------------- MODULE Journal_proofs ----------------------------
(***************************************************************************)
(* What merging two records of one predecessor guarantees, for every pair  *)
(* of states and not only the counts a small instance reaches, and what    *)
(* the journaled walk keeps, for any number of predecessors, keys and      *)
(* sessions, any policy, and any faults, deaths and stale stores.          *)
(***************************************************************************)
EXTENDS JournaledWalk, DelegateWalk_proofs, FiniteSetTheorems

-------------------------------------------------------------------------------
(* Two records of one predecessor.                                            *)

\* merge_states yields a well-formed state.
THEOREM MergeIsState ==
  ASSUME NEW a \in JournalState, NEW b \in JournalState
  PROVE  MergeStates(a, b) \in JournalState
<1> DEFINE m == MergeStates(a, b)
<1> USE DEF JournalState, IsNormal, Kind, Fresh
<1>1. CASE ~IsPending(a) /\ ~IsPending(b)
  <2>1. m = MergeResolved(a, b)
    BY <1>1 DEF MergeStates
  <2>. QED
    BY <2>1 DEF MergeResolved, Larger
<1>2. CASE ~IsPending(a) /\ IsPending(b)
  <2>1. m = MergeSettled(a, b)
    BY <1>2 DEF MergeStates
  <2>. QED
    BY <2>1, <1>2 DEF MergeSettled, Larger, IsPending
<1>3. CASE IsPending(a) /\ ~IsPending(b)
  <2>1. m = MergeSettled(b, a)
    BY <1>3 DEF MergeStates
  <2>. QED
    BY <2>1, <1>3 DEF MergeSettled, Larger, IsPending
<1>4. CASE IsPending(a) /\ IsPending(b)
  <2>1. m = MergePending(a, b)
    BY <1>4 DEF MergeStates
  <2>. QED
    BY <2>1 DEF MergePending, Unresolved, Larger
<1>. QED
  BY <1>1, <1>2, <1>3, <1>4

\* No merge loses the fact that the data is in the successor, and none invents it.
THEOREM MergeKeepsData ==
  ASSUME NEW a \in JournalState, NEW b \in JournalState
  PROVE  IsDataBearing(MergeStates(a, b)) <=> IsDataBearing(a) \/ IsDataBearing(b)
BY SMTT(60) DEF MergeStates, MergeResolved, MergeSettled, MergePending, JournalState, IsNormal,
       Kind, Fresh, Unresolved, Larger, IsPending, IsDataBearing, CompletenessRank

\* An import that started stays flagged until the data is in: no answer of
\* "nothing", and no entry of a session that did not see it, settles it.
THEOREM MergeKeepsFlag ==
  ASSUME NEW a \in JournalState, NEW b \in JournalState, Started(a) \/ Started(b)
  PROVE  Started(MergeStates(a, b)) \/ IsDataBearing(MergeStates(a, b))
BY SMTT(60) DEF MergeStates, MergeResolved, MergeSettled, MergePending, JournalState, IsNormal,
       Kind, Fresh, Unresolved, Larger, IsPending, IsDataBearing, CompletenessRank, Started

\* The count that a later export is held to only rises, while it is kept at all.
THEOREM MergeCountRises ==
  ASSUME NEW a \in JournalState, NEW b \in JournalState,
         MergeStates(a, b).kind \in {"pending", "rejections"}
  PROVE  MergeStates(a, b).seen >= a.seen /\ MergeStates(a, b).seen >= b.seen
BY SMTT(60) DEF MergeStates, MergeResolved, MergeSettled, MergePending, JournalState, IsNormal,
       Kind, Fresh, Unresolved, Larger, IsPending, IsDataBearing, CompletenessRank

\* A store that is repeated, by a session that already merged what is stored,
\* changes nothing: the merge absorbs both of its arguments.
THEOREM MergeAbsorbs ==
  ASSUME NEW a \in JournalState, NEW b \in JournalState
  PROVE  /\ MergeStates(a, MergeStates(a, b)) = MergeStates(a, b)
         /\ MergeStates(MergeStates(a, b), b) = MergeStates(a, b)
BY SMTT(60) DEF MergeStates, MergeResolved, MergeSettled, MergePending, JournalState, IsNormal,
       Kind, Fresh, Unresolved, Larger, IsPending, IsDataBearing, CompletenessRank

\* A resolution that no longer holds cannot come back through a merge of states
\* that were evaluated under the binding.
THEOREM MergeStaysBound ==
  ASSUME NEW a \in JournalState, NEW b \in JournalState, NEW snapshot \in BOOLEAN,
         NEW rev \in Nat
  PROVE  LET m == MergeStates(Effective(a, snapshot, rev), Effective(b, snapshot, rev))
         IN  Effective(m, snapshot, rev) = m
BY SMTT(60) DEF MergeStates, MergeResolved, MergeSettled, MergePending, JournalState, IsNormal,
       Kind, Fresh, Unresolved, Larger, IsPending, IsDataBearing, CompletenessRank, Effective

-------------------------------------------------------------------------------
(* What the other operators on entries yield.                                 *)

LEMMA EntriesOfWalks ==
  /\ {Fresh, Imported, NoData, Superseded} \subseteq JournalState
  /\ \A rejected, rev, count \in Nat : ImportedWithRejections(rejected, rev, count) \in JournalState
  /\ IsDataBearing(Imported)
  /\ ~IsDataBearing(Fresh) /\ ~IsDataBearing(NoData) /\ ~IsDataBearing(Superseded)
<1>1. {Fresh, Imported, NoData, Superseded} \subseteq JournalState
  <2>1. Fresh \in JournalState
    BY DEF Fresh, JournalState, IsNormal, Kind
  <2>2. Imported \in JournalState /\ NoData \in JournalState /\ Superseded \in JournalState
    BY DEF Fresh, Imported, NoData, Superseded, JournalState, IsNormal, Kind
  <2>3. QED
    BY <2>1, <2>2
<1>2. ASSUME NEW rejected \in Nat, NEW rev \in Nat, NEW count \in Nat
      PROVE  ImportedWithRejections(rejected, rev, count) \in JournalState
  BY DEF ImportedWithRejections, JournalState, IsNormal, Kind
<1>3. /\ IsDataBearing(Imported)
      /\ ~IsDataBearing(Fresh) /\ ~IsDataBearing(NoData) /\ ~IsDataBearing(Superseded)
  BY DEF Fresh, Imported, NoData, Superseded, IsDataBearing
<1>4. QED
  BY <1>1, <1>2, <1>3

\* Neither the binding nor the start of an import, nor its count, makes an entry
\* say that the data is in.
LEMMA EffectiveEntry ==
  ASSUME NEW a \in JournalState, NEW snapshot, NEW rev
  PROVE  /\ Effective(a, snapshot, rev) \in JournalState
         /\ IsDataBearing(Effective(a, snapshot, rev)) => IsDataBearing(a)
<1>1. CASE a.kind = "superseded" /\ ~snapshot
  <2>1. Effective(a, snapshot, rev) = Fresh
    BY <1>1 DEF Effective
  <2>2. QED
    BY <2>1, EntriesOfWalks
<1>2. CASE a.kind = "rejections" /\ a.revision < rev
  <2>1. Effective(a, snapshot, rev) = Unresolved(FALSE, a.rejected, a.seen)
    BY <1>2 DEF Effective
  <2>2. QED
    BY <1>2, <2>1 DEF Unresolved, JournalState, IsNormal, Kind, IsDataBearing
<1>3. CASE ~(a.kind = "superseded" /\ ~snapshot) /\ ~(a.kind = "rejections" /\ a.revision < rev)
  BY <1>3 DEF Effective
<1>4. QED
  BY <1>1, <1>2, <1>3

LEMMA StartedEntry ==
  ASSUME NEW a \in JournalState
  PROVE  /\ MarkImportStarted(a) \in JournalState
         /\ IsDataBearing(MarkImportStarted(a)) => IsDataBearing(a)
BY DEF MarkImportStarted, Unresolved, JournalState, IsNormal, Kind, IsDataBearing, IsPending

LEMMA CountedEntry ==
  ASSUME NEW a \in JournalState, NEW count \in Nat
  PROVE  /\ NoteItemsSeen(a, count) \in JournalState
         /\ IsDataBearing(NoteItemsSeen(a, count)) => IsDataBearing(a)
BY DEF NoteItemsSeen, Started, Larger, JournalState, IsNormal, Kind, IsDataBearing, IsPending

LEMMA RecordedEntry ==
  ASSUME NEW a \in JournalState, NEW r \in JournalState
  PROVE  /\ Record(a, r) \in JournalState
         /\ IsDataBearing(Record(a, r)) <=> IsDataBearing(a) \/ IsDataBearing(r)
<1>1. PICK b : b = IF IsPending(a) /\ r.kind = "rejections"
                   THEN [r EXCEPT !.seen = Larger(@, a.seen)] ELSE r
  OBVIOUS
<1>2. b \in JournalState /\ (IsDataBearing(b) <=> IsDataBearing(r))
  BY <1>1 DEF Larger, JournalState, IsNormal, Kind, IsDataBearing
<1>3. Record(a, r) = MergeStates(a, b)
  BY <1>1 DEF Record
<1>4. QED
  BY <1>2, <1>3, MergeIsState, MergeKeepsData

-------------------------------------------------------------------------------
(* What the journaled operations do to the walk.                              *)

\* Which awaits belong together: the walk is paused while the journal is stored.
StageOK(s) ==
  /\ pc[s] # "idle" => stage[s] \in {"walk", "readBack", "merge", "write"}
  /\ stage[s] \notin {"idle", "load", "seed"} => journal[s] \in [Gen -> JournalState]
  /\ stage[s] \in {"walk", "readBack", "idle"} => aim[s] = "none"
  /\ stage[s] \in {"load", "seed"} => aim[s] \in {"begin", "run"}
  /\ stage[s] \in {"merge", "write"} =>
       \/ aim[s] = "early" /\ pc[s] = "probe"
       \/ aim[s] = "late" /\ pc[s] = "begin"
       \/ aim[s] \in {"begin", "run", "end", "note"} /\ pc[s] = "idle"
  /\ stage[s] = "readBack" => pc[s] = "items" /\ \A k \in Key : tally[s][cur[s]][k] = "none"
  /\ stage[s] \in {"note", "noteMarker", "noteRead", "copy"} => aim[s] = "note"
  /\ aim[s] = "note" => sweep[s] \in Gen

Shape == TypeOK /\ JTypeOK /\ \A s \in Session : StageOK(s)

\* A step of one session.
JActs(s) ==
  \/ BeginMigrationJournal(s) \/ MigrateJournaled(s)
  \/ JStep(s) \/ JFault(s) \/ AppStep(s) \/ Die(s) \/ RaiseRevision(s)

\* The journal reports a predecessor of which nothing was tallied.
PassesOver(s) ==
  /\ pc[s] # "idle" /\ \A k \in Key : tally[s][cur[s]][k] = "none"
  /\ \E kind \in {"alreadyMigrated", "unresponsive", "writerUnavailable"}, terminated \in BOOLEAN :
       Report(s, kind, terminated, withheld[s])
  /\ UNCHANGED <<durable, tally>>

\* It has one asked, whatever its marker says.
Asks(s) ==
  /\ pc[s] = "marker" /\ GoTo(s, "probe")
  /\ \E known \in BOOLEAN : /\ prior' = [prior EXCEPT ![s] = known]
                            /\ known => Marker(cur[s]) = "wipData" \/ KnownData(s)
  /\ UNCHANGED <<durable, cur, items, tally, withheld, row>>

\* It takes an answer.
Takes(s) ==
  /\ pc[s] = "fetch" /\ GoTo(s, "begin")
  /\ \E exported \in JExport(s) :
       ~TooShort(s, exported) /\ items' = [items EXCEPT ![s] = exported]
  /\ UNCHANGED <<durable, cur, prior, tally, withheld, row>>

HandsOver(s) == pc[s] = "idle" /\ HandOver(s)

\* The app's own import: its marker, and a copy behind it.
Marks(s) ==
  /\ aim[s] = "note" /\ sweep[s] \in Gen /\ wip' = [wip EXCEPT ![sweep[s]] = "data"]
  /\ UNCHANGED <<content, legacy, store, done, volatile>>

CopiesItself(s) ==
  /\ stage[s] = "copy" /\ sweep[s] \in Gen
  /\ \E k \in content[sweep[s]] : ~Present(k) /\ store' = [store EXCEPT ![k] = sweep[s]]
  /\ UNCHANGED <<content, legacy, wip, done, volatile>>

\* The awaits that the journal leaves as they are.
Awaits(s) ==
  \/ StartRun(s) \/ MarkerUnreadable(s) \/ ProbeExecutable(s) \/ NoAnswer(s)
  \/ RecordInProgress(s) \/ BeginMarkerFails(s)
  \/ Item(s) \/ (\E k \in Key : WriteFails(s, k)) \/ Flush(s) \/ FlushFails(s)
  \/ RecordDone(s) \/ CompleteMarkerFails(s) \/ Crash(s)

Moves(s) ==
  \/ UNCHANGED vars \/ Awaits(s)
  \/ PassesOver(s) \/ Asks(s) \/ Takes(s) \/ HandsOver(s) \/ Marks(s) \/ CopiesItself(s)

LEMMA PassesUnreachable ==
  ASSUME Shape, NEW s \in Session, pc[s] # "idle", \A k \in Key : tally[s][cur[s]][k] = "none",
         WriterUnavailable(s), UNCHANGED <<durable, tally>>
  PROVE  PassesOver(s)
BY DEF PassesOver, WriterUnavailable

LEMMA NothingTallied ==
  ASSUME RunInv, NEW s \in Session, pc[s] \in BeforeItems
  PROVE  pc[s] # "idle" /\ cur[s] \in Gen /\ \A k \in Key : tally[s][cur[s]][k] = "none"
<1>1. pc[s] # "idle" /\ cur[s] \in Gen
  BY CurrentGeneration DEF RunInv, BeforeItems
<1>2. QED
  BY <1>1 DEF RunInv, NothingAhead

LEMMA WalkMoves ==
  ASSUME Shape, RunInv, NEW s \in Session, JActs(s)
  PROVE  Moves(s)
<1>a. TypeOK /\ JTypeOK /\ StageOK(s)
  BY DEF Shape
<1>b. /\ \A flag \in BOOLEAN : DataBearingIsAuthoritative(Policy, flag) \in BOOLEAN
      /\ UnresponsiveTerminates(Policy, TRUE) \in BOOLEAN
      /\ UnresponsiveTerminates(Policy, prior[s]) \in BOOLEAN
  BY <1>a, PolicyAnswersBoolean DEF TypeOK
<1>1. CASE \/ BeginMigrationJournal(s) \/ MigrateJournaled(s) \/ LoadJournal(s) \/ MergeStored(s)
           \/ ResolveOutcomes(s) \/ NoteRefused(s) \/ NoteStarted(s)
           \/ NoteReadBack(s) \/ AppDone(s) \/ RaiseRevision(s)
  <2>1. UNCHANGED vars
    BY <1>1 DEF BeginMigrationJournal, MigrateJournaled, Operate, LoadJournal, MergeStored,
                ResolveOutcomes, NoteRefused, NoteStarted, NoteReadBack, AppDone, RaiseRevision
  <2>2. QED
    BY <2>1 DEF Moves
<1>2. ASSUME NEW g \in Sweeps, NoteLoad(s, g) PROVE Moves(s)
  BY <1>2 DEF NoteLoad, Moves
<1>3. ASSUME NEW j, NEW read, NEW unread, Established(s, j, read, unread) PROVE Moves(s)
  BY <1>3 DEF Established, Moves, Awaits
<1>4. CASE SeedJournal(s)
  BY <1>3, <1>4 DEF SeedJournal, KeepJournal, RebuildJournal, ToStore, Moves
<1>5. CASE StoreJournal(s)
  <2>1. CASE Flagged(s)
    <3>1. aim[s] \in {"early", "late"} /\ stage[s] = "write"
      BY <1>5, <2>1 DEF StoreJournal, Flagged
    <3>2. pc[s] \in BeforeItems
      BY <1>a, <3>1 DEF StageOK, BeforeItems
    <3>3. \/ UNCHANGED vars
          \/ /\ Report(s, "unresponsive", UnresponsiveTerminates(Policy, TRUE), withheld[s])
             /\ UNCHANGED <<durable, tally>>
      BY <2>1 DEF Flagged
    <3>4. QED
      BY <1>b, <3>2, <3>3, NothingTallied DEF Moves, PassesOver
  <2>2. CASE Return(s)
    <3>1. pc[s] = "idle"
      BY <1>5, <1>a, <2>2 DEF StoreJournal, Return, StageOK
    <3>2. QED
      BY <2>2, <3>1 DEF Return, Moves, HandsOver
  <2>3. CASE Announced(s)
    BY <2>3 DEF Announced, Moves
  <2>4. QED
    BY <1>3, <1>5, <2>1, <2>2, <2>3 DEF StoreJournal
<1>6. CASE JournalUnavailable(s)
  <2>1. stage[s] \in {"load", "seed", "merge", "write", "note", "noteMarker", "noteRead"}
    BY <1>6 DEF JournalUnavailable
  <2>2. CASE aim[s] \in {"early", "late"}
    <3>1. pc[s] \in BeforeItems
      BY <1>a, <2>1, <2>2 DEF StageOK, BeforeItems
    <3>2. WriterUnavailable(s) /\ UNCHANGED <<durable, tally>>
      BY <1>6, <2>2 DEF JournalUnavailable
    <3>3. QED
      BY <3>1, <3>2, NothingTallied, PassesUnreachable DEF Moves
  <2>3. CASE aim[s] = "end"
    <3>1. pc[s] = "idle"
      BY <1>a, <2>1, <2>3 DEF StageOK
    <3>2. QED
      BY <1>6, <2>3, <3>1 DEF JournalUnavailable, Moves, HandsOver
  <2>4. CASE aim[s] \notin {"early", "late", "end"}
    BY <1>6, <2>4 DEF JournalUnavailable, Moves
  <2>5. QED
    BY <2>2, <2>3, <2>4
<1>7. ASSUME pc[s] = "marker", NEW kind \in {"alreadyMigrated", "unresponsive"},
             NEW terminated \in BOOLEAN, Report(s, kind, terminated, withheld[s]),
             UNCHANGED <<durable, tally>>
      PROVE  Moves(s)
  <2>1. pc[s] \in BeforeItems
    BY <1>7 DEF BeforeItems
  <2>2. QED
    BY <1>7, <2>1, NothingTallied DEF Moves, PassesOver
<1>8. CASE JournalShortCut(s)
  BY <1>b, <1>7, <1>8 DEF JournalShortCut
<1>9. ASSUME NEW unreadable \in BOOLEAN, BelieveSeal(s, unreadable) PROVE Moves(s)
  <2>1. (Marker(cur[s]) = "doneData") \in BOOLEAN
    OBVIOUS
  <2>2. QED
    BY <1>b, <1>7, <1>9, <2>1 DEF BelieveSeal
<1>10. CASE AskAgain(s)
  <2>1. (Marker(cur[s]) = "wipData" \/ KnownData(s)) \in BOOLEAN
    OBVIOUS
  <2>2. QED
    BY <1>10, <2>1 DEF AskAgain, Moves, Asks
<1>11. CASE JFetchSecrets(s)
  <2>1. pc[s] = "fetch" /\ UNCHANGED <<durable, tally>>
    BY <1>11 DEF JFetchSecrets
  <2>2. CASE Unresponsive(s)
    <3>1. pc[s] \in BeforeItems
      BY <2>1 DEF BeforeItems
    <3>2. QED
      BY <1>b, <2>1, <2>2, <3>1, NothingTallied DEF Unresponsive, Moves, PassesOver
  <2>3. CASE ~Unresponsive(s)
    <3>1. PICK exported \in JExport(s) :
            /\ ~TooShort(s, exported) /\ items' = [items EXCEPT ![s] = exported]
            /\ GoTo(s, "begin") /\ UNCHANGED <<cur, prior, withheld, row>>
      BY <1>11, <2>3 DEF JFetchSecrets
    <3>2. ~(prior[s] /\ exported = {})
      BY <3>1 DEF TooShort
    <3>3. QED
      BY <2>1, <3>1, <3>2 DEF Moves, Takes
  <2>4. QED
    BY <2>2, <2>3
<1>12. CASE JRecordInProgress(s)
  BY <1>12 DEF JRecordInProgress, Moves, Awaits
<1>13. CASE ReadBack(s)
  BY <1>13, <1>a, PassesUnreachable DEF ReadBack, Moves, StageOK, Shape
<1>14. CASE PlainAwait(s)
  BY <1>14 DEF PlainAwait, Moves, Awaits
<1>15. CASE JMarkerUnreadable(s)
  BY <1>15 DEF JMarkerUnreadable, Moves, Awaits
<1>16. CASE NoteMarker(s)
  BY <1>16, <1>a DEF NoteMarker, Moves, Marks, StageOK
<1>17. ASSUME NEW k \in Key, AppWrite(s, k) PROVE Moves(s)
  BY <1>17, <1>a DEF AppWrite, Moves, CopiesItself, StageOK
<1>18. CASE Die(s)
  BY <1>18 DEF Die, Moves, Awaits, HandsOver
<1>19. QED
  BY <1>1, <1>2, <1>4, <1>5, <1>6, <1>8, <1>9, <1>10, <1>11, <1>12, <1>13, <1>14, <1>15, <1>16,
     <1>17, <1>18 DEF JActs, JStep, JFault, AppStep

LEMMA AwaitsNext ==
  ASSUME NEW s \in Session
  PROVE  /\ Awaits(s) => Acts(s)
         /\ UNCHANGED vars \/ Awaits(s) => [Next]_vars
BY DEF Awaits, Acts, Step, Fault, Next

LEMMA PassesReport ==
  ASSUME TypeOK, NEW s \in Session, PassesOver(s)
  PROVE  Reports(s)
<1>1. withheld[s] \in SUBSET Key
  BY DEF TypeOK
<1>2. QED
  BY <1>1 DEF PassesOver, Reports, Row

\* A step of one session is none of another's.
LEMMA MovesAlone ==
  ASSUME TypeOK, NEW s \in Session, Moves(s), NEW t \in Session, t # s
  PROVE  Rests(t)
<1>1. CASE UNCHANGED vars \/ Marks(s) \/ CopiesItself(s)
  BY <1>1 DEF Marks, CopiesItself, Rests, vars, volatile
<1>2. CASE Awaits(s)
  BY <1>2, AwaitsNext, OthersRest
<1>3. CASE PassesOver(s)
  BY <1>3, PassesReport, ReportLeavesOthers DEF PassesOver
<1>4. CASE Asks(s) \/ Takes(s)
  BY <1>4 DEF Asks, Takes, GoTo, TypeOK, Rests
<1>5. CASE HandsOver(s)
  BY <1>5 DEF HandsOver, HandOver, TypeOK, Rests
<1>6. QED
  BY <1>1, <1>2, <1>3, <1>4, <1>5 DEF Moves

LEMMA MovesType ==
  ASSUME TypeOK, NEW s \in Session, Moves(s)
  PROVE  TypeOK'
<1>1. CASE UNCHANGED vars \/ Awaits(s)
  BY <1>1, AwaitsNext, StepType
<1>2. CASE PassesOver(s)
  <2>1. pc[s] # "idle" /\ UNCHANGED <<durable, tally>>
    BY <1>2 DEF PassesOver
  <2>2. QED
    BY <1>2, <2>1, PassesReport, ReportType DEF TypeOK, durable
<1>3. CASE Asks(s)
  BY <1>3 DEF Asks, GoTo, TypeOK, durable
<1>4. CASE Takes(s)
  <2>1. JExport(s) \subseteq SUBSET Key
    BY <1>4, CurrentGeneration DEF Takes, JExport, Export, TypeOK
  <2>2. PICK exported \in SUBSET Key : items' = [items EXCEPT ![s] = exported]
    BY <1>4, <2>1 DEF Takes
  <2>3. QED
    BY <1>4, <2>2 DEF Takes, GoTo, TypeOK, durable
<1>5. CASE HandsOver(s)
  <2>1. Untallied \in [Gen -> [Key -> Outcome]] /\ [g \in Gen |-> "none"] \in [Gen -> Row]
    BY DEF Untallied, Outcome, Row
  <2>2. QED
    BY <1>5, <2>1 DEF HandsOver, HandOver, TypeOK, durable
<1>6. CASE Marks(s)
  BY <1>6 DEF Marks, TypeOK, MarkerValue, volatile
<1>7. CASE CopiesItself(s)
  <2>1. sweep[s] \in Value
    BY <1>7, WalkAssumption DEF CopiesItself, Value, Gen
  <2>2. QED
    BY <1>7, <2>1 DEF CopiesItself, TypeOK, volatile
<1>8. QED
  BY <1>1, <1>2, <1>3, <1>4, <1>5, <1>6, <1>7 DEF Moves

LEMMA RunInvFromSessions == (RunInv <=> TypeOK /\ \A s \in Session : RunOK(s))'
BY RunInvPerSession, PTL

\* The report of a run stays what it is made of: withheld keys, no shadows.
LEMMA MovesRun ==
  ASSUME RunInv, NEW s \in Session, Moves(s)
  PROVE  RunInv'
<1>a. TypeOK /\ TypeOK' /\ \A t \in Session : RunOK(t)
  BY MovesType, RunInvPerSession DEF RunInv
<1>b. RunOK(s)' => RunInv'
  <2>1. ASSUME RunOK(s)', NEW t \in Session PROVE RunOK(t)'
    <3>1. CASE t # s
      BY <1>a, <3>1, MovesAlone, RunFrame DEF Rests
    <3>2. QED
      BY <2>1, <3>1
  <2>2. QED
    BY <1>a, <2>1, RunInvFromSessions
<1>1. CASE UNCHANGED vars \/ Awaits(s)
  BY <1>1, AwaitsNext, StepRunInv
<1>2. CASE PassesOver(s)
  <2>1. PICK kind \in {"alreadyMigrated", "unresponsive", "writerUnavailable"},
             terminated \in BOOLEAN : Report(s, kind, terminated, withheld[s])
    BY <1>2 DEF PassesOver
  <2>2. kind \in Row /\ withheld[s] \in SUBSET Key /\ kind # "flushFailed"
    BY <1>a, <2>1 DEF Row, TypeOK
  <2>3. pc[s] # "idle" /\ tally' = tally /\ \A k \in Key : tally[s][cur[s]][k] = "none"
    BY <1>2 DEF PassesOver
  <2>4. RunOK(s)'
    BY <1>a, <2>1, <2>2, <2>3, RunReport
  <2>5. QED
    BY <1>b, <2>4
<1>3. CASE Asks(s) \/ Takes(s)
  <2>1. /\ pc[s] # "idle" /\ pc[s] \in BeforeItems /\ pc'[s] \in {"probe", "begin"}
        /\ UNCHANGED <<cur, tally, withheld, row>>
    BY <1>a, <1>3 DEF Asks, Takes, GoTo, TypeOK, BeforeItems
  <2>2. RunOK(s)'
    BY <1>a, <2>1, RunStage
  <2>3. QED
    BY <1>b, <2>2
<1>4. CASE HandsOver(s)
  <2>1. tally'[s] = Untallied /\ (\A g \in Gen : row'[s][g] = "none") /\ pc'[s] # "seal"
    BY <1>a, <1>4 DEF HandsOver, HandOver, TypeOK
  <2>2. QED
    BY <1>a, <1>b, <2>1, RunBlank
<1>5. CASE Marks(s) \/ CopiesItself(s)
  <2>1. UNCHANGED volatile
    BY <1>5 DEF Marks, CopiesItself
  <2>2. RunOK(s)'
    BY <1>a, <2>1, RunFrame DEF volatile
  <2>3. QED
    BY <1>b, <2>2
<1>6. QED
  BY <1>1, <1>2, <1>3, <1>4, <1>5 DEF Moves

\* Nothing leaves the successor for good, and an in-progress marker that saw data
\* keeps saying so.
LEMMA MovesHold ==
  ASSUME TypeOK, NEW s \in Session, Moves(s)
  PROVE  /\ EverHeld \subseteq EverHeld' /\ UNCHANGED <<content, legacy>>
         /\ \A g \in Gen : wip[g] = "data" => wip'[g] = "data"
<1>1. CASE UNCHANGED durable
  BY <1>1 DEF durable, EverHeld
<1>2. CASE Marks(s)
  BY <1>2 DEF Marks, EverHeld, TypeOK
<1>3. CASE CopiesItself(s)
  <2>1. PICK k \in Key : store' = [store EXCEPT ![k] = sweep[s]]
    BY <1>3 DEF CopiesItself, TypeOK
  <2>2. sweep[s] # Absent /\ UNCHANGED <<content, legacy, wip>>
    BY <1>3, WalkAssumption DEF CopiesItself, Gen, Absent
  <2>3. QED
    BY <2>1, <2>2 DEF EverHeld, TypeOK
<1>4. CASE RecordInProgress(s)
  BY <1>4 DEF RecordInProgress, StickyInProgress, TypeOK, EverHeld
<1>5. ASSUME NEW k \in Key, WriteSecret(s, k)
      PROVE  EverHeld \subseteq EverHeld' /\ UNCHANGED <<content, legacy, wip>>
  <2>1. cur[s] \in Gen /\ cur[s] # Absent
    BY <1>5, CurrentGeneration, WalkAssumption DEF WriteSecret, Gen, Absent
  <2>2. store' \in {store, [store EXCEPT ![k] = cur[s]]} /\ UNCHANGED <<content, legacy, wip>>
    BY <1>5 DEF WriteSecret
  <2>3. QED
    BY <2>1, <2>2 DEF EverHeld, TypeOK
<1>6. CASE Flush(s) \/ FlushFails(s)
  <2>1. cur[s] \in Gen /\ UNCHANGED <<content, legacy, wip>>
    BY <1>6, CurrentGeneration DEF Flush, FlushFails
  <2>2. store' = store \/ \E keys : store' = Land(cur[s], keys)
    BY <1>6 DEF Flush, FlushFails
  <2>3. EverHeld \subseteq EverHeld'
    BY <2>1, <2>2, LandHolds DEF EverHeld
  <2>4. QED
    BY <2>1, <2>3
<1>7. CASE RecordDone(s)
  BY <1>7 DEF RecordDone, EverHeld
<1>8. CASE /\ Awaits(s) /\ ~RecordInProgress(s) /\ ~(\E k \in Key : WriteSecret(s, k))
           /\ ~Flush(s) /\ ~FlushFails(s) /\ ~RecordDone(s)
  <2>1. UNCHANGED durable
    BY <1>8 DEF Awaits, Item, StartRun, Crash, ProbeExecutable, WithholdItem, MarkerUnreadable, NoAnswer, BeginMarkerFails,
                WriteFails, CompleteMarkerFails
  <2>2. QED
    BY <1>1, <2>1
<1>9. CASE PassesOver(s) \/ Asks(s) \/ Takes(s) \/ HandsOver(s) \/ UNCHANGED vars
  BY <1>1, <1>9 DEF PassesOver, Asks, Takes, HandsOver, HandOver, vars
<1>10. QED
  BY <1>2, <1>3, <1>4, <1>5, <1>6, <1>7, <1>8, <1>9 DEF Moves

\* The app copies behind an in-progress marker of its own.
AppMarked == \A s \in Session : stage[s] = "copy" => wip[sweep[s]] = "data"

\* What is taken of a predecessor known to hold data is all it holds.
WholeRetries ==
  \A s \in Session : pc[s] = "fetch" /\ prior[s] =>
    \A exported \in JExport(s) : ~TooShort(s, exported) => exported = content[cur[s]]

\* So it is where such a predecessor answers in full or with nothing.
LEMMA NoShortRetries == ShortRetry = FALSE => WholeRetries
BY DEF WholeRetries, JExport, Export, TooShort

\* Then the two-phase marker keeps what it keeps in the plain walk.
LEMMA MovesSeal ==
  ASSUME WholeRetries, SealInv, AppMarked, NEW s \in Session, Moves(s)
  PROVE  SealInv'
<1> DEFINE Kept == /\ ExportBelieved' /\ TallyHonest' /\ ReadyToSeal'
                   /\ IntentRecorded' /\ SealCoversData'
<1>a. /\ TypeOK /\ TypeOK'
      /\ ExportBelieved /\ TallyHonest /\ ReadyToSeal /\ IntentRecorded /\ SealCoversData
  BY MovesType DEF SealInv
<1>b. /\ EverHeld \subseteq EverHeld' /\ UNCHANGED <<content, legacy>>
      /\ \A g \in Gen : wip[g] = "data" => wip'[g] = "data"
  BY <1>a, MovesHold
<1>1. CASE UNCHANGED vars \/ Awaits(s)
  BY <1>1, AwaitsNext, StepSealInv
<1>2. CASE PassesOver(s)
  <2>1. pc[s] # "idle" /\ UNCHANGED <<durable, tally>>
    BY <1>2 DEF PassesOver
  <2>2. Kept
    BY <1>a, <1>2, <2>1, PassesReport, ReportKeepsSealInv
  <2>3. QED
    BY <1>a, <2>2 DEF SealInv
<1>3. CASE Asks(s)
  <2>1. /\ pc' = [pc EXCEPT ![s] = "probe"] /\ UNCHANGED durable /\ tally' = tally
        /\ \A t \in Session : t # s => /\ cur'[t] = cur[t] /\ items'[t] = items[t]
                                      /\ prior'[t] = prior[t]
    BY <1>a, <1>3 DEF Asks, GoTo, TypeOK
  <2>2. Kept
    BY <2>1, StageKeepsSealInv
  <2>3. QED
    BY <1>a, <2>2 DEF SealInv
<1>4. CASE Takes(s)
  <2>0. PICK exported \in JExport(s) :
          ~TooShort(s, exported) /\ items' = [items EXCEPT ![s] = exported]
    BY <1>4 DEF Takes
  <2>1. ~(prior[s] /\ exported = {}) /\ items' = [items EXCEPT ![s] = exported]
    BY <2>0 DEF TooShort
  <2>2. exported = content[cur[s]] \/ exported = {}
    <3>1. CASE prior[s]
      BY <1>4, <2>0, <3>1 DEF Takes, WholeRetries
    <3>2. CASE ~prior[s]
      BY <2>0, <3>2 DEF JExport, Export
    <3>3. QED
      BY <3>1, <3>2
  <2>3. /\ pc' = [pc EXCEPT ![s] = "begin"] /\ UNCHANGED <<durable, cur, prior, tally>>
    BY <1>4 DEF Takes, GoTo
  <2>4. ExportBelieved'
    BY <1>a, <2>1, <2>2, <2>3 DEF ExportBelieved, AfterFetch, TypeOK, durable
  <2>5. TallyHonest' /\ SealCoversData'
    BY <1>a, <2>3 DEF TallyHonest, SealCoversData, EverHeld, durable
  <2>6. ReadyToSeal' /\ IntentRecorded'
    <3>1. \A t \in Session : pc'[t] \in {"items", "seal"} =>
            pc[t] = pc'[t] /\ items'[t] = items[t]
      BY <1>a, <2>1, <2>3 DEF TypeOK
    <3>2. QED
      BY <1>a, <2>3, <3>1 DEF ReadyToSeal, IntentRecorded, SawData, EverHeld, durable
  <2>7. QED
    BY <1>a, <2>4, <2>5, <2>6 DEF SealInv
<1>5. CASE HandsOver(s)
  <2>1. UNCHANGED <<durable, pc, cur, prior, items>> /\ tally' = [tally EXCEPT ![s] = Untallied]
    BY <1>5 DEF HandsOver, HandOver
  <2>2. \A t \in Session, g \in Gen, k \in Key : tally'[t][g][k] \in {tally[t][g][k], "none"}
    BY <1>a, <2>1 DEF TypeOK, Untallied
  <2>3. ExportBelieved' /\ ReadyToSeal' /\ SealCoversData'
    BY <1>a, <2>1 DEF ExportBelieved, ReadyToSeal, SealCoversData, EverHeld, durable
  <2>4. TallyHonest'
    BY <1>a, <1>b, <2>2 DEF TallyHonest
  <2>5. IntentRecorded'
    BY <1>a, <2>1, <2>2 DEF IntentRecorded, SawData, durable
  <2>6. QED
    BY <1>a, <2>3, <2>4, <2>5 DEF SealInv
<1>6. CASE Marks(s) \/ CopiesItself(s)
  <2>1. UNCHANGED <<done, volatile>>
    BY <1>6 DEF Marks, CopiesItself
  <2>2. ExportBelieved' /\ ReadyToSeal' /\ SealCoversData'
    BY <1>a, <1>b, <2>1 DEF ExportBelieved, ReadyToSeal, SealCoversData, volatile
  <2>3. TallyHonest'
    BY <1>a, <1>b, <2>1 DEF TallyHonest, volatile
  <2>4. \A g \in Gen, k \in Key : store'[k] = g => wip'[g] = "data"
    <3>1. CASE UNCHANGED store
      BY <1>a, <1>b, <3>1 DEF IntentRecorded
    <3>2. CASE CopiesItself(s)
      <4>1. PICK j \in Key : store' = [store EXCEPT ![j] = sweep[s]]
        BY <1>a, <3>2 DEF CopiesItself, TypeOK
      <4>2. wip[sweep[s]] = "data" /\ sweep[s] \in Gen
        BY <3>2 DEF CopiesItself, AppMarked
      <4>3. \A k \in Key : store'[k] = IF k = j THEN sweep[s] ELSE store[k]
        BY <1>a, <4>1 DEF TypeOK
      <4>4. QED
        BY <1>a, <1>b, <4>2, <4>3 DEF IntentRecorded
    <3>3. QED
      BY <1>6, <3>1, <3>2 DEF Marks
  <2>5. IntentRecorded'
    <3>1. \A t \in Session, g \in Gen, k \in Key : tally'[t][g][k] = "written" => wip'[g] = "data"
      BY <1>a, <1>b, <2>1 DEF IntentRecorded, volatile
    <3>2. \A t \in Session : pc'[t] \in {"items", "seal"} /\ SawData(t)' => wip'[cur'[t]] = "data"
      <4>1. SUFFICES ASSUME NEW t \in Session, pc[t] \in {"items", "seal"}, SawData(t)
                     PROVE  wip'[cur[t]] = "data"
        BY <2>1 DEF SawData, volatile
      <4>2. cur[t] \in Gen /\ wip[cur[t]] = "data"
        BY <1>a, <4>1, CurrentGeneration DEF IntentRecorded
      <4>3. QED
        BY <1>b, <4>2
    <3>3. QED
      BY <2>4, <3>1, <3>2 DEF IntentRecorded
  <2>6. QED
    BY <1>a, <2>2, <2>3, <2>5 DEF SealInv
<1>7. QED
  BY <1>1, <1>2, <1>3, <1>4, <1>5, <1>6 DEF Moves

-------------------------------------------------------------------------------
(* The shape of the journaled operations.                                     *)

Entries == [Gen -> JournalState]

Answer == [told : BOOLEAN, complete : BOOLEAN, interrupted : BOOLEAN, rejections : BOOLEAN]

\* JTypeOK without the stages of a walk, which StageOK holds.
JTyped ==
  /\ stored \in JournalValue /\ journal \in [Session -> JournalValue]
  /\ stage \in [Session -> Stage]
  /\ aim \in [Session -> {"none", "begin", "run", "early", "late", "end", "note"}]
  /\ already \in [Session ->
       [Gen -> {"no", "journal", "data", "empty", "bridged", "unreadable"}]]
  /\ checked \in [Session -> SUBSET Gen] /\ unverified \in [Session -> SUBSET Gen]
  /\ revision \in [Session -> 0..MaxRevision]
  /\ sweep \in [Session -> 0..N]
  /\ status \in [Session -> Answer]

LEMMA ShapeParts == Shape <=> TypeOK /\ JTyped /\ \A s \in Session : StageOK(s)
BY DEF Shape, JTypeOK, JTyped, StageOK, Answer

\* A readable journal is one with an entry per generation.
LEMMA ReadableEntries ==
  ASSUME NEW j \in JournalValue
  PROVE  Readable(j) <=> j \in Entries
BY JournalAssumption DEF JournalValue, Readable, Entries

LEMMA Rebound ==
  ASSUME NEW s, NEW j \in Entries
  PROVE  Rebind(s, j) \in Entries
<1>1. \A g \in Gen : Bound(s, j[g]) \in JournalState
  BY EffectiveEntry DEF Bound, Entries
<1>2. QED
  BY <1>1 DEF Rebind, Entries

LEMMA Rebuilt == FromMarkers \in Entries
<1>1. ASSUME NEW g \in Gen PROVE FromMarkers[g] \in JournalState
  <2>1. FromMarkers[g] \in {MarkImportStarted(Fresh), Imported, NoData, Superseded, Fresh}
    BY DEF FromMarkers
  <2>2. QED
    BY <2>1, EntriesOfWalks, StartedEntry
<1>2. QED
  BY <1>1 DEF FromMarkers, Entries

LEMMA Merged ==
  ASSUME NEW s, NEW j \in Entries, journal[s] \in Entries
  PROVE  MergeInto(s, j) \in Entries
<1>1. ASSUME NEW g \in Gen
      PROVE  MergeStates(Bound(s, j[g]), Bound(s, journal[s][g])) \in JournalState
  <2>1. Bound(s, j[g]) \in JournalState /\ Bound(s, journal[s][g]) \in JournalState
    BY EffectiveEntry DEF Bound, Entries
  <2>2. QED
    BY <2>1, MergeIsState
<1>2. QED
  BY <1>1 DEF MergeInto, Entries

LEMMA StatusAnswers ==
  ASSUME NEW s, NEW j, NEW unread
  PROVE  StatusOf(s, j, unread) \in Answer /\ NoStatus \in Answer
BY DEF StatusOf, NoStatus, Answer

\* What belongs to session t stays as it is.
JournalRests(t) ==
  /\ journal'[t] = journal[t] /\ stage'[t] = stage[t] /\ aim'[t] = aim[t]
  /\ already'[t] = already[t] /\ checked'[t] = checked[t] /\ unverified'[t] = unverified[t]
  /\ revision'[t] = revision[t] /\ sweep'[t] = sweep[t] /\ status'[t] = status[t]

InShape(s) ==
  /\ JTyped' /\ StageOK(s)'
  /\ \A t \in Session : t # s => JournalRests(t)

LEMMA LeavesInShape ==
  ASSUME JTyped, NEW s \in Session, NEW answer \in Answer, Leave(s, answer),
         stored' \in JournalValue, pc'[s] = "idle"
  PROVE  InShape(s)
<1>1. NoJournal \in JournalValue /\ NotAsked \in
        [Gen -> {"no", "journal", "data", "empty", "bridged", "unreadable"}] /\ 0 \in 0..N
  BY WalkAssumption DEF JournalValue, NotAsked
<1>2. JTyped'
  BY <1>1 DEF Leave, At, For, JTyped, Stage
<1>3. StageOK(s)'
  BY DEF Leave, At, For, JTyped, StageOK
<1>4. \A t \in Session : t # s => JournalRests(t)
  BY DEF Leave, At, For, JTyped, JournalRests
<1>5. QED
  BY <1>2, <1>3, <1>4 DEF InShape

\* The walk goes on: nothing of the journaled operation changes but its stage.
LEMMA WalksInShape ==
  ASSUME JTyped, NEW s \in Session, stored' \in JournalValue, journal[s] \in Entries,
         At(s, "walk"), For(s, "none"),
         UNCHANGED <<journal, already, checked, unverified, revision, sweep, status>>
  PROVE  InShape(s)
<1>1. JTyped'
  BY DEF At, For, JTyped, Stage
<1>2. StageOK(s)'
  BY DEF At, For, JTyped, StageOK, Entries
<1>3. \A t \in Session : t # s => JournalRests(t)
  BY DEF At, For, JTyped, JournalRests
<1>4. QED
  BY <1>1, <1>2, <1>3 DEF InShape

LEMMA EstablishedInShape ==
  ASSUME JTyped, NEW s \in Session, stored' \in JournalValue, pc[s] = "idle", TypeOK,
         NEW j \in Entries, NEW read \in SUBSET Gen, NEW unread \in SUBSET Gen,
         Established(s, j, read, unread)
  PROVE  InShape(s)
<1>1. CASE aim[s] = "begin"
  BY <1>1, StatusAnswers, LeavesInShape DEF Established, vars, volatile
<1>2. CASE aim[s] = "run"
  <2>1. Rebind(s, j) \in Entries
    BY Rebound
  <2>2. /\ journal' = [journal EXCEPT ![s] = Rebind(s, j)]
        /\ checked' = [checked EXCEPT ![s] = read] /\ unverified' = [unverified EXCEPT ![s] = unread]
        /\ stage' = [stage EXCEPT ![s] = "walk"] /\ aim' = [aim EXCEPT ![s] = "none"]
        /\ UNCHANGED <<already, revision, sweep, status>>
    BY <1>2 DEF Established, At, For
  <2>3. JTyped'
    BY <2>1, <2>2 DEF JTyped, Stage, JournalValue, Entries
  <2>4. StageOK(s)'
    BY <2>1, <2>2 DEF JTyped, StageOK, Entries
  <2>5. \A t \in Session : t # s => JournalRests(t)
    BY <2>2 DEF JTyped, JournalRests
  <2>6. QED
    BY <2>3, <2>4, <2>5 DEF InShape
<1>3. QED
  BY <1>1, <1>2 DEF Established

\* A journal that is to be stored first.
LEMMA StoresInShape ==
  ASSUME JTyped, NEW s \in Session, NEW j \in Entries, NEW read \in SUBSET Gen,
         NEW unread \in SUBSET Gen, ToStore(s, j, read, unread), UNCHANGED stored,
         pc[s] = "idle", aim[s] \in {"begin", "run"}
  PROVE  InShape(s)
<1>1. JTyped'
  BY DEF ToStore, At, JTyped, Stage, JournalValue, Entries
<1>2. StageOK(s)'
  BY DEF ToStore, At, JTyped, StageOK, Entries, vars, volatile
<1>3. \A t \in Session : t # s => JournalRests(t)
  BY DEF ToStore, At, JTyped, JournalRests
<1>4. QED
  BY <1>1, <1>2, <1>3 DEF InShape

\* The entries a walk records.
LEMMA RejectedCounts ==
  ASSUME NEW s, NEW g
  PROVE  Rejected(s, g) \in Nat
<1>1. IsFiniteSet({k \in Key : tally[s][g][k] = "rejected"})
  BY JournalAssumption, FS_Subset
<1>2. QED
  BY <1>1, FS_CardinalityType DEF Rejected

LEMMA RecordedIsState ==
  ASSUME JTyped, NEW s \in Session, journal[s] \in Entries, NEW g \in Gen
  PROVE  Recorded(s, g) \in JournalState
<1>1. journal[s][g] \in JournalState
  BY DEF Entries
<1>2. ImportedWithRejections(Rejected(s, g), revision[s], 0) \in JournalState
  BY RejectedCounts, EntriesOfWalks, JournalAssumption DEF JTyped
<1>3. Recorded(s, g) = journal[s][g]
        \/ \E r \in JournalState : Recorded(s, g) = Record(journal[s][g], r)
  BY <1>2, EntriesOfWalks DEF Recorded
<1>4. QED
  BY <1>1, <1>3, RecordedEntry

\* The awaits before the walk, and the store.
LEMMA LoadsInShape ==
  ASSUME Shape, NEW s \in Session,
         \/ BeginMigrationJournal(s) \/ MigrateJournaled(s) \/ LoadJournal(s) \/ SeedJournal(s)
  PROVE  InShape(s)
<1>a. TypeOK /\ JTyped /\ StageOK(s)
  BY ShapeParts
<1>1. ASSUME NEW what \in {"begin", "run"}, Operate(s, what) PROVE InShape(s)
  <2>1. JTyped' 
    BY <1>a, <1>1 DEF Operate, At, For, JTyped, Stage, NoStatus, Answer
  <2>2. StageOK(s)'
    BY <1>a, <1>1 DEF Operate, At, For, JTyped, StageOK, vars, volatile
  <2>3. \A t \in Session : t # s => JournalRests(t)
    BY <1>a, <1>1 DEF Operate, At, For, JTyped, JournalRests
  <2>4. QED
    BY <2>1, <2>2, <2>3 DEF InShape
<1>2. CASE LoadJournal(s)
  <2>1. JTyped' 
    BY <1>a, <1>2 DEF LoadJournal, At, JTyped, Stage
  <2>2. StageOK(s)'
    BY <1>a, <1>2 DEF LoadJournal, At, JTyped, StageOK, vars, volatile
  <2>3. \A t \in Session : t # s => JournalRests(t)
    BY <1>a, <1>2 DEF LoadJournal, At, JTyped, JournalRests
  <2>4. QED
    BY <2>1, <2>2, <2>3 DEF InShape
<1>3. CASE SeedJournal(s)
  <2>1. /\ pc[s] = "idle" /\ aim[s] \in {"begin", "run"}
        /\ stored' = stored /\ stored' \in JournalValue
    BY <1>a, <1>3 DEF SeedJournal, StageOK, JTyped
  <2>2. ASSUME NEW unreadable \in SUBSET Gen, KeepJournal(s, unreadable) PROVE InShape(s)
    <3>1. journal[s] \in Entries
      BY <1>a, <2>2, ReadableEntries DEF KeepJournal, JTyped
    <3>2. PICK resolved \in SUBSET Gen, reopened \in SUBSET Gen :
            LET read == resolved \ unreadable
                j == [g \in Gen |-> IF g \in reopened THEN MarkImportStarted(journal[s][g])
                                                       ELSE journal[s][g]]
            IN \/ Established(s, j, read, resolved \ read)
               \/ ToStore(s, j, read, resolved \ read)
      BY <2>2 DEF KeepJournal
    <3>3. PICK j : j = [g \in Gen |-> IF g \in reopened THEN MarkImportStarted(journal[s][g])
                                                         ELSE journal[s][g]]
      OBVIOUS
    <3>4. j \in Entries
      BY <3>1, <3>3, StartedEntry DEF Entries
    <3>5. PICK read \in SUBSET Gen : read = resolved \ unreadable
      OBVIOUS
    <3>6. Established(s, j, read, resolved \ read) \/ ToStore(s, j, read, resolved \ read)
      BY <3>2, <3>3, <3>5
    <3>7. resolved \ read \in SUBSET Gen
      OBVIOUS
    <3>8. QED
      BY <1>a, <2>1, <3>4, <3>6, <3>7, EstablishedInShape, StoresInShape
  <2>3. CASE RebuildJournal(s)
    BY <1>a, <2>1, <2>3, Rebuilt, StoresInShape DEF RebuildJournal
  <2>4. QED
    BY <1>3, <2>2, <2>3 DEF SeedJournal
<1>4. QED
  BY <1>1, <1>2, <1>3 DEF BeginMigrationJournal, MigrateJournaled

LEMMA MergesInShape ==
  ASSUME Shape, NEW s \in Session, MergeStored(s)
  PROVE  InShape(s) /\ journal'[s] \in Entries
<1>a. TypeOK /\ JTyped /\ StageOK(s)
  BY ShapeParts
<1>1. journal[s] \in Entries
  BY <1>a DEF MergeStored, StageOK, Entries
<1>2. PICK j \in Entries : journal' = [journal EXCEPT ![s] = j]
  <2>1. Readable(stored) => MergeInto(s, stored) \in Entries
    BY <1>a, <1>1, ReadableEntries, Merged DEF JTyped
  <2>2. MergeInto(s, FromMarkers) \in Entries
    BY <1>1, Rebuilt, Merged
  <2>3. Readable(stored) \/ stored \in {NoJournal, CorruptJournal}
    BY DEF Readable
  <2>4. QED
    BY <1>1, <2>1, <2>2, <2>3 DEF MergeStored
<1>3. /\ At(s, "write")
      /\ UNCHANGED <<vars, stored, aim, already, checked, unverified, revision, sweep, status>>
  BY DEF MergeStored
<1>4. JTyped'
  BY <1>a, <1>2, <1>3 DEF At, JTyped, Stage, JournalValue, Entries
<1>5. StageOK(s)'
  BY <1>a, <1>2, <1>3 DEF MergeStored, At, JTyped, StageOK, Entries, vars, volatile
<1>6. \A t \in Session : t # s => JournalRests(t)
  BY <1>a, <1>2, <1>3 DEF At, JTyped, JournalRests
<1>7. QED
  BY <1>a, <1>2, <1>4, <1>5, <1>6 DEF InShape, JTyped

LEMMA FlagsInShape ==
  ASSUME Shape, NEW s \in Session, StoreJournal(s)
  PROVE  InShape(s)
<1>a. TypeOK /\ JTyped /\ StageOK(s)
  BY ShapeParts
<1>1. journal[s] \in Entries /\ stored' = journal[s] /\ stored' \in JournalValue
  BY <1>a DEF StoreJournal, StageOK, Entries, JTyped
<1>2. CASE Established(s, journal[s], checked[s], unverified[s])
  <2>1. pc[s] = "idle"
    BY <1>a, <1>2 DEF StoreJournal, StageOK, Established
  <2>2. checked[s] \in SUBSET Gen /\ unverified[s] \in SUBSET Gen
    BY <1>a DEF JTyped
  <2>3. QED
    BY <1>a, <1>1, <1>2, <2>1, <2>2, EstablishedInShape
<1>3. CASE Flagged(s)
  BY <1>a, <1>1, <1>3, WalksInShape DEF Flagged
<1>4. CASE Return(s)
  <2>1. pc'[s] = "idle"
    BY <1>a, <1>4 DEF StoreJournal, StageOK, Return, HandOver
  <2>2. QED
    BY <1>a, <1>1, <1>4, <2>1, StatusAnswers, LeavesInShape DEF Return
<1>5. CASE Announced(s)
  <2>1. pc'[s] = "idle" /\ aim[s] = "note" /\ UNCHANGED vars
    BY <1>a, <1>5 DEF StoreJournal, StageOK, Announced, vars, volatile
  <2>2. CASE Leave(s, NoStatus)
    BY <1>a, <1>1, <2>1, <2>2, StatusAnswers, LeavesInShape
  <2>3. CASE /\ At(s, "noteMarker")
             /\ UNCHANGED <<journal, aim, already, checked, unverified, revision, sweep, status>>
    <3>1. JTyped' 
      BY <1>a, <1>1, <2>3 DEF At, JTyped, Stage
    <3>2. StageOK(s)'
      BY <1>a, <1>1, <2>1, <2>3 DEF At, JTyped, StageOK, Entries, vars, volatile
    <3>3. \A t \in Session : t # s => JournalRests(t)
      BY <1>a, <2>3 DEF At, JTyped, JournalRests
    <3>4. QED
      BY <3>1, <3>2, <3>3 DEF InShape
  <2>4. QED
    BY <1>5, <2>2, <2>3 DEF Announced
<1>6. QED
  BY <1>2, <1>3, <1>4, <1>5 DEF StoreJournal

LEMMA FailsInShape ==
  ASSUME Shape, NEW s \in Session, JournalUnavailable(s) \/ Die(s)
  PROVE  InShape(s)
<1>a. TypeOK /\ JTyped /\ StageOK(s)
  BY ShapeParts
<1>b. stored' \in JournalValue
  BY <1>a DEF JournalUnavailable, Die, JTyped
<1>1. CASE JournalUnavailable(s) /\ aim[s] \in {"early", "late"}
  <2>1. journal[s] \in Entries
    BY <1>a, <1>1 DEF JournalUnavailable, StageOK, Entries
  <2>2. QED
    BY <1>a, <1>b, <1>1, <2>1, WalksInShape DEF JournalUnavailable
<1>2. CASE JournalUnavailable(s) /\ aim[s] \notin {"early", "late"}
  <2>1. pc[s] = "idle"
    BY <1>a, <1>2 DEF JournalUnavailable, StageOK
  <2>2. pc'[s] = "idle"
    BY <1>2, <2>1 DEF JournalUnavailable, HandOver, vars, volatile
  <2>3. QED
    BY <1>a, <1>b, <1>2, <2>2, StatusAnswers, LeavesInShape DEF JournalUnavailable
<1>3. CASE Die(s)
  <2>1. pc'[s] = "idle"
    BY <1>a, <1>3 DEF Die, Crash, HandOver, TypeOK
  <2>2. QED
    BY <1>a, <1>b, <1>3, <2>1, StatusAnswers, LeavesInShape DEF Die
<1>4. QED
  BY <1>1, <1>2, <1>3

\* A report of the journal's, or one of the walk's, with the reason noted.
LEMMA NotesReason ==
  ASSUME JTyped, NEW s \in Session, StageOK(s), stage[s] = "walk", pc[s] # "idle", cur[s] \in Gen,
         NEW why \in {"no", "journal", "data", "empty", "bridged", "unreadable"},
         AlreadyAs(s, why),
         UNCHANGED <<stored, journal, stage, aim, checked, unverified, revision, sweep, status>>
  PROVE  InShape(s)
<1>1. JTyped'
  BY DEF AlreadyAs, JTyped
<1>2. StageOK(s)'
  BY DEF JTyped, StageOK
<1>3. \A t \in Session : t # s => JournalRests(t)
  BY DEF AlreadyAs, JTyped, JournalRests
<1>4. QED
  BY <1>1, <1>2, <1>3 DEF InShape

\* The journal may have to say something of the current predecessor first.
LEMMA SaysInShape ==
  ASSUME JTyped, NEW s \in Session, StageOK(s), stage[s] = "walk", cur[s] \in Gen,
         NEW entry \in JournalState, NEW retry, NEW what \in {"early", "late"},
         BeforeImport(s, entry, retry, what),
         what = "early" => pc'[s] = "probe", what = "late" => pc'[s] = "begin",
         already' \in [Session ->
           [Gen -> {"no", "journal", "data", "empty", "bridged", "unreadable"}]],
         \A t \in Session : t # s => already'[t] = already[t],
         UNCHANGED <<stored, checked, unverified, revision, sweep, status>>
  PROVE  InShape(s)
<1>1. journal[s] \in Entries /\ aim[s] = "none"
  BY DEF StageOK, Entries
<1>2. CASE UNCHANGED <<journal, stage, aim>>
  <2>1. JTyped' /\ StageOK(s)'
    BY <1>1, <1>2 DEF JTyped, StageOK, Entries
  <2>2. \A t \in Session : t # s => JournalRests(t)
    BY <1>2 DEF JournalRests
  <2>3. QED
    BY <2>1, <2>2 DEF InShape
<1>3. CASE /\ journal' = [journal EXCEPT ![s][cur[s]] = entry]
           /\ At(s, "merge") /\ For(s, what)
  <2>1. journal'[s] \in Entries /\ journal' \in [Session -> JournalValue]
    BY <1>1, <1>3 DEF JTyped, Entries, JournalValue
  <2>2. JTyped'
    BY <1>3, <2>1 DEF At, For, JTyped, Stage
  <2>3. StageOK(s)'
    BY <1>3, <2>1 DEF At, For, JTyped, StageOK, Entries
  <2>4. \A t \in Session : t # s => JournalRests(t)
    BY <1>3 DEF At, For, JTyped, JournalRests
  <2>5. QED
    BY <2>2, <2>3, <2>4 DEF InShape
<1>4. QED
  BY <1>2, <1>3 DEF BeforeImport

LEMMA WalkInShape ==
  ASSUME Shape, RunInv, NEW s \in Session,
         \/ JournalShortCut(s) \/ (\E unreadable \in BOOLEAN : BelieveSeal(s, unreadable))
         \/ AskAgain(s) \/ JFetchSecrets(s) \/ JMarkerUnreadable(s)
  PROVE  InShape(s)
<1>a. TypeOK /\ JTyped /\ StageOK(s)
  BY ShapeParts
<1>b. stage[s] = "walk" /\ pc[s] \in {"marker", "fetch"}
  BY DEF JournalShortCut, BelieveSeal, AskAgain, JFetchSecrets, JMarkerUnreadable
<1>c. cur[s] \in Gen /\ journal[s] \in Entries /\ journal[s][cur[s]] \in JournalState
  BY <1>a, <1>b, CurrentGeneration DEF StageOK, Entries
<1>1. CASE JournalShortCut(s)
  BY <1>a, <1>b, <1>c, <1>1, NotesReason DEF JournalShortCut
<1>2. ASSUME NEW unreadable \in BOOLEAN, BelieveSeal(s, unreadable) PROVE InShape(s)
  <2>1. PICK why \in {"empty", "bridged", "data"} : AlreadyAs(s, why)
    BY <1>2 DEF BelieveSeal
  <2>2. QED
    BY <1>a, <1>b, <1>c, <1>2, <2>1, NotesReason DEF BelieveSeal
<1>3. CASE JMarkerUnreadable(s)
  BY <1>a, <1>b, <1>c, <1>3, NotesReason DEF JMarkerUnreadable
<1>4. CASE AskAgain(s)
  <2>1. PICK why \in {"empty", "no"} : AlreadyAs(s, why)
    BY <1>4 DEF AskAgain
  <2>2. PICK entry \in JournalState : BeforeImport(s, entry, FALSE, "early")
    BY <1>4, <1>c, StartedEntry DEF AskAgain
  <2>3. pc'[s] = "probe"
    BY <1>a, <1>4 DEF AskAgain, GoTo, TypeOK
  <2>4. already' \in [Session ->
           [Gen -> {"no", "journal", "data", "empty", "bridged", "unreadable"}]]
    BY <1>a, <1>c, <2>1 DEF AlreadyAs, JTyped
  <2>5. \A t \in Session : t # s => already'[t] = already[t]
    BY <1>a, <2>1 DEF AlreadyAs, JTyped
  <2>6. UNCHANGED <<stored, checked, unverified, revision, sweep, status>>
    BY <1>4 DEF AskAgain
  <2>7. QED
    BY <1>a, <1>b, <1>c, <2>2, <2>3, <2>4, <2>5, <2>6, SaysInShape
<1>5. CASE JFetchSecrets(s)
  <2>0. UNCHANGED <<stored, already, checked, unverified, revision, sweep, status>>
    BY <1>5 DEF JFetchSecrets
  <2>1. CASE UNCHANGED <<journal, stage, aim>>
    <3>1. JTyped' /\ StageOK(s)'
      BY <1>a, <1>b, <2>0, <2>1 DEF JTyped, StageOK
    <3>2. \A t \in Session : t # s => JournalRests(t)
      BY <2>0, <2>1 DEF JournalRests
    <3>3. QED
      BY <3>1, <3>2 DEF InShape
  <2>2. CASE ~UNCHANGED <<journal, stage, aim>>
    <3>1. PICK exported \in JExport(s) :
            /\ GoTo(s, "begin")
            /\ BeforeImport(s, NoteItemsSeen(MarkImportStarted(journal[s][cur[s]]),
                                             Cardinality(exported)),
                            Started(journal[s][cur[s]]), "late")
      BY <1>5, <2>2 DEF JFetchSecrets
    <3>2. Cardinality(exported) \in Nat
      <4>1. exported \subseteq Key
        BY <1>a, <1>c DEF JExport, Export, TypeOK
      <4>2. QED
        BY <4>1, JournalAssumption, FS_Subset, FS_CardinalityType
    <3>3. NoteItemsSeen(MarkImportStarted(journal[s][cur[s]]), Cardinality(exported))
            \in JournalState
      BY <1>c, <3>2, StartedEntry, CountedEntry
    <3>4. pc'[s] = "begin"
      BY <1>a, <3>1 DEF GoTo, TypeOK
    <3>5. already' \in [Session ->
            [Gen -> {"no", "journal", "data", "empty", "bridged", "unreadable"}]]
      BY <1>a, <2>0 DEF JTyped
    <3>6. QED
      BY <1>a, <1>b, <1>c, <2>0, <3>1, <3>3, <3>4, <3>5, SaysInShape
  <2>3. QED
    BY <2>1, <2>2
<1>6. QED
  BY <1>1, <1>2, <1>3, <1>4, <1>5

\* An await of the walk itself leaves the journaled operation where it is, but for
\* the read of a marker written over an empty seal.
LEMMA AwaitsInShape ==
  ASSUME Shape, RunInv, NEW s \in Session, PlainAwait(s) \/ JRecordInProgress(s) \/ ReadBack(s)
  PROVE  InShape(s)
<1>a. TypeOK /\ JTyped /\ StageOK(s)
  BY ShapeParts
<1>1. CASE PlainAwait(s)
  <2>1. stage[s] = "walk" /\ UNCHANGED journaling
    BY <1>1 DEF PlainAwait
  <2>2. JTyped' /\ StageOK(s)'
    BY <1>a, <2>1 DEF JTyped, StageOK, journaling
  <2>3. QED
    BY <2>1, <2>2 DEF InShape, JournalRests, journaling
<1>2. CASE JRecordInProgress(s)
  <2>1. /\ pc[s] = "begin" /\ stage[s] = "walk" /\ pc'[s] = "items" /\ UNCHANGED <<cur, tally>>
        /\ stage' = stage \/ At(s, "readBack")
        /\ UNCHANGED <<stored, journal, aim, already, checked, unverified, revision, sweep, status>>
    BY <1>a, <1>2 DEF JRecordInProgress, RecordInProgress, GoTo, TypeOK
  <2>2. \A k \in Key : tally'[s][cur'[s]][k] = "none"
    BY <2>1, NothingTallied DEF BeforeItems
  <2>3. JTyped'
    BY <1>a, <2>1 DEF At, JTyped, Stage
  <2>4. StageOK(s)'
    BY <1>a, <2>1, <2>2 DEF At, JTyped, StageOK
  <2>5. \A t \in Session : t # s => JournalRests(t)
    BY <1>a, <2>1 DEF At, JTyped, JournalRests
  <2>6. QED
    BY <2>3, <2>4, <2>5 DEF InShape
<1>3. CASE ReadBack(s)
  <2>1. /\ stage[s] = "readBack" /\ At(s, "walk")
        /\ UNCHANGED <<stored, journal, aim, already, checked, unverified, revision, sweep, status>>
    BY <1>3 DEF ReadBack
  <2>2. JTyped'
    BY <1>a, <2>1 DEF At, JTyped, Stage
  <2>3. StageOK(s)'
    BY <1>a, <2>1 DEF At, JTyped, StageOK
  <2>4. \A t \in Session : t # s => JournalRests(t)
    BY <1>a, <2>1 DEF At, JTyped, JournalRests
  <2>5. QED
    BY <2>2, <2>3, <2>4 DEF InShape
<1>4. QED
  BY <1>1, <1>2, <1>3

LEMMA ResolvesInShape ==
  ASSUME Shape, NEW s \in Session, ResolveOutcomes(s)
  PROVE  InShape(s) /\ journal'[s] \in Entries
<1>a. TypeOK /\ JTyped /\ StageOK(s)
  BY ShapeParts
<1>0. journal[s] \in Entries /\ pc[s] = "idle" /\ stage[s] = "walk"
  BY <1>a DEF ResolveOutcomes, StageOK, Entries
<1>1. PICK unreadable \in SUBSET Gen : Resolve(s, unreadable)
  BY DEF ResolveOutcomes
<1>2. PICK again : journal' = [journal EXCEPT ![s] = [g \in Gen |->
                     IF g \in again THEN MarkImportStarted(Recorded(s, g)) ELSE Recorded(s, g)]]
  <2>1. PICK unread : journal' = [journal EXCEPT ![s] = [g \in Gen |->
                        IF g \in unread \ unreadable /\ ExactMarker(g) = "wipData"
                        THEN MarkImportStarted(Recorded(s, g)) ELSE Recorded(s, g)]]
    BY <1>1 DEF Resolve
  <2>2. PICK again : again = {g \in Gen : g \in unread \ unreadable /\ ExactMarker(g) = "wipData"}
    OBVIOUS
  <2>3. [g \in Gen |-> IF g \in unread \ unreadable /\ ExactMarker(g) = "wipData"
                       THEN MarkImportStarted(Recorded(s, g)) ELSE Recorded(s, g)]
        = [g \in Gen |-> IF g \in again THEN MarkImportStarted(Recorded(s, g)) ELSE Recorded(s, g)]
    BY <2>2
  <2>4. QED
    BY <2>1, <2>3
<1>3. PICK j : /\ j = [g \in Gen |-> IF g \in again THEN MarkImportStarted(Recorded(s, g))
                                                    ELSE Recorded(s, g)]
               /\ journal' = [journal EXCEPT ![s] = j]
  BY <1>2
<1>4. j \in Entries
  BY <1>a, <1>0, <1>3, RecordedIsState, StartedEntry DEF Entries
<1>5. PICK left \in SUBSET Gen : unverified' = [unverified EXCEPT ![s] = left]
  <2>1. unverified[s] \in SUBSET Gen
    BY <1>a DEF JTyped
  <2>2. QED
    BY <1>1, <2>1 DEF Resolve
<1>6. /\ stage' = [stage EXCEPT ![s] = "merge"] /\ aim' = [aim EXCEPT ![s] = "end"]
      /\ UNCHANGED <<vars, stored, already, checked, revision, sweep, status>>
  BY DEF ResolveOutcomes, At, For
<1>7. JTyped'
  BY <1>a, <1>3, <1>4, <1>5, <1>6 DEF JTyped, Stage, JournalValue, Entries
<1>8. StageOK(s)'
  BY <1>a, <1>0, <1>3, <1>4, <1>6 DEF JTyped, StageOK, Entries, vars, volatile
<1>9. \A t \in Session : t # s => JournalRests(t)
  BY <1>a, <1>3, <1>5, <1>6 DEF JTyped, JournalRests
<1>10. QED
  BY <1>a, <1>3, <1>4, <1>7, <1>8, <1>9 DEF InShape, JTyped

LEMMA SweepInShape ==
  ASSUME Shape, NEW s \in Session, AppStep(s) \/ RaiseRevision(s)
  PROVE  InShape(s)
<1>a. TypeOK /\ JTyped /\ StageOK(s)
  BY ShapeParts
<1>0. stage[s] \in {"idle", "note", "noteMarker", "noteRead", "copy"} /\ pc[s] = "idle"
  BY <1>a DEF AppStep, NoteLoad, NoteRefused, NoteStarted, NoteMarker, NoteReadBack, AppWrite,
              AppDone, RaiseRevision, StageOK
<1>1. ASSUME UNCHANGED <<vars, stored>>, Leave(s, NoStatus) PROVE InShape(s)
  BY <1>a, <1>0, <1>1, StatusAnswers, LeavesInShape DEF vars, volatile, JTyped
<1>2. ASSUME NEW g \in Sweeps, NoteLoad(s, g) PROVE InShape(s)
  <2>1. stored \in Entries /\ g \in Gen
    BY <1>a, <1>2, ReadableEntries, JournalAssumption DEF NoteLoad, JTyped
  <2>2. JTyped'
    BY <1>a, <1>2, <2>1 DEF NoteLoad, At, For, JTyped, Stage, NoStatus, Answer, Gen
  <2>3. StageOK(s)'
    BY <1>a, <1>0, <1>2, <2>1 DEF NoteLoad, At, For, JTyped, StageOK, Entries, vars, volatile
  <2>4. \A t \in Session : t # s => JournalRests(t)
    BY <1>a, <1>2 DEF NoteLoad, At, For, JTyped, JournalRests
  <2>5. QED
    BY <2>2, <2>3, <2>4 DEF InShape
<1>3. CASE NoteRefused(s) \/ AppDone(s)
  BY <1>1, <1>3 DEF NoteRefused, AppDone
<1>4. CASE NoteStarted(s)
  <2>1. sweep[s] \in Gen /\ journal[s] \in Entries /\ aim[s] = "note"
    BY <1>a, <1>4 DEF NoteStarted, StageOK, Entries
  <2>2. Cardinality(content[sweep[s]]) \in Nat
    BY <1>a, <2>1, JournalAssumption, FS_Subset, FS_CardinalityType DEF TypeOK
  <2>3. PICK count \in Nat : count = IF CountsItems THEN Cardinality(content[sweep[s]]) ELSE 0
    BY <2>2
  <2>4. PICK after \in JournalState : journal' = [journal EXCEPT ![s] =
                                        [Rebind(s, @) EXCEPT ![sweep[s]] = after]]
    <3>1. Bound(s, journal[s][sweep[s]]) \in JournalState
      BY <2>1, EffectiveEntry DEF Bound, Entries
    <3>2. NoteItemsSeen(MarkImportStarted(Bound(s, journal[s][sweep[s]])), count) \in JournalState
      BY <3>1, <2>3, StartedEntry, CountedEntry
    <3>3. QED
      BY <1>4, <2>3, <3>2 DEF NoteStarted
  <2>5. PICK j \in Entries : journal' = [journal EXCEPT ![s] = j]
    <3>1. [Rebind(s, journal[s]) EXCEPT ![sweep[s]] = after] \in Entries
      BY <2>1, <2>4, Rebound DEF Entries
    <3>2. QED
      BY <2>4, <3>1
  <2>6. PICK where \in {"noteMarker", "merge"} : stage' = [stage EXCEPT ![s] = where]
    BY <1>4 DEF NoteStarted, At
  <2>7. UNCHANGED <<vars, stored, aim, already, checked, unverified, revision, sweep, status>>
    BY <1>4 DEF NoteStarted
  <2>8. JTyped'
    BY <1>a, <2>5, <2>6, <2>7 DEF JTyped, Stage, JournalValue, Entries
  <2>9. StageOK(s)'
    BY <1>a, <1>0, <2>1, <2>5, <2>6, <2>7 DEF JTyped, StageOK, Entries, vars, volatile
  <2>10. \A t \in Session : t # s => JournalRests(t)
    BY <1>a, <2>5, <2>6, <2>7 DEF JTyped, JournalRests
  <2>11. QED
    BY <2>8, <2>9, <2>10 DEF InShape
<1>5. CASE NoteMarker(s) \/ (NoteReadBack(s) /\ Marker(sweep[s]) = "wipData")
  <2>1. /\ stage[s] \in {"noteMarker", "noteRead"} /\ UNCHANGED volatile
        /\ At(s, "noteRead") \/ At(s, "copy")
        /\ UNCHANGED <<stored, journal, aim, already, checked, unverified, revision, sweep, status>>
    BY <1>5 DEF NoteMarker, NoteReadBack, vars
  <2>2. JTyped'
    BY <1>a, <2>1 DEF At, JTyped, Stage
  <2>3. StageOK(s)'
    BY <1>a, <1>0, <2>1 DEF At, JTyped, StageOK, volatile
  <2>4. \A t \in Session : t # s => JournalRests(t)
    BY <1>a, <2>1 DEF At, JTyped, JournalRests
  <2>5. QED
    BY <2>2, <2>3, <2>4 DEF InShape
<1>6. CASE NoteReadBack(s) /\ Marker(sweep[s]) # "wipData"
  BY <1>1, <1>6 DEF NoteReadBack
<1>7. ASSUME NEW k \in Key, AppWrite(s, k) PROVE InShape(s)
  <2>1. UNCHANGED journaling /\ UNCHANGED volatile
    BY <1>7 DEF AppWrite
  <2>2. QED
    BY <1>a, <2>1 DEF JTyped, StageOK, journaling, volatile, InShape, JournalRests
<1>8. CASE RaiseRevision(s)
  <2>1. JTyped'
    BY <1>a, <1>8, JournalAssumption DEF RaiseRevision, JTyped
  <2>2. StageOK(s)'
    BY <1>a, <1>8 DEF RaiseRevision, JTyped, StageOK, vars, volatile
  <2>3. \A t \in Session : t # s => JournalRests(t)
    BY <1>a, <1>8 DEF RaiseRevision, JTyped, JournalRests
  <2>4. QED
    BY <2>1, <2>2, <2>3 DEF InShape
<1>9. QED
  BY <1>2, <1>3, <1>4, <1>5, <1>6, <1>7, <1>8 DEF AppStep

LEMMA ActsInShape ==
  ASSUME Shape, RunInv, NEW s \in Session, JActs(s)
  PROVE  InShape(s)
BY LoadsInShape, MergesInShape, FlagsInShape, FailsInShape, WalkInShape, AwaitsInShape,
   ResolvesInShape, SweepInShape
   DEF JActs, JStep, JFault

LEMMA WhoJActs ==
  [JNext]_jvars =>
    \/ \E s \in Session : JActs(s)
    \/ UNCHANGED journaling /\ UNCHANGED volatile
         /\ (UNCHANGED vars \/ \E k \in Key : UserWrite(k) \/ UserDelete(k))
    \/ Corrupt
BY DEF JNext, JActs, User, UserWrite, UserDelete, jvars, vars

WalkShape == Shape /\ RunInv

LEMMA InitWalkShape == JInit => WalkShape
<1> SUFFICES ASSUME JInit PROVE WalkShape
  OBVIOUS
<1>1. TypeOK /\ RunInv /\ \A s \in Session : pc[s] = "idle"
  BY InitRunInv DEF JInit, RunInv, Init
<1>2. JTyped
  <2>1. NotAsked \in [Gen -> {"no", "journal", "data", "empty", "bridged", "unreadable"}]
    BY DEF NotAsked
  <2>2. 0 \in 0..N /\ 0 \in 0..MaxRevision
    BY WalkAssumption, JournalAssumption
  <2>3. NoStatus \in Answer
    BY DEF NoStatus, Answer
  <2>4. QED
    BY <2>1, <2>2, <2>3 DEF JInit, JTyped, JournalValue, Stage
<1>3. \A s \in Session : StageOK(s)
  BY <1>1 DEF JInit, StageOK
<1>4. QED
  BY <1>1, <1>2, <1>3, ShapeParts DEF WalkShape

LEMMA ShapeNext == (Shape <=> TypeOK /\ JTyped /\ \A s \in Session : StageOK(s))'
BY ShapeParts, PTL

LEMMA StepWalkShape == WalkShape /\ [JNext]_jvars => WalkShape'
<1> SUFFICES ASSUME WalkShape, [JNext]_jvars PROVE WalkShape'
  OBVIOUS
<1>a. Shape /\ RunInv /\ TypeOK /\ JTyped /\ \A s \in Session : StageOK(s)
  BY ShapeParts DEF WalkShape
<1>1. ASSUME NEW s \in Session, JActs(s) PROVE WalkShape'
  <2>1. Moves(s) /\ InShape(s)
    BY <1>a, <1>1, WalkMoves, ActsInShape
  <2>2. TypeOK' /\ RunInv' /\ JTyped'
    BY <1>a, <2>1, MovesType, MovesRun DEF InShape
  <2>3. ASSUME NEW t \in Session PROVE StageOK(t)'
    <3>1. CASE t # s
      <4>1. Rests(t) /\ JournalRests(t)
        BY <1>a, <2>1, <3>1, MovesAlone DEF InShape
      <4>2. QED
        BY <1>a, <4>1 DEF Rests, JournalRests, StageOK
    <3>2. QED
      BY <2>1, <3>1 DEF InShape
  <2>4. QED
    BY <2>2, <2>3, ShapeNext DEF WalkShape
<1>2. CASE /\ UNCHANGED journaling /\ UNCHANGED volatile
           /\ UNCHANGED vars \/ \E k \in Key : UserWrite(k) \/ UserDelete(k)
  <2>1. [Next]_vars
    BY <1>2 DEF Next
  <2>2. TypeOK' /\ RunInv'
    BY <1>a, <2>1, StepType, StepRunInv
  <2>3. JTyped' /\ \A s \in Session : StageOK(s)'
    BY <1>a, <1>2 DEF JTyped, StageOK, journaling, volatile
  <2>4. QED
    BY <2>2, <2>3, ShapeNext DEF WalkShape
<1>3. CASE Corrupt
  <2>1. UNCHANGED vars /\ stored' = CorruptJournal
        /\ UNCHANGED <<journal, stage, aim, already, checked, unverified, revision, sweep, status>>
    BY <1>3 DEF Corrupt
  <2>2. TypeOK' /\ RunInv'
    BY <1>a, <2>1, StepType, StepRunInv
  <2>3. JTyped' /\ \A s \in Session : StageOK(s)'
    BY <1>a, <2>1 DEF JTyped, StageOK, JournalValue, vars, volatile
  <2>4. QED
    BY <2>2, <2>3, ShapeNext DEF WalkShape
<1>4. QED
  BY <1>1, <1>2, <1>3, WhoJActs

\* The types of the journaled walk, with what belongs together in one operation:
\* every entry, stored or worked on, is one the code can hold, and the walk is only
\* under way in a journaled run, paused while the journal is stored.
THEOREM JTypeCorrect == JSpec => []JTypeOK
<1>1. WalkShape => JTypeOK
  BY DEF WalkShape, Shape
<1>2. QED
  BY <1>1, InitWalkShape, StepWalkShape, PTL DEF JSpec

\* A journaled run, too, never lets an older generation supply a key that a newer
\* one left unresolved, whatever the journal adds to the walk.
THEOREM JournaledNoShadow == JSpec => []NoShadowInRun
<1>1. WalkShape => NoShadowInRun
  BY DEF WalkShape, RunInv
<1>2. QED
  BY <1>1, InitWalkShape, StepWalkShape, PTL DEF JSpec

-------------------------------------------------------------------------------
(* The journal says of no predecessor that its data is in when it is not.     *)

\* Every key that has an outcome was in hand.
TalliedInHand ==
  \A s \in Session, k \in Key :
    pc[s] \in {"items", "seal"} /\ tally[s][cur[s]][k] # "none" => k \in items[s]

LegacyTaken == \A g \in legacy : content[g] \subseteq EverHeld

\* A journal that claims the data of predecessors whose data is in.
Honest(j) == j \in Entries => \A g \in Gen : IsDataBearing(j[g]) => TakenOver(g)

\* A row from which the journal concludes that the data is in.
Claims(s, g) ==
  \/ row[s][g] = "imported" \/ OnlyRejections(s, g)
  \/ row[s][g] = "alreadyMigrated" /\ already[s][g] = "data"

RowsTaken == \A s \in Session, g \in Gen : Claims(s, g) => TakenOver(g)

JournalInv ==
  /\ WalkShape /\ SealInv /\ RejectionsReal
  /\ AppMarked /\ TalliedInHand /\ LegacyTaken /\ RowsTaken
  /\ Honest(stored) /\ \A s \in Session : Honest(journal[s])

\* A data seal of g's own, as its exact marker reads, covers its data.
LEMMA ExactTells ==
  ASSUME TypeOK, NEW g \in Gen
  PROVE  /\ ExactMarker(g) = "doneData" <=> done[g] = "data" \/ (done[g] = "absent" /\ g \in legacy)
         /\ ExactMarker(g) = "wipData" <=>
              wip[g] = "data" /\ (done[g] = "empty" \/ (done[g] = "absent" /\ g \notin legacy))
<1>1. done[g] \in MarkerValue /\ wip[g] \in MarkerValue
  BY DEF TypeOK
<1>2. QED
  BY <1>1 DEF ExactMarker, ReadMarker, EmptySealContradicted, MarkerValue

LEMMA SealedTaken ==
  ASSUME TypeOK, SealCoversData, LegacyTaken, NEW g \in Gen,
         ExactMarker(g) = "doneData" \/ (Marker(g) = "doneData" /\ ~SnapshotPolicy(Policy))
  PROVE  TakenOver(g)
<1>1. done[g] = "data" \/ g \in legacy
  BY ExactTells, MarkerTells DEF Bridged, LegacyMigrated
<1>2. content[g] \subseteq EverHeld
  BY <1>1 DEF SealCoversData, LegacyTaken
<1>3. QED
  BY <1>2 DEF TakenOver

\* What is taken over stays so.
LEMMA TakenStays ==
  ASSUME EverHeld \subseteq EverHeld', UNCHANGED <<content, legacy>>
  PROVE  /\ LegacyTaken => LegacyTaken'
         /\ \A g \in Gen : TakenOver(g) => TakenOver(g)'
         /\ \A j : Honest(j) => (j \in Entries => \A g \in Gen : IsDataBearing(j[g]) => TakenOver(g)')
BY DEF LegacyTaken, TakenOver, Honest

\* Everything exported was offered and flushed: refused items are all that is missing.
LEMMA FlushedTaken ==
  ASSUME SealInv, RejectionsReal, TalliedInHand, NEW s \in Session, Flush(s),
         NEW k \in Key, tally[s][cur[s]][k] = "rejected",
         \A j \in Key : tally[s][cur[s]][j] \notin {"failed", "withheld"},
         EverHeld \subseteq EverHeld'
  PROVE  \A j \in content[cur[s]] : j \in EverHeld' \/ <<cur[s], j>> \in Rejects
<1>1. TypeOK /\ pc[s] = "items" /\ Pending(s) = {} /\ cur[s] \in Gen
  BY CurrentGeneration DEF Flush, SealInv
<1>2. items[s] = content[cur[s]]
  <2>1. k \in items[s]
    BY <1>1 DEF TalliedInHand
  <2>2. QED
    BY <1>1, <2>1 DEF SealInv, ExportBelieved, AfterFetch
<1>3. SUFFICES ASSUME NEW j \in Key, j \in items[s]
               PROVE  j \in EverHeld' \/ <<cur[s], j>> \in Rejects
  BY <1>1, <1>2 DEF TypeOK
<1>4. tally[s][cur[s]][j] \in {"written", "skipped", "rejected"}
  BY <1>1, <1>3 DEF Pending, TypeOK, Outcome
<1>5. CASE tally[s][cur[s]][j] = "rejected"
  BY <1>1, <1>5 DEF RejectionsReal
<1>6. CASE tally[s][cur[s]][j] = "skipped" \/ (tally[s][cur[s]][j] = "written" /\ ~Buffering)
  BY <1>1, <1>6 DEF SealInv, TallyHonest
<1>7. CASE tally[s][cur[s]][j] = "written" /\ Buffering
  <2>1. store' = Land(cur[s], OfferedAs(s, "written")) /\ j \in OfferedAs(s, "written")
    BY <1>7 DEF Flush, OfferedAs
  <2>2. QED
    BY <1>1, <2>1, LandHolds
<1>8. QED
  BY <1>4, <1>5, <1>6, <1>7, WalkAssumption

\* A report pushes one row, and may call older predecessors superseded.
LEMMA RowPushed ==
  ASSUME TypeOK, NEW s \in Session, pc[s] # "idle", NEW kind, NEW terminated, NEW keys,
         Report(s, kind, terminated, keys)
  PROVE  /\ row'[s][cur[s]] = kind
         /\ \A g \in Gen : g # cur[s] => row'[s][g] \in {row[s][g], "superseded"}
<1>1. cur[s] \in Gen
  BY CurrentGeneration
<1>2. \A g \in Gen : row'[s][g] = IF g = cur[s] THEN kind
                                  ELSE IF terminated /\ g < cur[s] THEN "superseded"
                                  ELSE row[s][g]
  BY DEF Report, TypeOK
<1>3. QED
  BY <1>1, <1>2

\* A session starts over, moves on within the predecessor, or pushes its row, which
\* is never that of a believed seal.
LEMMA PushesRow ==
  ASSUME TypeOK, NEW s \in Session, Awaits(s)
  PROVE  \/ StartRun(s) \/ Crash(s)
         \/ pc[s] # "idle" /\ row'[s] = row[s]
         \/ /\ pc[s] # "idle"
            /\ \A g \in Gen : g # cur[s] => row'[s][g] \in {row[s][g], "superseded"}
            /\ \/ row'[s][cur[s]] \notin {"imported", "noData", "incomplete", "alreadyMigrated"}
               \/ Flush(s) /\ tally' = tally /\ row'[s][cur[s]] = "incomplete"
               \/ RecordDone(s) /\ (row'[s][cur[s]] = "imported" => SawData(s))
                    /\ row'[s][cur[s]] \in {"imported", "noData"}
<1>1. ASSUME NEW kind, NEW terminated, NEW keys, Report(s, kind, terminated, keys), pc[s] # "idle"
      PROVE  /\ pc[s] # "idle" /\ row'[s][cur[s]] = kind
             /\ \A g \in Gen : g # cur[s] => row'[s][g] \in {row[s][g], "superseded"}
  BY <1>1, RowPushed
<1>2. CASE MarkerUnreadable(s) \/ BeginMarkerFails(s) \/ NoAnswer(s)
  <2>1. pc[s] # "idle"
    BY <1>2 DEF MarkerUnreadable, BeginMarkerFails, NoAnswer
  <2>2. PICK kind \in {"writerUnavailable", "unresponsive"} :
          \E terminated : Report(s, kind, terminated, withheld[s])
    BY <1>2 DEF MarkerUnreadable, BeginMarkerFails, NoAnswer, WriterUnavailable, Unresponsive
  <2>3. QED
    BY <1>1, <2>1, <2>2
<1>3. CASE \/ ProbeExecutable(s) \/ RecordInProgress(s) \/ Item(s)
           \/ (\E k \in Key : WriteFails(s, k))
  BY <1>3 DEF ProbeExecutable, RecordInProgress, Item, WithholdItem, WriteSecret, WriteFails
<1>4. CASE Flush(s)
  <2>1. pc[s] # "idle" /\ tally' = tally
    BY <1>4 DEF Flush
  <2>2. CASE IsClean(s)
    BY <1>4, <2>1, <2>2 DEF Flush
  <2>3. CASE ~IsClean(s)
    <3>1. \E terminated, keys : Report(s, "incomplete", terminated, keys)
      BY <1>4, <2>3 DEF Flush
    <3>2. QED
      BY <1>1, <1>4, <2>1, <3>1
  <2>4. QED
    BY <2>2, <2>3
<1>5. CASE FlushFails(s) \/ CompleteMarkerFails(s)
  <2>1. pc[s] # "idle"
    BY <1>5 DEF FlushFails, CompleteMarkerFails
  <2>2. PICK kind \in {"flushFailed", "sealFailed"} :
          \E terminated, keys : Report(s, kind, terminated, keys)
    BY <1>5 DEF FlushFails, CompleteMarkerFails
  <2>3. QED
    BY <1>1, <2>1, <2>2
<1>6. CASE RecordDone(s)
  <2>1. pc[s] # "idle"
    BY <1>6 DEF RecordDone
  <2>2. PICK terminated, keys :
          Report(s, IF SawData(s) THEN "imported" ELSE "noData", terminated, keys)
    BY <1>6 DEF RecordDone
  <2>3. /\ row'[s][cur[s]] = (IF SawData(s) THEN "imported" ELSE "noData")
        /\ \A g \in Gen : g # cur[s] => row'[s][g] \in {row[s][g], "superseded"}
    BY <1>1, <2>1, <2>2
  <2>4. QED
    BY <1>6, <2>1, <2>3
<1>7. QED
  BY <1>2, <1>3, <1>4, <1>5, <1>6 DEF Awaits

\* Why a row says that a predecessor was dealt with before: the journal or a seal said so.
LEMMA WhoBelieves ==
  ASSUME Shape, RunInv, NEW s \in Session, JActs(s), NEW g \in Gen,
         row'[s][g] = "alreadyMigrated", already'[s][g] # "no"
  PROVE  \/ row[s][g] = "alreadyMigrated" /\ already[s][g] = already'[s][g]
         \/ /\ already'[s][g] = "journal"
            /\ journal[s] \in Entries /\ IsDataBearing(journal[s][g])
         \/ already'[s][g] = "empty" /\ Marker(g) = "doneEmpty"
         \/ already'[s][g] = "bridged" /\ Marker(g) = "doneData" /\ SnapshotPolicy(Policy)
         \/ /\ already'[s][g] = "data" /\ Marker(g) = "doneData"
            /\ ExactMarker(g) = "doneData" \/ ~SnapshotPolicy(Policy)
<1> DEFINE Goal == \/ row[s][g] = "alreadyMigrated" /\ already[s][g] = already'[s][g]
                   \/ /\ already'[s][g] = "journal"
                      /\ journal[s] \in Entries /\ IsDataBearing(journal[s][g])
                   \/ already'[s][g] = "empty" /\ Marker(g) = "doneEmpty"
                   \/ already'[s][g] = "bridged" /\ Marker(g) = "doneData" /\ SnapshotPolicy(Policy)
                   \/ /\ already'[s][g] = "data" /\ Marker(g) = "doneData"
                      /\ ExactMarker(g) = "doneData" \/ ~SnapshotPolicy(Policy)
<1>a. TypeOK /\ JTyped /\ StageOK(s)
  BY ShapeParts
<1>1. ~(\E answer : Leave(s, answer))
  BY <1>a DEF Leave, NotAsked, JTyped
<1>2. ASSUME UNCHANGED <<already, row>> PROVE Goal
  BY <1>2
<1>3. ASSUME UNCHANGED already, pc[s] # "idle", NEW kind, kind # "alreadyMigrated",
             NEW terminated, NEW keys, Report(s, kind, terminated, keys)
      PROVE  Goal
  BY <1>a, <1>3, RowPushed
<1>4. ASSUME UNCHANGED already, Awaits(s) PROVE Goal
  <2>1. CASE StartRun(s) \/ Crash(s)
    BY <1>a, <2>1 DEF StartRun, Crash, TypeOK
  <2>2. CASE ~(StartRun(s) \/ Crash(s))
    <3>1. row'[s][g] \in {row[s][g], "superseded"} \/ row'[s][cur[s]] # "alreadyMigrated"
      BY <1>a, <1>4, <2>2, PushesRow
    <3>2. g # cur[s] => row'[s][g] \in {row[s][g], "superseded"}
      BY <1>a, <1>4, <2>2, PushesRow
    <3>3. QED
      BY <1>4, <3>1, <3>2
  <2>3. QED
    BY <2>1, <2>2
<1>5. CASE BeginMigrationJournal(s) \/ MigrateJournaled(s) \/ LoadJournal(s) \/ MergeStored(s)
             \/ ResolveOutcomes(s) \/ NoteStarted(s) \/ RaiseRevision(s)
             \/ (\E h \in Sweeps : NoteLoad(s, h)) \/ NoteMarker(s)
             \/ (\E k \in Key : AppWrite(s, k))
  BY <1>2, <1>5 DEF BeginMigrationJournal, MigrateJournaled, Operate, LoadJournal, MergeStored,
       ResolveOutcomes, NoteStarted, RaiseRevision, NoteLoad, NoteMarker, AppWrite, journaling,
       vars, volatile
<1>6. CASE NoteReadBack(s) \/ NoteRefused(s) \/ AppDone(s) \/ Die(s)
  BY <1>1, <1>2, <1>6 DEF NoteReadBack, NoteRefused, AppDone, Die, vars, volatile
<1>7. ASSUME NEW j, NEW read, NEW unread, Established(s, j, read, unread) PROVE Goal
  BY <1>1, <1>4, <1>7 DEF Established, Awaits
<1>8. CASE SeedJournal(s)
  BY <1>2, <1>7, <1>8 DEF SeedJournal, KeepJournal, RebuildJournal, ToStore, vars, volatile
<1>9. CASE StoreJournal(s)
  <2>1. CASE Flagged(s)
    <3>1. pc[s] # "idle"
      BY <1>a, <1>9, <2>1 DEF StoreJournal, Flagged, StageOK
    <3>2. UNCHANGED vars \/
            Report(s, "unresponsive", UnresponsiveTerminates(Policy, TRUE), withheld[s])
      BY <2>1 DEF Flagged
    <3>3. QED
      BY <1>2, <1>3, <2>1, <3>1, <3>2 DEF Flagged, vars, volatile
  <2>2. CASE Return(s)
    BY <1>1, <2>2 DEF Return
  <2>3. CASE Announced(s)
    BY <1>1, <1>2, <2>3 DEF Announced, vars, volatile
  <2>4. QED
    BY <1>7, <1>9, <2>1, <2>2, <2>3 DEF StoreJournal
<1>10. CASE JournalUnavailable(s)
  <2>1. aim[s] \in {"early", "late"} => pc[s] # "idle"
    BY <1>a, <1>10 DEF JournalUnavailable, StageOK
  <2>2. QED
    BY <1>1, <1>3, <1>10, <2>1 DEF JournalUnavailable, WriterUnavailable
<1>11. CASE JournalShortCut(s)
  <2>1. /\ pc[s] # "idle" /\ AlreadyAs(s, "journal") /\ IsDataBearing(journal[s][cur[s]])
        /\ journal[s] \in Entries
        /\ \E terminated : Report(s, "alreadyMigrated", terminated, withheld[s])
    BY <1>a, <1>11 DEF JournalShortCut, ResolvedWithData, StageOK, Entries
  <2>2. cur[s] \in Gen
    BY <1>a, <2>1, CurrentGeneration
  <2>3. already'[s][g] = IF g = cur[s] THEN "journal" ELSE already[s][g]
    BY <1>a, <2>1, <2>2 DEF AlreadyAs, JTyped
  <2>4. g # cur[s] => row[s][g] = "alreadyMigrated"
    BY <1>a, <2>1, RowPushed
  <2>5. QED
    BY <2>1, <2>3, <2>4
<1>12. ASSUME NEW unreadable \in BOOLEAN, BelieveSeal(s, unreadable) PROVE Goal
  <2>1. pc[s] # "idle" /\ \E terminated : Report(s, "alreadyMigrated", terminated, withheld[s])
    BY <1>12 DEF BelieveSeal
  <2>2. cur[s] \in Gen
    BY <1>a, <2>1, CurrentGeneration
  <2>3. PICK why : /\ AlreadyAs(s, why)
                   /\ \/ why = "empty" /\ Marker(cur[s]) = "doneEmpty"
                      \/ why = "bridged" /\ Marker(cur[s]) = "doneData" /\ SnapshotPolicy(Policy)
                      \/ /\ why = "data" /\ Marker(cur[s]) = "doneData"
                         /\ ExactMarker(cur[s]) = "doneData" \/ ~SnapshotPolicy(Policy)
    BY <1>12 DEF BelieveSeal
  <2>4. already'[s][g] = IF g = cur[s] THEN why ELSE already[s][g]
    BY <1>a, <2>2, <2>3 DEF AlreadyAs, JTyped
  <2>5. CASE g = cur[s]
    BY <2>3, <2>4, <2>5
  <2>6. CASE g # cur[s]
    BY <1>a, <2>1, <2>4, <2>6, RowPushed
  <2>7. QED
    BY <2>5, <2>6
<1>13. CASE AskAgain(s)
  <2>1. row' = row /\ pc[s] # "idle" /\ \E why \in {"empty", "no"} : AlreadyAs(s, why)
    BY <1>13 DEF AskAgain
  <2>2. cur[s] \in Gen
    BY <1>a, <2>1, CurrentGeneration
  <2>3. row[s][cur[s]] = "none"
    BY <2>1, <2>2 DEF RunInv, NothingAhead, Gen
  <2>4. g # cur[s] /\ already'[s][g] = already[s][g]
    BY <1>a, <2>1, <2>2, <2>3 DEF AlreadyAs, JTyped
  <2>5. QED
    BY <2>1, <2>4
<1>14. CASE JFetchSecrets(s)
  BY <1>2, <1>3, <1>14 DEF JFetchSecrets, Unresponsive
<1>15. CASE JRecordInProgress(s)
  BY <1>4, <1>15 DEF JRecordInProgress, Awaits
<1>16. CASE ReadBack(s)
  BY <1>a, <1>2, <1>3, <1>16 DEF ReadBack, StageOK, WriterUnavailable, vars, volatile
<1>17. CASE PlainAwait(s)
  BY <1>4, <1>17 DEF PlainAwait, Awaits, journaling
<1>18. CASE JMarkerUnreadable(s)
  <2>1. pc[s] # "idle" /\ AlreadyAs(s, "unreadable") /\
          \E terminated : Report(s, "writerUnavailable", terminated, withheld[s])
    BY <1>18 DEF JMarkerUnreadable, MarkerUnreadable, WriterUnavailable
  <2>2. cur[s] \in Gen
    BY <1>a, <2>1, CurrentGeneration
  <2>3. g # cur[s] => already'[s][g] = already[s][g]
    BY <1>a, <2>1, <2>2 DEF AlreadyAs, JTyped
  <2>4. QED
    BY <1>a, <2>1, <2>3, RowPushed
<1>19. QED
  BY <1>5, <1>6, <1>8, <1>9, <1>10, <1>11, <1>12, <1>13, <1>14, <1>15, <1>16, <1>17, <1>18
     DEF JActs, JStep, JFault, AppStep

\* The app writes only once it read its marker back.
LEMMA WhoSweeps ==
  ASSUME Shape, NEW s \in Session, JActs(s), stage'[s] = "copy"
  PROVE  sweep'[s] = sweep[s] /\ sweep[s] \in Gen /\ (stage[s] = "copy" \/ Marker(sweep[s]) = "wipData")
<1>a. TypeOK /\ JTyped /\ StageOK(s)
  BY ShapeParts
<1>1. ASSUME NEW where, At(s, where) PROVE where = "copy"
  BY <1>a, <1>1 DEF At, JTyped
<1>2. ~At(s, "idle") /\ ~At(s, "walk") /\ ~At(s, "merge") /\ ~At(s, "load") /\ ~At(s, "seed")
        /\ ~At(s, "write") /\ ~At(s, "note") /\ ~At(s, "noteMarker") /\ ~At(s, "noteRead")
        /\ ~At(s, "readBack")
  BY <1>1
<1>3. ~(\E answer : Leave(s, answer))
  BY <1>2 DEF Leave
<1>4. ASSUME NEW j, NEW read, NEW unread PROVE ~Established(s, j, read, unread)
  BY <1>2, <1>3 DEF Established
<1>5. CASE NoteReadBack(s)
  BY <1>a, <1>3, <1>5 DEF NoteReadBack, StageOK
<1>6. CASE stage' = stage /\ sweep' = sweep
  BY <1>a, <1>6 DEF StageOK
<1>7. CASE RaiseRevision(s) \/ JStep(s) \/ JFault(s)
  <2>1. stage' = stage /\ sweep' = sweep
    <3>1. CASE RaiseRevision(s)
      BY <3>1 DEF RaiseRevision
    <3>2. CASE JFault(s)
      BY <1>2, <1>3, <3>2 DEF JFault, JournalUnavailable, JMarkerUnreadable
    <3>3. CASE LoadJournal(s) \/ MergeStored(s) \/ ReadBack(s) \/ ResolveOutcomes(s)
      BY <1>2, <3>3 DEF LoadJournal, MergeStored, ReadBack, ResolveOutcomes
    <3>4. CASE SeedJournal(s)
      BY <1>2, <1>4, <3>4 DEF SeedJournal, KeepJournal, RebuildJournal, ToStore
    <3>5. CASE StoreJournal(s)
      BY <1>2, <1>3, <1>4, <3>5 DEF StoreJournal, Flagged, Return, Announced
    <3>6. CASE JournalShortCut(s) \/ (\E unreadable \in BOOLEAN : BelieveSeal(s, unreadable))
               \/ PlainAwait(s) \/ JRecordInProgress(s)
      BY <1>2, <3>6 DEF JournalShortCut, BelieveSeal, PlainAwait, JRecordInProgress, journaling
    <3>7. CASE AskAgain(s) \/ JFetchSecrets(s)
      BY <1>2, <3>7 DEF AskAgain, JFetchSecrets, BeforeImport
    <3>8. QED
      BY <1>7, <3>1, <3>2, <3>3, <3>4, <3>5, <3>6, <3>7 DEF JStep
  <2>2. QED
    BY <1>6, <2>1
<1>8. CASE BeginMigrationJournal(s) \/ MigrateJournaled(s) \/ Die(s)
  BY <1>2, <1>3, <1>8 DEF BeginMigrationJournal, MigrateJournaled, Operate, Die
<1>9. CASE AppStep(s) /\ ~NoteReadBack(s)
  <2>1. \E k \in Key : AppWrite(s, k)
    BY <1>2, <1>3, <1>9 DEF AppStep, NoteLoad, NoteRefused, NoteStarted, NoteMarker, AppDone
  <2>2. QED
    BY <1>6, <2>1 DEF AppWrite, journaling
<1>10. QED
  BY <1>5, <1>7, <1>8, <1>9 DEF JActs

\* The rows of a session's own step.
LEMMA RowsStayTaken ==
  ASSUME JournalInv, NEW s \in Session, JActs(s), NEW g \in Gen, Claims(s, g)'
  PROVE  TakenOver(g)'
<1>a. /\ Shape /\ RunInv /\ TypeOK /\ SealInv /\ RejectionsReal /\ TalliedInHand /\ LegacyTaken
      /\ SealCoversData
  BY DEF JournalInv, WalkShape, SealInv
<1>b. Moves(s)
  BY <1>a, WalkMoves
<1>c. /\ EverHeld \subseteq EverHeld' /\ UNCHANGED <<content, legacy>>
      /\ Claims(s, g) => TakenOver(g)
  BY <1>a, <1>b, MovesHold DEF JournalInv, RowsTaken
<1>d. TakenOver(g) => TakenOver(g)'
  BY <1>c, TakenStays
<1>1. CASE row'[s][g] = "alreadyMigrated" /\ already'[s][g] = "data"
  <2>1. \/ row[s][g] = "alreadyMigrated" /\ already[s][g] = "data"
        \/ ExactMarker(g) = "doneData"
        \/ Marker(g) = "doneData" /\ ~SnapshotPolicy(Policy)
    BY <1>a, <1>1, WhoBelieves
  <2>2. QED
    BY <1>a, <1>c, <1>d, <2>1, SealedTaken DEF Claims
<1>2. CASE row'[s][g] = "imported" \/ OnlyRejections(s, g)'
  <2>1. CASE row'[s] = row[s] /\ tally'[s][g] = tally[s][g]
    BY <1>c, <1>d, <1>2, <2>1 DEF Claims, OnlyRejections
  <2>2. CASE row'[s][g] \in {"none", "superseded"}
    BY <1>2, <2>2 DEF OnlyRejections
  <2>3. CASE UNCHANGED vars \/ Asks(s) \/ Takes(s) \/ Marks(s) \/ CopiesItself(s)
    BY <2>1, <2>3 DEF Asks, Takes, Marks, CopiesItself, vars, volatile
  <2>4. CASE HandsOver(s) \/ StartRun(s) \/ Crash(s)
    BY <1>a, <2>2, <2>4 DEF HandsOver, HandOver, StartRun, Crash, TypeOK
  <2>5. CASE PassesOver(s)
    <3>1. PICK kind \in {"alreadyMigrated", "unresponsive", "writerUnavailable"} :
            \E terminated : Report(s, kind, terminated, withheld[s])
      BY <2>5 DEF PassesOver
    <3>2. pc[s] # "idle" /\ tally' = tally
      BY <2>5 DEF PassesOver
    <3>3. g # cur[s] /\ row'[s][g] \in {row[s][g], "superseded"}
      BY <1>2, <1>a, <3>1, <3>2, RowPushed DEF OnlyRejections
    <3>4. QED
      BY <1>c, <1>d, <1>2, <2>2, <3>2, <3>3 DEF Claims, OnlyRejections
  <2>6. CASE Awaits(s) /\ ~StartRun(s) /\ ~Crash(s)
    <3>1. pc[s] # "idle" /\ \A h \in Gen : h # cur[s] => tally'[s][h] = tally[s][h]
      BY <1>a, <2>6, AwaitsNext, TallyMoves
    <3>2. cur[s] \in Gen /\ row[s][cur[s]] = "none"
      BY <1>a, <3>1, CurrentGeneration DEF RunInv, NothingAhead, Gen
    <3>3. CASE g # cur[s]
      <4>1. row'[s][g] \in {row[s][g], "superseded"}
        BY <1>a, <2>6, <3>3, PushesRow
      <4>2. QED
        BY <1>c, <1>d, <1>2, <2>2, <3>1, <3>3, <4>1 DEF Claims, OnlyRejections
    <3>4. CASE g = cur[s]
      <4>1. row'[s][g] \in {"imported", "incomplete"}
        BY <1>2 DEF OnlyRejections
      <4>2. CASE Flush(s) /\ tally' = tally /\ row'[s][g] = "incomplete"
        <5>1. PICK k \in Key : tally[s][g][k] = "rejected"
          BY <1>2, <4>2 DEF OnlyRejections
        <5>2. \A j \in Key : tally[s][g][j] \notin {"failed", "withheld"}
          BY <1>2, <4>2 DEF OnlyRejections
        <5>3. \A j \in content[g] : j \in EverHeld' \/ <<g, j>> \in Rejects
          BY <1>a, <1>c, <3>4, <4>2, <5>1, <5>2, FlushedTaken
        <5>4. QED
          BY <1>c, <5>3 DEF TakenOver
      <4>3. CASE RecordDone(s) /\ row'[s][g] = "imported"
        <5>1. SawData(s) /\ pc[s] = "seal"
          BY <1>a, <2>6, <3>2, <3>4, <4>3, PushesRow DEF RecordDone
        <5>2. items[s] = content[g] /\ items[s] \subseteq EverHeld
          BY <1>a, <3>4, <5>1 DEF SealInv, ExportBelieved, ReadyToSeal, SawData, AfterFetch
        <5>3. QED
          BY <1>c, <5>2 DEF TakenOver
      <4>4. QED
        BY <1>a, <2>6, <3>2, <3>4, <4>1, <4>2, <4>3, PushesRow
    <3>5. QED
      BY <3>3, <3>4
  <2>7. QED
    BY <1>b, <2>3, <2>4, <2>5, <2>6 DEF Moves
<1>3. QED
  BY <1>1, <1>2 DEF Claims

\* The tally of a session's own step.
LEMMA TalliesInHand ==
  ASSUME RunInv, TalliedInHand, NEW s \in Session, Moves(s), NEW k \in Key,
         pc'[s] \in {"items", "seal"}, tally'[s][cur'[s]][k] # "none"
  PROVE  k \in items'[s]
<1>a. TypeOK
  BY DEF RunInv
<1>b. pc[s] # "idle" => cur[s] \in Gen
  BY <1>a, CurrentGeneration
<1>1. ASSUME NEW kind, NEW terminated, NEW keys, Report(s, kind, terminated, keys) PROVE FALSE
  BY <1>a, <1>1 DEF Report, TypeOK
<1>2. CASE /\ UNCHANGED <<cur, tally, items>> /\ pc[s] \in {"items", "seal"}
  BY <1>2 DEF TalliedInHand
<1>3. CASE UNCHANGED vars \/ Marks(s) \/ CopiesItself(s) \/ HandsOver(s)
  BY <1>2, <1>3 DEF Marks, CopiesItself, HandsOver, HandOver, vars, volatile
<1>4. CASE Asks(s) \/ Takes(s) \/ StartRun(s) \/ Crash(s) \/ ProbeExecutable(s)
  BY <1>a, <1>4 DEF Asks, Takes, StartRun, Crash, ProbeExecutable, GoTo, TypeOK
<1>5. CASE RecordInProgress(s)
  <2>1. pc[s] \in BeforeItems /\ UNCHANGED <<cur, tally>>
    BY <1>5 DEF RecordInProgress, BeforeItems
  <2>2. QED
    BY <2>1, NothingTallied
<1>6. ASSUME NEW j \in Key, WithholdItem(s, j) \/ WriteSecret(s, j) \/ WriteFails(s, j)
      PROVE  k \in items'[s]
  <2>1. /\ pc[s] = "items" /\ j \in items[s] /\ UNCHANGED <<pc, cur, items>>
        /\ \E outcome : TallyAs(s, j, outcome)
    BY <1>6 DEF WithholdItem, WriteSecret, WriteFails, Pending
  <2>2. k = j \/ tally'[s][cur[s]][k] = tally[s][cur[s]][k]
    BY <1>a, <1>b, <2>1 DEF TallyAs, TypeOK
  <2>3. QED
    BY <2>1, <2>2 DEF TalliedInHand
<1>7. CASE Flush(s)
  BY <1>1, <1>2, <1>7 DEF Flush
<1>8. CASE \/ PassesOver(s) \/ MarkerUnreadable(s) \/ NoAnswer(s) \/ BeginMarkerFails(s)
           \/ FlushFails(s) \/ RecordDone(s) \/ CompleteMarkerFails(s)
  BY <1>1, <1>8 DEF PassesOver, MarkerUnreadable, NoAnswer, BeginMarkerFails, FlushFails,
                    RecordDone, CompleteMarkerFails, WriterUnavailable, Unresponsive
<1>9. QED
  BY <1>3, <1>4, <1>5, <1>6, <1>7, <1>8 DEF Moves, Awaits, Item

LEMMA MovesReject ==
  ASSUME TypeOK, RejectionsReal, NEW s \in Session, Moves(s)
  PROVE  RejectionsReal'
<1>1. CASE UNCHANGED vars \/ Awaits(s)
  BY <1>1, AwaitsNext, RejectionsKept
<1>2. CASE PassesOver(s) \/ Asks(s) \/ Takes(s) \/ Marks(s) \/ CopiesItself(s)
  <2>1. tally' = tally
    BY <1>2 DEF PassesOver, Asks, Takes, Marks, CopiesItself, volatile
  <2>2. QED
    BY <2>1 DEF RejectionsReal
<1>3. CASE HandsOver(s)
  <2>1. \A t \in Session, g \in Gen, k \in Key : tally'[t][g][k] \in {tally[t][g][k], "none"}
    BY <1>3 DEF HandsOver, HandOver, TypeOK, Untallied
  <2>2. QED
    BY <2>1 DEF RejectionsReal
<1>4. QED
  BY <1>1, <1>2, <1>3 DEF Moves

\* What each journal that a session works on claims, and from where it has it.
LEMMA ReboundClaims ==
  ASSUME NEW s, NEW j \in Entries, NEW g \in Gen, IsDataBearing(Rebind(s, j)[g])
  PROVE  IsDataBearing(j[g])
BY EffectiveEntry DEF Rebind, Bound, Entries

LEMMA MergedClaims ==
  ASSUME NEW s, NEW j \in Entries, journal[s] \in Entries, NEW g \in Gen,
         IsDataBearing(MergeInto(s, j)[g])
  PROVE  IsDataBearing(j[g]) \/ IsDataBearing(journal[s][g])
<1>1. Bound(s, j[g]) \in JournalState /\ (IsDataBearing(Bound(s, j[g])) => IsDataBearing(j[g]))
  BY EffectiveEntry DEF Bound, Entries
<1>2. /\ Bound(s, journal[s][g]) \in JournalState
      /\ IsDataBearing(Bound(s, journal[s][g])) => IsDataBearing(journal[s][g])
  BY EffectiveEntry DEF Bound, Entries
<1>3. IsDataBearing(MergeStates(Bound(s, j[g]), Bound(s, journal[s][g])))
  BY DEF MergeInto
<1>4. QED
  BY <1>1, <1>2, <1>3, MergeKeepsData

LEMMA RebuiltClaims ==
  ASSUME NEW g \in Gen, IsDataBearing(FromMarkers[g])
  PROVE  ExactMarker(g) = "doneData"
<1>1. ~IsDataBearing(MarkImportStarted(Fresh))
  BY EntriesOfWalks, StartedEntry
<1>2. ExactMarker(g) # "doneData" => FromMarkers[g] \in {MarkImportStarted(Fresh), NoData, Superseded, Fresh}
  BY DEF FromMarkers
<1>3. QED
  BY <1>1, <1>2, EntriesOfWalks

LEMMA RecordedClaims ==
  ASSUME JTyped, NEW s \in Session, journal[s] \in Entries, NEW g \in Gen,
         IsDataBearing(Recorded(s, g))
  PROVE  IsDataBearing(journal[s][g]) \/ Claims(s, g)
<1>1. journal[s][g] \in JournalState
  BY DEF Entries
<1>2. ASSUME ~Claims(s, g) PROVE IsDataBearing(journal[s][g])
  <2>1. Recorded(s, g) = journal[s][g]
          \/ \E r \in {NoData, Superseded} : Recorded(s, g) = Record(journal[s][g], r)
    BY <1>2 DEF Recorded, Claims
  <2>2. \A r \in {NoData, Superseded} : r \in JournalState /\ ~IsDataBearing(r)
    BY EntriesOfWalks
  <2>3. QED
    BY <1>1, <2>1, <2>2, RecordedEntry
<1>3. QED
  BY <1>2

\* A session's own step leaves it with a journal that is as honest.
LEMMA WorksHonest ==
  ASSUME JournalInv, NEW s \in Session, JActs(s), journal'[s] \in Entries, NEW g \in Gen,
         IsDataBearing(journal'[s][g])
  PROVE  TakenOver(g)
<1>a. /\ Shape /\ RunInv /\ TypeOK /\ JTyped /\ StageOK(s) /\ SealCoversData /\ LegacyTaken
      /\ Honest(journal[s]) /\ Honest(stored) /\ (Claims(s, g) => TakenOver(g))
  BY ShapeParts DEF JournalInv, WalkShape, SealInv, RowsTaken
<1>1. CASE journal'[s] \in {journal[s], stored}
  BY <1>a, <1>1 DEF Honest
<1>2. ~(\E answer : Leave(s, answer))
  <2>1. ASSUME NEW answer, Leave(s, answer) PROVE journal'[s] = NoJournal
    BY <1>a, <2>1 DEF Leave, JTyped
  <2>2. NoJournal \notin Entries
    BY JournalAssumption DEF Entries
  <2>3. QED
    BY <2>1, <2>2
<1>3. ASSUME NEW j \in Entries, IsDataBearing(j[g]) => TakenOver(g),
             NEW read, NEW unread, Established(s, j, read, unread)
      PROVE  TakenOver(g)
  <2>1. journal'[s] = Rebind(s, j)
    BY <1>2, <1>3, <1>a DEF Established, JTyped
  <2>2. QED
    BY <1>3, <2>1, ReboundClaims
<1>4. ASSUME NEW j \in Entries, IsDataBearing(j[g]) => TakenOver(g),
             NEW read, NEW unread, ToStore(s, j, read, unread)
      PROVE  TakenOver(g)
  BY <1>a, <1>4 DEF ToStore, JTyped
<1>5. ASSUME NEW entry \in JournalState, IsDataBearing(entry) => IsDataBearing(journal[s][cur[s]]),
             journal[s] \in Entries, cur[s] \in Gen,
             NEW retry, NEW what, BeforeImport(s, entry, retry, what)
      PROVE  TakenOver(g)
  <2>1. CASE UNCHANGED journal
    BY <1>1, <2>1
  <2>2. CASE journal' = [journal EXCEPT ![s][cur[s]] = entry]
    <3>1. journal'[s][g] = IF g = cur[s] THEN entry ELSE journal[s][g]
      BY <1>a, <1>5, <2>2 DEF JTyped, Entries
    <3>2. QED
      BY <1>a, <1>5, <3>1 DEF Honest
  <2>3. QED
    BY <1>5, <2>1, <2>2 DEF BeforeImport
<1>6. CASE journal' = journal
  BY <1>1, <1>6
<1>7. CASE LoadJournal(s) \/ \E h \in Sweeps : NoteLoad(s, h)
  BY <1>1, <1>7, <1>a DEF LoadJournal, NoteLoad, JTyped
<1>8. CASE SeedJournal(s)
  <2>1. ASSUME NEW unreadable \in SUBSET Gen, KeepJournal(s, unreadable) PROVE TakenOver(g)
    <3>1. journal[s] \in Entries
      BY <1>a, <2>1, ReadableEntries DEF KeepJournal, JTyped
    <3>2. PICK reopened \in SUBSET Gen :
            LET j == [h \in Gen |-> IF h \in reopened THEN MarkImportStarted(journal[s][h])
                                                       ELSE journal[s][h]]
            IN \E read, unread : Established(s, j, read, unread) \/ ToStore(s, j, read, unread)
      BY <2>1 DEF KeepJournal
    <3>3. PICK j : j = [h \in Gen |-> IF h \in reopened THEN MarkImportStarted(journal[s][h])
                                                         ELSE journal[s][h]]
      OBVIOUS
    <3>4. j \in Entries /\ (IsDataBearing(j[g]) => IsDataBearing(journal[s][g]))
      BY <3>1, <3>3, StartedEntry DEF Entries
    <3>5. IsDataBearing(j[g]) => TakenOver(g)
      BY <1>a, <3>1, <3>4 DEF Honest
    <3>6. QED
      BY <1>3, <1>4, <3>2, <3>3, <3>4, <3>5
  <2>2. CASE RebuildJournal(s)
    <3>1. IsDataBearing(FromMarkers[g]) => TakenOver(g)
      BY <1>a, RebuiltClaims, SealedTaken
    <3>2. QED
      BY <1>4, <2>2, <3>1, Rebuilt DEF RebuildJournal
  <2>3. QED
    BY <1>8, <2>1, <2>2 DEF SeedJournal
<1>9. CASE MergeStored(s)
  <2>1. journal[s] \in Entries
    BY <1>a, <1>9 DEF MergeStored, StageOK, Entries
  <2>2. journal'[s] \in {journal[s], MergeInto(s, FromMarkers)}
          \/ (Readable(stored) /\ journal'[s] = MergeInto(s, stored))
    BY <1>a, <1>9 DEF MergeStored, JTyped, Readable
  <2>3. CASE journal'[s] = MergeInto(s, FromMarkers)
    <3>1. IsDataBearing(FromMarkers[g]) \/ IsDataBearing(journal[s][g])
      BY <2>1, <2>3, Rebuilt, MergedClaims
    <3>2. QED
      BY <1>a, <2>1, <3>1, RebuiltClaims, SealedTaken DEF Honest
  <2>4. CASE Readable(stored) /\ journal'[s] = MergeInto(s, stored)
    <3>1. stored \in Entries
      BY <1>a, <2>4, ReadableEntries DEF JTyped
    <3>2. IsDataBearing(stored[g]) \/ IsDataBearing(journal[s][g])
      BY <2>1, <2>4, <3>1, MergedClaims
    <3>3. QED
      BY <1>a, <2>1, <3>1, <3>2 DEF Honest
  <2>5. QED
    BY <1>1, <2>2, <2>3, <2>4
<1>10. CASE StoreJournal(s)
  <2>1. journal[s] \in Entries
    BY <1>a, <1>10 DEF StoreJournal, StageOK, Entries
  <2>2. IsDataBearing(journal[s][g]) => TakenOver(g)
    BY <1>a, <2>1 DEF Honest
  <2>3. QED
    BY <1>2, <1>3, <1>6, <1>10, <2>1, <2>2 DEF StoreJournal, Flagged, Return, Announced
<1>11. CASE AskAgain(s) \/ JFetchSecrets(s)
  <2>1. /\ journal[s] \in Entries /\ cur[s] \in Gen /\ journal[s][cur[s]] \in JournalState
    BY <1>a, <1>11, CurrentGeneration DEF AskAgain, JFetchSecrets, StageOK, Entries
  <2>2. CASE AskAgain(s)
    <3>1. PICK entry \in {MarkImportStarted(journal[s][cur[s]]), journal[s][cur[s]]} :
            BeforeImport(s, entry, FALSE, "early")
      BY <2>2 DEF AskAgain
    <3>2. entry \in JournalState /\ (IsDataBearing(entry) => IsDataBearing(journal[s][cur[s]]))
      BY <2>1, <3>1, StartedEntry
    <3>3. QED
      BY <1>5, <2>1, <3>1, <3>2
  <2>3. CASE JFetchSecrets(s)
    <3>1. CASE UNCHANGED journal
      BY <1>6, <3>1
    <3>2. CASE ~UNCHANGED journal
      <4>1. PICK exported \in JExport(s) :
              BeforeImport(s, NoteItemsSeen(MarkImportStarted(journal[s][cur[s]]),
                                            Cardinality(exported)),
                           Started(journal[s][cur[s]]), "late")
        BY <2>3, <3>2 DEF JFetchSecrets
      <4>2. exported \subseteq Key
        BY <1>a, <2>1 DEF JExport, Export, TypeOK
      <4>3. Cardinality(exported) \in Nat
        BY <4>2, JournalAssumption, FS_Subset, FS_CardinalityType
      <4>4. /\ NoteItemsSeen(MarkImportStarted(journal[s][cur[s]]), Cardinality(exported))
                 \in JournalState
            /\ IsDataBearing(NoteItemsSeen(MarkImportStarted(journal[s][cur[s]]),
                                           Cardinality(exported)))
                 => IsDataBearing(journal[s][cur[s]])
        BY <2>1, <4>3, StartedEntry, CountedEntry
      <4>5. QED
        BY <1>5, <2>1, <4>1, <4>4
    <3>3. QED
      BY <3>1, <3>2
  <2>4. QED
    BY <1>11, <2>2, <2>3
<1>12. CASE ResolveOutcomes(s)
  <2>1. journal[s] \in Entries
    BY <1>a, <1>12 DEF ResolveOutcomes, StageOK, Entries
  <2>2. journal'[s][g] \in {MarkImportStarted(Recorded(s, g)), Recorded(s, g)}
    BY <1>a, <1>12 DEF ResolveOutcomes, Resolve, JTyped
  <2>3. Recorded(s, g) \in JournalState
    BY <1>a, <2>1, RecordedIsState
  <2>4. IsDataBearing(Recorded(s, g))
    BY <2>2, <2>3, StartedEntry
  <2>5. QED
    BY <1>a, <2>1, <2>4, RecordedClaims DEF Honest
<1>13. CASE NoteStarted(s)
  <2>1. sweep[s] \in Gen /\ journal[s] \in Entries
    BY <1>a, <1>13 DEF NoteStarted, StageOK, Entries
  <2>2. PICK count : /\ count = IF CountsItems THEN Cardinality(content[sweep[s]]) ELSE 0
    OBVIOUS
  <2>3. count \in Nat
    BY <1>a, <2>1, <2>2, JournalAssumption, FS_Subset, FS_CardinalityType DEF TypeOK
  <2>4. PICK after : /\ after = NoteItemsSeen(MarkImportStarted(Bound(s, journal[s][sweep[s]])), count)
                     /\ journal' = [journal EXCEPT ![s] = [Rebind(s, @) EXCEPT ![sweep[s]] = after]]
    BY <1>13, <2>2 DEF NoteStarted
  <2>5. journal'[s][g] = IF g = sweep[s] THEN after ELSE Rebind(s, journal[s])[g]
    BY <1>a, <2>1, <2>4, Rebound DEF JTyped, Entries
  <2>6. IsDataBearing(after) => IsDataBearing(journal[s][sweep[s]])
    <3>1. /\ Bound(s, journal[s][sweep[s]]) \in JournalState
          /\ IsDataBearing(Bound(s, journal[s][sweep[s]])) => IsDataBearing(journal[s][sweep[s]])
      BY <2>1, EffectiveEntry DEF Bound, Entries
    <3>2. QED
      BY <2>3, <2>4, <3>1, StartedEntry, CountedEntry
  <2>7. QED
    BY <1>a, <2>1, <2>5, <2>6, ReboundClaims DEF Honest
<1>14. CASE \/ BeginMigrationJournal(s) \/ MigrateJournaled(s) \/ JournalShortCut(s)
            \/ (\E unreadable \in BOOLEAN : BelieveSeal(s, unreadable)) \/ JRecordInProgress(s)
            \/ ReadBack(s) \/ PlainAwait(s) \/ JMarkerUnreadable(s) \/ NoteMarker(s)
            \/ (\E k \in Key : AppWrite(s, k)) \/ RaiseRevision(s)
  BY <1>6, <1>14 DEF BeginMigrationJournal, MigrateJournaled, Operate, JournalShortCut, BelieveSeal,
       JRecordInProgress, ReadBack, PlainAwait, JMarkerUnreadable, NoteMarker, AppWrite,
       RaiseRevision, journaling
<1>15. CASE JournalUnavailable(s) \/ NoteRefused(s) \/ NoteReadBack(s) \/ AppDone(s) \/ Die(s)
  BY <1>2, <1>6, <1>15 DEF JournalUnavailable, NoteRefused, NoteReadBack, AppDone, Die
<1>16. QED
  BY <1>7, <1>8, <1>9, <1>10, <1>11, <1>12, <1>13, <1>14, <1>15 DEF JActs, JStep, JFault, AppStep

\* Only what a session worked on is ever stored.
LEMMA WhoStores ==
  ASSUME NEW s \in Session, JActs(s)
  PROVE  stored' \in {stored, journal[s]}
BY DEF JActs, JStep, JFault, AppStep, BeginMigrationJournal, MigrateJournaled, Operate, LoadJournal,
       SeedJournal, MergeStored, StoreJournal, JournalShortCut, BelieveSeal, AskAgain,
       JFetchSecrets, JRecordInProgress, ReadBack, PlainAwait, ResolveOutcomes, JournalUnavailable,
       JMarkerUnreadable, NoteLoad, NoteRefused, NoteStarted, NoteMarker, NoteReadBack, AppWrite,
       AppDone, Die, RaiseRevision, journaling

LEMMA InitJournalInv == JInit => JournalInv
<1> SUFFICES ASSUME JInit PROVE JournalInv
  OBVIOUS
<1>1. WalkShape /\ SealInv /\ TypeOK
  BY InitWalkShape, InitSealInv DEF JInit, SealInv
<1>2. RejectionsReal /\ TalliedInHand
  BY DEF JInit, Init, RejectionsReal, TalliedInHand, Untallied
<1>3. LegacyTaken
  <2>1. SUFFICES ASSUME NEW g \in legacy, NEW k \in content[g] PROVE k \in EverHeld
    BY DEF LegacyTaken
  <2>2. k \in Key /\ store[k] = Own
    BY <1>1, <2>1 DEF JInit, Init, TypeOK
  <2>3. QED
    BY <2>2, WalkAssumption DEF EverHeld, Own, Absent
<1>4. AppMarked /\ RowsTaken
  BY DEF JInit, Init, AppMarked, RowsTaken, Claims, OnlyRejections
<1>5. Honest(stored) /\ \A s \in Session : Honest(journal[s])
  BY JournalAssumption DEF JInit, Honest, Entries
<1>6. QED
  BY <1>1, <1>2, <1>3, <1>4, <1>5 DEF JournalInv

LEMMA StepJournalInv == WholeRetries /\ JournalInv /\ [JNext]_jvars => JournalInv'
<1> SUFFICES ASSUME WholeRetries, JournalInv, [JNext]_jvars PROVE JournalInv'
  OBVIOUS
<1>a. /\ WalkShape /\ Shape /\ RunInv /\ TypeOK /\ JTyped /\ SealInv /\ RejectionsReal
      /\ AppMarked /\ TalliedInHand /\ LegacyTaken /\ RowsTaken
      /\ Honest(stored) /\ \A s \in Session : Honest(journal[s])
  BY ShapeParts DEF JournalInv, WalkShape
<1>b. WalkShape' /\ TypeOK' /\ JTyped'
  BY <1>a, StepWalkShape, ShapeNext DEF WalkShape
<1>1. ASSUME NEW s \in Session, JActs(s) PROVE JournalInv'
  <2>1. Moves(s) /\ InShape(s)
    BY <1>a, <1>1, WalkMoves, ActsInShape
  <2>2. /\ EverHeld \subseteq EverHeld' /\ UNCHANGED <<content, legacy>>
        /\ \A g \in Gen : wip[g] = "data" => wip'[g] = "data"
    BY <1>a, <2>1, MovesHold
  <2>3. /\ LegacyTaken' /\ \A g \in Gen : TakenOver(g) => TakenOver(g)'
    BY <1>a, <2>2, TakenStays
  <2>4. SealInv' /\ RejectionsReal'
    BY <1>a, <2>1, MovesSeal, MovesReject
  <2>5. \A t \in Session : t # s => Rests(t) /\ JournalRests(t)
    BY <1>a, <2>1, MovesAlone DEF InShape
  <2>6. AppMarked'
    <3>1. SUFFICES ASSUME NEW t \in Session, stage'[t] = "copy" PROVE wip'[sweep'[t]] = "data"
      BY DEF AppMarked
    <3>2. sweep'[t] = sweep[t] /\ sweep[t] \in Gen
            /\ (stage[t] = "copy" \/ Marker(sweep[t]) = "wipData")
      <4>1. CASE t = s
        BY <1>a, <1>1, <3>1, <4>1, WhoSweeps
      <4>2. CASE t # s
        BY <1>a, <2>5, <3>1, <4>2 DEF Shape, StageOK, JournalRests
      <4>3. QED
        BY <4>1, <4>2
    <3>3. wip[sweep[t]] = "data"
      BY <1>a, <3>2, MarkerTells DEF AppMarked
    <3>4. QED
      BY <2>2, <3>2, <3>3
  <2>7. TalliedInHand'
    BY <1>a, <2>1, <2>5, TalliesInHand DEF TalliedInHand, Rests
  <2>8. RowsTaken'
    <3>1. SUFFICES ASSUME NEW t \in Session, NEW g \in Gen, Claims(t, g)' PROVE TakenOver(g)'
      BY DEF RowsTaken
    <3>2. CASE t = s
      BY <1>1, <3>1, <3>2, RowsStayTaken
    <3>3. CASE t # s
      BY <1>a, <2>3, <2>5, <3>1, <3>3 DEF RowsTaken, Claims, OnlyRejections, Rests, JournalRests
    <3>4. QED
      BY <3>2, <3>3
  <2>9. Honest(stored)'
    BY <1>a, <1>1, <2>3, WhoStores DEF Honest
  <2>10. ASSUME NEW t \in Session PROVE Honest(journal[t])'
    <3>1. CASE t = s
      BY <1>1, <2>3, <3>1, WorksHonest DEF Honest
    <3>2. CASE t # s
      BY <1>a, <2>3, <2>5, <3>2 DEF Honest, JournalRests
    <3>3. QED
      BY <3>1, <3>2
  <2>11. QED
    BY <1>b, <2>3, <2>4, <2>6, <2>7, <2>8, <2>9, <2>10 DEF JournalInv
<1>2. CASE /\ UNCHANGED journaling /\ UNCHANGED volatile
           /\ UNCHANGED vars \/ \E k \in Key : UserWrite(k) \/ UserDelete(k)
  <2>1. [Next]_vars
    BY <1>2 DEF Next
  <2>2. EverHeld \subseteq EverHeld' /\ UNCHANGED <<content, legacy, wip>>
    BY <1>a, <1>2, WalkAssumption DEF UserWrite, UserDelete, EverHeld, TypeOK, Own, Absent, Deleted,
                                      vars, durable
  <2>3. LegacyTaken' /\ \A g \in Gen : TakenOver(g) => TakenOver(g)'
    BY <1>a, <2>2, TakenStays
  <2>4. SealInv' /\ RejectionsReal'
    BY <1>a, <2>1, StepSealInv, RejectionsKept
  <2>5. AppMarked' /\ TalliedInHand'
    BY <1>a, <1>2, <2>2 DEF AppMarked, TalliedInHand, journaling, volatile
  <2>6. RowsTaken'
    BY <1>a, <1>2, <2>3 DEF RowsTaken, Claims, OnlyRejections, journaling, volatile
  <2>7. Honest(stored)' /\ \A s \in Session : Honest(journal[s])'
    BY <1>a, <1>2, <2>3 DEF Honest, journaling
  <2>8. QED
    BY <1>b, <2>3, <2>4, <2>5, <2>6, <2>7 DEF JournalInv
<1>3. CASE Corrupt
  <2>1. UNCHANGED vars /\ stored' = CorruptJournal
        /\ UNCHANGED <<journal, stage, aim, already, checked, unverified, revision, sweep, status>>
    BY <1>3 DEF Corrupt
  <2>2. SealInv' /\ RejectionsReal'
    BY <1>a, <2>1, StepSealInv, RejectionsKept
  <2>3. AppMarked' /\ TalliedInHand' /\ LegacyTaken'
    BY <1>a, <2>1 DEF AppMarked, TalliedInHand, LegacyTaken, EverHeld, vars, durable, volatile
  <2>4. \A g \in Gen : TakenOver(g)' <=> TakenOver(g)
    BY <2>1 DEF TakenOver, EverHeld, vars, durable
  <2>5. RowsTaken'
    BY <1>a, <2>1, <2>4 DEF RowsTaken, Claims, OnlyRejections, vars, volatile
  <2>6. Honest(stored)' /\ \A s \in Session : Honest(journal[s])'
    BY <1>a, <2>1, <2>4, JournalAssumption DEF Honest, Entries
  <2>7. QED
    BY <1>b, <2>2, <2>3, <2>5, <2>6 DEF JournalInv
<1>4. QED
  BY <1>1, <1>2, <1>3, WhoJActs

\* The markers of a partial copy say that its import is under way, unless an older
\* API's seal for a newer generation hides it.
LEMMA PartialMarked ==
  ASSUME JournalInv, NEW g \in Gen, PartlyCopied(g)
  PROVE  /\ ~TakenOver(g) /\ ExactMarker(g) = "wipData" /\ Started(FromMarkers[g])
         /\ Marker(g) = "wipData" \/ (Marker(g) = "doneData" /\ Bridged(g) /\ g \notin legacy)
<1>1. TypeOK /\ IntentRecorded /\ SealCoversData /\ LegacyTaken /\ ~TakenOver(g)
  BY ShapeParts DEF JournalInv, WalkShape, SealInv, PartlyCopied
<1>2. wip[g] = "data"
  BY <1>1 DEF PartlyCopied, IntentRecorded
<1>3. done[g] \in {"absent", "empty"} /\ g \notin legacy
  BY <1>1 DEF TakenOver, SealCoversData, LegacyTaken, TypeOK, MarkerValue
<1>4. ExactMarker(g) = "wipData"
  BY <1>1, <1>2, <1>3, ExactTells
<1>5. Marker(g) = "wipData" \/ (Marker(g) = "doneData" /\ Bridged(g))
  BY <1>1, <1>2, <1>3, MarkerTells
<1>6. FromMarkers[g] = MarkImportStarted(Fresh)
  BY <1>4, <1>5 DEF FromMarkers
<1>7. Started(FromMarkers[g])
  <2>1. IsPending(Fresh) /\ ~IsDataBearing(Fresh)
    BY EntriesOfWalks DEF IsPending, Fresh
  <2>2. MarkImportStarted(Fresh) = [Fresh EXCEPT !.started = TRUE]
    BY <2>1 DEF MarkImportStarted
  <2>3. QED
    BY <1>6, <2>2 DEF Started, IsPending, Fresh
<1>8. QED
  BY <1>1, <1>3, <1>4, <1>5, <1>7

-------------------------------------------------------------------------------
(* What an answer rests on: every entry of a journal is warranted.            *)

\* A snapshot of its own, an older API's seal or a newer snapshot is in place.
Outdone(g) ==
  \/ Bridged(g) \/ content[g] \subseteq EverHeld
  \/ SnapshotPolicy(Policy) /\ \E h \in Gen : h > g /\ content[h] # {} /\ TakenOver(h)

\* What each kind of entry vouches for.  Only a snapshot policy supersedes.
Warranted(g, e) ==
  /\ e.started \/ e.seen > 0 => content[g] # {}
  /\ IsDataBearing(e) => content[g] # {} \/ g \in legacy
  /\ e.kind = "imported" => content[g] \subseteq EverHeld
  /\ e.kind = "rejections" => TakenOver(g) /\ e.rejected > 0
  /\ e.kind = "noData" => done[g] # "absent"
  /\ e.kind = "superseded" => Outdone(g) /\ SnapshotPolicy(Policy)

AllWarranted(j) == j \in Entries => \A g \in Gen : Warranted(g, j[g])

\* Where the fields of an entry come from.
LEMMA MergedFields ==
  ASSUME NEW a \in JournalState, NEW b \in JournalState
  PROVE  LET m == MergeStates(a, b) IN
         /\ m.kind \in {a.kind, b.kind}
         /\ m.kind = "rejections" => \/ a.kind = "rejections" /\ m.rejected = a.rejected
                                     \/ b.kind = "rejections" /\ m.rejected = b.rejected
         /\ m.started => a.started \/ b.started
         /\ m.seen > 0 => a.seen > 0 \/ b.seen > 0
BY SMTT(60) DEF MergeStates, MergeResolved, MergeSettled, MergePending, JournalState, IsNormal,
       Kind, Fresh, Unresolved, Larger, IsPending, IsDataBearing, CompletenessRank

LEMMA EffectiveFields ==
  ASSUME NEW a \in JournalState, NEW snapshot, NEW rev
  PROVE  LET e == Effective(a, snapshot, rev) IN
         /\ e.kind \in {a.kind, "pending"} /\ (e.kind = "rejections" => e.rejected = a.rejected)
         /\ (e.started => a.started) /\ (e.seen > 0 => a.seen > 0)
BY SMTT(60) DEF Effective, Unresolved, Fresh, JournalState, IsNormal, Kind

LEMMA StartedFields ==
  ASSUME NEW a \in JournalState, NEW count \in Nat
  PROVE  /\ LET e == MarkImportStarted(a) IN
            /\ e.kind = IF IsDataBearing(a) THEN a.kind ELSE "pending"
            /\ e.kind = "rejections" => e.rejected = a.rejected
         /\ LET e == NoteItemsSeen(a, count) IN
            e.kind = a.kind /\ (e.kind = "rejections" => e.rejected = a.rejected)
BY SMTT(60) DEF MarkImportStarted, NoteItemsSeen, Started, Unresolved, Larger, JournalState,
       IsNormal, Kind, IsPending, IsDataBearing

\* The operators on entries keep them warranted.
LEMMA BoundWarranted ==
  ASSUME NEW g \in Gen, NEW a \in JournalState, Warranted(g, a), NEW s
  PROVE  Warranted(g, Bound(s, a))
BY EffectiveFields DEF Warranted, Bound, IsDataBearing

LEMMA MergedWarranted ==
  ASSUME NEW g \in Gen, NEW a \in JournalState, NEW b \in JournalState,
         Warranted(g, a), Warranted(g, b)
  PROVE  Warranted(g, MergeStates(a, b))
BY MergedFields DEF Warranted, IsDataBearing

LEMMA StartedWarranted ==
  ASSUME NEW g \in Gen, NEW a \in JournalState, Warranted(g, a), content[g] # {},
         NEW count \in Nat
  PROVE  Warranted(g, MarkImportStarted(a)) /\ Warranted(g, NoteItemsSeen(a, count))
BY StartedFields DEF Warranted, IsDataBearing

\* What each kind of row vouches for.
RowVouches(s, g) ==
  /\ row[s][g] = "imported" => content[g] # {} /\ content[g] \subseteq EverHeld
  /\ row[s][g] = "noData" => done[g] # "absent"
  /\ row[s][g] = "alreadyMigrated" =>
       /\ already[s][g] = "data" =>
            content[g] \subseteq EverHeld /\ (content[g] # {} \/ g \in legacy)
       /\ already[s][g] = "journal" => TakenOver(g) /\ (content[g] # {} \/ g \in legacy)
       /\ already[s][g] = "bridged" => SnapshotPolicy(Policy)
            /\ (Bridged(g) \/ (content[g] # {} /\ content[g] \subseteq EverHeld))
       /\ already[s][g] = "empty" => done[g] # "absent"

\* What has an outcome was there to be exported.
TalliedFromContent ==
  \A s \in Session, g \in Gen, k \in Key : tally[s][g][k] # "none" => k \in content[g]

\* A session, a marker or the app knows of data only where there is some.
KnownReal ==
  /\ \A g \in Gen : wip[g] = "data" \/ done[g] = "data" => content[g] # {}
  /\ \A s \in Session : prior[s] => pc[s] # "idle" /\ content[cur[s]] # {}
  /\ \A s \in Session : aim[s] = "note" => content[sweep[s]] # {}

AnswerInv ==
  /\ JournalInv /\ TalliedFromContent /\ KnownReal
  /\ \A s \in Session, g \in Gen : RowVouches(s, g)
  /\ AllWarranted(stored) /\ \A s \in Session : AllWarranted(journal[s])

\* A row that says data is in place outdoes every older predecessor.
LEMMA RowOutdoes ==
  ASSUME TypeOK, RowsTaken, TalliedFromContent,
         NEW s \in Session, NEW g \in Gen, NEW h \in Gen, h > g,
         SnapshotPolicy(Policy), RowHasData(s, h), RowVouches(s, h)
  PROVE  Outdone(g)
<1>1. CASE Bridged(h) \/ h \in legacy
  <2>1. PICK newest \in legacy : newest >= h
    BY <1>1 DEF Bridged, LegacyMigrated, Gen
  <2>2. newest >= g
    BY <2>1 DEF TypeOK, Gen
  <2>3. QED
    BY <2>2 DEF Outdone, Bridged, LegacyMigrated
<1>2. CASE content[h] # {} /\ TakenOver(h)
  BY <1>2 DEF Outdone
<1>3. content[h] \subseteq EverHeld => TakenOver(h)
  BY DEF TakenOver
<1>4. CASE OnlyRejections(s, h)
  <2>1. TakenOver(h)
    BY <1>4 DEF RowsTaken, Claims
  <2>2. content[h] # {}
    BY <1>4 DEF OnlyRejections, TalliedFromContent
  <2>3. QED
    BY <1>2, <2>1, <2>2
<1>5. QED
  BY <1>1, <1>2, <1>3, <1>4 DEF RowHasData, RowVouches

LEMMA RecordedFields ==
  ASSUME NEW a \in JournalState, NEW r \in JournalState
  PROVE  \E b \in JournalState : /\ Record(a, r) = MergeStates(a, b) /\ b.kind = r.kind
                                 /\ b.started = r.started /\ b.rejected = r.rejected
                                 /\ b.seen > 0 => r.seen > 0 \/ a.seen > 0
<1>1. PICK b : b = IF IsPending(a) /\ r.kind = "rejections"
                   THEN [r EXCEPT !.seen = Larger(@, a.seen)] ELSE r
  OBVIOUS
<1>2. Record(a, r) = MergeStates(a, b)
  BY <1>1 DEF Record
<1>3. /\ b \in JournalState /\ b.kind = r.kind /\ b.started = r.started
      /\ b.rejected = r.rejected /\ (b.seen > 0 => r.seen > 0 \/ a.seen > 0)
  BY <1>1 DEF Larger, JournalState, IsNormal, Kind
<1>4. QED
  BY <1>2, <1>3

LEMMA RecordWarranted ==
  ASSUME NEW g \in Gen, NEW a \in JournalState, NEW r \in JournalState,
         Warranted(g, a), Warranted(g, r)
  PROVE  Warranted(g, Record(a, r))
<1>1. PICK b \in JournalState :
        /\ Record(a, r) = MergeStates(a, b) /\ b.kind = r.kind /\ b.started = r.started
        /\ b.rejected = r.rejected /\ (b.seen > 0 => r.seen > 0 \/ a.seen > 0)
  BY RecordedFields
<1>2. Warranted(g, b)
  BY <1>1 DEF Warranted, IsDataBearing
<1>3. QED
  BY <1>1, <1>2, MergedWarranted

LEMMA WalkEntriesWarranted ==
  ASSUME NEW g \in Gen
  PROVE  /\ Warranted(g, Fresh)
         /\ done[g] # "absent" => Warranted(g, NoData)
         /\ Outdone(g) /\ SnapshotPolicy(Policy) => Warranted(g, Superseded)
         /\ content[g] \subseteq EverHeld /\ (content[g] # {} \/ g \in legacy) => Warranted(g, Imported)
         /\ \A rejected, rev \in Nat :
              TakenOver(g) /\ content[g] # {} /\ rejected > 0
                => Warranted(g, ImportedWithRejections(rejected, rev, 0))
BY DEF Warranted, Fresh, NoData, Superseded, Imported, ImportedWithRejections, IsDataBearing

LEMMA RecordedWarranted ==
  ASSUME TypeOK, JTyped, RowsTaken, TalliedFromContent, NEW s \in Session, NEW g \in Gen,
         journal[s] \in Entries, Warranted(g, journal[s][g]), \A h \in Gen : RowVouches(s, h)
  PROVE  Warranted(g, Recorded(s, g))
<1> DEFINE refused == ImportedWithRejections(Rejected(s, g), revision[s], 0)
<1>1. journal[s][g] \in JournalState /\ revision[s] \in Nat /\ Rejected(s, g) \in Nat
  BY RejectedCounts, JournalAssumption DEF Entries, JTyped
<1>2. refused \in JournalState
  BY <1>1, EntriesOfWalks
<1>3. ASSUME NEW r \in JournalState, Warranted(g, r)
      PROVE  Warranted(g, Record(journal[s][g], r))
  BY <1>1, <1>3, RecordWarranted
<1>4. RowVouches(s, g)
  OBVIOUS
<1>5. CASE row[s][g] = "alreadyMigrated" /\ already[s][g] = "bridged"
  <2>1. Outdone(g) /\ SnapshotPolicy(Policy)
    BY <1>4, <1>5 DEF RowVouches, Outdone
  <2>2. Recorded(s, g) = Record(journal[s][g], Superseded)
    BY <1>5 DEF Recorded, OnlyRejections, SupersededForGood
  <2>3. QED
    BY <1>3, <2>1, <2>2, WalkEntriesWarranted, EntriesOfWalks
<1>6. CASE row[s][g] = "alreadyMigrated" /\ already[s][g] = "data"
  <2>1. content[g] \subseteq EverHeld /\ (content[g] # {} \/ g \in legacy)
    BY <1>4, <1>6 DEF RowVouches
  <2>2. Recorded(s, g) = Record(journal[s][g], Imported)
    BY <1>6 DEF Recorded, OnlyRejections, SupersededForGood
  <2>3. QED
    BY <1>3, <2>1, <2>2, WalkEntriesWarranted, EntriesOfWalks
<1>7. CASE row[s][g] = "alreadyMigrated" /\ already[s][g] = "empty"
  <2>1. Recorded(s, g) = Record(journal[s][g], NoData)
    BY <1>7 DEF Recorded, OnlyRejections, SupersededForGood
  <2>2. QED
    BY <1>3, <1>4, <1>7, <2>1, WalkEntriesWarranted, EntriesOfWalks DEF RowVouches
<1>8. CASE row[s][g] = "imported"
  <2>1. Recorded(s, g) = Record(journal[s][g], Imported)
    BY <1>8 DEF Recorded, OnlyRejections, SupersededForGood
  <2>2. QED
    BY <1>3, <1>4, <1>8, <2>1, WalkEntriesWarranted, EntriesOfWalks DEF RowVouches
<1>9. CASE row[s][g] = "noData"
  <2>1. Recorded(s, g) = Record(journal[s][g], NoData)
    BY <1>9 DEF Recorded, OnlyRejections, SupersededForGood
  <2>2. QED
    BY <1>3, <1>4, <1>9, <2>1, WalkEntriesWarranted, EntriesOfWalks DEF RowVouches
<1>10. CASE OnlyRejections(s, g)
  <2>1. TakenOver(g) /\ Claims(s, g)
    BY <1>10 DEF RowsTaken, Claims
  <2>2. PICK k \in Key : tally[s][g][k] = "rejected"
    BY <1>10 DEF OnlyRejections
  <2>3. content[g] # {}
    BY <2>2 DEF TalliedFromContent
  <2>4. Rejected(s, g) > 0
    <3>1. IsFiniteSet({j \in Key : tally[s][g][j] = "rejected"})
      BY JournalAssumption, FS_Subset
    <3>2. Rejected(s, g) # 0
      BY <2>2, <3>1, FS_EmptySet DEF Rejected
    <3>3. QED
      BY <1>1, <3>2
  <2>5. Warranted(g, refused)
    BY <1>1, <2>1, <2>3, <2>4, WalkEntriesWarranted
  <2>6. Recorded(s, g) = Record(journal[s][g], refused)
    BY <1>10 DEF Recorded, OnlyRejections, SupersededForGood
  <2>7. QED
    BY <1>2, <1>3, <2>5, <2>6
<1>11. CASE SupersededForGood(s, g)
  <2>1. Outdone(g) /\ SnapshotPolicy(Policy)
    BY <1>11, RowOutdoes DEF SupersededForGood
  <2>2. Recorded(s, g) = Record(journal[s][g], Superseded)
    BY <1>11 DEF Recorded, SupersededForGood, OnlyRejections
  <2>3. QED
    BY <1>3, <2>1, <2>2, WalkEntriesWarranted, EntriesOfWalks
<1>12. QED
  BY <1>5, <1>6, <1>7, <1>8, <1>9, <1>10, <1>11 DEF Recorded

LEMMA RebuiltWarranted ==
  ASSUME TypeOK, SealCoversData, LegacyTaken, KnownReal, NEW g \in Gen
  PROVE  Warranted(g, FromMarkers[g])
<1>1. CASE ExactMarker(g) = "wipData"
  <2>1. content[g] # {}
    BY <1>1, ExactTells DEF KnownReal
  <2>2. FromMarkers[g] = MarkImportStarted(Fresh)
    <3>1. Marker(g) # "doneEmpty"
      BY <1>1, ExactTells, MarkerTells DEF IsDone
    <3>2. QED
      BY <1>1, <3>1 DEF FromMarkers
  <2>3. QED
    BY <2>1, <2>2, EntriesOfWalks, WalkEntriesWarranted, StartedWarranted
<1>2. CASE ExactMarker(g) = "doneData"
  <2>1. done[g] = "data" \/ g \in legacy
    BY <1>2, ExactTells
  <2>2. content[g] \subseteq EverHeld /\ (content[g] # {} \/ g \in legacy)
    BY <2>1 DEF SealCoversData, LegacyTaken, KnownReal
  <2>3. Marker(g) # "doneEmpty"
    <3>1. IsDone(Marker(g)) => Marker(g) \in {"doneEmpty", "doneData"}
      BY DEF IsDone
    <3>2. done[g] = "data" \/ (done[g] = "absent" /\ g \in legacy)
      BY <1>2, ExactTells
    <3>3. g \in legacy => Bridged(g)
      BY DEF Bridged, LegacyMigrated, Gen
    <3>4. Marker(g) = "doneData"
      BY <3>2, <3>3, MarkerTells
    <3>5. QED
      BY <3>4
  <2>4. FromMarkers[g] = Imported
    BY <1>2, <2>3 DEF FromMarkers
  <2>5. QED
    BY <2>2, <2>4, WalkEntriesWarranted
<1>3. CASE ExactMarker(g) \notin {"wipData", "doneData"} /\ Marker(g) = "doneEmpty"
  <2>1. done[g] # "absent"
    BY <1>3, MarkerTells DEF IsDone
  <2>2. QED
    BY <1>3, <2>1, WalkEntriesWarranted DEF FromMarkers
<1>4. CASE ExactMarker(g) \notin {"wipData", "doneData"} /\ Marker(g) = "doneData"
  <2>1. Bridged(g) /\ g \notin legacy
    BY <1>4, MarkerTells, ExactTells
  <2>2. SnapshotPolicy(Policy)
    BY <2>1 DEF Bridged, LegacyMigrated
  <2>3. QED
    BY <1>4, <2>1, <2>2, WalkEntriesWarranted DEF FromMarkers, Outdone
<1>5. CASE ExactMarker(g) \notin {"wipData", "doneData"} /\ Marker(g) \notin {"doneEmpty", "doneData"}
  BY <1>5, WalkEntriesWarranted DEF FromMarkers
<1>6. QED
  BY <1>1, <1>2, <1>3, <1>4, <1>5

\* An entry that is warranted stays so.
LEMMA WarrantStays ==
  ASSUME NEW g \in Gen, NEW e, Warranted(g, e), EverHeld \subseteq EverHeld',
         UNCHANGED <<content, legacy>>, done[g] # "absent" => done'[g] # "absent"
  PROVE  /\ e.started \/ e.seen > 0 => content'[g] # {}
         /\ IsDataBearing(e) => content'[g] # {} \/ g \in legacy'
         /\ e.kind = "imported" => content'[g] \subseteq EverHeld'
         /\ e.kind = "rejections" => TakenOver(g)' /\ e.rejected > 0
         /\ e.kind = "noData" => done'[g] # "absent"
         /\ e.kind = "superseded" => Outdone(g)' /\ SnapshotPolicy(Policy)
<1>1. \A h \in Gen : TakenOver(h) => TakenOver(h)'
  BY TakenStays
<1>2. Bridged(g) => Bridged(g)'
  BY DEF Bridged
<1>3. Outdone(g) => Outdone(g)'
  BY <1>1, <1>2 DEF Outdone
<1>4. QED
  BY <1>1, <1>3 DEF Warranted

\* What a session believes to be data is data.
LEMMA SawDataReal ==
  ASSUME AnswerInv, NEW s \in Session, pc[s] \in AfterFetch, SawData(s)
  PROVE  content[cur[s]] # {}
BY DEF AnswerInv, JournalInv, SealInv, ExportBelieved, KnownReal, SawData

LEMMA KnownDataReal ==
  ASSUME AnswerInv, NEW s \in Session, pc[s] # "idle",
         Marker(cur[s]) = "wipData" \/ KnownData(s)
  PROVE  content[cur[s]] # {}
<1>1. TypeOK /\ StageOK(s) /\ JTyped /\ cur[s] \in Gen
  BY ShapeParts, CurrentGeneration DEF AnswerInv, JournalInv, WalkShape
<1>2. CASE Marker(cur[s]) = "wipData"
  BY <1>1, <1>2, MarkerTells DEF AnswerInv, KnownReal
<1>3. CASE KnownData(s)
  <2>1. journal[s] \in Entries
    BY <1>1 DEF StageOK, Entries
  <2>2. Warranted(cur[s], journal[s][cur[s]])
    BY <1>1, <2>1 DEF AnswerInv, AllWarranted
  <2>3. QED
    BY <1>3, <2>2 DEF KnownData, Started, ItemsSeen, Warranted
<1>4. QED
  BY <1>2, <1>3

LEMMA MovesMark ==
  ASSUME AnswerInv, NEW s \in Session, Moves(s)
  PROVE  \A g \in Gen : /\ wip'[g] = "data" \/ done'[g] = "data" => content'[g] # {}
                        /\ done[g] # "absent" => done'[g] # "absent"
<1>a. TypeOK /\ KnownReal
  BY DEF AnswerInv, JournalInv, SealInv
<1>b. UNCHANGED content
  BY <1>a, MovesHold
<1>1. CASE UNCHANGED <<wip, done>>
  BY <1>a, <1>b, <1>1 DEF KnownReal
<1>2. CASE RecordInProgress(s)
  <2>1. /\ pc[s] \in AfterFetch /\ done' = done /\ cur[s] \in Gen
        /\ wip' = [wip EXCEPT ![cur[s]] = StickyInProgress(@, SawData(s))]
    BY <1>a, <1>2, CurrentGeneration DEF RecordInProgress, AfterFetch
  <2>2. \A g \in Gen : wip'[g] = "data" => wip[g] = "data" \/ (g = cur[s] /\ SawData(s))
    BY <1>a, <2>1 DEF StickyInProgress, TypeOK
  <2>3. QED
    BY <1>a, <1>b, <2>1, <2>2, SawDataReal DEF KnownReal
<1>3. CASE RecordDone(s)
  <2>1. /\ pc[s] \in AfterFetch /\ wip' = wip /\ cur[s] \in Gen
        /\ done' = [done EXCEPT ![cur[s]] = Flag(SawData(s))]
    BY <1>a, <1>3, CurrentGeneration DEF RecordDone, AfterFetch
  <2>2. \A g \in Gen : /\ done'[g] = "data" => done[g] = "data" \/ (g = cur[s] /\ SawData(s))
                       /\ done[g] # "absent" => done'[g] # "absent"
    BY <1>a, <2>1 DEF Flag, TypeOK
  <2>3. QED
    BY <1>a, <1>b, <2>1, <2>2, SawDataReal DEF KnownReal
<1>4. CASE Marks(s)
  <2>1. aim[s] = "note" /\ done' = done /\ wip' = [wip EXCEPT ![sweep[s]] = "data"]
    BY <1>4 DEF Marks
  <2>2. content[sweep[s]] # {}
    BY <1>a, <2>1 DEF KnownReal
  <2>3. QED
    BY <1>a, <1>b, <2>1, <2>2 DEF KnownReal, TypeOK
<1>5. QED
  BY <1>1, <1>2, <1>3, <1>4
     DEF Moves, Awaits, PassesOver, Asks, Takes, HandsOver, HandOver, CopiesItself, StartRun,
         MarkerUnreadable, ProbeExecutable, NoAnswer, BeginMarkerFails, Item, WithholdItem,
         WriteSecret, WriteFails, Flush, FlushFails, CompleteMarkerFails, Crash, vars, durable

LEMMA MovesKnow ==
  ASSUME AnswerInv, NEW s \in Session, Moves(s), prior'[s]
  PROVE  pc'[s] # "idle" /\ content'[cur'[s]] # {}
<1>a. TypeOK /\ KnownReal
  BY DEF AnswerInv, JournalInv, SealInv
<1>b. UNCHANGED content
  BY <1>a, MovesHold
<1>1. ASSUME NEW kind, NEW terminated, NEW keys, Report(s, kind, terminated, keys) PROVE FALSE
  BY <1>a, <1>1 DEF Report, TypeOK
<1>2. CASE prior'[s] = prior[s] /\ cur'[s] = cur[s] /\ pc'[s] # "idle"
  BY <1>a, <1>b, <1>2 DEF KnownReal
<1>3. CASE \/ UNCHANGED vars \/ Marks(s) \/ CopiesItself(s) \/ HandsOver(s)
  <2>1. UNCHANGED <<prior, cur, pc>>
    BY <1>3 DEF Marks, CopiesItself, HandsOver, HandOver, vars, volatile
  <2>2. QED
    BY <1>a, <1>b, <2>1 DEF KnownReal
<1>4. CASE Asks(s)
  <2>1. /\ pc[s] # "idle" /\ cur' = cur /\ pc'[s] = "probe"
        /\ Marker(cur[s]) = "wipData" \/ KnownData(s)
    BY <1>a, <1>4 DEF Asks, GoTo, TypeOK
  <2>2. QED
    BY <1>b, <2>1, KnownDataReal
<1>5. CASE Takes(s) \/ ProbeExecutable(s) \/ RecordInProgress(s)
  BY <1>a, <1>2, <1>5 DEF Takes, ProbeExecutable, RecordInProgress, GoTo, TypeOK
<1>6. CASE Item(s) \/ (\E k \in Key : WriteFails(s, k))
  BY <1>a, <1>2, <1>6 DEF Item, WithholdItem, WriteSecret, WriteFails
<1>7. CASE Flush(s)
  <2>1. UNCHANGED <<cur, prior>> /\ pc'[s] = "seal"
    BY <1>a, <1>1, <1>7 DEF Flush, GoTo, TypeOK
  <2>2. QED
    BY <1>2, <2>1
<1>8. CASE StartRun(s) \/ Crash(s)
  BY <1>a, <1>8 DEF StartRun, Crash, KnownReal, TypeOK
<1>9. CASE \/ PassesOver(s) \/ MarkerUnreadable(s) \/ NoAnswer(s) \/ BeginMarkerFails(s)
           \/ FlushFails(s) \/ RecordDone(s) \/ CompleteMarkerFails(s)
  BY <1>1, <1>9 DEF PassesOver, MarkerUnreadable, NoAnswer, BeginMarkerFails, FlushFails,
                    RecordDone, CompleteMarkerFails, WriterUnavailable, Unresponsive
<1>10. QED
  BY <1>3, <1>4, <1>5, <1>6, <1>7, <1>8, <1>9 DEF Moves, Awaits

LEMMA MovesTally ==
  ASSUME AnswerInv, NEW s \in Session, Moves(s), NEW g \in Gen, NEW k \in Key,
         tally'[s][g][k] # "none"
  PROVE  k \in content'[g]
<1>a. TypeOK /\ ExportBelieved /\ (tally[s][g][k] # "none" => k \in content[g])
  BY DEF AnswerInv, JournalInv, SealInv, TalliedFromContent
<1>b. UNCHANGED content
  BY <1>a, MovesHold
<1>c. pc[s] # "idle" => cur[s] \in Gen
  BY <1>a, CurrentGeneration
<1>1. CASE tally'[s][g][k] = tally[s][g][k]
  BY <1>a, <1>b, <1>1
<1>2. CASE HandsOver(s) \/ StartRun(s) \/ Crash(s)
  BY <1>a, <1>2 DEF HandsOver, HandOver, StartRun, Crash, Untallied, TypeOK
<1>3. ASSUME NEW j \in Key, WithholdItem(s, j) \/ WriteSecret(s, j) \/ WriteFails(s, j)
      PROVE  k \in content'[g]
  <2>1. /\ pc[s] = "items" /\ j \in items[s] /\ \E outcome : TallyAs(s, j, outcome)
    BY <1>3 DEF WithholdItem, WriteSecret, WriteFails, Pending
  <2>2. (g = cur[s] /\ k = j) \/ tally'[s][g][k] = tally[s][g][k]
    BY <1>a, <1>c, <2>1 DEF TallyAs, TypeOK
  <2>3. j \in content[cur[s]]
    BY <1>a, <2>1 DEF ExportBelieved, AfterFetch
  <2>4. QED
    BY <1>a, <1>b, <2>2, <2>3
<1>4. CASE FlushFails(s)
  <2>1. pc[s] # "idle" /\ tally' = [tally EXCEPT ![s][cur[s]] =
                             [j \in Key |-> IF @[j] = "written" THEN "failed" ELSE @[j]]]
    BY <1>4 DEF FlushFails
  <2>2. tally'[s][g][k] = tally[s][g][k] \/ tally[s][g][k] = "written"
    BY <1>a, <1>c, <2>1 DEF TypeOK
  <2>3. QED
    BY <1>a, <1>b, <2>2
<1>5. CASE \/ UNCHANGED vars \/ Marks(s) \/ CopiesItself(s) \/ PassesOver(s) \/ Asks(s) \/ Takes(s)
           \/ MarkerUnreadable(s) \/ ProbeExecutable(s) \/ NoAnswer(s) \/ RecordInProgress(s)
           \/ BeginMarkerFails(s) \/ Flush(s) \/ RecordDone(s) \/ CompleteMarkerFails(s)
  BY <1>1, <1>5 DEF Marks, CopiesItself, PassesOver, Asks, Takes, MarkerUnreadable,
       ProbeExecutable, NoAnswer, RecordInProgress, BeginMarkerFails, Flush, RecordDone,
       CompleteMarkerFails, vars, volatile
<1>6. QED
  BY <1>2, <1>3, <1>4, <1>5 DEF Moves, Awaits, Item

\* A row that says "imported" or "no data" is pushed by the seal of its predecessor.
LEMMA WhoSeals ==
  ASSUME Shape, RunInv, NEW s \in Session, JActs(s), NEW g \in Gen,
         row'[s][g] \in {"imported", "noData"}, row'[s][g] # row[s][g]
  PROVE  RecordDone(s) /\ g = cur[s] /\ (row'[s][g] = "imported" => SawData(s))
<1>a. TypeOK
  BY ShapeParts
<1>b. Moves(s)
  BY WalkMoves
<1>1. CASE UNCHANGED vars \/ Asks(s) \/ Takes(s) \/ Marks(s) \/ CopiesItself(s)
  BY <1>1 DEF Asks, Takes, Marks, CopiesItself, vars, volatile
<1>2. CASE HandsOver(s) \/ StartRun(s) \/ Crash(s)
  BY <1>a, <1>2 DEF HandsOver, HandOver, StartRun, Crash, TypeOK
<1>3. CASE PassesOver(s)
  <2>1. PICK kind \in {"alreadyMigrated", "unresponsive", "writerUnavailable"} :
          \E terminated : Report(s, kind, terminated, withheld[s])
    BY <1>3 DEF PassesOver
  <2>2. QED
    BY <1>a, <1>3, <2>1, RowPushed DEF PassesOver
<1>4. CASE Awaits(s) /\ ~StartRun(s) /\ ~Crash(s)
  BY <1>a, <1>4, PushesRow
<1>5. QED
  BY <1>b, <1>1, <1>2, <1>3, <1>4 DEF Moves

\* The rows of a session's own step vouch for what they say.
LEMMA RowsStayVouched ==
  ASSUME AnswerInv, NEW s \in Session, JActs(s), NEW g \in Gen
  PROVE  RowVouches(s, g)'
<1>a. /\ Shape /\ RunInv /\ TypeOK /\ JTyped /\ SealInv /\ SealCoversData /\ LegacyTaken
      /\ KnownReal /\ RowVouches(s, g) /\ Honest(journal[s]) /\ AllWarranted(journal[s])
  BY ShapeParts DEF AnswerInv, JournalInv, WalkShape, SealInv
<1>b. Moves(s)
  BY <1>a, WalkMoves
<1>c. /\ EverHeld \subseteq EverHeld' /\ UNCHANGED <<content, legacy>>
      /\ done[g] # "absent" => done'[g] # "absent"
  BY <1>a, <1>b, MovesHold, MovesMark
<1>d. /\ TakenOver(g) => TakenOver(g)'
      /\ Bridged(g) => Bridged(g)'
  BY <1>c, TakenStays DEF Bridged
<1>1. ASSUME row'[s][g] \in {"imported", "noData"}
      PROVE  /\ row'[s][g] = "imported" => content'[g] # {} /\ content'[g] \subseteq EverHeld'
             /\ row'[s][g] = "noData" => done'[g] # "absent"
  <2>1. CASE row'[s][g] = row[s][g]
    BY <1>a, <1>c, <2>1 DEF RowVouches
  <2>2. CASE row'[s][g] # row[s][g]
    <3>1. /\ RecordDone(s) /\ g = cur[s] /\ (row'[s][g] = "imported" => SawData(s))
          /\ pc[s] = "seal" /\ pc[s] \in AfterFetch
      BY <1>a, <1>1, <2>2, WhoSeals DEF RecordDone, AfterFetch
    <3>2. done'[g] = Flag(SawData(s))
      BY <1>a, <3>1 DEF RecordDone, TypeOK
    <3>3. SawData(s) => content[g] # {}
      BY <3>1, SawDataReal
    <3>4. SawData(s) => items[s] = content[g] /\ items[s] \subseteq EverHeld
      BY <1>a, <3>1 DEF SealInv, ExportBelieved, ReadyToSeal, SawData
    <3>5. QED
      BY <1>c, <3>1, <3>2, <3>3, <3>4 DEF Flag
  <2>3. QED
    BY <2>1, <2>2
<1>2. ASSUME row'[s][g] = "alreadyMigrated"
      PROVE  /\ already'[s][g] = "data" =>
                  content'[g] \subseteq EverHeld' /\ (content'[g] # {} \/ g \in legacy')
             /\ already'[s][g] = "journal" => TakenOver(g)' /\ (content'[g] # {} \/ g \in legacy')
             /\ already'[s][g] = "bridged" => SnapshotPolicy(Policy)
                  /\ (Bridged(g)' \/ (content'[g] # {} /\ content'[g] \subseteq EverHeld'))
             /\ already'[s][g] = "empty" => done'[g] # "absent"
  <2>1. CASE already'[s][g] = "no"
    BY <2>1
  <2>2. CASE row[s][g] = "alreadyMigrated" /\ already[s][g] = already'[s][g]
    BY <1>a, <1>c, <1>d, <2>2 DEF RowVouches
  <2>3. CASE already'[s][g] = "journal" /\ journal[s] \in Entries /\ IsDataBearing(journal[s][g])
    BY <1>a, <1>c, <1>d, <2>3 DEF Honest, AllWarranted, Warranted
  <2>4. CASE already'[s][g] = "empty" /\ Marker(g) = "doneEmpty"
    <3>1. done[g] # "absent"
      BY <1>a, <2>4, MarkerTells DEF IsDone
    <3>2. QED
      BY <1>c, <2>4, <3>1
  <2>5. CASE already'[s][g] = "bridged" /\ Marker(g) = "doneData" /\ SnapshotPolicy(Policy)
    <3>1. Bridged(g) \/ done[g] = "data"
      BY <1>a, <2>5, MarkerTells
    <3>2. QED
      BY <1>a, <1>c, <1>d, <2>5, <3>1 DEF SealCoversData, KnownReal
  <2>6. CASE /\ already'[s][g] = "data" /\ Marker(g) = "doneData"
             /\ ExactMarker(g) = "doneData" \/ ~SnapshotPolicy(Policy)
    <3>1. done[g] = "data" \/ g \in legacy
      BY <1>a, <2>6, ExactTells, MarkerTells DEF Bridged, LegacyMigrated
    <3>2. content[g] \subseteq EverHeld /\ (content[g] # {} \/ g \in legacy)
      BY <1>a, <3>1 DEF SealCoversData, LegacyTaken, KnownReal
    <3>3. QED
      BY <1>c, <2>6, <3>2
  <2>7. QED
    BY <1>a, <1>2, <2>1, <2>2, <2>3, <2>4, <2>5, <2>6, WhoBelieves
<1>3. QED
  BY <1>1, <1>2 DEF RowVouches

\* The app announces an import only of a predecessor it read data from.
LEMMA WhoNotes ==
  ASSUME AnswerInv, NEW s \in Session, JActs(s), aim'[s] = "note"
  PROVE  content'[sweep'[s]] # {}
<1>a. /\ Shape /\ RunInv /\ TypeOK /\ JTyped /\ StageOK(s)
      /\ (aim[s] = "note" => content[sweep[s]] # {})
  BY ShapeParts DEF AnswerInv, JournalInv, WalkShape, KnownReal
<1>b. UNCHANGED content
  BY <1>a, WalkMoves, MovesHold
<1>1. ASSUME NEW what, For(s, what) PROVE what = "note"
  BY <1>a, <1>1 DEF For, JTyped
<1>2. /\ ~For(s, "none") /\ ~For(s, "begin") /\ ~For(s, "run") /\ ~For(s, "early")
      /\ ~For(s, "late") /\ ~For(s, "end")
  BY <1>1
<1>3. ~(\E answer : Leave(s, answer))
  BY <1>2 DEF Leave
<1>4. ASSUME NEW j, NEW read, NEW unread PROVE ~Established(s, j, read, unread)
  BY <1>2, <1>3 DEF Established
<1>5. CASE UNCHANGED <<aim, sweep>>
  BY <1>a, <1>b, <1>5
<1>6. ASSUME NEW g \in Sweeps, NoteLoad(s, g) PROVE content'[sweep'[s]] # {}
  BY <1>a, <1>b, <1>6 DEF NoteLoad, JTyped
<1>7. CASE JStep(s)
  <2>1. CASE \/ LoadJournal(s) \/ MergeStored(s) \/ ReadBack(s) \/ JournalShortCut(s)
             \/ (\E unreadable \in BOOLEAN : BelieveSeal(s, unreadable))
             \/ JRecordInProgress(s) \/ PlainAwait(s)
    BY <1>5, <2>1 DEF LoadJournal, MergeStored, ReadBack, JournalShortCut, BelieveSeal,
         JRecordInProgress, PlainAwait, journaling
  <2>2. CASE SeedJournal(s)
    BY <1>4, <1>5, <2>2 DEF SeedJournal, KeepJournal, RebuildJournal, ToStore
  <2>3. CASE StoreJournal(s)
    BY <1>2, <1>3, <1>4, <1>5, <2>3 DEF StoreJournal, Flagged, Return, Announced
  <2>4. CASE AskAgain(s) \/ JFetchSecrets(s) \/ ResolveOutcomes(s)
    BY <1>2, <1>5, <2>4 DEF AskAgain, JFetchSecrets, BeforeImport, ResolveOutcomes
  <2>5. QED
    BY <1>7, <2>1, <2>2, <2>3, <2>4 DEF JStep
<1>8. CASE JFault(s) \/ Die(s) \/ RaiseRevision(s) \/ BeginMigrationJournal(s) \/ MigrateJournaled(s)
  BY <1>2, <1>3, <1>5, <1>8 DEF JFault, JournalUnavailable, JMarkerUnreadable, Die, RaiseRevision,
       BeginMigrationJournal, MigrateJournaled, Operate
<1>9. CASE AppStep(s)
  BY <1>3, <1>5, <1>6, <1>9 DEF AppStep, NoteRefused, NoteStarted, NoteMarker, NoteReadBack,
       AppWrite, AppDone, journaling
<1>10. QED
  BY <1>7, <1>8, <1>9 DEF JActs

\* A session's own step leaves it with a journal that is warranted.
LEMMA WorksWarranted ==
  ASSUME AnswerInv, NEW s \in Session, JActs(s), journal'[s] \in Entries, NEW g \in Gen
  PROVE  Warranted(g, journal'[s][g])
<1>a. /\ Shape /\ RunInv /\ TypeOK /\ JTyped /\ StageOK(s) /\ SealCoversData /\ LegacyTaken
      /\ RowsTaken /\ TalliedFromContent /\ KnownReal /\ (\A h \in Gen : RowVouches(s, h))
      /\ (journal[s] \in Entries => Warranted(g, journal[s][g]))
      /\ (stored \in Entries => Warranted(g, stored[g]))
  BY ShapeParts DEF AnswerInv, JournalInv, WalkShape, SealInv, AllWarranted
<1>1. CASE journal'[s] \in {journal[s], stored}
  BY <1>a, <1>1
<1>2. ~(\E answer : Leave(s, answer))
  <2>1. ASSUME NEW answer, Leave(s, answer) PROVE journal'[s] = NoJournal
    BY <1>a, <2>1 DEF Leave, JTyped
  <2>2. NoJournal \notin Entries
    BY JournalAssumption DEF Entries
  <2>3. QED
    BY <2>1, <2>2
<1>3. ASSUME NEW j \in Entries, Warranted(g, j[g]),
             NEW read, NEW unread, Established(s, j, read, unread)
      PROVE  Warranted(g, journal'[s][g])
  <2>1. journal'[s] = Rebind(s, j)
    BY <1>2, <1>3, <1>a DEF Established, JTyped
  <2>2. journal'[s][g] = Bound(s, j[g])
    BY <2>1 DEF Rebind
  <2>3. j[g] \in JournalState
    BY DEF Entries
  <2>4. QED
    BY <1>3, <2>2, <2>3, BoundWarranted
<1>4. ASSUME NEW j \in Entries, Warranted(g, j[g]),
             NEW read, NEW unread, ToStore(s, j, read, unread)
      PROVE  Warranted(g, journal'[s][g])
  <2>1. journal'[s] = j
    BY <1>a, <1>4 DEF ToStore, JTyped
  <2>2. QED
    BY <1>4, <2>1
<1>5. ASSUME NEW entry \in JournalState, Warranted(cur[s], journal[s][cur[s]])
               => Warranted(cur[s], entry),
             journal[s] \in Entries, cur[s] \in Gen,
             NEW retry, NEW what, BeforeImport(s, entry, retry, what)
      PROVE  Warranted(g, journal'[s][g])
  <2>1. CASE UNCHANGED journal
    BY <1>1, <2>1
  <2>2. CASE journal' = [journal EXCEPT ![s][cur[s]] = entry]
    <3>1. journal'[s][g] = IF g = cur[s] THEN entry ELSE journal[s][g]
      BY <1>a, <1>5, <2>2 DEF JTyped, Entries
    <3>2. QED
      BY <1>a, <1>5, <3>1
  <2>3. QED
    BY <1>5, <2>1, <2>2 DEF BeforeImport
<1>6. CASE journal' = journal
  BY <1>1, <1>6
<1>7. CASE LoadJournal(s) \/ \E h \in Sweeps : NoteLoad(s, h)
  BY <1>1, <1>7, <1>a DEF LoadJournal, NoteLoad, JTyped
<1>8. CASE SeedJournal(s)
  <2>1. ASSUME NEW unreadable \in SUBSET Gen, KeepJournal(s, unreadable)
        PROVE  Warranted(g, journal'[s][g])
    <3>1. journal[s] \in Entries /\ journal[s][g] \in JournalState
      BY <1>a, <2>1, ReadableEntries DEF KeepJournal, JTyped, Entries
    <3>2. PICK reopened \in SUBSET {h \in Gen : ExactMarker(h) = "wipData"} :
            LET j == [h \in Gen |-> IF h \in reopened THEN MarkImportStarted(journal[s][h])
                                                       ELSE journal[s][h]]
            IN \E read, unread : Established(s, j, read, unread) \/ ToStore(s, j, read, unread)
      BY <2>1 DEF KeepJournal
    <3>3. PICK j : j = [h \in Gen |-> IF h \in reopened THEN MarkImportStarted(journal[s][h])
                                                         ELSE journal[s][h]]
      OBVIOUS
    <3>4. j \in Entries
      BY <3>1, <3>3, StartedEntry DEF Entries
    <3>5. Warranted(g, j[g])
      <4>1. CASE g \in reopened
        <5>1. content[g] # {}
          BY <1>a, <4>1, ExactTells DEF KnownReal
        <5>2. QED
          BY <1>a, <3>1, <3>3, <4>1, <5>1, StartedWarranted
      <4>2. CASE g \notin reopened
        BY <1>a, <3>1, <3>3, <4>2
      <4>3. QED
        BY <4>1, <4>2
    <3>6. QED
      BY <1>3, <1>4, <3>2, <3>3, <3>4, <3>5
  <2>2. CASE RebuildJournal(s)
    BY <1>a, <1>4, <2>2, Rebuilt, RebuiltWarranted DEF RebuildJournal
  <2>3. QED
    BY <1>8, <2>1, <2>2 DEF SeedJournal
<1>9. CASE MergeStored(s)
  <2>1. journal[s] \in Entries /\ journal[s][g] \in JournalState
    BY <1>a, <1>9 DEF MergeStored, StageOK, Entries
  <2>2. journal'[s] \in {journal[s], MergeInto(s, FromMarkers)}
          \/ (Readable(stored) /\ journal'[s] = MergeInto(s, stored))
    BY <1>a, <1>9 DEF MergeStored, JTyped, Readable
  <2>3. ASSUME NEW j \in Entries, Warranted(g, j[g]), journal'[s] = MergeInto(s, j)
        PROVE  Warranted(g, journal'[s][g])
    <3>1. journal'[s][g] = MergeStates(Bound(s, j[g]), Bound(s, journal[s][g]))
      BY <2>3 DEF MergeInto
    <3>2. j[g] \in JournalState
      BY DEF Entries
    <3>3. /\ Bound(s, j[g]) \in JournalState /\ Bound(s, journal[s][g]) \in JournalState
      BY <2>1, <3>2, EffectiveEntry DEF Bound
    <3>4. Warranted(g, Bound(s, j[g])) /\ Warranted(g, Bound(s, journal[s][g]))
      BY <1>a, <2>1, <2>3, <3>2, BoundWarranted
    <3>5. QED
      BY <3>1, <3>3, <3>4, MergedWarranted
  <2>4. CASE journal'[s] = MergeInto(s, FromMarkers)
    BY <1>a, <2>3, <2>4, Rebuilt, RebuiltWarranted
  <2>5. CASE Readable(stored) /\ journal'[s] = MergeInto(s, stored)
    BY <1>a, <2>3, <2>5, ReadableEntries DEF JTyped
  <2>6. QED
    BY <1>1, <2>2, <2>4, <2>5
<1>10. CASE StoreJournal(s)
  <2>1. journal[s] \in Entries
    BY <1>a, <1>10 DEF StoreJournal, StageOK, Entries
  <2>2. QED
    BY <1>a, <1>2, <1>3, <1>6, <1>10, <2>1 DEF StoreJournal, Flagged, Return, Announced
<1>11. CASE AskAgain(s) \/ JFetchSecrets(s)
  <2>1. /\ journal[s] \in Entries /\ cur[s] \in Gen /\ journal[s][cur[s]] \in JournalState
        /\ pc[s] # "idle"
    BY <1>a, <1>11, CurrentGeneration DEF AskAgain, JFetchSecrets, StageOK, Entries
  <2>2. CASE AskAgain(s)
    <3>1. PICK known \in BOOLEAN :
            /\ known => Marker(cur[s]) = "wipData" \/ KnownData(s)
            /\ BeforeImport(s, IF known THEN MarkImportStarted(journal[s][cur[s]])
                               ELSE journal[s][cur[s]], FALSE, "early")
      BY <2>2 DEF AskAgain
    <3>2. CASE known
      <4>1. content[cur[s]] # {}
        BY <2>1, <3>1, <3>2, KnownDataReal
      <4>2. /\ MarkImportStarted(journal[s][cur[s]]) \in JournalState
            /\ Warranted(cur[s], journal[s][cur[s]])
                 => Warranted(cur[s], MarkImportStarted(journal[s][cur[s]]))
        BY <2>1, <4>1, StartedEntry, StartedWarranted
      <4>3. BeforeImport(s, MarkImportStarted(journal[s][cur[s]]), FALSE, "early")
        BY <3>1, <3>2
      <4>4. QED
        BY <1>5, <2>1, <4>2, <4>3
    <3>3. CASE ~known
      BY <1>5, <2>1, <3>1, <3>3
    <3>4. QED
      BY <3>2, <3>3
  <2>3. CASE JFetchSecrets(s) /\ ~UNCHANGED journal
    <3>1. PICK exported \in JExport(s) :
            /\ prior[s] \/ exported # {}
            /\ BeforeImport(s, NoteItemsSeen(MarkImportStarted(journal[s][cur[s]]),
                                             Cardinality(exported)),
                            Started(journal[s][cur[s]]), "late")
      BY <2>3 DEF JFetchSecrets
    <3>2. exported \subseteq content[cur[s]] /\ exported \subseteq Key
      BY <1>a, <2>1 DEF JExport, Export, TypeOK
    <3>3. Cardinality(exported) \in Nat
      BY <3>2, JournalAssumption, FS_Subset, FS_CardinalityType
    <3>4. content[cur[s]] # {}
      BY <1>a, <3>1, <3>2 DEF KnownReal
    <3>5. MarkImportStarted(journal[s][cur[s]]) \in JournalState
      BY <2>1, StartedEntry
    <3>6. /\ NoteItemsSeen(MarkImportStarted(journal[s][cur[s]]), Cardinality(exported))
               \in JournalState
          /\ Warranted(cur[s], journal[s][cur[s]])
               => Warranted(cur[s], NoteItemsSeen(MarkImportStarted(journal[s][cur[s]]),
                                                  Cardinality(exported)))
      BY <2>1, <3>3, <3>4, <3>5, CountedEntry, StartedWarranted
    <3>7. QED
      BY <1>5, <2>1, <3>1, <3>6
  <2>4. QED
    BY <1>6, <1>11, <2>2, <2>3
<1>12. CASE ResolveOutcomes(s)
  <2>1. journal[s] \in Entries
    BY <1>a, <1>12 DEF ResolveOutcomes, StageOK, Entries
  <2>2. \/ journal'[s][g] = MarkImportStarted(Recorded(s, g)) /\ ExactMarker(g) = "wipData"
        \/ journal'[s][g] = Recorded(s, g)
    BY <1>a, <1>12 DEF ResolveOutcomes, Resolve, JTyped
  <2>3. Recorded(s, g) \in JournalState /\ Warranted(g, Recorded(s, g))
    BY <1>a, <2>1, RecordedIsState, RecordedWarranted
  <2>4. CASE journal'[s][g] = MarkImportStarted(Recorded(s, g)) /\ ExactMarker(g) = "wipData"
    <3>1. content[g] # {}
      BY <1>a, <2>4, ExactTells DEF KnownReal
    <3>2. QED
      BY <2>3, <2>4, <3>1, StartedWarranted
  <2>5. QED
    BY <2>2, <2>3, <2>4
<1>13. CASE NoteStarted(s)
  <2>1. sweep[s] \in Gen /\ journal[s] \in Entries /\ aim[s] = "note"
    BY <1>a, <1>13 DEF NoteStarted, StageOK, Entries
  <2>2. content[sweep[s]] # {}
    BY <1>a, <2>1 DEF KnownReal
  <2>3. PICK count : count = IF CountsItems THEN Cardinality(content[sweep[s]]) ELSE 0
    OBVIOUS
  <2>4. count \in Nat
    BY <1>a, <2>1, <2>3, JournalAssumption, FS_Subset, FS_CardinalityType DEF TypeOK
  <2>5. PICK after : /\ after = NoteItemsSeen(MarkImportStarted(Bound(s, journal[s][sweep[s]])), count)
                     /\ journal' = [journal EXCEPT ![s] = [Rebind(s, @) EXCEPT ![sweep[s]] = after]]
    BY <1>13, <2>3 DEF NoteStarted
  <2>6. journal'[s][g] = IF g = sweep[s] THEN after ELSE Bound(s, journal[s][g])
    BY <1>a, <2>1, <2>5, Rebound DEF JTyped, Entries, Rebind
  <2>7. /\ journal[s][g] \in JournalState /\ Bound(s, journal[s][g]) \in JournalState
        /\ Warranted(g, Bound(s, journal[s][g]))
    BY <1>a, <2>1, EffectiveEntry, BoundWarranted DEF Entries, Bound
  <2>8. g = sweep[s] => Warranted(g, after)
    <3>1. MarkImportStarted(Bound(s, journal[s][g])) \in JournalState
      BY <2>7, StartedEntry
    <3>2. QED
      BY <2>2, <2>4, <2>5, <2>7, <3>1, StartedWarranted
  <2>9. QED
    BY <2>6, <2>7, <2>8
<1>14. CASE \/ BeginMigrationJournal(s) \/ MigrateJournaled(s) \/ JournalShortCut(s)
            \/ (\E unreadable \in BOOLEAN : BelieveSeal(s, unreadable)) \/ JRecordInProgress(s)
            \/ ReadBack(s) \/ PlainAwait(s) \/ JMarkerUnreadable(s) \/ NoteMarker(s)
            \/ (\E k \in Key : AppWrite(s, k)) \/ RaiseRevision(s)
  BY <1>6, <1>14 DEF BeginMigrationJournal, MigrateJournaled, Operate, JournalShortCut, BelieveSeal,
       JRecordInProgress, ReadBack, PlainAwait, JMarkerUnreadable, NoteMarker, AppWrite,
       RaiseRevision, journaling
<1>15. CASE JournalUnavailable(s) \/ NoteRefused(s) \/ NoteReadBack(s) \/ AppDone(s) \/ Die(s)
  BY <1>2, <1>6, <1>15 DEF JournalUnavailable, NoteRefused, NoteReadBack, AppDone, Die
<1>16. QED
  BY <1>7, <1>8, <1>9, <1>10, <1>11, <1>12, <1>13, <1>14, <1>15 DEF JActs, JStep, JFault, AppStep

LEMMA InitAnswerInv == JInit => AnswerInv
<1> SUFFICES ASSUME JInit PROVE AnswerInv
  OBVIOUS
<1>1. JournalInv
  BY InitJournalInv
<1>2. TalliedFromContent /\ KnownReal
  BY DEF JInit, Init, TalliedFromContent, Untallied, KnownReal
<1>3. \A s \in Session, g \in Gen : RowVouches(s, g)
  BY DEF JInit, Init, RowVouches
<1>4. AllWarranted(stored) /\ \A s \in Session : AllWarranted(journal[s])
  BY JournalAssumption DEF JInit, AllWarranted, Entries
<1>5. QED
  BY <1>1, <1>2, <1>3, <1>4 DEF AnswerInv

LEMMA StepAnswerInv == WholeRetries /\ AnswerInv /\ [JNext]_jvars => AnswerInv'
<1> SUFFICES ASSUME WholeRetries, AnswerInv, [JNext]_jvars PROVE AnswerInv'
  OBVIOUS
<1>a. /\ JournalInv /\ WalkShape /\ Shape /\ RunInv /\ TypeOK /\ JTyped
      /\ TalliedFromContent /\ KnownReal /\ (\A s \in Session, g \in Gen : RowVouches(s, g))
      /\ AllWarranted(stored) /\ \A s \in Session : AllWarranted(journal[s])
  BY ShapeParts DEF AnswerInv, JournalInv, WalkShape
<1>b. JournalInv'
  BY <1>a, StepJournalInv
<1>1. ASSUME NEW s \in Session, JActs(s) PROVE AnswerInv'
  <2>1. Moves(s) /\ InShape(s)
    BY <1>a, <1>1, WalkMoves, ActsInShape
  <2>2. /\ EverHeld \subseteq EverHeld' /\ UNCHANGED <<content, legacy>>
        /\ \A g \in Gen : /\ wip'[g] = "data" \/ done'[g] = "data" => content'[g] # {}
                          /\ done[g] # "absent" => done'[g] # "absent"
    BY <1>a, <2>1, MovesHold, MovesMark
  <2>3. \A t \in Session : t # s => Rests(t) /\ JournalRests(t)
    BY <1>a, <2>1, MovesAlone DEF InShape
  <2>4. TalliedFromContent'
    BY <1>a, <2>1, <2>2, <2>3, MovesTally DEF TalliedFromContent, Rests
  <2>5. KnownReal'
    <3>1. ASSUME NEW t \in Session, prior'[t] PROVE pc'[t] # "idle" /\ content'[cur'[t]] # {}
      BY <1>a, <2>1, <2>2, <2>3, <3>1, MovesKnow DEF KnownReal, Rests
    <3>2. ASSUME NEW t \in Session, aim'[t] = "note" PROVE content'[sweep'[t]] # {}
      BY <1>a, <1>1, <2>2, <2>3, <3>2, WhoNotes DEF KnownReal, JournalRests
    <3>3. QED
      BY <2>2, <3>1, <3>2 DEF KnownReal
  <2>6. ASSUME NEW t \in Session, NEW g \in Gen PROVE RowVouches(t, g)'
    <3>1. CASE t = s
      BY <1>1, <3>1, RowsStayVouched
    <3>2. CASE t # s
      <4>1. /\ row'[t] = row[t] /\ already'[t] = already[t] /\ RowVouches(t, g)
            /\ (TakenOver(g) => TakenOver(g)') /\ (Bridged(g) => Bridged(g)')
        BY <1>a, <2>2, <2>3, <3>2, TakenStays DEF Rests, JournalRests, Bridged
      <4>2. QED
        BY <2>2, <4>1 DEF RowVouches
    <3>3. QED
      BY <3>1, <3>2
  <2>7. ASSUME NEW g \in Gen, NEW e, Warranted(g, e)
        PROVE  /\ e.started \/ e.seen > 0 => content'[g] # {}
               /\ IsDataBearing(e) => content'[g] # {} \/ g \in legacy'
               /\ e.kind = "imported" => content'[g] \subseteq EverHeld'
               /\ e.kind = "rejections" => TakenOver(g)' /\ e.rejected > 0
               /\ e.kind = "noData" => done'[g] # "absent"
               /\ e.kind = "superseded" => Outdone(g)' /\ SnapshotPolicy(Policy)
    BY <2>2, <2>7, WarrantStays
  <2>8. AllWarranted(stored)'
    <3>1. SUFFICES ASSUME stored' \in Entries, NEW g \in Gen PROVE Warranted(g, stored[g])'
      BY DEF AllWarranted
    <3>2. Warranted(g, stored'[g])
      BY <1>a, <1>1, <3>1, WhoStores DEF AllWarranted
    <3>3. QED
      BY <2>7, <3>2 DEF Warranted
  <2>9. ASSUME NEW t \in Session PROVE AllWarranted(journal[t])'
    <3>1. SUFFICES ASSUME journal'[t] \in Entries, NEW g \in Gen PROVE Warranted(g, journal[t][g])'
      BY DEF AllWarranted
    <3>2. Warranted(g, journal'[t][g])
      <4>1. CASE t = s
        BY <1>1, <3>1, <4>1, WorksWarranted
      <4>2. CASE t # s
        BY <1>a, <2>3, <3>1, <4>2 DEF AllWarranted, JournalRests
      <4>3. QED
        BY <4>1, <4>2
    <3>3. QED
      BY <2>7, <3>2 DEF Warranted
  <2>10. QED
    BY <1>b, <2>4, <2>5, <2>6, <2>8, <2>9 DEF AnswerInv
<1>2. CASE \/ /\ UNCHANGED journaling /\ UNCHANGED volatile
              /\ UNCHANGED vars \/ \E k \in Key : UserWrite(k) \/ UserDelete(k)
           \/ Corrupt
  <2>1. /\ EverHeld \subseteq EverHeld' /\ UNCHANGED <<content, legacy, wip, done>>
        /\ UNCHANGED volatile
        /\ UNCHANGED <<journal, stage, aim, already, checked, unverified, revision, sweep, status>>
        /\ stored' \in {stored, CorruptJournal}
    BY <1>a, <1>2, WalkAssumption DEF UserWrite, UserDelete, EverHeld, TypeOK, Own, Absent, Deleted,
         vars, durable, journaling, Corrupt
  <2>2. TalliedFromContent' /\ KnownReal'
    BY <1>a, <2>1 DEF TalliedFromContent, KnownReal, volatile
  <2>3. \A g \in Gen : (TakenOver(g) => TakenOver(g)') /\ (Bridged(g) => Bridged(g)')
    BY <2>1, TakenStays DEF Bridged
  <2>4. ASSUME NEW s \in Session, NEW g \in Gen PROVE RowVouches(s, g)'
    <3>1. RowVouches(s, g) /\ row' = row
      BY <1>a, <2>1 DEF volatile
    <3>2. QED
      BY <2>1, <2>3, <3>1 DEF RowVouches
  <2>5. ASSUME NEW j \in Entries, AllWarranted(j), NEW g \in Gen
        PROVE  /\ j[g].started \/ j[g].seen > 0 => content'[g] # {}
               /\ IsDataBearing(j[g]) => content'[g] # {} \/ g \in legacy'
               /\ j[g].kind = "imported" => content'[g] \subseteq EverHeld'
               /\ j[g].kind = "rejections" => TakenOver(g)' /\ j[g].rejected > 0
               /\ j[g].kind = "noData" => done'[g] # "absent"
               /\ j[g].kind = "superseded" => Outdone(g)' /\ SnapshotPolicy(Policy)
    BY <2>1, <2>5, WarrantStays DEF AllWarranted
  <2>6. \A s \in Session : AllWarranted(journal[s])'
    BY <1>a, <2>1, <2>5 DEF AllWarranted, Warranted
  <2>7. AllWarranted(stored)'
    <3>1. CorruptJournal \notin Entries
      BY JournalAssumption DEF Entries
    <3>2. SUFFICES ASSUME stored' \in Entries, NEW g \in Gen PROVE Warranted(g, stored[g])'
      BY DEF AllWarranted
    <3>3. stored' = stored
      BY <2>1, <3>1, <3>2
    <3>4. QED
      BY <1>a, <2>5, <3>2, <3>3 DEF Warranted
  <2>8. QED
    BY <1>b, <2>2, <2>4, <2>6, <2>7 DEF AnswerInv
<1>3. QED
  BY <1>1, <1>2, WhoJActs

\* An answer is drawn from a warranted journal, and is given where nothing else moves.
LEMMA WhoAnswers ==
  ASSUME AnswerInv, NEW s \in Session, JActs(s), Answers(s), status'[s] # NoStatus
  PROVE  /\ UNCHANGED durable
         /\ \E j \in Entries : \E unread \in SUBSET Gen :
              status'[s] = StatusOf(s, j, unread) /\ \A g \in Gen : Warranted(g, j[g])
<1> DEFINE Goal == /\ UNCHANGED durable
                   /\ \E j \in Entries : \E unread \in SUBSET Gen :
                        status'[s] = StatusOf(s, j, unread) /\ \A g \in Gen : Warranted(g, j[g])
<1>a. /\ Shape /\ TypeOK /\ JTyped /\ StageOK(s) /\ KnownReal
      /\ (journal[s] \in Entries => \A g \in Gen : Warranted(g, journal[s][g]))
  BY ShapeParts DEF AnswerInv, JournalInv, WalkShape, AllWarranted
<1>b. /\ stage[s] # "idle" /\ stage'[s] = "idle"
      /\ \A where : At(s, where) => where = "idle"
  BY <1>a DEF Answers, At, JTyped
<1>c. /\ ~At(s, "load") /\ ~At(s, "seed") /\ ~At(s, "merge") /\ ~At(s, "write") /\ ~At(s, "walk")
      /\ ~At(s, "readBack") /\ ~At(s, "note") /\ ~At(s, "noteMarker") /\ ~At(s, "noteRead")
      /\ ~At(s, "copy")
  BY <1>b
<1>d. stage' # stage
  BY <1>b
<1>1. ASSUME Leave(s, NoStatus) PROVE FALSE
  BY <1>a, <1>1 DEF Leave, JTyped
<1>2. ASSUME NEW j \in Entries, \A g \in Gen : Warranted(g, j[g]),
             NEW unread \in SUBSET Gen, Leave(s, StatusOf(s, j, unread)), UNCHANGED durable
      PROVE  Goal
  <2>1. status'[s] = StatusOf(s, j, unread)
    BY <1>a, <1>2 DEF Leave, JTyped
  <2>2. QED
    BY <1>2, <2>1
<1>3. ASSUME NEW j \in Entries, \A g \in Gen : Warranted(g, j[g]),
             NEW read, NEW unread \in SUBSET Gen, Established(s, j, read, unread)
      PROVE  Goal
  <2>1. Leave(s, StatusOf(s, j, unread)) /\ UNCHANGED durable
    BY <1>c, <1>3 DEF Established, vars
  <2>2. QED
    BY <1>2, <1>3, <2>1
<1>4. CASE SeedJournal(s)
  <2>1. PICK unreadable \in SUBSET Gen : KeepJournal(s, unreadable)
    BY <1>c, <1>4 DEF SeedJournal, RebuildJournal, ToStore
  <2>2. journal[s] \in Entries
    BY <1>a, <2>1, ReadableEntries DEF KeepJournal, JTyped
  <2>3. PICK reopened \in SUBSET {h \in Gen : ExactMarker(h) = "wipData"} :
          LET j == [h \in Gen |-> IF h \in reopened THEN MarkImportStarted(journal[s][h])
                                                     ELSE journal[s][h]]
          IN \E read : \E unread \in SUBSET Gen : Established(s, j, read, unread)
    BY <1>c, <2>1 DEF KeepJournal, ToStore
  <2>4. PICK j : j = [h \in Gen |-> IF h \in reopened THEN MarkImportStarted(journal[s][h])
                                                       ELSE journal[s][h]]
    OBVIOUS
  <2>5. j \in Entries
    BY <2>2, <2>4, StartedEntry DEF Entries
  <2>6. ASSUME NEW g \in Gen PROVE Warranted(g, j[g])
    <3>1. CASE g \in reopened
      <4>1. content[g] # {}
        BY <1>a, <3>1, ExactTells DEF KnownReal
      <4>2. journal[s][g] \in JournalState
        BY <2>2 DEF Entries
      <4>3. QED
        BY <1>a, <2>2, <2>4, <3>1, <4>1, <4>2, StartedWarranted
    <3>2. CASE g \notin reopened
      BY <1>a, <2>2, <2>4, <3>2
    <3>3. QED
      BY <3>1, <3>2
  <2>7. PICK read : \E unread \in SUBSET Gen : Established(s, j, read, unread)
    BY <2>3, <2>4
  <2>8. QED
    BY <1>3, <2>5, <2>6, <2>7
<1>5. CASE StoreJournal(s)
  <2>1. journal[s] \in Entries /\ unverified[s] \in SUBSET Gen
    BY <1>a, <1>5 DEF StoreJournal, StageOK, Entries, JTyped
  <2>2. CASE Established(s, journal[s], checked[s], unverified[s])
    BY <1>a, <1>3, <2>1, <2>2
  <2>3. CASE Return(s)
    BY <1>a, <1>2, <2>1, <2>3 DEF Return, HandOver
  <2>4. QED
    BY <1>1, <1>c, <1>5, <2>2, <2>3 DEF StoreJournal, Flagged, Announced
<1>6. CASE \/ JournalUnavailable(s) \/ NoteRefused(s) \/ NoteReadBack(s) \/ AppDone(s) \/ Die(s)
  BY <1>1, <1>c, <1>6 DEF JournalUnavailable, NoteRefused, NoteReadBack, AppDone, Die
<1>7. CASE \/ BeginMigrationJournal(s) \/ MigrateJournaled(s) \/ LoadJournal(s) \/ MergeStored(s)
           \/ JRecordInProgress(s) \/ ReadBack(s) \/ ResolveOutcomes(s) \/ NoteStarted(s)
           \/ NoteMarker(s) \/ (\E g \in Sweeps : NoteLoad(s, g))
  BY <1>c, <1>d, <1>7 DEF BeginMigrationJournal, MigrateJournaled, Operate, LoadJournal, MergeStored,
       JRecordInProgress, ReadBack, ResolveOutcomes, NoteStarted, NoteMarker, NoteLoad
<1>8. CASE \/ JournalShortCut(s) \/ (\E unreadable \in BOOLEAN : BelieveSeal(s, unreadable))
           \/ AskAgain(s) \/ JFetchSecrets(s) \/ PlainAwait(s) \/ JMarkerUnreadable(s)
           \/ (\E k \in Key : AppWrite(s, k)) \/ RaiseRevision(s)
  BY <1>c, <1>d, <1>8 DEF JournalShortCut, BelieveSeal, AskAgain, JFetchSecrets, BeforeImport,
       PlainAwait, JMarkerUnreadable, AppWrite, RaiseRevision, journaling
<1>9. QED
  BY <1>4, <1>5, <1>6, <1>7, <1>8 DEF JActs, JStep, JFault, AppStep

\* An entry that a status does not count as pending is resolved, and is counted with
\* the rejections it has.
LEMMA SettledEntry ==
  ASSUME NEW s, NEW a \in JournalState, NEW b \in {a, MarkImportStarted(a)},
         ~IsPending(Bound(s, b))
  PROVE  ~IsPending(a) /\ (a.kind = "rejections" => Bound(s, b).rejected = a.rejected)
<1>1. /\ b \in JournalState /\ b.kind \in {a.kind, "pending"}
      /\ b.kind = "rejections" => b.rejected = a.rejected
  BY StartedEntry, StartedFields DEF JournalState
<1>2. /\ Bound(s, b).kind \in {b.kind, "pending"}
      /\ Bound(s, b).kind = "rejections" => Bound(s, b).rejected = b.rejected
  BY <1>1, EffectiveFields DEF Bound
<1>3. QED
  BY <1>1, <1>2 DEF IsPending

\* What a complete answer says of each predecessor.
LEMMA CompleteAnswer ==
  ASSUME AnswerInv, NEW s \in Session, JActs(s), Answers(s), status'[s].complete, NEW g \in Gen
  PROVE  /\ UNCHANGED durable
         /\ \E e \in JournalState :
              /\ Warranted(g, e) /\ ~IsPending(e)
              /\ e.kind = "rejections" => status'[s].rejections
<1>1. status'[s] # NoStatus
  BY DEF NoStatus
<1>2. PICK j \in Entries : \E unread \in SUBSET Gen :
        status'[s] = StatusOf(s, j, unread) /\ \A h \in Gen : Warranted(h, j[h])
  BY <1>1, WhoAnswers
<1>3. PICK unread \in SUBSET Gen : status'[s] = StatusOf(s, j, unread)
  BY <1>2
<1>4. PICK b : b = IF g \in unread THEN MarkImportStarted(j[g]) ELSE j[g]
  OBVIOUS
<1>5. /\ ~IsPending(Bound(s, b))
      /\ Bound(s, b).rejected > 0 => status'[s].rejections
  BY <1>3, <1>4 DEF StatusOf
<1>6. j[g] \in JournalState /\ Warranted(g, j[g])
  BY <1>2 DEF Entries
<1>7. ~IsPending(j[g]) /\ (j[g].kind = "rejections" => Bound(s, b).rejected = j[g].rejected)
  BY <1>4, <1>5, <1>6, SettledEntry
<1>8. j[g].kind = "rejections" => status'[s].rejections
  BY <1>5, <1>6, <1>7 DEF Warranted
<1>9. QED
  BY <1>1, <1>6, <1>7, <1>8, WhoAnswers

\* A step that ends an operation of session s is one of its own.
LEMMA AnswersItself ==
  ASSUME AnswerInv, [JNext]_jvars, NEW s \in Session, Answers(s)
  PROVE  JActs(s)
<1>1. stage'[s] # stage[s]
  BY DEF Answers
<1>2. ASSUME NEW t \in Session, JActs(t), t # s PROVE FALSE
  BY <1>1, <1>2, ActsInShape DEF AnswerInv, JournalInv, WalkShape, InShape, JournalRests
<1>3. ~UNCHANGED journaling /\ ~Corrupt
  BY <1>1 DEF journaling, Corrupt
<1>4. QED
  BY <1>2, <1>3, WhoJActs

-------------------------------------------------------------------------------
(* One session: newer data is never passed over, by the walk or by the app.   *)

\* The predecessor it asks has no data seal, of this API or the older one.
Unsealed(g) == done[g] # "data" /\ ~(done[g] = "absent" /\ g \in legacy)

AskedOpen(s) == pc[s] \in Asking => Unsealed(cur[s])

WalkAlone(s) == AskedOpen(s) /\ KnowsWhatMarkersTell(s) /\ NoDataBehind(s)

\* The app copies only a generation above which no marker tells of data.
SweepNearest(s) ==
  SnapshotPolicy(Policy) /\ aim[s] = "note" /\ stage[s] # "note" =>
    \A h \in Gen : h > sweep[s] => wip[h] # "data" /\ done[h] # "data"

JAloneInv == WalkShape /\ \A s \in Session : WalkAlone(s) /\ SweepNearest(s)

\* A report goes on only past a predecessor not known to hold data.
LEMMA WalkAloneReports ==
  ASSUME TypeOK, NEW s \in Session, pc[s] # "idle", NoDataBehind(s),
         NEW kind, NEW terminated \in BOOLEAN, NEW keys, Report(s, kind, terminated, keys),
         SnapshotPolicy(Policy) /\ ~terminated => wip'[cur[s]] # "data" /\ done'[cur[s]] # "data",
         \A h \in Gen : h > cur[s] => wip'[h] = wip[h] /\ done'[h] = done[h]
  PROVE  WalkAlone(s)'
<1>1. AloneOK(s)'
  BY AloneReport
<1>2. pc'[s] \in {"idle", "marker"}
  BY DEF Report, TypeOK
<1>3. QED
  BY <1>1, <1>2 DEF AloneOK, WalkAlone, AskedOpen, Asking

\* A step on the way, which leaves the markers alone.
LEMMA WalkAloneProceeds ==
  ASSUME TypeOK, NEW s \in Session, WalkAlone(s), pc[s] # "idle", cur'[s] = cur[s],
         UNCHANGED <<legacy, wip, done>>,
         pc'[s] \in Asking => Unsealed(cur[s]),
         pc'[s] \in Asking /\ ~prior'[s] /\ (pc'[s] \in AfterFetch => items'[s] = {}) =>
           wip[cur[s]] # "data"
  PROVE  WalkAlone(s)'
BY DEF WalkAlone, AskedOpen, Unsealed, KnowsWhatMarkersTell, NoDataBehind

LEMMA SilencePassesNoData ==
  ASSUME TypeOK, NEW s \in Session, pc[s] \in {"probe", "fetch"}, WalkAlone(s), Unresponsive(s),
         UNCHANGED <<wip, done>>
  PROVE  WalkAlone(s)'
<1>1. PICK terminated \in BOOLEAN :
        /\ terminated = UnresponsiveTerminates(Policy, prior[s])
        /\ Report(s, "unresponsive", terminated, withheld[s])
  BY AuthorityAnswers DEF Unresponsive
<1>2. SnapshotPolicy(Policy) /\ ~terminated => ~prior[s]
  BY <1>1, WalkAssumption DEF UnresponsiveTerminates, SnapshotPolicy, SecretSelectionPolicy
<1>3. done[cur[s]] # "data" /\ (~prior[s] => wip[cur[s]] # "data")
  BY DEF WalkAlone, AskedOpen, Unsealed, KnowsWhatMarkersTell, Asking, AfterFetch
<1>4. QED
  BY <1>1, <1>2, <1>3, WalkAloneReports DEF WalkAlone

LEMMA AwaitsAlone ==
  ASSUME TypeOK, NEW s \in Session, WalkAlone(s), Awaits(s)
  PROVE  WalkAlone(s)'
<1>b. pc[s] # "idle" => cur[s] \in Gen
  BY CurrentGeneration
<1>1. CASE StartRun(s) \/ Crash(s)
  <2>1. pc'[s] = "idle" \/ (pc'[s] = "marker" /\ cur'[s] = N)
    BY <1>1 DEF StartRun, Crash, TypeOK
  <2>2. \A h \in Gen : ~(h > N)
    BY WalkAssumption DEF Gen
  <2>3. QED
    BY <2>1, <2>2 DEF WalkAlone, AskedOpen, KnowsWhatMarkersTell, NoDataBehind, Asking
<1>2. CASE MarkerUnreadable(s) \/ BeginMarkerFails(s)
  <2>1. /\ pc[s] # "idle" /\ UNCHANGED <<wip, done>>
        /\ Report(s, "writerUnavailable", TRUE, withheld[s])
    BY <1>2 DEF MarkerUnreadable, BeginMarkerFails, WriterUnavailable, durable
  <2>2. QED
    BY <2>1, WalkAloneReports DEF WalkAlone
<1>3. CASE NoAnswer(s)
  BY <1>3, SilencePassesNoData DEF NoAnswer, durable
<1>4. CASE ProbeExecutable(s)
  <2>1. /\ pc[s] = "probe" /\ pc'[s] = "fetch" /\ cur'[s] = cur[s]
        /\ prior'[s] = prior[s] /\ UNCHANGED <<legacy, wip, done>>
    BY <1>4 DEF ProbeExecutable, GoTo, TypeOK, durable
  <2>2. QED
    BY <2>1, WalkAloneProceeds DEF WalkAlone, AskedOpen, KnowsWhatMarkersTell, Asking, AfterFetch
<1>5. CASE RecordInProgress(s)
  <2>1. /\ pc[s] = "begin" /\ pc'[s] = "items" /\ cur'[s] = cur[s] /\ prior'[s] = prior[s]
        /\ items'[s] = items[s] /\ UNCHANGED <<legacy, done>> /\ cur[s] \in Gen
        /\ wip' = [wip EXCEPT ![cur[s]] = StickyInProgress(@, SawData(s))]
    BY <1>b, <1>5 DEF RecordInProgress, GoTo, TypeOK
  <2>2. wip'[cur[s]] = StickyInProgress(wip[cur[s]], SawData(s))
    BY <2>1 DEF TypeOK
  <2>3. \A h \in Gen : h > cur[s] => wip'[h] = wip[h]
    BY <2>1 DEF TypeOK, Gen
  <2>4. ~prior[s] /\ items[s] = {} => wip'[cur[s]] # "data"
    <3>1. ~prior[s] /\ items[s] = {} => wip[cur[s]] # "data" /\ ~SawData(s)
      BY <2>1 DEF WalkAlone, KnowsWhatMarkersTell, Asking, SawData
    <3>2. QED
      BY <2>2, <3>1 DEF StickyInProgress
  <2>5. QED
    BY <2>1, <2>3, <2>4
       DEF WalkAlone, AskedOpen, Unsealed, KnowsWhatMarkersTell, NoDataBehind, Asking, AfterFetch
<1>6. CASE Item(s) \/ (\E k \in Key : WriteFails(s, k))
  <2>1. /\ pc[s] = "items" /\ pc'[s] = "items" /\ cur'[s] = cur[s] /\ prior'[s] = prior[s]
        /\ items'[s] = items[s] /\ UNCHANGED <<legacy, wip, done>>
    BY <1>6 DEF Item, WithholdItem, WriteSecret, WriteFails, durable
  <2>2. QED
    BY <2>1, WalkAloneProceeds DEF WalkAlone, AskedOpen, KnowsWhatMarkersTell, Asking, AfterFetch
<1>7. ASSUME pc[s] \in {"items", "seal"}, NEW kind, NEW keys,
             Report(s, kind, DataBearingIsAuthoritative(Policy, SawData(s)), keys),
             UNCHANGED wip,
             UNCHANGED done \/ done' = [done EXCEPT ![cur[s]] = Flag(SawData(s))]
      PROVE  WalkAlone(s)'
  <2>1. PICK terminated \in BOOLEAN :
          /\ terminated = DataBearingIsAuthoritative(Policy, SawData(s))
          /\ Report(s, kind, terminated, keys)
    BY <1>7, AuthorityAnswers
  <2>2. done[cur[s]] # "data" /\ (~prior[s] /\ items[s] = {} => wip[cur[s]] # "data")
    BY <1>7 DEF WalkAlone, AskedOpen, Unsealed, KnowsWhatMarkersTell, Asking
  <2>3. ASSUME SnapshotPolicy(Policy), ~terminated
        PROVE  wip'[cur[s]] # "data" /\ done'[cur[s]] # "data"
    <3>1. ~prior[s] /\ items[s] = {} /\ ~SawData(s)
      BY <2>1, <2>3, AuthorityOfData DEF SawData
    <3>2. Flag(SawData(s)) = "empty"
      BY <3>1 DEF Flag
    <3>3. QED
      BY <1>b, <1>7, <2>2, <3>1, <3>2 DEF TypeOK
  <2>4. ASSUME NEW h \in Gen, h > cur[s] PROVE wip'[h] = wip[h] /\ done'[h] = done[h]
    <3>1. h # cur[s]
      BY <1>b, <1>7, <2>4 DEF Gen
    <3>2. QED
      BY <1>7, <3>1 DEF TypeOK
  <2>5. QED
    BY <1>7, <2>1, <2>3, <2>4, WalkAloneReports DEF WalkAlone
<1>8. CASE Flush(s)
  <2>1. CASE IsClean(s)
    <3>1. /\ pc[s] = "items" /\ pc'[s] = "seal" /\ cur'[s] = cur[s] /\ prior'[s] = prior[s]
          /\ items'[s] = items[s] /\ UNCHANGED <<legacy, wip, done>>
      BY <1>8, <2>1 DEF Flush, GoTo, TypeOK
    <3>2. QED
      BY <3>1, WalkAloneProceeds
         DEF WalkAlone, AskedOpen, KnowsWhatMarkersTell, Asking, AfterFetch
  <2>2. CASE ~IsClean(s)
    BY <1>7, <1>8, <2>2 DEF Flush
  <2>3. QED
    BY <2>1, <2>2
<1>9. CASE FlushFails(s) \/ RecordDone(s) \/ CompleteMarkerFails(s)
  <2>1. pc[s] \in {"items", "seal"}
    BY <1>9 DEF FlushFails, RecordDone, CompleteMarkerFails
  <2>2. UNCHANGED wip /\ (UNCHANGED done \/ done' = [done EXCEPT ![cur[s]] = Flag(SawData(s))])
    BY <1>9 DEF FlushFails, RecordDone, CompleteMarkerFails, durable
  <2>3. \E kind \in Row, keys \in {withheld[s], withheld[s] \cup OfferedAs(s, "failed")
                        \cup OfferedAs(s, "written") \cup OfferedAs(s, "skipped")} :
          Report(s, kind, DataBearingIsAuthoritative(Policy, SawData(s)), keys)
    BY <1>9 DEF FlushFails, RecordDone, CompleteMarkerFails, Row
  <2>4. QED
    BY <1>7, <2>1, <2>2, <2>3
<1>10. QED
  BY <1>1, <1>2, <1>3, <1>4, <1>5, <1>6, <1>8, <1>9 DEF Awaits

LEMMA ActsAlone ==
  ASSUME WalkShape, NEW s \in Session, JActs(s), WalkAlone(s)
  PROVE  WalkAlone(s)'
<1>a. TypeOK /\ JTyped /\ StageOK(s)
  BY ShapeParts DEF WalkShape
<1>b. pc[s] # "idle" => cur[s] \in Gen
  BY <1>a, CurrentGeneration
<1>1. CASE UNCHANGED <<pc, cur, prior, items, legacy, wip, done>>
  BY <1>1 DEF WalkAlone, AskedOpen, Unsealed, KnowsWhatMarkersTell, NoDataBehind
<1>2. CASE pc[s] = "idle" /\ pc' = pc
  BY <1>2 DEF WalkAlone, AskedOpen, KnowsWhatMarkersTell, NoDataBehind, Asking
<1>3. ASSUME Awaits(s) PROVE WalkAlone(s)'
  BY <1>a, <1>3, AwaitsAlone
<1>4. ASSUME pc[s] # "idle", NEW kind, UNCHANGED <<wip, done>>, NEW terminated \in BOOLEAN,
             SnapshotPolicy(Policy) => terminated, Report(s, kind, terminated, withheld[s])
      PROVE  WalkAlone(s)'
  BY <1>a, <1>4, WalkAloneReports DEF WalkAlone
<1>5. ASSUME pc[s] # "idle", WriterUnavailable(s), UNCHANGED durable PROVE WalkAlone(s)'
  BY <1>4, <1>5 DEF WriterUnavailable, durable
<1>6. CASE \/ BeginMigrationJournal(s) \/ MigrateJournaled(s) \/ LoadJournal(s) \/ MergeStored(s)
           \/ ResolveOutcomes(s) \/ NoteStarted(s) \/ RaiseRevision(s)
           \/ (\E g \in Sweeps : NoteLoad(s, g)) \/ (\E k \in Key : AppWrite(s, k))
           \/ NoteReadBack(s) \/ NoteRefused(s) \/ AppDone(s)
  BY <1>1, <1>6 DEF BeginMigrationJournal, MigrateJournaled, Operate, LoadJournal, MergeStored,
       ResolveOutcomes, NoteStarted, RaiseRevision, NoteLoad, AppWrite, NoteReadBack, NoteRefused,
       AppDone, vars, durable, volatile
<1>7. CASE SeedJournal(s)
  <2>1. UNCHANGED vars \/ StartRun(s)
    BY <1>7 DEF SeedJournal, KeepJournal, RebuildJournal, ToStore, Established
  <2>2. QED
    BY <1>1, <1>3, <2>1 DEF Awaits, vars, durable, volatile
<1>8. CASE StoreJournal(s)
  <2>1. CASE \E j, read, unread : Established(s, j, read, unread)
    BY <1>1, <1>3, <2>1 DEF Established, Awaits, vars, durable, volatile
  <2>2. CASE Flagged(s)
    <3>1. pc[s] # "idle"
      BY <1>a, <1>8, <2>2 DEF StoreJournal, Flagged, StageOK
    <3>2. PICK terminated \in BOOLEAN : terminated = UnresponsiveTerminates(Policy, TRUE)
      BY DEF UnresponsiveTerminates
    <3>3. SnapshotPolicy(Policy) => terminated
      BY <3>2, WalkAssumption DEF UnresponsiveTerminates, SnapshotPolicy, SecretSelectionPolicy
    <3>4. UNCHANGED vars \/
            (UNCHANGED durable /\ Report(s, "unresponsive", terminated, withheld[s]))
      BY <2>2, <3>2 DEF Flagged
    <3>5. QED
      BY <1>1, <1>4, <3>1, <3>3, <3>4 DEF vars, durable, volatile
  <2>3. CASE Return(s) \/ Announced(s)
    BY <1>1, <2>3 DEF Return, HandOver, Announced, vars, durable, volatile
  <2>4. QED
    BY <1>8, <2>1, <2>2, <2>3 DEF StoreJournal
<1>9. CASE JournalShortCut(s)
  <2>1. PICK terminated \in BOOLEAN : /\ terminated = DataBearingIsAuthoritative(Policy, TRUE)
                                      /\ Report(s, "alreadyMigrated", terminated, withheld[s])
    BY <1>9, PolicyAnswersBoolean DEF JournalShortCut, DataBearingIsAuthoritative
  <2>2. QED
    BY <1>4, <1>9, <2>1 DEF JournalShortCut, DataBearingIsAuthoritative, durable
<1>10. ASSUME NEW unreadable \in BOOLEAN, BelieveSeal(s, unreadable) PROVE WalkAlone(s)'
  <2>1. pc[s] = "marker" /\ UNCHANGED <<wip, done>> /\ Marker(cur[s]) \in {"doneData", "doneEmpty"}
    BY <1>10 DEF BelieveSeal, durable
  <2>2. PICK terminated \in BOOLEAN :
          /\ terminated = DataBearingIsAuthoritative(Policy, Marker(cur[s]) = "doneData")
          /\ Report(s, "alreadyMigrated", terminated, withheld[s])
    BY <1>10, PolicyAnswersBoolean DEF BelieveSeal
  <2>3. ASSUME SnapshotPolicy(Policy), ~terminated
        PROVE  wip'[cur[s]] # "data" /\ done'[cur[s]] # "data"
    <3>1. Marker(cur[s]) = "doneEmpty"
      BY <2>1, <2>2, <2>3 DEF DataBearingIsAuthoritative
    <3>2. QED
      BY <1>a, <1>b, <2>1, <3>1, MarkerTells DEF IsDone
  <2>4. QED
    BY <1>a, <2>1, <2>2, <2>3, WalkAloneReports DEF WalkAlone
<1>11. CASE AskAgain(s)
  <2>1. /\ pc[s] = "marker" /\ pc'[s] = "probe" /\ cur'[s] = cur[s]
        /\ UNCHANGED <<legacy, wip, done>>
        /\ Marker(cur[s]) # "doneData" /\ (Marker(cur[s]) = "wipData" => prior'[s])
    BY <1>a, <1>11 DEF AskAgain, GoTo, TypeOK, durable
  <2>2. Unsealed(cur[s]) /\ (~prior'[s] => wip[cur[s]] # "data")
    <3>1. done[cur[s]] \in MarkerValue
      BY <1>a, <1>b, <2>1 DEF TypeOK
    <3>2. cur[s] \in legacy => Bridged(cur[s])
      BY <1>b, <2>1 DEF Bridged, LegacyMigrated, Gen
    <3>3. QED
      BY <1>a, <1>b, <2>1, <3>1, <3>2, MarkerTells DEF MarkerValue, Unsealed
  <2>3. QED
    BY <1>a, <2>1, <2>2, WalkAloneProceeds
<1>12. CASE JFetchSecrets(s)
  <2>1. CASE Unresponsive(s)
    BY <1>a, <1>12, <2>1, SilencePassesNoData DEF JFetchSecrets, durable
  <2>2. CASE ~Unresponsive(s)
    <3>1. /\ pc[s] = "fetch" /\ pc'[s] = "begin" /\ cur'[s] = cur[s]
          /\ prior'[s] = prior[s] /\ UNCHANGED <<legacy, wip, done>>
      BY <1>a, <1>12, <2>2 DEF JFetchSecrets, GoTo, TypeOK, durable
    <3>2. QED
      BY <1>a, <3>1, WalkAloneProceeds
         DEF WalkAlone, AskedOpen, KnowsWhatMarkersTell, Asking, AfterFetch
  <2>3. QED
    BY <2>1, <2>2
<1>13. CASE JRecordInProgress(s) \/ PlainAwait(s)
  BY <1>3, <1>13 DEF JRecordInProgress, PlainAwait, Awaits
<1>14. CASE ReadBack(s)
  <2>1. pc[s] # "idle"
    BY <1>a, <1>14 DEF ReadBack, StageOK
  <2>2. QED
    BY <1>1, <1>5, <1>14, <2>1 DEF ReadBack, vars, durable, volatile
<1>15. CASE JMarkerUnreadable(s)
  BY <1>3, <1>15 DEF JMarkerUnreadable, Awaits
<1>16. CASE JournalUnavailable(s)
  <2>1. aim[s] \in {"early", "late"} => pc[s] # "idle"
    BY <1>a, <1>16 DEF JournalUnavailable, StageOK
  <2>2. QED
    BY <1>1, <1>5, <1>16, <2>1 DEF JournalUnavailable, HandOver, vars, durable, volatile
<1>17. CASE NoteMarker(s)
  <2>1. pc[s] = "idle" /\ pc' = pc
    BY <1>a, <1>17 DEF NoteMarker, StageOK, volatile
  <2>2. QED
    BY <1>2, <2>1
<1>18. CASE Die(s)
  BY <1>1, <1>3, <1>18 DEF Die, HandOver, Awaits, vars, durable, volatile
<1>19. QED
  BY <1>6, <1>7, <1>8, <1>9, <1>10, <1>11, <1>12, <1>13, <1>14, <1>15, <1>16, <1>17, <1>18
     DEF JActs, JStep, JFault, AppStep

\* A session on its way to copy a generation itself stays on it.
LEMMA WhoAnnounces ==
  ASSUME WalkShape, NEW s \in Session, JActs(s), aim'[s] = "note", stage'[s] # "note"
  PROVE  \/ NoteStarted(s)
         \/ aim[s] = "note" /\ stage[s] # "note" /\ sweep'[s] = sweep[s] /\ pc[s] = "idle"
<1> DEFINE Goal == aim[s] = "note" /\ stage[s] # "note" /\ sweep'[s] = sweep[s] /\ pc[s] = "idle"
<1>a. TypeOK /\ JTyped /\ StageOK(s)
  BY ShapeParts DEF WalkShape
<1>1. ASSUME NEW what, For(s, what) PROVE what = "note"
  BY <1>a, <1>1 DEF For, JTyped
<1>2. /\ ~For(s, "none") /\ ~For(s, "begin") /\ ~For(s, "run") /\ ~For(s, "early")
      /\ ~For(s, "late") /\ ~For(s, "end")
  BY <1>1
<1>3. ~(\E answer : Leave(s, answer))
  BY <1>2 DEF Leave
<1>4. ASSUME NEW j, NEW read, NEW unread PROVE ~Established(s, j, read, unread)
  BY <1>2, <1>3 DEF Established
<1>5. aim[s] = "note" => pc[s] = "idle" /\ stage[s] \notin {"idle", "walk", "readBack", "load", "seed"}
  BY <1>a DEF StageOK
<1>6. ASSUME UNCHANGED <<aim, sweep>>, stage[s] # "note" PROVE Goal
  BY <1>5, <1>6
<1>7. CASE JStep(s)
  <2>1. CASE \/ LoadJournal(s) \/ MergeStored(s) \/ ReadBack(s) \/ JournalShortCut(s)
             \/ (\E unreadable \in BOOLEAN : BelieveSeal(s, unreadable))
             \/ JRecordInProgress(s) \/ PlainAwait(s)
    BY <1>6, <2>1 DEF LoadJournal, MergeStored, ReadBack, JournalShortCut, BelieveSeal,
         JRecordInProgress, PlainAwait, journaling
  <2>2. CASE SeedJournal(s)
    BY <1>4, <1>6, <2>2 DEF SeedJournal, KeepJournal, RebuildJournal, ToStore
  <2>3. CASE StoreJournal(s)
    BY <1>2, <1>3, <1>4, <1>6, <2>3 DEF StoreJournal, Flagged, Return, Announced
  <2>4. CASE AskAgain(s) \/ JFetchSecrets(s) \/ ResolveOutcomes(s)
    BY <1>2, <1>6, <2>4 DEF AskAgain, JFetchSecrets, BeforeImport, ResolveOutcomes
  <2>5. QED
    BY <1>7, <2>1, <2>2, <2>3, <2>4 DEF JStep
<1>8. CASE JFault(s) \/ Die(s) \/ RaiseRevision(s) \/ BeginMigrationJournal(s) \/ MigrateJournaled(s)
  BY <1>2, <1>3, <1>6, <1>8 DEF JFault, JournalUnavailable, JMarkerUnreadable, Die, RaiseRevision,
       BeginMigrationJournal, MigrateJournaled, Operate
<1>9. ASSUME NEW g \in Sweeps, NoteLoad(s, g) PROVE FALSE
  BY <1>a, <1>9 DEF NoteLoad, At, JTyped
<1>10. CASE AppStep(s)
  BY <1>3, <1>6, <1>9, <1>10 DEF AppStep, NoteRefused, NoteMarker, NoteReadBack,
       AppWrite, AppDone, journaling
<1>11. QED
  BY <1>7, <1>8, <1>10 DEF JActs

\* It starts only where no marker of a newer generation tells of data, and the markers
\* it writes are its own.
LEMMA SweepStaysNearest ==
  ASSUME WalkShape, NEW s \in Session, JActs(s), SweepNearest(s)
  PROVE  SweepNearest(s)'
<1>a. TypeOK /\ JTyped /\ StageOK(s)
  BY ShapeParts DEF WalkShape
<1>1. SUFFICES ASSUME SnapshotPolicy(Policy), aim'[s] = "note", stage'[s] # "note",
                      NEW h \in Gen, h > sweep'[s]
               PROVE  wip'[h] # "data" /\ done'[h] # "data"
  BY DEF SweepNearest
<1>2. CASE NoteStarted(s)
  <2>1. UNCHANGED <<wip, done, sweep>> /\ ~NotImportable(s, sweep[s])
    BY <1>2 DEF NoteStarted, vars, durable
  <2>2. ~HoldsData(s, h)
    BY <1>1, <2>1 DEF NotImportable
  <2>3. ExactMarker(h) \notin {"wipData", "doneData"}
    BY <2>2 DEF HoldsData
  <2>4. done[h] \in MarkerValue
    BY <1>a DEF TypeOK
  <2>5. QED
    BY <1>a, <2>1, <2>3, <2>4, ExactTells DEF MarkerValue
<1>3. CASE aim[s] = "note" /\ stage[s] # "note" /\ sweep'[s] = sweep[s] /\ pc[s] = "idle"
  <2>1. wip[h] # "data" /\ done[h] # "data"
    BY <1>1, <1>3 DEF SweepNearest
  <2>2. UNCHANGED <<wip, done>> \/ Marks(s)
    <3>1. Moves(s)
      BY <1>a, WalkMoves DEF WalkShape
    <3>2. QED
      BY <1>3, <3>1 DEF Moves, Awaits, StartRun, MarkerUnreadable, ProbeExecutable, NoAnswer,
           RecordInProgress, BeginMarkerFails, Item, WithholdItem, WriteSecret, WriteFails, Flush,
           FlushFails, RecordDone, CompleteMarkerFails, Crash, PassesOver, Asks, Takes, HandsOver,
           HandOver, CopiesItself, vars, durable
  <2>3. CASE UNCHANGED <<wip, done>>
    BY <2>1, <2>3
  <2>4. CASE Marks(s)
    <3>1. h # sweep[s]
      BY <1>1, <1>3 DEF Gen
    <3>2. QED
      BY <1>a, <2>1, <2>4, <3>1 DEF Marks, TypeOK
  <2>5. QED
    BY <2>2, <2>3, <2>4
<1>4. QED
  BY <1>1, <1>2, <1>3, WhoAnnounces

LEMMA InitJAlone == JInit => JAloneInv
<1> SUFFICES ASSUME JInit PROVE JAloneInv
  OBVIOUS
<1>1. \A s \in Session : pc[s] = "idle" /\ aim[s] = "none"
  BY DEF JInit, Init
<1>2. QED
  BY <1>1, InitWalkShape
     DEF JAloneInv, WalkAlone, AskedOpen, KnowsWhatMarkersTell, NoDataBehind, SweepNearest, Asking

LEMMA StepJAlone == OneSession /\ JAloneInv /\ [JNext]_jvars => JAloneInv'
<1> SUFFICES ASSUME OneSession, JAloneInv, [JNext]_jvars PROVE JAloneInv'
  OBVIOUS
<1>1. WalkShape'
  BY StepWalkShape DEF JAloneInv
<1>2. ASSUME NEW s \in Session, JActs(s) PROVE JAloneInv'
  <2>1. WalkAlone(s)' /\ SweepNearest(s)' /\ \A t \in Session : t = s
    BY <1>2, ActsAlone, SweepStaysNearest DEF JAloneInv, OneSession
  <2>2. QED
    BY <1>1, <2>1 DEF JAloneInv
<1>3. CASE \/ /\ UNCHANGED journaling /\ UNCHANGED volatile
              /\ UNCHANGED vars \/ \E k \in Key : UserWrite(k) \/ UserDelete(k)
           \/ Corrupt
  <2>1. UNCHANGED <<legacy, wip, done, pc, cur, prior, items, aim, stage, sweep>>
    BY <1>3 DEF volatile, vars, durable, UserWrite, UserDelete, journaling, Corrupt
  <2>2. QED
    BY <1>1, <2>1 DEF JAloneInv, WalkAlone, AskedOpen, Unsealed, KnowsWhatMarkersTell,
                      NoDataBehind, SweepNearest
<1>4. QED
  BY <1>2, <1>3, WhoJActs

\* A value of generation g comes from a session at the items of g, or from the app's
\* own copy of g.
LEMMA WhoJCopies ==
  ASSUME WalkShape, [JNext]_jvars, NEW g \in Gen, NEW k \in Key, Copies(g, k)
  PROVE  \E s \in Session : /\ JActs(s)
                            /\ \/ pc[s] = "items" /\ cur[s] = g
                               \/ stage[s] = "copy" /\ aim[s] = "note" /\ sweep[s] = g
<1>a. TypeOK
  BY ShapeParts DEF WalkShape
<1>1. store[k] # g /\ store'[k] = g
  BY DEF Copies
<1>2. ASSUME NEW s \in Session, JActs(s)
      PROVE  \/ pc[s] = "items" /\ cur[s] = g
             \/ stage[s] = "copy" /\ aim[s] = "note" /\ sweep[s] = g
  <2>1. Moves(s) /\ StageOK(s)
    BY <1>2, WalkMoves, ShapeParts DEF WalkShape
  <2>2. CASE CopiesItself(s)
    BY <1>a, <1>1, <2>1, <2>2 DEF CopiesItself, StageOK, TypeOK
  <2>3. ASSUME NEW keys, store' = Land(cur[s], keys) PROVE cur[s] = g
    BY <1>1, <2>3 DEF Land
  <2>4. CASE Flush(s) \/ FlushFails(s)
    BY <1>1, <2>3, <2>4 DEF Flush, FlushFails
  <2>5. ASSUME NEW j \in Key, WriteSecret(s, j) PROVE pc[s] = "items" /\ cur[s] = g
    BY <1>a, <1>1, <2>5 DEF WriteSecret, TypeOK
  <2>6. CASE UNCHANGED store
    BY <1>1, <2>6
  <2>7. QED
    BY <2>1, <2>2, <2>4, <2>5, <2>6
       DEF Moves, Awaits, StartRun, MarkerUnreadable, ProbeExecutable, NoAnswer,
           RecordInProgress, BeginMarkerFails, Item, WithholdItem, WriteFails, RecordDone,
           CompleteMarkerFails, Crash, PassesOver, Asks, Takes, HandsOver, HandOver, Marks,
           vars, durable
<1>3. ASSUME NEW j \in Key, UserWrite(j) \/ UserDelete(j) PROVE FALSE
  <2>1. g # Own /\ g # Deleted
    BY WalkAssumption DEF Gen, Own, Deleted
  <2>2. store' \in {[store EXCEPT ![j] = Own], [store EXCEPT ![j] = Deleted]}
    BY <1>3 DEF UserWrite, UserDelete
  <2>3. QED
    BY <1>a, <1>1, <2>1, <2>2 DEF TypeOK
<1>4. ~UNCHANGED vars /\ ~Corrupt
  BY <1>1 DEF vars, durable, Corrupt
<1>5. QED
  BY <1>2, <1>3, <1>4, WhoJActs

\* Neither the walk nor the app's own import copies a generation older than one that
\* a marker says holds data, under a snapshot policy and with one session at a time.
THEOREM JournaledKnownDataNeverPassed ==
  ASSUME OneSession, SnapshotPolicy(Policy)
  PROVE  JSpec => KnownDataNeverPassed
<1> DEFINE Nearest == \A g, h \in Gen, k \in Key :
                        Copies(g, k) /\ h > g => wip[h] # "data" /\ done[h] # "data"
<1>1. JAloneInv /\ [JNext]_jvars => Nearest
  <2> SUFFICES ASSUME JAloneInv, [JNext]_jvars, NEW g \in Gen, NEW h \in Gen, NEW k \in Key,
                      Copies(g, k), h > g
               PROVE  wip[h] # "data" /\ done[h] # "data"
    OBVIOUS
  <2>1. PICK s \in Session : \/ pc[s] = "items" /\ cur[s] = g
                             \/ stage[s] = "copy" /\ aim[s] = "note" /\ sweep[s] = g
    BY WhoJCopies DEF JAloneInv
  <2>2. QED
    BY <2>1 DEF JAloneInv, WalkAlone, NoDataBehind, SweepNearest
<1>2. JAloneInv /\ [JNext]_jvars => JAloneInv'
  BY StepJAlone
<1>3. KnownDataNeverPassed <=> [][Nearest]_vars
  BY DEF KnownDataNeverPassed
<1> HIDE DEF Nearest
<1>4. QED
  BY <1>1, <1>2, <1>3, InitJAlone, PTL DEF JSpec

-------------------------------------------------------------------------------
(* One session: data that the journal has in the successor is not copied again.*)

\* What the session read of the stored journal is still what is stored.
LoadedAsStored(s) ==
  stage[s] \in {"seed", "note"} /\ Readable(stored) => journal[s] = stored

\* Its working copy has every resolution that the stored journal has, the binding
\* applied.
CopyKnowsStored(s) ==
  stage[s] \notin {"idle", "load", "seed", "note"} /\ aim[s] # "end" /\ Readable(stored) =>
    \A g \in Gen : IsDataBearing(Bound(s, stored[g])) => IsDataBearing(journal[s][g])

\* What it asks or copies itself is not among them.
AskedIsMissing(s) ==
  /\ pc[s] \in Asking => ~IsDataBearing(journal[s][cur[s]])
  /\ aim[s] = "note" /\ stage[s] # "note" => ~IsDataBearing(journal[s][sweep[s]])

Remembers(s) == LoadedAsStored(s) /\ CopyKnowsStored(s) /\ AskedIsMissing(s)

JMemoryInv == JAloneInv /\ \A s \in Session : Remembers(s)

LEMMA LoadsStored ==
  ASSUME WalkShape, NEW s \in Session, JActs(s), stage'[s] \in {"seed", "note"}
  PROVE  journal'[s] = stored'
<1>a. JTyped /\ JTyped' /\ StageOK(s)
  BY ShapeParts, WalkMoves, ActsInShape DEF WalkShape, InShape
<1>2. ASSUME NEW where, At(s, where) PROVE where \in {"seed", "note"}
  BY <1>2, <1>a DEF At, JTyped
<1>3. /\ ~At(s, "idle") /\ ~At(s, "load") /\ ~At(s, "merge") /\ ~At(s, "write")
      /\ ~At(s, "walk") /\ ~At(s, "readBack") /\ ~At(s, "noteMarker") /\ ~At(s, "noteRead")
      /\ ~At(s, "copy")
  BY <1>2
<1>4. (\A answer : ~Leave(s, answer)) /\ (\A j, read, unread : ~Established(s, j, read, unread))
  BY <1>3 DEF Leave, Established
<1>5. ASSUME UNCHANGED stage, stage[s] \in {"walk", "idle", "copy"} PROVE FALSE
  BY <1>5
<1>6. LoadJournal(s) \/ \E g \in Sweeps : NoteLoad(s, g)
  BY <1>3, <1>4, <1>5 DEF JActs, JStep, JFault, AppStep, BeginMigrationJournal, MigrateJournaled, Operate,
     SeedJournal, KeepJournal, RebuildJournal, ToStore, MergeStored, StoreJournal,
     JournalShortCut, BelieveSeal, AskAgain, JFetchSecrets, BeforeImport, Flagged, Return, Announced,
     JRecordInProgress, ReadBack, PlainAwait,
     ResolveOutcomes, JournalUnavailable, JMarkerUnreadable, NoteRefused, NoteStarted,
     NoteMarker, NoteReadBack, AppWrite, AppDone, Die, RaiseRevision, journaling
<1>7. QED
  BY <1>6, <1>a DEF LoadJournal, NoteLoad, JTyped

LEMMA LoadsAsStored ==
  ASSUME WalkShape, NEW s \in Session, JActs(s)
  PROVE  LoadedAsStored(s)'
BY LoadsStored DEF LoadedAsStored

LEMMA CopyStaysKnowing ==
  ASSUME WalkShape, NEW s \in Session, JActs(s), Remembers(s)
  PROVE  CopyKnowsStored(s)'
<1>a. /\ JTyped /\ JTyped' /\ StageOK(s) /\ TypeOK
      /\ LoadedAsStored(s) /\ CopyKnowsStored(s) /\ AskedIsMissing(s)
  BY ShapeParts, WalkMoves, ActsInShape DEF WalkShape, InShape, Remembers
<1>1. SUFFICES ASSUME stage'[s] \notin {"idle", "load", "seed", "note"}, aim'[s] # "end",
                      Readable(stored'), NEW g \in Gen, IsDataBearing(Bound(s, stored[g])')
               PROVE  IsDataBearing(journal'[s][g])
  BY DEF CopyKnowsStored
<1>2. ASSUME NEW where, At(s, where) PROVE where \notin {"idle", "load", "seed", "note"}
  BY <1>1, <1>2, <1>a DEF At, JTyped
<1>3. ~At(s, "idle") /\ ~At(s, "load") /\ ~At(s, "seed") /\ ~At(s, "note")
  BY <1>2
<1>4. ASSUME NEW answer PROVE ~Leave(s, answer)
  BY <1>3 DEF Leave
<1>5. revision'[s] = revision[s]
  BY <1>1, <1>3, <1>4 DEF JActs, JStep, JFault, AppStep, BeginMigrationJournal,
     MigrateJournaled, Operate, LoadJournal, SeedJournal, KeepJournal, RebuildJournal, ToStore,
     MergeStored, StoreJournal, Established, Flagged, Return, Announced, JournalShortCut,
     BelieveSeal, AskAgain, JFetchSecrets, JRecordInProgress, ReadBack, PlainAwait, ResolveOutcomes,
     JournalUnavailable, JMarkerUnreadable, NoteLoad, NoteRefused, NoteStarted, NoteMarker,
     NoteReadBack, AppWrite, AppDone, Die, RaiseRevision, journaling
<1>6. IsDataBearing(Bound(s, stored'[g]))
  BY <1>1, <1>5 DEF Bound
<1>7. stored' \in Entries
  BY <1>1, <1>a, ReadableEntries DEF JTyped, Readable, JournalValue
<1>8. IsDataBearing(stored'[g])
  BY <1>6, <1>7, EffectiveEntry DEF Bound, Entries
<1>9. CASE /\ UNCHANGED stored /\ stage[s] \notin {"idle", "load", "seed", "note"} /\ aim[s] # "end"
           /\ IsDataBearing(journal[s][g]) => IsDataBearing(journal'[s][g])
  BY <1>1, <1>6, <1>9, <1>a DEF CopyKnowsStored
<1>10. CASE SeedJournal(s)
  <2>1. UNCHANGED stored /\ stored \in Entries /\ Readable(stored) /\ stage[s] = "seed"
    BY <1>1, <1>7, <1>10 DEF SeedJournal
  <2>2. journal[s] = stored
    BY <1>a, <2>1 DEF LoadedAsStored
  <2>3. PICK unreadable \in SUBSET Gen : KeepJournal(s, unreadable)
    BY <1>10, <2>1, <2>2 DEF SeedJournal, RebuildJournal
  <2>4. PICK reopened \in SUBSET Gen :
          /\ \A h \in reopened : ~IsDataBearing(journal[s][h])
          /\ \E read, unread :
               IF reopened = {} THEN Established(s, journal[s], read, unread)
               ELSE ToStore(s, [h \in Gen |-> IF h \in reopened THEN MarkImportStarted(journal[s][h])
                                                               ELSE journal[s][h]], read, unread)
    <3> DEFINE read == {h \in Gen : ~IsPending(journal[s][h]) /\ ~IsDataBearing(journal[s][h])}
                         \ unreadable
               marked == {h \in read : ExactMarker(h) = "wipData"}
               j == [h \in Gen |-> IF h \in marked THEN MarkImportStarted(journal[s][h])
                                                  ELSE journal[s][h]]
    <3>1. marked \in SUBSET Gen /\ \A h \in marked : ~IsDataBearing(journal[s][h])
      OBVIOUS
    <3>2. \E r, unread : IF marked = {} THEN Established(s, j, r, unread)
                                        ELSE ToStore(s, j, r, unread)
      BY <2>3 DEF KeepJournal
    <3>3. marked = {} => j = journal[s]
      BY <2>1, <2>2 DEF Entries
    <3> HIDE DEF read
    <3>4. QED
      BY <3>1, <3>2, <3>3
  <2>5. IsDataBearing(journal[s][g])
    BY <1>8, <2>1, <2>2
  <2>6. CASE reopened = {}
    <3>1. journal'[s] = Rebind(s, journal[s])
      BY <1>a, <1>4, <2>4, <2>6 DEF Established, JTyped
    <3>2. QED
      BY <1>6, <2>1, <2>2, <3>1 DEF Rebind
  <2>7. CASE reopened # {}
    <3>1. journal'[s] = [h \in Gen |-> IF h \in reopened THEN MarkImportStarted(journal[s][h])
                                                        ELSE journal[s][h]]
      BY <1>a, <2>4, <2>7 DEF ToStore, JTyped
    <3>2. QED
      BY <2>4, <2>5, <3>1
  <2>8. QED
    BY <2>6, <2>7
<1>11. CASE MergeStored(s)
  <2>1. journal[s] \in Entries /\ UNCHANGED stored /\ journal'[s] = MergeInto(s, stored)
    BY <1>1, <1>7, <1>a, <1>11 DEF MergeStored, StageOK, Entries, JTyped, Readable
  <2>2. journal'[s][g] = MergeStates(Bound(s, stored[g]), Bound(s, journal[s][g]))
    BY <2>1 DEF MergeInto
  <2>3. Bound(s, stored[g]) \in JournalState /\ Bound(s, journal[s][g]) \in JournalState
    BY <1>7, <2>1, EffectiveEntry DEF Bound, Entries
  <2>4. QED
    BY <1>6, <2>1, <2>2, <2>3, MergeKeepsData
<1>12. CASE StoreJournal(s)
  <2>1. stored' = journal[s]
    BY <1>12 DEF StoreJournal
  <2>2. journal'[s] \in {journal[s], Rebind(s, journal[s])}
    BY <1>a, <1>4, <1>12 DEF StoreJournal, Established, Flagged, Return, Announced, JTyped
  <2>3. QED
    BY <1>6, <1>8, <2>1, <2>2 DEF Rebind
<1>13. CASE NoteStarted(s)
  <2>1. UNCHANGED stored /\ stored \in Entries /\ Readable(stored) /\ stage[s] = "note"
    BY <1>1, <1>7, <1>13 DEF NoteStarted
  <2>2. journal[s] = stored
    BY <1>a, <2>1 DEF LoadedAsStored
  <2>3. g # sweep[s]
    BY <1>6, <1>13, <2>1, <2>2 DEF NoteStarted, AlreadyImported
  <2>4. PICK after : journal' = [journal EXCEPT ![s] = [Rebind(s, @) EXCEPT ![sweep[s]] = after]]
    BY <1>13 DEF NoteStarted
  <2>5. journal'[s][g] = Rebind(s, journal[s])[g]
    BY <1>a, <2>3, <2>4 DEF JTyped, Rebind
  <2>6. QED
    BY <1>6, <2>1, <2>2, <2>5 DEF Rebind
<1>14. CASE AskAgain(s) \/ JFetchSecrets(s)
  <2>1. /\ stage[s] = "walk" /\ aim[s] = "none" /\ UNCHANGED stored /\ journal[s] \in Entries
        /\ ~IsDataBearing(journal[s][cur[s]])
    BY <1>a, <1>14 DEF AskAgain, JFetchSecrets, StageOK, ResolvedWithData, AskedIsMissing, Asking, Entries
  <2>2. UNCHANGED journal \/ \E entry : journal' = [journal EXCEPT ![s][cur[s]] = entry]
    BY <1>14 DEF AskAgain, JFetchSecrets, BeforeImport
  <2>3. ASSUME IsDataBearing(journal[s][g]) PROVE IsDataBearing(journal'[s][g])
    <3>1. g # cur[s]
      BY <2>1, <2>3
    <3>2. ASSUME NEW entry, journal' = [journal EXCEPT ![s][cur[s]] = entry]
          PROVE  journal'[s][g] = journal[s][g]
      <4>1. journal'[s] = [journal[s] EXCEPT ![cur[s]] = entry]
        BY <1>a, <3>2 DEF JTyped
      <4>2. QED
        BY <2>1, <3>1, <4>1 DEF Entries
    <3>3. QED
      BY <2>2, <2>3, <3>2
  <2>4. QED
    BY <1>9, <2>1, <2>3
<1>15. CASE \/ JournalShortCut(s) \/ (\E unreadable \in BOOLEAN : BelieveSeal(s, unreadable))
            \/ JRecordInProgress(s) \/ ReadBack(s) \/ PlainAwait(s) \/ JMarkerUnreadable(s)
            \/ NoteMarker(s) \/ NoteReadBack(s) \/ (\E k \in Key : AppWrite(s, k))
            \/ JournalUnavailable(s)
  <2>1. UNCHANGED <<stored, journal>>
    BY <1>4, <1>15 DEF JournalShortCut, BelieveSeal, JRecordInProgress, ReadBack, PlainAwait,
       JMarkerUnreadable, NoteMarker, NoteReadBack, AppWrite, JournalUnavailable, journaling
  <2>2. stage[s] \notin {"idle", "load", "seed", "note"} /\ aim[s] # "end"
    BY <1>a, <1>4, <1>15 DEF JournalShortCut, BelieveSeal, JRecordInProgress, ReadBack, PlainAwait,
       JMarkerUnreadable, NoteMarker, NoteReadBack, AppWrite, JournalUnavailable, StageOK
  <2>3. QED
    BY <1>9, <2>1, <2>2
<1>16. ~LoadJournal(s) /\ ~ResolveOutcomes(s) /\ ~BeginMigrationJournal(s) /\ ~MigrateJournaled(s)
         /\ ~RaiseRevision(s) /\ ~NoteRefused(s) /\ ~AppDone(s) /\ ~Die(s)
         /\ ~\E h \in Sweeps : NoteLoad(s, h)
  <2>1. ~For(s, "end")
    BY <1>1, <1>a DEF For, JTyped
  <2>2. QED
    BY <1>1, <1>3, <1>4, <2>1 DEF LoadJournal, ResolveOutcomes, BeginMigrationJournal,
       MigrateJournaled, Operate, RaiseRevision, NoteRefused, AppDone, Die, NoteLoad
<1>17. QED
  BY <1>10, <1>11, <1>12, <1>13, <1>14, <1>15, <1>16 DEF JActs, JStep, JFault, AppStep

\* Only AskAgain turns to a predecessor.
LEMMA WhoAsks ==
  ASSUME WalkShape, NEW s \in Session, JActs(s), pc'[s] \in Asking
  PROVE  AskAgain(s) \/ (pc[s] \in Asking /\ cur'[s] = cur[s])
<1>a. TypeOK /\ StageOK(s) /\ Moves(s)
  BY ShapeParts, WalkMoves DEF WalkShape
<1>1. ASSUME NEW kind, NEW terminated, NEW keys, Report(s, kind, terminated, keys) PROVE FALSE
  BY <1>a, <1>1 DEF Report, TypeOK, Asking
<1>2. ~Unresponsive(s) /\ ~WriterUnavailable(s)
  BY <1>1 DEF Unresponsive, WriterUnavailable
<1>3. CASE Asks(s)
  <2>1. pc[s] = "marker" /\ stage[s] = "walk" /\ pc' # pc
    BY <1>a, <1>3 DEF Asks, GoTo, TypeOK, StageOK
  <2>2. ASSUME Awaits(s) PROVE FALSE
    BY <1>a, <1>1, <1>2, <2>1, <2>2 DEF Awaits, StartRun, MarkerUnreadable, ProbeExecutable, NoAnswer,
       RecordInProgress, BeginMarkerFails, Item, WithholdItem, WriteSecret, WriteFails, Flush,
       FlushFails, RecordDone, CompleteMarkerFails, Crash, TypeOK, Asking
  <2>3. ~UNCHANGED vars
    BY <2>1 DEF vars, volatile
  <2>4. JActs(s) => AskAgain(s) \/ BelieveSeal(s, TRUE) \/ BelieveSeal(s, FALSE)
                     \/ JournalShortCut(s) \/ JFetchSecrets(s) \/ JRecordInProgress(s)
                     \/ PlainAwait(s) \/ JMarkerUnreadable(s) \/ Die(s)
    BY <2>1, <2>3 DEF JActs, JStep, JFault, AppStep, BeginMigrationJournal, MigrateJournaled,
       Operate, LoadJournal, SeedJournal, MergeStored, StoreJournal, ReadBack, ResolveOutcomes,
       JournalUnavailable, NoteLoad, NoteRefused, NoteStarted, NoteMarker, NoteReadBack, AppWrite,
       AppDone, RaiseRevision
  <2>5. CASE JournalShortCut(s) \/ BelieveSeal(s, TRUE) \/ BelieveSeal(s, FALSE)
    BY <1>1, <2>5 DEF JournalShortCut, BelieveSeal
  <2>6. CASE JFetchSecrets(s)
    BY <2>1, <2>6 DEF JFetchSecrets
  <2>7. CASE JRecordInProgress(s) \/ PlainAwait(s) \/ JMarkerUnreadable(s)
    BY <2>2, <2>7 DEF JRecordInProgress, PlainAwait, JMarkerUnreadable, Awaits
  <2>8. CASE Die(s)
    BY <2>1, <2>2, <2>8 DEF Die, Awaits
  <2>9. QED
    BY <2>4, <2>5, <2>6, <2>7, <2>8
<1>4. CASE ~Asks(s)
  BY <1>1, <1>2, <1>4, <1>a DEF Moves, Awaits, StartRun, MarkerUnreadable, ProbeExecutable, NoAnswer,
       RecordInProgress, BeginMarkerFails, Item, WithholdItem, WriteSecret, WriteFails, Flush,
       FlushFails, RecordDone, CompleteMarkerFails, Crash, PassesOver, Takes, HandsOver, HandOver,
       Marks, CopiesItself, GoTo, TypeOK, Asking, vars, durable, volatile
<1>5. QED
  BY <1>3, <1>4

LEMMA AskedStaysMissing ==
  ASSUME WalkShape, NEW s \in Session, JActs(s), Remembers(s), WalkAlone(s)
  PROVE  AskedIsMissing(s)'
<1> DEFINE Wanted(g) == \/ pc[s] \in Asking /\ g = cur[s]
                        \/ aim[s] = "note" /\ stage[s] # "note" /\ g = sweep[s]
<1>a. /\ JTyped /\ JTyped' /\ StageOK(s) /\ StageOK(s)' /\ TypeOK
      /\ CopyKnowsStored(s) /\ AskedIsMissing(s)
  BY ShapeParts, WalkMoves, ActsInShape DEF WalkShape, InShape, Remembers
<1>1. SUFFICES ASSUME NEW g, \/ pc'[s] \in Asking /\ g = cur'[s]
                             \/ aim'[s] = "note" /\ stage'[s] # "note" /\ g = sweep'[s]
               PROVE  ~IsDataBearing(journal'[s][g])
  BY DEF AskedIsMissing
<1>2. CASE AskAgain(s)
  <2>1. /\ pc[s] = "marker" /\ cur'[s] = cur[s] /\ stage[s] = "walk" /\ aim[s] = "none"
        /\ journal[s] \in Entries /\ ~IsDataBearing(journal[s][cur[s]])
    BY <1>a, <1>2 DEF AskAgain, StageOK, ResolvedWithData, Entries
  <2>2. cur[s] \in Gen /\ journal[s][cur[s]] \in JournalState
    BY <1>a, <2>1, CurrentGeneration DEF Entries
  <2>3. aim'[s] # "note"
    BY <1>a, <1>2, <2>1 DEF AskAgain, BeforeImport, For, JTyped
  <2>4. PICK entry \in {MarkImportStarted(journal[s][cur[s]]), journal[s][cur[s]]} :
          BeforeImport(s, entry, FALSE, "early")
    BY <1>2 DEF AskAgain
  <2>5. ~IsDataBearing(entry)
    BY <2>1, <2>2, <2>4, StartedEntry
  <2>6. journal'[s][cur[s]] \in {entry, journal[s][cur[s]]}
    BY <1>a, <2>1, <2>2, <2>4 DEF BeforeImport, JTyped, Entries
  <2>7. QED
    BY <1>1, <2>1, <2>3, <2>5, <2>6
<1>3. CASE NoteStarted(s)
  <2>1. /\ stage[s] = "note" /\ aim[s] = "note" /\ sweep'[s] = sweep[s] /\ pc'[s] = "idle"
        /\ journal[s] \in Entries /\ sweep[s] \in Gen
    BY <1>a, <1>3 DEF NoteStarted, StageOK, Entries, vars, volatile
  <2>2. PICK count : count = IF CountsItems THEN Cardinality(content[sweep[s]]) ELSE 0
    OBVIOUS
  <2>3. count \in Nat
    BY <1>a, <2>1, <2>2, JournalAssumption, FS_Subset, FS_CardinalityType DEF TypeOK
  <2>4. PICK after : /\ after = NoteItemsSeen(MarkImportStarted(Bound(s, journal[s][sweep[s]])), count)
                     /\ journal' = [journal EXCEPT ![s] = [Rebind(s, @) EXCEPT ![sweep[s]] = after]]
    BY <1>3, <2>2 DEF NoteStarted
  <2>5. journal'[s][sweep[s]] = after
    BY <1>a, <2>1, <2>4 DEF JTyped, Rebind
  <2>6. Bound(s, journal[s][sweep[s]]) \in JournalState /\ ~IsDataBearing(Bound(s, journal[s][sweep[s]]))
    BY <1>3, <2>1, EffectiveEntry DEF Bound, Entries, NoteStarted, AlreadyImported
  <2>7. ~IsDataBearing(after)
    BY <2>3, <2>4, <2>6, StartedEntry, CountedEntry
  <2>8. QED
    BY <1>1, <2>1, <2>5, <2>7 DEF Asking
<1>4. CASE ~AskAgain(s) /\ ~NoteStarted(s)
  <2>1. Wanted(g) /\ ~IsDataBearing(journal[s][g])
    BY <1>a, <1>1, <1>4, WhoAsks, WhoAnnounces DEF AskedIsMissing
  <2>2. g \in Gen /\ stage[s] \notin {"idle", "load", "seed", "note"} /\ aim[s] \notin {"end", "begin", "run"}
    BY <1>a, <2>1, CurrentGeneration DEF StageOK, Asking
  <2>3. journal[s] \in Entries
    BY <1>a, <2>2 DEF StageOK, Entries
  <2>4. stage'[s] # "idle"
    BY <1>a, <1>1 DEF StageOK, Asking
  <2>5. ASSUME NEW answer PROVE ~Leave(s, answer)
    BY <1>a, <2>4 DEF Leave, At, JTyped
  <2>6. CASE MergeStored(s)
    <3>1. ASSUME NEW j \in Entries, ~IsDataBearing(Bound(s, j[g])), journal'[s] = MergeInto(s, j)
          PROVE  ~IsDataBearing(journal'[s][g])
      <4>1. /\ Bound(s, j[g]) \in JournalState /\ Bound(s, journal[s][g]) \in JournalState
            /\ ~IsDataBearing(Bound(s, journal[s][g]))
        BY <2>1, <2>2, <2>3, EffectiveEntry DEF Bound, Entries
      <4>2. journal'[s][g] = MergeStates(Bound(s, j[g]), Bound(s, journal[s][g]))
        BY <2>2, <3>1 DEF MergeInto
      <4>3. QED
        BY <3>1, <4>1, <4>2, MergeKeepsData
    <3>2. CASE Readable(stored)
      <4>1. stored \in Entries /\ journal'[s] = MergeInto(s, stored)
        <5>1. stored \in Entries
          BY <1>a, <3>2, ReadableEntries DEF JTyped
        <5>2. journal'[s] = CASE Readable(stored)        -> MergeInto(s, stored)
                              [] stored = CorruptJournal -> MergeInto(s, FromMarkers)
                              [] stored = NoJournal      -> journal[s]
          BY <1>a, <2>6 DEF MergeStored, JTyped
        <5>3. stored # CorruptJournal /\ stored # NoJournal
          BY <3>2 DEF Readable
        <5>4. QED
          BY <3>2, <5>1, <5>2, <5>3
      <4>2. ~IsDataBearing(Bound(s, stored[g]))
        BY <1>a, <2>1, <2>2, <3>2 DEF CopyKnowsStored
      <4>3. QED
        BY <3>1, <4>1, <4>2
    <3>3. CASE stored = CorruptJournal
      <4>1. aim[s] # "note" /\ journal'[s] = MergeInto(s, FromMarkers)
        BY <1>a, <2>6, <3>3, JournalAssumption DEF MergeStored, JTyped, Readable
      <4>2. Unsealed(g)
        BY <2>1, <4>1 DEF WalkAlone, AskedOpen
      <4>3. FromMarkers[g] \in JournalState /\ ~IsDataBearing(FromMarkers[g])
        BY <1>a, <2>2, <4>2, Rebuilt, RebuiltClaims, ExactTells DEF Unsealed, Entries
      <4>4. ~IsDataBearing(Bound(s, FromMarkers[g]))
        BY <4>3, EffectiveEntry DEF Bound
      <4>5. QED
        BY <3>1, <4>1, <4>4, Rebuilt
    <3>4. CASE stored = NoJournal
      BY <1>a, <2>1, <2>6, <3>4, JournalAssumption DEF MergeStored, JTyped, Readable
    <3>5. QED
      BY <3>2, <3>3, <3>4 DEF Readable
  <2>7. CASE JFetchSecrets(s)
    <3>1. g = cur[s] /\ journal[s][g] \in JournalState
      BY <1>a, <2>1, <2>2, <2>3, <2>7 DEF JFetchSecrets, StageOK, Entries
    <3>2. CASE UNCHANGED journal
      BY <2>1, <3>2
    <3>3. CASE ~UNCHANGED journal
      <4>1. PICK exported \in JExport(s) :
              BeforeImport(s, NoteItemsSeen(MarkImportStarted(journal[s][g]),
                                            Cardinality(exported)),
                           Started(journal[s][g]), "late")
        BY <2>7, <3>1, <3>3 DEF JFetchSecrets
      <4>2. exported \subseteq Key
        BY <1>a, <2>2, <3>1 DEF JExport, Export, TypeOK
      <4>3. Cardinality(exported) \in Nat
        BY <4>2, JournalAssumption, FS_Subset, FS_CardinalityType
      <4>4. ~IsDataBearing(NoteItemsSeen(MarkImportStarted(journal[s][g]), Cardinality(exported)))
        BY <2>1, <3>1, <4>3, StartedEntry, CountedEntry
      <4>5. journal'[s][g] = NoteItemsSeen(MarkImportStarted(journal[s][g]), Cardinality(exported))
        BY <1>a, <2>2, <2>3, <3>1, <3>3, <4>1 DEF BeforeImport, JTyped, Entries
      <4>6. QED
        BY <4>4, <4>5
    <3>4. QED
      BY <3>2, <3>3
  <2>8. CASE ~MergeStored(s) /\ ~JFetchSecrets(s)
    <3>1. journal' = journal
      <4>0. stage[s] # "walk" \/ pc[s] # "idle"
        BY <1>a, <2>1 DEF StageOK, Asking
      <4>1. CASE JStep(s)
        BY <1>4, <2>2, <2>5, <2>8, <4>0, <4>1 DEF JStep, LoadJournal, SeedJournal, StoreJournal,
           Established, Flagged, Return, Announced, JournalShortCut, BelieveSeal,
           JRecordInProgress, ReadBack, PlainAwait, ResolveOutcomes, journaling
      <4>2. CASE AppStep(s)
        BY <1>4, <2>2, <2>5, <4>2 DEF AppStep, NoteLoad, NoteRefused, NoteMarker, NoteReadBack,
           AppWrite, AppDone, journaling
      <4>3. CASE JFault(s) \/ Die(s) \/ RaiseRevision(s) \/ BeginMigrationJournal(s)
                 \/ MigrateJournaled(s)
        BY <2>2, <2>5, <4>3 DEF JFault, JournalUnavailable, JMarkerUnreadable, Die, RaiseRevision,
           BeginMigrationJournal, MigrateJournaled, Operate
      <4>4. QED
        BY <4>1, <4>2, <4>3 DEF JActs
    <3>2. QED
      BY <2>1, <3>1
  <2>9. QED
    BY <2>6, <2>7, <2>8
<1>5. QED
  BY <1>2, <1>3, <1>4

LEMMA InitJMemory == JInit => JMemoryInv
<1> SUFFICES ASSUME JInit PROVE JMemoryInv
  OBVIOUS
<1>1. \A s \in Session : pc[s] = "idle" /\ aim[s] = "none" /\ stage[s] = "idle"
  BY DEF JInit, Init
<1>2. QED
  BY <1>1, InitJAlone
     DEF JMemoryInv, Remembers, LoadedAsStored, CopyKnowsStored, AskedIsMissing, Asking

LEMMA StepJMemory == OneSession /\ JMemoryInv /\ [JNext]_jvars => JMemoryInv'
<1> SUFFICES ASSUME OneSession, JMemoryInv, [JNext]_jvars PROVE JMemoryInv'
  OBVIOUS
<1>1. JAloneInv'
  BY StepJAlone DEF JMemoryInv
<1>2. ASSUME NEW s \in Session, JActs(s) PROVE JMemoryInv'
  <2>1. Remembers(s)' /\ \A t \in Session : t = s
    BY <1>2, LoadsAsStored, CopyStaysKnowing, AskedStaysMissing
       DEF JMemoryInv, JAloneInv, Remembers, OneSession
  <2>2. QED
    BY <1>1, <2>1 DEF JMemoryInv
<1>3. CASE \/ /\ UNCHANGED journaling /\ UNCHANGED volatile
              /\ UNCHANGED vars \/ \E k \in Key : UserWrite(k) \/ UserDelete(k)
           \/ Corrupt
  <2>1. /\ UNCHANGED <<pc, cur, journal, aim, stage, sweep, revision>>
        /\ UNCHANGED stored \/ stored' = CorruptJournal
    BY <1>3 DEF volatile, vars, durable, UserWrite, UserDelete, journaling, Corrupt
  <2>2. ASSUME NEW s \in Session PROVE Remembers(s)'
    <3>1. CASE UNCHANGED stored
      BY <2>1, <3>1 DEF JMemoryInv, Remembers, LoadedAsStored, CopyKnowsStored, AskedIsMissing, Bound
    <3>2. CASE stored' = CorruptJournal
      BY <2>1, <3>2
         DEF JMemoryInv, Remembers, LoadedAsStored, CopyKnowsStored, AskedIsMissing, Readable
    <3>3. QED
      BY <2>1, <3>1, <3>2
  <2>3. QED
    BY <1>1, <2>2 DEF JMemoryInv
<1>4. QED
  BY <1>2, <1>3, WhoJActs

\* A predecessor whose data the stored journal has in the successor, as it reads for the
\* build of any session, is copied by no step, walk or app, with one session at a time,
\* whatever is damaged, whatever the user deletes and whatever a session that died left.
THEOREM ResolvedNotReofferedHolds ==
  ASSUME OneSession
  PROVE  JSpec => ResolvedNotReoffered
<1> DEFINE Spared == \A s \in Session, g \in Gen, k \in Key :
                       Readable(stored) /\ IsDataBearing(Bound(s, stored[g])) => ~Copies(g, k)
<1>1. JMemoryInv /\ [JNext]_jvars => Spared
  <2> SUFFICES ASSUME JMemoryInv, [JNext]_jvars, NEW s \in Session, NEW g \in Gen, NEW k \in Key,
                      Readable(stored), IsDataBearing(Bound(s, stored[g])), Copies(g, k)
               PROVE  FALSE
    OBVIOUS
  <2>1. PICK t \in Session : \/ pc[t] = "items" /\ cur[t] = g
                             \/ stage[t] = "copy" /\ aim[t] = "note" /\ sweep[t] = g
    BY WhoJCopies DEF JMemoryInv, JAloneInv
  <2>2. t = s /\ StageOK(s)
    BY <2>1, ShapeParts DEF JMemoryInv, JAloneInv, WalkShape, OneSession
  <2>3. stage[s] \notin {"idle", "load", "seed", "note"} /\ aim[s] # "end"
    BY <2>1, <2>2 DEF StageOK
  <2>4. QED
    BY <2>1, <2>2, <2>3 DEF JMemoryInv, Remembers, CopyKnowsStored, AskedIsMissing, Asking
<1>2. JMemoryInv /\ [JNext]_jvars => JMemoryInv'
  BY StepJMemory
<1>3. ResolvedNotReoffered <=> [][Spared]_jvars
  BY DEF ResolvedNotReoffered
<1> HIDE DEF Spared
<1>4. QED
  BY <1>1, <1>2, <1>3, InitJMemory, PTL DEF JSpec

-------------------------------------------------------------------------------
(* One session: no answer passes over a partial copy.                         *)

\* The entry says that an import started, or gives way to the marker.
Shows(e) == Started(e) \/ (~IsPending(e) /\ ~IsDataBearing(e))

ShowsPartial(j) == j \in Entries => \A g \in Gen : PartlyCopied(g) => Shows(j[g])

\* The walk is under way, or waits for its journal.
Walking(s) == stage[s] \in {"walk", "readBack"} \/ aim[s] \in {"early", "late"}

\* A partial copy that the working copy does not flag has a marker to be read still.
TellsPartial(s) ==
  stage[s] \notin {"idle", "load", "seed"} /\ aim[s] # "note" =>
    \A g \in Gen : PartlyCopied(g) => Started(journal[s][g]) \/ g \in unverified[s]

UnverifiedUnread(s) == aim[s] # "end" => unverified[s] \cap checked[s] = {}

\* The walk asked for no such copy, and left its marker unread.
PassedUnread(s, g) ==
  /\ ~(pc[s] \in Asking /\ g = cur[s])
  /\ row[s][g] \in {"none", "superseded"} \/ already[s][g] \in {"unreadable", "bridged", "journal"}

LeavesUnread(s) ==
  Walking(s) =>
    \A g \in Gen : PartlyCopied(g) /\ ~Started(journal[s][g]) => PassedUnread(s, g)

\* Each predecessor that the walk is done with has its row.
RowsFilled(s) ==
  /\ pc[s] # "idle" => \A g \in Gen : g > cur[s] => row[s][g] # "none"
  /\ stage[s] = "walk" /\ pc[s] = "idle" => \A g \in Gen : row[s][g] # "none"

\* The flag is in the working copy before an item is held, and stored before it is
\* written.
FlaggedFirst(s) ==
  /\ pc[s] \in AfterFetch /\ items[s] # {} =>
       /\ Started(journal[s][cur[s]])
       /\ stage[s] \in {"walk", "readBack"} /\ Readable(stored) => Started(stored[cur[s]])
  /\ aim[s] = "note" /\ stage[s] # "note" =>
       /\ Started(journal[s][sweep[s]])
       /\ stage[s] \notin {"merge", "write"} /\ Readable(stored) => Started(stored[sweep[s]])

TellingInv ==
  /\ AnswerInv /\ JMemoryInv /\ ShowsPartial(stored)
  /\ \A s \in Session : /\ ShowsPartial(journal[s]) /\ TellsPartial(s) /\ UnverifiedUnread(s)
                        /\ LeavesUnread(s) /\ RowsFilled(s) /\ FlaggedFirst(s)

\* What the operators on entries leave of a flag.
LEMMA FlagEntries ==
  ASSUME NEW a \in JournalState
  PROVE  /\ Shows(a) => ~IsDataBearing(a)
         /\ Started(a) => Shows(a)
         /\ ~IsDataBearing(a) => Started(MarkImportStarted(a))
         /\ \A count \in Nat : Started(a) => Started(NoteItemsSeen(a, count))
BY DEF Shows, Started, IsDataBearing, IsPending, MarkImportStarted, NoteItemsSeen, Unresolved,
       JournalState, Kind

LEMMA MergedFlags ==
  ASSUME NEW a \in JournalState, NEW b \in JournalState, ~IsDataBearing(MergeStates(a, b))
  PROVE  /\ Started(a) \/ Started(b) => Started(MergeStates(a, b))
         /\ Shows(a) /\ Shows(b) => Shows(MergeStates(a, b))
BY SMTT(60) DEF MergeStates, MergeResolved, MergeSettled, MergePending, JournalState, IsNormal,
       Kind, Unresolved, Larger, IsPending, IsDataBearing, CompletenessRank, Shows, Started

\* No binding touches an entry that shows a partial copy.
LEMMA BoundFlags ==
  ASSUME NEW s, NEW g \in Gen, NEW a \in JournalState
  PROVE  /\ Started(a) => Bound(s, a) = a
         /\ Shows(a) /\ Warranted(g, a) => Bound(s, a) = a
         /\ Started(Bound(s, a)) => Started(a)
BY DEF Bound, Effective, Shows, Started, IsPending, IsDataBearing, Warranted, Unresolved, Fresh,
       JournalState, Kind, IsNormal

LEMMA RecordedFlags ==
  ASSUME NEW a \in JournalState, NEW r \in JournalState, ~IsDataBearing(Record(a, r))
  PROVE  /\ Started(a) => Started(Record(a, r))
         /\ Shows(a) /\ ~IsPending(r) => Shows(Record(a, r))
<1>1. PICK b \in JournalState : Record(a, r) = MergeStates(a, b) /\ b.kind = r.kind
  BY RecordedFields
<1>2. ~IsDataBearing(b)
  BY <1>1, MergeKeepsData
<1>3. ~IsPending(r) => Shows(b)
  BY <1>1, <1>2 DEF Shows, IsPending
<1>4. QED
  BY <1>1, <1>3, MergedFlags


\* A flag stays until the data is in, and an import that starts sets it.
LEMMA OpenFlags ==
  ASSUME NEW a \in JournalState, NEW count \in Nat
  PROVE  /\ ~IsDataBearing(MarkImportStarted(a)) => Started(MarkImportStarted(a))
         /\ ~IsDataBearing(NoteItemsSeen(MarkImportStarted(a), count)) =>
              Started(NoteItemsSeen(MarkImportStarted(a), count))
<1>1. MarkImportStarted(a) \in JournalState
  BY StartedEntry
<1>2. ~IsDataBearing(MarkImportStarted(a)) => ~IsDataBearing(a)
  BY StartedFields DEF IsDataBearing
<1>3. ~IsDataBearing(NoteItemsSeen(MarkImportStarted(a), count)) => ~IsDataBearing(MarkImportStarted(a))
  BY <1>1, StartedFields DEF IsDataBearing
<1>4. QED
  BY <1>1, <1>2, <1>3, FlagEntries

LEMMA RecordedShows ==
  ASSUME NEW s \in Session, NEW g \in Gen, JTyped, journal[s] \in Entries,
         ~IsDataBearing(Recorded(s, g))
  PROVE  /\ Started(journal[s][g]) => Started(Recorded(s, g))
         /\ Shows(journal[s][g]) => Shows(Recorded(s, g))
<1>1. journal[s][g] \in JournalState /\ Rejected(s, g) \in Nat /\ revision[s] \in Nat /\ 0 \in Nat
  BY RejectedCounts, JournalAssumption DEF Entries, JTyped
<1>2. \A r \in {Superseded, Imported, NoData, ImportedWithRejections(Rejected(s, g), revision[s], 0)} :
        r \in JournalState /\ ~IsPending(r)
  BY <1>1, EntriesOfWalks
     DEF IsPending, Superseded, Imported, NoData, ImportedWithRejections, Fresh
<1>3. \/ Recorded(s, g) = journal[s][g]
      \/ \E r \in {Superseded, Imported, NoData, ImportedWithRejections(Rejected(s, g), revision[s], 0)} :
           Recorded(s, g) = Record(journal[s][g], r)
  BY DEF Recorded
<1>4. QED
  BY <1>1, <1>2, <1>3, RecordedFlags

LEMMA WorksShow ==
  ASSUME AnswerInv, NEW s \in Session, JActs(s), journal'[s] \in Entries, NEW g \in Gen,
         ~IsDataBearing(journal'[s][g])
  PROVE  /\ stage[s] \notin {"idle", "load"} /\ journal[s] \in Entries /\ Started(journal[s][g]) =>
              Started(journal'[s][g])
         /\ PartlyCopied(g) /\ ShowsPartial(stored) /\ ShowsPartial(journal[s]) =>
              Shows(journal'[s][g])
<1> DEFINE Had == stage[s] \notin {"idle", "load"} /\ journal[s] \in Entries /\ Started(journal[s][g])
           Part == PartlyCopied(g) /\ ShowsPartial(stored) /\ ShowsPartial(journal[s])
           Good(e) == (Had => Started(e)) /\ (Part => Shows(e))
<1>a. /\ JournalInv /\ Shape /\ RunInv /\ TypeOK /\ JTyped /\ StageOK(s)
      /\ AllWarranted(journal[s]) /\ AllWarranted(stored)
  BY ShapeParts DEF AnswerInv, JournalInv, WalkShape
<1>b. journal[s] \in Entries =>
        journal[s][g] \in JournalState /\ Good(journal[s][g]) /\ Warranted(g, journal[s][g])
  BY <1>a DEF ShowsPartial, AllWarranted, Entries
<1>c. stored \in Entries =>
        stored[g] \in JournalState /\ (Part => Shows(stored[g])) /\ Warranted(g, stored[g])
  BY <1>a DEF ShowsPartial, AllWarranted, Entries
<1>d. FromMarkers[g] \in JournalState /\ (Part => Started(FromMarkers[g]))
  BY <1>a, Rebuilt, PartialMarked DEF Entries
<1>e. \A e \in JournalState : Started(e) => Good(e)
  BY FlagEntries
<1>f. \A e \in JournalState : Good(e) /\ Warranted(g, e) => Good(Bound(s, e))
  BY BoundFlags
<1> SUFFICES Good(journal'[s][g])
  OBVIOUS
<1> HIDE DEF Had, Part
<1>1. CASE journal'[s] = journal[s]
  BY <1>b, <1>1
<1>2. ~(\E answer : Leave(s, answer))
  <2>1. ASSUME NEW answer, Leave(s, answer) PROVE journal'[s] = NoJournal
    BY <1>a, <2>1 DEF Leave, JTyped
  <2>2. NoJournal \notin Entries
    BY JournalAssumption DEF Entries
  <2>3. QED
    BY <2>1, <2>2
<1>3. ASSUME NEW j \in Entries, Good(j[g]), Warranted(g, j[g]),
             NEW read, NEW unread, Established(s, j, read, unread)
      PROVE  Good(journal'[s][g])
  <2>1. journal'[s] = Rebind(s, j)
    BY <1>2, <1>3, <1>a DEF Established, JTyped
  <2>2. journal'[s][g] = Bound(s, j[g]) /\ j[g] \in JournalState
    BY <1>3, <2>1 DEF Rebind, Entries
  <2>3. QED
    BY <1>3, <1>f, <2>2
<1>4. ASSUME NEW j \in Entries, Good(j[g]), NEW read, NEW unread, ToStore(s, j, read, unread)
      PROVE  Good(journal'[s][g])
  BY <1>a, <1>4 DEF ToStore, JTyped
<1>5. CASE journal' = journal
  BY <1>1, <1>5
<1>6. CASE LoadJournal(s) \/ \E h \in Sweeps : NoteLoad(s, h)
  <2>1. journal'[s] = stored /\ ~Had
    BY <1>6, <1>a DEF LoadJournal, NoteLoad, JTyped, Had
  <2>2. QED
    BY <1>c, <2>1
<1>7. CASE SeedJournal(s)
  <2>1. ASSUME NEW unreadable \in SUBSET Gen, KeepJournal(s, unreadable) PROVE Good(journal'[s][g])
    <3>1. journal[s] \in Entries
      BY <1>a, <2>1, ReadableEntries DEF KeepJournal, JTyped
    <3>2. PICK reopened \in SUBSET {h \in Gen : /\ ExactMarker(h) = "wipData"
                                             /\ ~IsDataBearing(journal[s][h])} :
            LET j == [h \in Gen |-> IF h \in reopened THEN MarkImportStarted(journal[s][h])
                                                       ELSE journal[s][h]]
            IN \E read, unread : Established(s, j, read, unread) \/ ToStore(s, j, read, unread)
      BY <2>1 DEF KeepJournal
    <3>3. PICK j : j = [h \in Gen |-> IF h \in reopened THEN MarkImportStarted(journal[s][h])
                                                         ELSE journal[s][h]]
      OBVIOUS
    <3>4. j \in Entries
      BY <3>1, <3>3, StartedEntry DEF Entries
    <3>5. Good(j[g]) /\ Warranted(g, j[g])
      <4>1. CASE g \in reopened
        <5>1. j[g] = MarkImportStarted(journal[s][g]) /\ Started(j[g]) /\ content[g] # {}
          BY <1>a, <1>b, <3>1, <3>2, <3>3, <4>1, FlagEntries, ExactTells DEF KnownReal, AnswerInv
        <5>2. QED
          BY <1>b, <1>e, <3>1, <3>4, <5>1, StartedWarranted DEF Entries
      <4>2. CASE g \notin reopened
        BY <1>b, <3>1, <3>3, <4>2
      <4>3. QED
        BY <4>1, <4>2
    <3>6. QED
      BY <1>3, <1>4, <3>2, <3>3, <3>4, <3>5
  <2>2. CASE RebuildJournal(s)
    <3>1. ~Readable(journal[s]) /\ journal[s] \in JournalValue
      BY <1>a, <2>2 DEF RebuildJournal, JTyped
    <3>2. ~Had
      BY <3>1, ReadableEntries DEF Had
    <3>3. Good(FromMarkers[g])
      BY <1>d, <3>2, FlagEntries
    <3>4. QED
      BY <1>4, <2>2, <3>3, Rebuilt DEF RebuildJournal
  <2>3. QED
    BY <1>7, <2>1, <2>2 DEF SeedJournal
<1>8. CASE MergeStored(s)
  <2>1. journal[s] \in Entries /\ Bound(s, journal[s][g]) \in JournalState
        /\ Good(Bound(s, journal[s][g]))
    BY <1>a, <1>b, <1>f, <1>8, EffectiveEntry DEF MergeStored, StageOK, Entries, Bound
  <2>2. journal'[s] \in {journal[s], MergeInto(s, FromMarkers)}
          \/ (Readable(stored) /\ journal'[s] = MergeInto(s, stored))
    BY <1>a, <1>8 DEF MergeStored, JTyped, Readable
  <2>3. ASSUME NEW j \in Entries, journal'[s] = MergeInto(s, j), Part => Shows(Bound(s, j[g]))
        PROVE  Good(journal'[s][g])
    <3>1. /\ journal'[s][g] = MergeStates(Bound(s, j[g]), Bound(s, journal[s][g]))
          /\ Bound(s, j[g]) \in JournalState
      BY <2>3, EffectiveEntry DEF MergeInto, Entries, Bound
    <3>2. QED
      BY <2>1, <2>3, <3>1, MergedFlags
  <2>4. CASE journal'[s] = MergeInto(s, FromMarkers)
    <3>1. Part => Shows(Bound(s, FromMarkers[g]))
      BY <1>d, BoundFlags, FlagEntries
    <3>2. QED
      BY <2>3, <2>4, <3>1, Rebuilt
  <2>5. CASE Readable(stored) /\ journal'[s] = MergeInto(s, stored)
    <3>1. stored \in Entries
      BY <1>a, <2>5, ReadableEntries DEF JTyped
    <3>2. Part => Shows(Bound(s, stored[g]))
      BY <1>c, <3>1, BoundFlags
    <3>3. QED
      BY <2>3, <2>5, <3>1, <3>2
  <2>6. QED
    BY <1>1, <2>2, <2>4, <2>5
<1>9. CASE StoreJournal(s)
  <2>1. journal[s] \in Entries
    BY <1>a, <1>9 DEF StoreJournal, StageOK, Entries
  <2>2. QED
    BY <1>2, <1>b, <1>3, <1>5, <1>9, <2>1 DEF StoreJournal, Flagged, Return, Announced
<1>10. CASE AskAgain(s) \/ JFetchSecrets(s)
  <2>1. /\ journal[s] \in Entries /\ cur[s] \in Gen /\ journal[s][cur[s]] \in JournalState
    BY <1>a, <1>10, CurrentGeneration DEF AskAgain, JFetchSecrets, StageOK, Entries
  <2>2. CASE AskAgain(s)
    <3>1. PICK entry \in {MarkImportStarted(journal[s][cur[s]]), journal[s][cur[s]]} :
            BeforeImport(s, entry, FALSE, "early")
      BY <2>2 DEF AskAgain
    <3>2. entry \in JournalState
      BY <2>1, <3>1, StartedEntry
    <3>3. CASE UNCHANGED journal
      BY <1>5, <3>3
    <3>4. CASE journal' = [journal EXCEPT ![s][cur[s]] = entry]
      <4>1. journal'[s][g] = IF g = cur[s] THEN entry ELSE journal[s][g]
        BY <1>a, <2>1, <3>4 DEF JTyped, Entries
      <4>2. g = cur[s] /\ entry = MarkImportStarted(journal[s][g]) => Started(entry)
        BY <2>1, <4>1, OpenFlags, 0 \in Nat
      <4>3. QED
        BY <1>b, <1>e, <2>1, <3>1, <3>2, <4>1, <4>2
    <3>5. QED
      BY <3>1, <3>3, <3>4 DEF BeforeImport
  <2>3. CASE JFetchSecrets(s)
    <3>1. CASE UNCHANGED journal
      BY <1>5, <3>1
    <3>2. CASE ~UNCHANGED journal
      <4>1. PICK exported \in JExport(s) :
              BeforeImport(s, NoteItemsSeen(MarkImportStarted(journal[s][cur[s]]),
                                            Cardinality(exported)),
                           Started(journal[s][cur[s]]), "late")
        BY <2>3, <3>2 DEF JFetchSecrets
      <4>2. exported \subseteq Key
        BY <1>a, <2>1 DEF JExport, Export, TypeOK
      <4>3. Cardinality(exported) \in Nat
        BY <4>2, JournalAssumption, FS_Subset, FS_CardinalityType
      <4>4. PICK entry : entry = NoteItemsSeen(MarkImportStarted(journal[s][cur[s]]),
                                               Cardinality(exported))
        OBVIOUS
      <4>5. entry \in JournalState /\ (~IsDataBearing(entry) => Started(entry))
        BY <2>1, <4>3, <4>4, OpenFlags, StartedEntry, CountedEntry
      <4>6. journal' = [journal EXCEPT ![s][cur[s]] = entry]
        BY <3>2, <4>1, <4>4 DEF BeforeImport
      <4>7. journal'[s][g] = IF g = cur[s] THEN entry ELSE journal[s][g]
        BY <1>a, <2>1, <4>6 DEF JTyped, Entries
      <4>8. QED
        BY <1>b, <1>e, <2>1, <4>5, <4>7
    <3>3. QED
      BY <3>1, <3>2
  <2>4. QED
    BY <1>10, <2>2, <2>3
<1>11. CASE ResolveOutcomes(s)
  <2>1. journal[s] \in Entries
    BY <1>a, <1>11 DEF ResolveOutcomes, StageOK, Entries
  <2>2. journal'[s][g] \in {MarkImportStarted(Recorded(s, g)), Recorded(s, g)}
    BY <1>a, <1>11 DEF ResolveOutcomes, Resolve, JTyped
  <2>3. Recorded(s, g) \in JournalState
    BY <1>a, <2>1, RecordedIsState
  <2>4. CASE journal'[s][g] = MarkImportStarted(Recorded(s, g))
    BY <1>e, <2>3, <2>4, OpenFlags, StartedEntry, 0 \in Nat
  <2>5. CASE journal'[s][g] = Recorded(s, g)
    BY <1>a, <1>b, <2>1, <2>5, RecordedShows
  <2>6. QED
    BY <2>2, <2>4, <2>5
<1>12. CASE NoteStarted(s)
  <2>1. sweep[s] \in Gen /\ journal[s] \in Entries
    BY <1>a, <1>12 DEF NoteStarted, StageOK, Entries
  <2>2. PICK count : /\ count = IF CountsItems THEN Cardinality(content[sweep[s]]) ELSE 0
    OBVIOUS
  <2>3. count \in Nat
    BY <1>a, <2>1, <2>2, JournalAssumption, FS_Subset, FS_CardinalityType DEF TypeOK
  <2>4. PICK after :
           /\ after = NoteItemsSeen(MarkImportStarted(Bound(s, journal[s][sweep[s]])), count)
           /\ journal' = [journal EXCEPT ![s] = [Rebind(s, @) EXCEPT ![sweep[s]] = after]]
    BY <1>12, <2>2 DEF NoteStarted
  <2>5. journal'[s][g] = IF g = sweep[s] THEN after ELSE Bound(s, journal[s][g])
    BY <1>a, <2>1, <2>4, Rebound DEF JTyped, Entries, Rebind
  <2>6. after \in JournalState /\ (~IsDataBearing(after) => Started(after))
    <3>1. Bound(s, journal[s][sweep[s]]) \in JournalState
      BY <2>1, EffectiveEntry DEF Bound, Entries
    <3>2. QED
      BY <2>3, <2>4, <3>1, OpenFlags, StartedEntry, CountedEntry
  <2>7. QED
    BY <1>b, <1>e, <1>f, <2>1, <2>5, <2>6
<1>13. CASE \/ BeginMigrationJournal(s) \/ MigrateJournaled(s) \/ JournalShortCut(s)
            \/ (\E unreadable \in BOOLEAN : BelieveSeal(s, unreadable)) \/ JRecordInProgress(s)
            \/ ReadBack(s) \/ PlainAwait(s) \/ JMarkerUnreadable(s) \/ NoteMarker(s)
            \/ (\E k \in Key : AppWrite(s, k)) \/ RaiseRevision(s)
  BY <1>5, <1>13 DEF BeginMigrationJournal, MigrateJournaled, Operate, JournalShortCut, BelieveSeal,
       JRecordInProgress, ReadBack, PlainAwait, JMarkerUnreadable, NoteMarker, AppWrite,
       RaiseRevision, journaling
<1>14. CASE JournalUnavailable(s) \/ NoteRefused(s) \/ NoteReadBack(s) \/ AppDone(s) \/ Die(s)
  BY <1>2, <1>5, <1>14 DEF JournalUnavailable, NoteRefused, NoteReadBack, AppDone, Die
<1>15. QED
  BY <1>6, <1>7, <1>8, <1>9, <1>10, <1>11, <1>12, <1>13, <1>14 DEF JActs, JStep, JFault, AppStep

\* A copy that becomes partial is of a predecessor that is flagged, and stored so.
LEMMA CopiesFlagged ==
  ASSUME AnswerInv, NEW s \in Session, FlaggedFirst(s), JActs(s),
         NEW g \in Gen, PartlyCopied(g)', ~PartlyCopied(g)
  PROVE  /\ UNCHANGED journaling /\ stage[s] \in {"walk", "copy"}
         /\ Started(journal[s][g]) /\ (Readable(stored) => Started(stored[g]))
<1>a. /\ WalkShape /\ Shape /\ RunInv /\ TypeOK /\ JTyped /\ StageOK(s) /\ Moves(s) /\ TalliedInHand
  BY ShapeParts, WalkMoves DEF AnswerInv, JournalInv, WalkShape
<1>1. ~TakenOver(g)
  BY <1>a, MovesHold, TakenStays DEF PartlyCopied
<1>2. PICK k \in Key : store'[k] = g /\ store[k] # g
  BY <1>1 DEF PartlyCopied
<1>3. ~UNCHANGED store /\ ~UNCHANGED vars /\ ~UNCHANGED durable
  BY <1>2 DEF vars, durable
<1>4. PlainAwait(s) \/ \E j \in Key : AppWrite(s, j)
  <2>1. ~StartRun(s) /\ ~Crash(s) /\ ~HandOver(s) /\ ~MarkerUnreadable(s) /\ ~RecordInProgress(s)
    BY <1>3 DEF StartRun, Crash, HandOver, MarkerUnreadable, RecordInProgress
  <2>2. \A j, read, unread : ~Established(s, j, read, unread)
    BY <1>3, <2>1 DEF Established
  <2>3. CASE JStep(s)
    BY <1>3, <2>1, <2>2, <2>3 DEF JStep, LoadJournal, SeedJournal, KeepJournal, RebuildJournal, ToStore,
       MergeStored, StoreJournal, Flagged, Return, Announced, JournalShortCut, BelieveSeal, AskAgain,
       JFetchSecrets, JRecordInProgress, ReadBack, ResolveOutcomes
  <2>4. CASE AppStep(s)
    BY <1>3, <2>4 DEF AppStep, NoteLoad, NoteRefused, NoteStarted, NoteMarker, NoteReadBack, AppDone
  <2>5. CASE JFault(s) \/ Die(s) \/ RaiseRevision(s) \/ BeginMigrationJournal(s) \/ MigrateJournaled(s)
    BY <1>3, <2>1, <2>5 DEF JFault, JournalUnavailable, JMarkerUnreadable, Die, RaiseRevision,
       BeginMigrationJournal, MigrateJournaled, Operate
  <2>6. QED
    BY <2>3, <2>4, <2>5 DEF JActs
<1>5. CASE PlainAwait(s)
  <2>1. WriteSecret(s, k) \/ Flush(s) \/ FlushFails(s)
    <3>1. ASSUME NEW j \in Key, WriteSecret(s, j) PROVE WriteSecret(s, k)
      <4>1. store' \in {store, [store EXCEPT ![j] = cur[s]]}
        BY <3>1 DEF WriteSecret
      <4>2. j = k
        BY <1>2, <1>a, <4>1 DEF TypeOK
      <4>3. QED
        BY <3>1, <4>2
    <3>2. QED
      BY <1>3, <1>5, <3>1 DEF PlainAwait, ProbeExecutable, NoAnswer, BeginMarkerFails, Item, WithholdItem,
         WriteFails, RecordDone, CompleteMarkerFails
  <2>2. CASE WriteSecret(s, k)
    <3>1. k \in items[s] /\ pc[s] = "items"
      BY <2>2 DEF WriteSecret, Pending
    <3>2. store' \in {store, [store EXCEPT ![k] = cur[s]]}
      BY <2>2 DEF WriteSecret
    <3>3. cur[s] = g
      BY <1>2, <1>a, <3>2 DEF TypeOK
    <3>4. QED
      BY <1>5, <3>1, <3>3 DEF PlainAwait, FlaggedFirst, AfterFetch, journaling
  <2>3. CASE Flush(s) \/ FlushFails(s)
    <3>1. pc[s] = "items"
      BY <2>3 DEF Flush, FlushFails
    <3>2. PICK keys \in SUBSET OfferedAs(s, "written") : store' = Land(cur[s], keys)
      BY <1>3, <2>3 DEF Flush, FlushFails
    <3>3. cur[s] = g /\ k \in keys
      BY <1>2, <3>2 DEF Land
    <3>4. k \in items[s]
      BY <1>a, <3>1, <3>2, <3>3 DEF OfferedAs, TalliedInHand
    <3>5. QED
      BY <1>5, <3>1, <3>3, <3>4 DEF PlainAwait, FlaggedFirst, AfterFetch, journaling
  <2>4. QED
    BY <2>1, <2>2, <2>3
<1>6. CASE \E j \in Key : AppWrite(s, j)
  <2>1. PICK j \in Key : AppWrite(s, j)
    BY <1>6
  <2>2. store' = [store EXCEPT ![j] = sweep[s]] /\ stage[s] = "copy" /\ UNCHANGED journaling
    BY <2>1 DEF AppWrite
  <2>3. sweep[s] = g /\ aim[s] = "note"
    BY <1>2, <1>a, <2>2 DEF TypeOK, StageOK
  <2>4. QED
    BY <2>2, <2>3 DEF FlaggedFirst, journaling
<1>7. QED
  BY <1>4, <1>5, <1>6

LEMMA ShowsStay ==
  ASSUME AnswerInv, AnswerInv', NEW s \in Session, FlaggedFirst(s), JActs(s),
         ShowsPartial(stored), ShowsPartial(journal[s])
  PROVE  ShowsPartial(stored)' /\ ShowsPartial(journal[s])'
<1>a. JTyped /\ Honest(stored)' /\ Honest(journal[s])' /\ stored' \in {stored, journal[s]}
  BY ShapeParts, WhoStores DEF AnswerInv, JournalInv, WalkShape
<1>1. ASSUME journal'[s] \in Entries, NEW g \in Gen, PartlyCopied(g)' PROVE Shows(journal'[s][g])
  <2>1. ~IsDataBearing(journal'[s][g])
    BY <1>a, <1>1 DEF Honest, PartlyCopied
  <2>2. CASE PartlyCopied(g)
    BY <1>1, <2>1, <2>2, WorksShow
  <2>3. CASE ~PartlyCopied(g)
    BY <1>1, <2>3, CopiesFlagged DEF journaling, Shows
  <2>4. QED
    BY <2>2, <2>3
<1>2. ASSUME stored' \in Entries, NEW g \in Gen, PartlyCopied(g)' PROVE Shows(stored'[g])
  <2>1. CASE PartlyCopied(g)
    BY <1>a, <1>2, <2>1 DEF ShowsPartial
  <2>2. CASE ~PartlyCopied(g)
    <3>1. UNCHANGED stored /\ (Readable(stored) => Started(stored[g]))
      BY <1>2, <2>2, CopiesFlagged DEF journaling
    <3>2. Readable(stored)
      BY <1>a, <1>2, <3>1, ReadableEntries DEF JTyped
    <3>3. QED
      BY <3>1, <3>2 DEF Shows
  <2>3. QED
    BY <2>1, <2>2
<1>3. QED
  BY <1>1, <1>2 DEF ShowsPartial

\* A start leaves of each partial copy either the flag or a marker to read.
LEMMA KeepsTelling ==
  ASSUME AnswerInv, NEW s \in Session, ShowsPartial(journal[s]), journal[s] \in Entries,
         NEW unreadable \in SUBSET Gen, KeepJournal(s, unreadable)
  PROVE  \E j \in Entries, read \in SUBSET Gen, unread \in SUBSET Gen :
           /\ Established(s, j, read, unread) \/ ToStore(s, j, read, unread)
           /\ unread \cap read = {}
           /\ \A g \in Gen : PartlyCopied(g) => /\ Started(j[g]) \/ g \in unread
                                                /\ Shows(j[g]) /\ Warranted(g, j[g])
<1>a. /\ JTyped /\ TypeOK /\ JournalInv /\ KnownReal /\ AllWarranted(journal[s])
  BY ShapeParts DEF AnswerInv, JournalInv, WalkShape
<1>1. PICK resolved :
        resolved = {g \in Gen : ~IsPending(journal[s][g]) /\ ~IsDataBearing(journal[s][g])}
  OBVIOUS
<1>2. PICK read : read = resolved \ unreadable
  OBVIOUS
<1>3. PICK reopened : reopened = {g \in read : ExactMarker(g) = "wipData"}
  OBVIOUS
<1>4. PICK j : j = [g \in Gen |-> IF g \in reopened THEN MarkImportStarted(journal[s][g])
                                                    ELSE journal[s][g]]
  OBVIOUS
<1>5. Established(s, j, read, resolved \ read) \/ ToStore(s, j, read, resolved \ read)
  BY <1>1, <1>2, <1>3, <1>4 DEF KeepJournal
<1>6. j \in Entries /\ read \in SUBSET Gen /\ resolved \ read \in SUBSET Gen
      /\ (resolved \ read) \cap read = {}
  BY <1>1, <1>2, <1>3, <1>4, StartedEntry DEF Entries
<1>7. ASSUME NEW g \in Gen, PartlyCopied(g)
      PROVE  (Started(j[g]) \/ g \in resolved \ read) /\ Shows(j[g]) /\ Warranted(g, j[g])
  <2>1. journal[s][g] \in JournalState /\ Shows(journal[s][g]) /\ Warranted(g, journal[s][g])
    BY <1>a, <1>7 DEF ShowsPartial, AllWarranted, Entries
  <2>2. ExactMarker(g) = "wipData"
    BY <1>a, <1>7, PartialMarked
  <2>3. CASE g \in reopened
    <3>1. j[g] = MarkImportStarted(journal[s][g]) /\ Started(j[g]) /\ content[g] # {}
      BY <1>a, <1>4, <2>1, <2>2, <2>3, FlagEntries, ExactTells DEF KnownReal
    <3>2. QED
      BY <2>1, <3>1, StartedWarranted, 0 \in Nat DEF Shows
  <2>4. CASE g \notin reopened
    <3>1. j[g] = journal[s][g] /\ g \notin read
      BY <1>3, <1>4, <2>2, <2>4
    <3>2. Started(journal[s][g]) \/ g \in resolved
      BY <1>1, <2>1 DEF Shows
    <3>3. QED
      BY <2>1, <3>1, <3>2
  <2>5. QED
    BY <2>3, <2>4
<1>8. QED
  BY <1>5, <1>6, <1>7

LEMMA BoundTelling ==
  ASSUME NEW s, NEW g \in Gen, NEW a \in JournalState, Warranted(g, a), Shows(a)
  PROVE  Bound(s, a) = a /\ Started(MarkImportStarted(a))
           /\ Bound(s, MarkImportStarted(a)) = MarkImportStarted(a)
<1>1. Started(MarkImportStarted(a)) /\ MarkImportStarted(a) \in JournalState
  BY FlagEntries, StartedEntry
<1>2. QED
  BY <1>1, BoundFlags

\* The check after the walk finds each partial copy that is not flagged.
LEMMA ResolveTells ==
  ASSUME AnswerInv, AnswerInv', NEW s \in Session, ResolveOutcomes(s), ShowsPartial(journal[s]),
         TellsPartial(s), UnverifiedUnread(s), LeavesUnread(s), RowsFilled(s),
         NEW g \in Gen, PartlyCopied(g)
  PROVE  Started(journal'[s][g]) \/ g \in unverified'[s]
<1>a. /\ JournalInv /\ JTyped /\ StageOK(s) /\ TypeOK /\ Honest(journal[s])'
  BY ShapeParts DEF AnswerInv, JournalInv, WalkShape
<1>1. /\ stage[s] = "walk" /\ pc[s] = "idle" /\ aim[s] = "none" /\ journal[s] \in Entries
      /\ Recorded(s, g) \in JournalState
  BY <1>a, RecordedIsState DEF ResolveOutcomes, StageOK, Entries
<1>2. PICK unreadable \in SUBSET Gen : Resolve(s, unreadable)
  BY DEF ResolveOutcomes
<1>3. PICK unread :
        unread = {h \in Gen : /\ Unread(s, h)
                              /\ ~IsDataBearing(Recorded(s, h)) /\ ~Started(Recorded(s, h))}
  OBVIOUS
<1>4. PICK reached :
        reached = {h \in Gen : row[s][h] # "superseded"
                                 /\ already[s][h] \notin {"unreadable", "bridged", "journal"}}
  OBVIOUS
<1>5. journal' = [journal EXCEPT ![s] = [h \in Gen |->
                    IF h \in unread \ unreadable /\ ExactMarker(h) = "wipData"
                    THEN MarkImportStarted(Recorded(s, h)) ELSE Recorded(s, h)]]
  BY <1>2, <1>3 DEF Resolve
<1>6. unverified' = [unverified EXCEPT ![s] =
                       ((@ \ unread) \cup (unread \cap unreadable)) \ reached]
  BY <1>2, <1>3, <1>4 DEF Resolve
<1>7. /\ journal'[s] \in Entries
      /\ journal'[s][g] = IF g \in unread \ unreadable /\ ExactMarker(g) = "wipData"
                          THEN MarkImportStarted(Recorded(s, g)) ELSE Recorded(s, g)
      /\ unverified'[s] = ((unverified[s] \ unread) \cup (unread \cap unreadable)) \ reached
  <2>1. \A h \in Gen : Recorded(s, h) \in JournalState /\ MarkImportStarted(Recorded(s, h)) \in JournalState
    BY <1>a, <1>1, RecordedIsState, StartedEntry
  <2>2. QED
    BY <1>a, <1>5, <1>6, <2>1 DEF JTyped, Entries
<1>8. ~TakenOver(g)' /\ ~TakenOver(g) /\ ExactMarker(g) = "wipData"
  <2>1. UNCHANGED vars
    BY DEF ResolveOutcomes
  <2>2. QED
    BY <1>a, <2>1, PartialMarked DEF TakenOver, EverHeld, vars, durable
<1>9. ~IsDataBearing(journal'[s][g])
  BY <1>a, <1>7, <1>8 DEF Honest
<1>10. CASE Started(journal[s][g])
  BY <1>1, <1>7, <1>9, <1>10, WorksShow DEF JActs, JStep
<1>11. CASE ~Started(journal[s][g])
  <2>1. g \in unverified[s] /\ g \notin checked[s]
    BY <1>1, <1>11 DEF TellsPartial, UnverifiedUnread
  <2>2. Unread(s, g) /\ g \notin reached
    BY <1>1, <1>4, <1>11, <2>1 DEF LeavesUnread, Walking, PassedUnread, RowsFilled, Unread
  <2>3. CASE g \in unread
    BY <1>1, <1>7, <1>8, <1>9, <2>2, <2>3, OpenFlags, 0 \in Nat
  <2>4. CASE g \notin unread
    BY <1>7, <2>1, <2>2, <2>4
  <2>5. QED
    BY <2>3, <2>4
<1>12. QED
  BY <1>10, <1>11

LEMMA TellsStay ==
  ASSUME AnswerInv, AnswerInv', NEW s \in Session, JActs(s), FlaggedFirst(s),
         ShowsPartial(stored), ShowsPartial(journal[s]),
         TellsPartial(s), UnverifiedUnread(s), LeavesUnread(s), RowsFilled(s)
  PROVE  TellsPartial(s)' /\ UnverifiedUnread(s)'
<1>a. /\ JournalInv /\ WalkShape /\ JTyped /\ StageOK(s) /\ TypeOK /\ JTyped' /\ StageOK(s)'
      /\ Honest(journal[s])'
  BY ShapeParts, ActsInShape DEF AnswerInv, JournalInv, WalkShape, InShape
<1>1. CASE \E answer : Leave(s, answer)
  <2>1. stage'[s] = "idle" /\ unverified'[s] = {}
    BY <1>a, <1>1 DEF Leave, At, JTyped
  <2>2. QED
    BY <2>1 DEF TellsPartial, UnverifiedUnread
<1>2. CASE stage[s] = "seed" /\ SeedJournal(s) /\ ~\E answer : Leave(s, answer)
  <2>1. UNCHANGED durable
    BY <1>2 DEF SeedJournal, KeepJournal, RebuildJournal, ToStore, Established, StartRun, vars
  <2>2. \A g \in Gen : PartlyCopied(g)' => PartlyCopied(g)
    BY <2>1 DEF PartlyCopied, TakenOver, EverHeld, durable
  <2>3. ASSUME NEW unreadable \in SUBSET Gen, KeepJournal(s, unreadable)
        PROVE  TellsPartial(s)' /\ UnverifiedUnread(s)'
    <3>1. journal[s] \in Entries
      BY <1>a, <2>3, ReadableEntries DEF KeepJournal, JTyped
    <3>2. PICK j \in Entries, read \in SUBSET Gen, unread \in SUBSET Gen :
            /\ Established(s, j, read, unread) \/ ToStore(s, j, read, unread)
            /\ unread \cap read = {}
            /\ \A g \in Gen : PartlyCopied(g) => /\ Started(j[g]) \/ g \in unread
                                                 /\ Shows(j[g]) /\ Warranted(g, j[g])
      BY <2>3, <3>1, KeepsTelling
    <3>3. /\ checked'[s] = read /\ unverified'[s] = unread
          /\ journal'[s] = j \/ journal'[s] = Rebind(s, j)
      BY <1>2, <1>a, <3>2 DEF Established, ToStore, JTyped
    <3>4. ASSUME NEW g \in Gen, PartlyCopied(g) PROVE Started(journal'[s][g]) \/ g \in unverified'[s]
      <4>1. Bound(s, j[g]) = j[g]
        BY <3>2, <3>4, BoundTelling DEF Entries
      <4>2. journal'[s][g] = j[g]
        BY <3>3, <4>1 DEF Rebind
      <4>3. QED
        BY <3>2, <3>3, <3>4, <4>2
    <3>5. QED
      BY <2>2, <3>2, <3>3, <3>4 DEF TellsPartial, UnverifiedUnread
  <2>4. CASE RebuildJournal(s)
    <3>1. journal'[s] = FromMarkers /\ unverified'[s] = {}
      BY <1>a, <2>4 DEF RebuildJournal, ToStore, JTyped
    <3>2. QED
      BY <1>a, <2>2, <3>1, PartialMarked DEF TellsPartial, UnverifiedUnread
  <2>5. QED
    BY <1>2, <2>3, <2>4 DEF SeedJournal
<1>3. CASE ResolveOutcomes(s)
  <2>1. UNCHANGED vars /\ aim'[s] = "end"
    BY <1>a, <1>3 DEF ResolveOutcomes, For, JTyped
  <2>2. \A g \in Gen : PartlyCopied(g)' => PartlyCopied(g)
    BY <2>1 DEF PartlyCopied, TakenOver, EverHeld, vars, durable
  <2>3. QED
    BY <1>3, <2>1, <2>2, ResolveTells DEF TellsPartial, UnverifiedUnread
<1>4. CASE ~SeedJournal(s) /\ ~ResolveOutcomes(s) /\ ~\E answer : Leave(s, answer)
  <2>1. /\ checked'[s] = checked[s] /\ unverified'[s] = unverified[s]
        /\ aim'[s] # "end" => aim[s] # "end"
        /\ \/ stage'[s] \in {"idle", "load", "seed"} \/ aim'[s] = "note"
           \/ stage[s] \notin {"idle", "load", "seed"} /\ aim[s] # "note"
    <3>1. CASE BeginMigrationJournal(s) \/ MigrateJournaled(s) \/ LoadJournal(s)
                 \/ (\E g \in Sweeps : NoteLoad(s, g)) \/ RaiseRevision(s)
      BY <1>a, <3>1 DEF BeginMigrationJournal, MigrateJournaled, Operate, LoadJournal, NoteLoad,
         RaiseRevision, At, For, StageOK, JTyped
    <3>2. CASE MergeStored(s) \/ JournalShortCut(s) \/ JRecordInProgress(s) \/ ReadBack(s)
                 \/ (\E unreadable \in BOOLEAN : BelieveSeal(s, unreadable)) \/ JMarkerUnreadable(s)
                 \/ PlainAwait(s)
      BY <1>a, <3>2 DEF MergeStored, JournalShortCut, BelieveSeal, JRecordInProgress, ReadBack,
         JMarkerUnreadable, PlainAwait, StageOK, journaling
    <3>3. CASE AskAgain(s) \/ JFetchSecrets(s)
      BY <1>a, <3>3 DEF AskAgain, JFetchSecrets, BeforeImport, StageOK
    <3>4. CASE StoreJournal(s)
      <4>1. CASE Established(s, journal[s], checked[s], unverified[s])
        BY <1>4, <1>a, <3>4, <4>1 DEF StoreJournal, Established, StageOK, JTyped
      <4>2. CASE Flagged(s)
        BY <1>a, <3>4, <4>2 DEF StoreJournal, Flagged, StageOK, JTyped
      <4>3. CASE Announced(s)
        BY <1>4, <1>a, <3>4, <4>3 DEF StoreJournal, Announced, StageOK, JTyped
      <4>4. QED
        BY <1>4, <3>4, <4>1, <4>2, <4>3 DEF StoreJournal, Return
    <3>5. CASE NoteStarted(s) \/ NoteMarker(s) \/ NoteReadBack(s) \/ \E k \in Key : AppWrite(s, k)
      BY <1>4, <1>a, <3>5 DEF NoteStarted, NoteMarker, NoteReadBack, AppWrite, StageOK, journaling
    <3>6. CASE JournalUnavailable(s)
      BY <1>4, <1>a, <3>6 DEF JournalUnavailable, StageOK, For, JTyped
    <3>7. QED
      BY <1>4, <3>1, <3>2, <3>3, <3>4, <3>5, <3>6 DEF JActs, JStep, JFault, AppStep, NoteRefused,
         AppDone, Die
  <2>2. ASSUME stage'[s] \notin {"idle", "load", "seed"}, aim'[s] # "note", NEW g \in Gen,
               PartlyCopied(g)'
        PROVE  Started(journal'[s][g]) \/ g \in unverified'[s]
    <3>1. journal[s] \in Entries /\ journal'[s] \in Entries /\ stage[s] \notin {"idle", "load", "seed"}
      BY <1>a, <2>1, <2>2 DEF StageOK, Entries
    <3>2. ~IsDataBearing(journal'[s][g])
      BY <1>a, <2>2, <3>1 DEF Honest, PartlyCopied
    <3>3. CASE PartlyCopied(g)
      BY <2>1, <2>2, <3>1, <3>2, <3>3, WorksShow DEF TellsPartial
    <3>4. CASE ~PartlyCopied(g)
      BY <2>2, <3>4, CopiesFlagged DEF journaling
    <3>5. QED
      BY <3>3, <3>4
  <2>3. QED
    BY <2>1, <2>2 DEF TellsPartial, UnverifiedUnread
<1>5. QED
  BY <1>1, <1>2, <1>3, <1>4 DEF SeedJournal

\* A step of the walk reports the predecessor it asks or the marker it read, starts or
\* ends a run, or stays at its predecessor.
LEMMA WalkTurns ==
  ASSUME WalkShape, NEW s \in Session, JActs(s)
  PROVE  \/ JournalShortCut(s) \/ (\E unreadable \in BOOLEAN : BelieveSeal(s, unreadable))
         \/ JMarkerUnreadable(s)
         \/ /\ pc[s] \in Asking /\ already'[s] = already[s]
            /\ \E kind \in Row \ {"none"}, terminated \in BOOLEAN :
                 \E keys : Report(s, kind, terminated, keys)
         \/ StartRun(s)
         \/ stage'[s] = "idle" /\ pc'[s] = "idle"
         \/ /\ cur'[s] = cur[s] /\ row'[s] = row[s] /\ (AskAgain(s) \/ already'[s] = already[s])
            /\ (pc'[s] = "idle" <=> pc[s] = "idle")
            /\ (pc[s] = "idle" /\ stage'[s] = "walk" => stage[s] = "walk")
            /\ (Walking(s)' => Walking(s))
<1> DEFINE Pushing == \E kind \in Row \ {"none"}, terminated \in BOOLEAN :
                         \E keys : Report(s, kind, terminated, keys)
           Turning == pc[s] \in Asking /\ already'[s] = already[s] /\ Pushing
           Ending == stage'[s] = "idle" /\ pc'[s] = "idle"
           Staying ==
             /\ cur'[s] = cur[s] /\ row'[s] = row[s] /\ (AskAgain(s) \/ already'[s] = already[s])
             /\ (pc'[s] = "idle" <=> pc[s] = "idle")
             /\ (pc[s] = "idle" /\ stage'[s] = "walk" => stage[s] = "walk")
             /\ (Walking(s)' => Walking(s))
<1>a. TypeOK /\ JTyped /\ StageOK(s)
  BY ShapeParts DEF WalkShape
<1>b. /\ \A known \in BOOLEAN : UnresponsiveTerminates(Policy, known) \in BOOLEAN
      /\ \A known \in BOOLEAN : DataBearingIsAuthoritative(Policy, known) \in BOOLEAN
  BY DEF UnresponsiveTerminates, DataBearingIsAuthoritative, SnapshotPolicy
<1>c. prior[s] \in BOOLEAN /\ SawData(s) \in BOOLEAN
  BY <1>a DEF TypeOK, SawData
<1>d. {"unresponsive", "writerUnavailable", "incomplete", "flushFailed", "sealFailed", "imported",
        "noData"} \subseteq Row \ {"none"}
  BY DEF Row
<1>1. Unresponsive(s) \/ WriterUnavailable(s) => Pushing
  BY <1>b, <1>c, <1>d DEF Unresponsive, WriterUnavailable
<1>2. (Flush(s) /\ ~IsClean(s)) \/ FlushFails(s) \/ RecordDone(s) \/ CompleteMarkerFails(s) => Pushing
  BY <1>b, <1>c, <1>d DEF Flush, FlushFails, RecordDone, CompleteMarkerFails
<1>3. ASSUME NEW answer, Leave(s, answer), pc'[s] = "idle" PROVE Ending
  BY <1>a, <1>3 DEF Leave, At, JTyped
<1> SUFFICES \/ JournalShortCut(s) \/ (\E unreadable \in BOOLEAN : BelieveSeal(s, unreadable))
             \/ JMarkerUnreadable(s) \/ Turning \/ StartRun(s) \/ Ending \/ Staying
  OBVIOUS
<1> HIDE DEF Pushing
<1>4. CASE PlainAwait(s)
  <2>1. CASE ProbeExecutable(s) \/ Item(s) \/ (\E k \in Key : WriteFails(s, k)) \/ (Flush(s) /\ IsClean(s))
    BY <1>a, <1>4, <2>1 DEF PlainAwait, ProbeExecutable, Item, WithholdItem, WriteSecret, WriteFails,
       Flush, GoTo, TypeOK, journaling, Walking
  <2>2. CASE NoAnswer(s) \/ BeginMarkerFails(s) \/ (Flush(s) /\ ~IsClean(s)) \/ FlushFails(s)
             \/ RecordDone(s) \/ CompleteMarkerFails(s)
    <3>1. pc[s] \in Asking /\ already'[s] = already[s]
      BY <1>4, <2>2 DEF PlainAwait, NoAnswer, BeginMarkerFails, Flush, FlushFails, RecordDone,
         CompleteMarkerFails, Asking, journaling
    <3>2. Pushing
      BY <1>1, <1>2, <2>2 DEF NoAnswer, BeginMarkerFails
    <3>3. QED
      BY <3>1, <3>2
  <2>3. QED
    BY <1>4, <2>1, <2>2 DEF PlainAwait
<1>5. CASE AskAgain(s) \/ JFetchSecrets(s) \/ JRecordInProgress(s) \/ ReadBack(s)
  <2>1. CASE AskAgain(s) \/ JRecordInProgress(s)
    BY <1>a, <2>1 DEF AskAgain, JRecordInProgress, RecordInProgress, GoTo, TypeOK, Walking
  <2>2. CASE JFetchSecrets(s)
    BY <1>1, <1>a, <2>2 DEF JFetchSecrets, GoTo, TypeOK, Walking, Asking
  <2>3. CASE ReadBack(s)
    BY <1>1, <1>a, <2>3 DEF ReadBack, StageOK, TypeOK, Walking, Asking, vars, volatile
  <2>4. QED
    BY <1>5, <2>1, <2>2, <2>3
<1>6. CASE StoreJournal(s) \/ SeedJournal(s) \/ JournalUnavailable(s) \/ Die(s)
  <2>1. (HandOver(s) /\ pc[s] = "idle") \/ Crash(s) => pc'[s] = "idle"
    BY <1>a DEF HandOver, Crash, TypeOK
  <2>2. ASSUME NEW j, NEW read, NEW unread, Established(s, j, read, unread), pc[s] = "idle"
        PROVE  StartRun(s) \/ Ending
    BY <1>3, <2>2 DEF Established, vars, volatile
  <2>3. CASE SeedJournal(s)
    <3>1. pc[s] = "idle" /\ stage[s] = "seed"
      BY <1>a, <2>3 DEF SeedJournal, StageOK
    <3>2. ASSUME NEW j, NEW read, NEW unread, ToStore(s, j, read, unread) PROVE Staying
      BY <1>a, <3>1, <3>2 DEF ToStore, Walking, At, StageOK, JTyped, vars, volatile
    <3>3. QED
      BY <2>2, <2>3, <3>1, <3>2 DEF SeedJournal, KeepJournal, RebuildJournal
  <2>4. CASE StoreJournal(s)
    <3>1. CASE Flagged(s)
      BY <1>a, <1>b, <1>d, <2>4, <3>1 DEF StoreJournal, Flagged, StageOK, Asking, Walking, Pushing,
         vars, volatile
    <3>2. CASE Announced(s)
      BY <1>3, <1>a, <2>4, <3>2 DEF StoreJournal, Announced, StageOK, At, Walking, JTyped, vars, volatile
    <3>3. CASE Return(s)
      BY <1>3, <1>a, <2>1, <2>4, <3>3 DEF StoreJournal, Return, StageOK
    <3>4. QED
      BY <1>a, <2>2, <2>4, <3>1, <3>2, <3>3 DEF StoreJournal, StageOK, Established
  <2>5. CASE JournalUnavailable(s)
    BY <1>1, <1>3, <1>a, <2>1, <2>5 DEF JournalUnavailable, StageOK, Asking, vars, volatile
  <2>6. CASE Die(s)
    BY <1>3, <2>1, <2>6 DEF Die
  <2>7. QED
    BY <1>6, <2>3, <2>4, <2>5, <2>6
<1>7. CASE \/ BeginMigrationJournal(s) \/ MigrateJournaled(s) \/ LoadJournal(s) \/ MergeStored(s)
           \/ ResolveOutcomes(s) \/ (\E g \in Sweeps : NoteLoad(s, g)) \/ NoteStarted(s)
           \/ RaiseRevision(s)
  BY <1>a, <1>7 DEF BeginMigrationJournal, MigrateJournaled, Operate, LoadJournal, MergeStored,
     ResolveOutcomes, NoteLoad, NoteStarted, RaiseRevision, At, For, Walking, StageOK, JTyped, vars,
     volatile
<1>8. CASE NoteRefused(s) \/ NoteMarker(s) \/ NoteReadBack(s) \/ (\E k \in Key : AppWrite(s, k))
           \/ AppDone(s)
  <2>1. UNCHANGED volatile /\ pc[s] = "idle" /\ ~Walking(s) /\ aim[s] = "note"
    BY <1>a, <1>8 DEF NoteRefused, NoteMarker, NoteReadBack, AppWrite, AppDone, Walking, StageOK, vars
  <2>2. CASE \E answer : Leave(s, answer)
    BY <1>3, <2>1, <2>2 DEF volatile
  <2>3. CASE ~\E answer : Leave(s, answer)
    <3>1. already' = already /\ aim' = aim /\ stage'[s] \notin {"walk", "readBack"}
      BY <1>8, <1>a, <2>3 DEF NoteRefused, NoteMarker, NoteReadBack, AppWrite, AppDone, At, JTyped,
         journaling
    <3>2. QED
      BY <2>1, <3>1 DEF Walking, volatile
  <2>4. QED
    BY <2>2, <2>3
<1>9. QED
  BY <1>4, <1>5, <1>6, <1>7, <1>8 DEF JActs, JStep, JFault, AppStep

LEMMA ReportFills ==
  ASSUME TypeOK, NEW s \in Session, pc[s] # "idle", RowsFilled(s),
         NEW kind, kind # "none", NEW terminated \in BOOLEAN, NEW keys,
         Report(s, kind, terminated, keys)
  PROVE  RowsFilled(s)'
<1>1. cur[s] \in Gen /\ \A g \in Gen : g > cur[s] => row[s][g] # "none"
  BY CurrentGeneration DEF RowsFilled
<1>2. PICK finished \in BOOLEAN : finished = (terminated \/ cur[s] = 1)
  OBVIOUS
<1>3. \A g \in Gen : row'[s][g] = IF g = cur[s] THEN kind
                                  ELSE IF terminated /\ g < cur[s] THEN "superseded"
                                  ELSE row[s][g]
  BY DEF Report, TypeOK
<1>4. /\ pc'[s] = IF finished THEN "idle" ELSE "marker"
      /\ cur'[s] = IF finished THEN 0 ELSE cur[s] - 1
  BY <1>2 DEF Report, TypeOK
<1>5. CASE finished
  <2>1. \A g \in Gen : row'[s][g] # "none"
    BY <1>1, <1>2, <1>3, <1>5, WalkAssumption DEF Gen
  <2>2. QED
    BY <2>1 DEF RowsFilled
<1>6. CASE ~finished
  <2>1. \A g \in Gen : g > cur[s] - 1 => row'[s][g] # "none"
    BY <1>1, <1>2, <1>3, <1>6, WalkAssumption DEF Gen
  <2>2. QED
    BY <1>4, <1>6, <2>1 DEF RowsFilled
<1>7. QED
  BY <1>5, <1>6

\* What a believed seal or an unreadable marker reports.
LEMMA MarkerReports ==
  ASSUME TypeOK, NEW s \in Session,
         \/ JournalShortCut(s) \/ (\E unreadable \in BOOLEAN : BelieveSeal(s, unreadable))
         \/ JMarkerUnreadable(s)
  PROVE  /\ pc[s] = "marker" /\ stage[s] = "walk" /\ UNCHANGED <<journal, stage, aim>>
         /\ \E why : AlreadyAs(s, why)
         /\ \E kind \in Row \ {"none"}, terminated \in BOOLEAN :
              \E keys : Report(s, kind, terminated, keys)
<1>1. \A known \in BOOLEAN : DataBearingIsAuthoritative(Policy, known) \in BOOLEAN
  BY DEF DataBearingIsAuthoritative, SnapshotPolicy
<1>2. {"alreadyMigrated", "writerUnavailable"} \subseteq Row \ {"none"}
  BY DEF Row
<1>3. (Marker(cur[s]) = "doneData") \in BOOLEAN
  OBVIOUS
<1>4. QED
  BY <1>1, <1>2, <1>3 DEF JournalShortCut, BelieveSeal, JMarkerUnreadable, MarkerUnreadable, WriterUnavailable

LEMMA RowsFill ==
  ASSUME WalkShape, NEW s \in Session, JActs(s), RowsFilled(s)
  PROVE  RowsFilled(s)'
<1>a. TypeOK /\ JTyped /\ StageOK(s)
  BY ShapeParts DEF WalkShape
<1>1. CASE \/ JournalShortCut(s) \/ (\E unreadable \in BOOLEAN : BelieveSeal(s, unreadable))
           \/ JMarkerUnreadable(s)
  <2>1. pc[s] # "idle"
    BY <1>a, <1>1, MarkerReports
  <2>2. PICK kind \in Row \ {"none"}, terminated \in BOOLEAN :
          \E keys : Report(s, kind, terminated, keys)
    BY <1>a, <1>1, MarkerReports
  <2>3. QED
    BY <1>a, <2>1, <2>2, ReportFills
<1>2. CASE pc[s] \in Asking /\ \E kind \in Row \ {"none"}, terminated \in BOOLEAN :
                                 \E keys : Report(s, kind, terminated, keys)
  BY <1>2, <1>a, ReportFills DEF Asking
<1>3. CASE StartRun(s)
  <2>1. pc'[s] = "marker" /\ cur'[s] = N
    BY <1>a, <1>3 DEF StartRun, TypeOK
  <2>2. QED
    BY <2>1, WalkAssumption DEF RowsFilled, Gen
<1>4. CASE stage'[s] = "idle" /\ pc'[s] = "idle"
  BY <1>4 DEF RowsFilled
<1>5. CASE /\ cur'[s] = cur[s] /\ row'[s] = row[s]
           /\ (pc'[s] = "idle" <=> pc[s] = "idle")
           /\ (pc[s] = "idle" /\ stage'[s] = "walk" => stage[s] = "walk")
  BY <1>5 DEF RowsFilled
<1>6. QED
  BY <1>1, <1>2, <1>3, <1>4, <1>5, WalkTurns

LEMMA LeavesStay ==
  ASSUME AnswerInv, AnswerInv', NEW s \in Session, JActs(s), FlaggedFirst(s),
         ShowsPartial(stored), ShowsPartial(journal[s]), LeavesUnread(s)
  PROVE  LeavesUnread(s)'
<1>a. /\ JournalInv /\ WalkShape /\ JTyped /\ StageOK(s) /\ TypeOK /\ JTyped' /\ StageOK(s)' /\ TypeOK'
      /\ Honest(journal[s])'
  BY ShapeParts, ActsInShape, ShapeNext DEF AnswerInv, JournalInv, WalkShape, InShape
<1>1. SUFFICES ASSUME Walking(s)', NEW g \in Gen, PartlyCopied(g)', ~Started(journal'[s][g])
               PROVE  PassedUnread(s, g)'
  BY DEF LeavesUnread
<1>2. PartlyCopied(g)
  BY <1>1, CopiesFlagged DEF journaling
<1>3. CASE StartRun(s)
  <2>1. pc'[s] = "marker" /\ row'[s][g] = "none"
    BY <1>a, <1>3 DEF StartRun, TypeOK
  <2>2. QED
    BY <2>1 DEF PassedUnread, Asking
<1>4. CASE ~StartRun(s)
  <2>1. stage'[s] # "idle" /\ journal'[s] \in Entries
    BY <1>1, <1>a DEF Walking, StageOK, Entries
  <2>2. Walking(s)
    BY <1>1, <1>4, <1>a, <2>1, WalkTurns, MarkerReports DEF Walking, StageOK, Asking
  <2>3. stage[s] \notin {"idle", "load", "seed"} /\ journal[s] \in Entries
    BY <1>a, <2>2 DEF Walking, StageOK, Entries
  <2>4. ~IsDataBearing(journal'[s][g])
    BY <1>1, <1>a, <2>1 DEF Honest, PartlyCopied
  <2>5. ~Started(journal[s][g])
    BY <1>1, <2>1, <2>3, <2>4, WorksShow
  <2>6. PassedUnread(s, g)
    BY <1>2, <2>2, <2>5 DEF LeavesUnread
  <2>7. Marker(g) = "wipData" \/ (Marker(g) = "doneData" /\ Bridged(g) /\ g \notin legacy)
    BY <1>a, <1>2, PartialMarked
  <2>8. ExactMarker(g) = "wipData"
    BY <1>a, <1>2, PartialMarked
  <2>9. AskAgain(s) => g # cur[s] /\ cur'[s] = cur[s] /\ row'[s] = row[s]
    <3>1. SUFFICES ASSUME AskAgain(s), g = cur[s] PROVE FALSE
      BY DEF AskAgain
    <3>2. BeforeImport(s, MarkImportStarted(journal[s][g]), FALSE, "early")
      BY <2>7, <3>1 DEF AskAgain
    <3>3. journal'[s][g] = MarkImportStarted(journal[s][g])
      BY <1>a, <2>3, <3>1, <3>2 DEF BeforeImport, JTyped, Entries
    <3>4. QED
      BY <1>1, <2>3, <2>4, <3>3, OpenFlags, 0 \in Nat DEF Entries
  <2>10. ~(pc'[s] \in Asking /\ g = cur'[s])
    BY <1>a, <2>6, <2>9, WhoAsks DEF PassedUnread
  <2>11. CASE \/ JournalShortCut(s) \/ (\E unreadable \in BOOLEAN : BelieveSeal(s, unreadable))
              \/ JMarkerUnreadable(s)
    <3>1. PICK why : AlreadyAs(s, why)
      BY <1>a, <2>11, MarkerReports
    <3>2. pc[s] # "idle" /\ cur[s] \in Gen
      BY <1>a, <2>11, MarkerReports, CurrentGeneration
    <3>3. already'[s][g] = IF g = cur[s] THEN why ELSE already[s][g]
      BY <1>a, <3>1, <3>2 DEF AlreadyAs, JTyped
    <3>4. CASE g = cur[s]
      <4>1. SnapshotPolicy(Policy) \/ ~Bridged(g) \/ g \in legacy
        BY DEF Bridged, LegacyMigrated
      <4>2. ASSUME NEW unreadable \in BOOLEAN, BelieveSeal(s, unreadable)
            PROVE  already'[s][g] = "bridged"
        <5>1. Marker(g) = "doneData"
          BY <2>7, <3>4, <4>2 DEF BelieveSeal
        <5>2. SnapshotPolicy(Policy)
          BY <2>7, <4>1, <5>1
        <5>3. AlreadyAs(s, "bridged")
          BY <2>8, <3>4, <4>2, <5>1, <5>2 DEF BelieveSeal
        <5>4. QED
          BY <1>a, <3>2, <3>4, <5>3 DEF AlreadyAs, JTyped
      <4>3. CASE JournalShortCut(s) \/ JMarkerUnreadable(s)
        <5>1. AlreadyAs(s, "journal") \/ AlreadyAs(s, "unreadable")
          BY <4>3 DEF JournalShortCut, JMarkerUnreadable
        <5>2. already'[s][g] \in {"journal", "unreadable"}
          BY <1>a, <3>2, <3>4, <5>1 DEF AlreadyAs, JTyped
        <5>3. QED
          BY <2>10, <5>2 DEF PassedUnread
      <4>4. QED
        BY <2>10, <2>11, <4>2, <4>3 DEF PassedUnread
    <3>5. CASE g # cur[s]
      <4>1. row'[s][g] \in {row[s][g], "superseded"}
        BY <1>a, <2>11, <3>2, <3>5, MarkerReports, RowPushed
      <4>2. QED
        BY <2>6, <2>10, <3>3, <3>5, <4>1 DEF PassedUnread
    <3>6. QED
      BY <3>4, <3>5
  <2>12. CASE /\ pc[s] \in Asking /\ already'[s] = already[s]
              /\ \E kind \in Row \ {"none"}, terminated \in BOOLEAN :
                   \E keys : Report(s, kind, terminated, keys)
    <3>1. g # cur[s] /\ pc[s] # "idle"
      BY <2>6, <2>12 DEF PassedUnread, Asking
    <3>2. row'[s][g] \in {row[s][g], "superseded"}
      BY <1>a, <2>12, <3>1, RowPushed
    <3>3. QED
      BY <2>6, <2>10, <2>12, <3>2 DEF PassedUnread
  <2>13. CASE row'[s] = row[s] /\ (AskAgain(s) \/ already'[s] = already[s])
    <3>1. already'[s][g] = already[s][g]
      <4>1. CASE AskAgain(s)
        <5>1. PICK why : AlreadyAs(s, why)
          BY <4>1 DEF AskAgain
        <5>2. QED
          BY <1>a, <2>9, <4>1, <5>1 DEF AlreadyAs, JTyped
      <4>2. QED
        BY <2>13, <4>1
    <3>2. QED
      BY <2>6, <2>10, <2>13, <3>1 DEF PassedUnread
  <2>14. QED
    BY <1>4, <1>a, <2>1, <2>11, <2>12, <2>13, WalkTurns
<1>5. QED
  BY <1>3, <1>4

\* Past its export a predecessor stays in hand until it is reported.
LEMMA StaysInHand ==
  ASSUME WalkShape, NEW s \in Session, JActs(s), pc'[s] \in AfterFetch, ~JFetchSecrets(s)
  PROVE  /\ pc[s] \in AfterFetch /\ cur'[s] = cur[s] /\ items'[s] = items[s]
         /\ stage'[s] \in {"walk", "readBack"} =>
              stage[s] \in {"walk", "readBack"} \/ stored' = journal[s]
<1>a. TypeOK /\ JTyped /\ StageOK(s) /\ JTyped'
  BY ShapeParts, ActsInShape DEF WalkShape, InShape
<1>1. ASSUME NEW kind, NEW terminated, NEW keys, Report(s, kind, terminated, keys) PROVE FALSE
  BY <1>a, <1>1 DEF Report, TypeOK, AfterFetch
<1>2. ~Unresponsive(s) /\ ~WriterUnavailable(s) /\ ~StartRun(s) /\ ~Crash(s)
  BY <1>1, <1>a DEF Unresponsive, WriterUnavailable, StartRun, Crash, TypeOK, AfterFetch
<1>3. ~AskAgain(s)
  BY <1>a DEF AskAgain, GoTo, TypeOK, AfterFetch
<1>4. CASE PlainAwait(s) \/ JRecordInProgress(s)
  <2>1. pc[s] \in AfterFetch /\ UNCHANGED <<cur, items>>
    BY <1>1, <1>2, <1>4, <1>a DEF PlainAwait, ProbeExecutable, NoAnswer, BeginMarkerFails, Item,
       WithholdItem, WriteSecret, WriteFails, Flush, FlushFails, RecordDone, CompleteMarkerFails,
       JRecordInProgress, RecordInProgress, GoTo, TypeOK, AfterFetch
  <2>2. stage[s] = "walk"
    BY <1>4 DEF PlainAwait, JRecordInProgress
  <2>3. QED
    BY <2>1, <2>2
<1>5. CASE ~PlainAwait(s) /\ ~JRecordInProgress(s)
  <2>1. UNCHANGED <<pc, cur, items>> \/ HandOver(s)
    <3>1. CASE JStep(s)
      BY <1>1, <1>2, <1>3, <1>5, <3>1 DEF JStep, LoadJournal, SeedJournal, KeepJournal, RebuildJournal,
         ToStore, Established, MergeStored, StoreJournal, Flagged, Return, Announced, JournalShortCut,
         BelieveSeal, ReadBack, ResolveOutcomes, vars, volatile
    <3>2. CASE ~JStep(s)
      BY <1>1, <1>2, <3>2 DEF JActs, JFault, AppStep, BeginMigrationJournal, MigrateJournaled, Operate,
         JournalUnavailable, JMarkerUnreadable, MarkerUnreadable, NoteLoad, NoteRefused, NoteStarted,
         NoteMarker, NoteReadBack, AppWrite, AppDone, Die, RaiseRevision, vars, volatile
    <3>3. QED
      BY <3>1, <3>2
  <2>2. pc[s] \in AfterFetch /\ UNCHANGED <<pc, cur, items>>
    BY <2>1 DEF HandOver
  <2>3. ASSUME stage'[s] \in {"walk", "readBack"}, stage[s] \notin {"walk", "readBack"}
        PROVE  stored' = journal[s]
    <3>1. stage[s] \in {"merge", "write"} /\ aim[s] \in {"early", "late"}
      BY <1>a, <2>2, <2>3 DEF StageOK, AfterFetch
    <3>2. ~At(s, "idle") /\ ~At(s, "write") /\ ~At(s, "load")
      BY <1>a, <2>3 DEF At, JTyped
    <3>3. \A answer : ~Leave(s, answer)
      BY <3>2 DEF Leave
    <3>4. StoreJournal(s)
      <4>1. CASE JStep(s)
        BY <1>5, <3>1, <3>2, <4>1 DEF JStep, LoadJournal, SeedJournal, MergeStored, JournalShortCut,
           BelieveSeal, AskAgain, JFetchSecrets, ReadBack, ResolveOutcomes
      <4>2. CASE ~JStep(s)
        BY <1>2, <3>1, <3>2, <3>3, <4>2 DEF JActs, JFault, AppStep, BeginMigrationJournal,
           MigrateJournaled, Operate, JournalUnavailable, JMarkerUnreadable, NoteLoad, NoteRefused,
           NoteStarted, NoteMarker, NoteReadBack, AppWrite, AppDone, Die, RaiseRevision
      <4>3. QED
        BY <4>1, <4>2
    <3>5. QED
      BY <3>4 DEF StoreJournal
  <2>4. QED
    BY <2>2, <2>3
<1>6. QED
  BY <1>4, <1>5

\* So does the generation that the app copies itself.
LEMMA StaysAnnounced ==
  ASSUME WalkShape, NEW s \in Session, JActs(s), aim[s] = "note", stage[s] \in {"merge", "write"},
         aim'[s] = "note", stage'[s] \notin {"merge", "write"}
  PROVE  stored' = journal[s]
<1>a. TypeOK /\ JTyped /\ StageOK(s)
  BY ShapeParts DEF WalkShape
<1>1. ~For(s, "none") /\ ~At(s, "write") /\ pc[s] = "idle"
  BY <1>a DEF For, At, JTyped, StageOK
<1>2. \A answer : ~Leave(s, answer)
  BY <1>1 DEF Leave
<1>3. StoreJournal(s)
  <2>1. CASE JStep(s)
    BY <1>1, <2>1 DEF JStep, LoadJournal, SeedJournal, MergeStored, JournalShortCut, BelieveSeal,
       AskAgain, JFetchSecrets, JRecordInProgress, ReadBack, PlainAwait, ResolveOutcomes
  <2>2. CASE ~JStep(s)
    BY <1>1, <1>2, <2>2 DEF JActs, JFault, AppStep, BeginMigrationJournal, MigrateJournaled, Operate,
       JournalUnavailable, JMarkerUnreadable, NoteLoad, NoteRefused, NoteStarted, NoteMarker,
       NoteReadBack, AppWrite, AppDone, Die, RaiseRevision
  <2>3. QED
    BY <2>1, <2>2
<1>4. QED
  BY <1>3 DEF StoreJournal

LEMMA FlagsStay ==
  ASSUME AnswerInv, AnswerInv', WalkShape', NEW s \in Session, JActs(s), FlaggedFirst(s),
         LoadedAsStored(s), AskedIsMissing(s), AskedIsMissing(s)'
  PROVE  FlaggedFirst(s)'
<1>a. /\ WalkShape /\ JTyped /\ StageOK(s) /\ TypeOK /\ JTyped' /\ StageOK(s)'
      /\ stored' \in {stored, journal[s]}
  BY ShapeParts, ShapeNext, WhoStores DEF AnswerInv, JournalInv, WalkShape
<1>1. ASSUME pc'[s] \in AfterFetch, items'[s] # {}
      PROVE  /\ Started(journal'[s][cur'[s]])
             /\ stage'[s] \in {"walk", "readBack"} /\ Readable(stored') => Started(stored'[cur'[s]])
  <2>1. /\ pc[s] \in Asking /\ cur'[s] = cur[s] /\ cur[s] \in Gen
    <3>1. ~AskAgain(s)
      BY <1>a, <1>1 DEF AskAgain, GoTo, TypeOK, AfterFetch
    <3>2. pc[s] \in Asking /\ cur'[s] = cur[s]
      BY <1>a, <1>1, <3>1, WhoAsks DEF Asking, AfterFetch
    <3>3. QED
      BY <1>a, <3>2, CurrentGeneration DEF Asking
  <2>2. /\ journal[s] \in Entries /\ journal'[s] \in Entries /\ stage[s] \notin {"idle", "load"}
        /\ ~IsDataBearing(journal[s][cur[s]]) /\ ~IsDataBearing(journal'[s][cur[s]])
    BY <1>a, <1>1, <2>1 DEF StageOK, Entries, Asking, AfterFetch, AskedIsMissing
  <2>3. CASE JFetchSecrets(s)
    <3>1. ~Unresponsive(s)
      BY <1>a, <1>1 DEF Unresponsive, Report, TypeOK, AfterFetch
    <3>2. PICK exported \in JExport(s) :
            /\ items' = [items EXCEPT ![s] = exported]
            /\ IF prior[s] \/ exported # {}
               THEN BeforeImport(s, NoteItemsSeen(MarkImportStarted(journal[s][cur[s]]),
                                                  Cardinality(exported)),
                                 Started(journal[s][cur[s]]), "late")
               ELSE UNCHANGED <<journal, stage, aim>>
      BY <2>3, <3>1 DEF JFetchSecrets
    <3>2a. items'[s] = exported
      BY <1>a, <3>2 DEF TypeOK
    <3>3. exported # {} /\ exported \subseteq Key
      BY <1>a, <1>1, <2>1, <3>2, <3>2a DEF JExport, Export, TypeOK
    <3>4. Cardinality(exported) \in Nat
      BY <3>3, JournalAssumption, FS_Subset, FS_CardinalityType
    <3>5. PICK after : after = NoteItemsSeen(MarkImportStarted(journal[s][cur[s]]),
                                             Cardinality(exported))
      OBVIOUS
    <3>6. journal[s][cur[s]] \in JournalState
      BY <2>1, <2>2 DEF Entries
    <3>7. Started(after)
      BY <2>2, <3>4, <3>5, <3>6, OpenFlags, StartedEntry, CountedEntry
    <3>8. BeforeImport(s, after, Started(journal[s][cur[s]]), "late")
      BY <3>2, <3>3, <3>5
    <3>9. journal' = [journal EXCEPT ![s][cur[s]] = after] /\ At(s, "merge")
      BY <3>7, <3>8 DEF BeforeImport
    <3>10. journal'[s][cur[s]] = after /\ stage'[s] = "merge"
      BY <1>a, <2>1, <2>2, <3>9 DEF At, JTyped, Entries
    <3>11. QED
      BY <2>1, <3>7, <3>10
  <2>4. CASE ~JFetchSecrets(s)
    <3>1. /\ pc[s] \in AfterFetch /\ items[s] # {}
          /\ stage'[s] \in {"walk", "readBack"} =>
               stage[s] \in {"walk", "readBack"} \/ stored' = journal[s]
      BY <1>a, <1>1, <2>4, StaysInHand
    <3>2. Started(journal[s][cur[s]])
      BY <3>1 DEF FlaggedFirst
    <3>3. Started(journal'[s][cur[s]])
      BY <2>1, <2>2, <3>2, WorksShow
    <3>4. ASSUME stage'[s] \in {"walk", "readBack"}, Readable(stored') PROVE Started(stored'[cur[s]])
      BY <1>a, <3>1, <3>2, <3>4 DEF FlaggedFirst
    <3>5. QED
      BY <2>1, <3>3, <3>4
  <2>5. QED
    BY <2>3, <2>4
<1>2. ASSUME aim'[s] = "note", stage'[s] # "note"
      PROVE  /\ Started(journal'[s][sweep'[s]])
             /\ stage'[s] \notin {"merge", "write"} /\ Readable(stored') => Started(stored'[sweep'[s]])
  <2>1. /\ journal'[s] \in Entries /\ ~IsDataBearing(journal'[s][sweep'[s]])
    BY <1>a, <1>2 DEF StageOK, Entries, AskedIsMissing
  <2>2. CASE NoteStarted(s)
    <3>1. /\ sweep[s] \in Gen /\ sweep'[s] = sweep[s] /\ journal[s] \in Entries /\ UNCHANGED stored
          /\ stage[s] = "note"
      BY <1>a, <2>2 DEF NoteStarted, StageOK, Entries
    <3>2. PICK count : count = IF CountsItems THEN Cardinality(content[sweep[s]]) ELSE 0
      OBVIOUS
    <3>3. count \in Nat
      BY <1>a, <3>1, <3>2, JournalAssumption, FS_Subset, FS_CardinalityType DEF TypeOK
    <3>4. PICK before, after :
            /\ before = Bound(s, journal[s][sweep[s]])
            /\ after = NoteItemsSeen(MarkImportStarted(before), count)
      OBVIOUS
    <3>4a. /\ journal' = [journal EXCEPT ![s] = [Rebind(s, @) EXCEPT ![sweep[s]] = after]]
           /\ At(s, IF after = before THEN "noteMarker" ELSE "merge")
      BY <2>2, <3>2, <3>4 DEF NoteStarted
    <3>5. journal'[s][sweep[s]] = after
      BY <1>a, <3>1, <3>4a DEF JTyped, Rebind
    <3>6. journal[s][sweep[s]] \in JournalState /\ Bound(s, journal[s][sweep[s]]) \in JournalState
      BY <3>1, EffectiveEntry DEF Bound, Entries
    <3>7. Started(after)
      BY <2>1, <3>1, <3>3, <3>4, <3>5, <3>6, OpenFlags
    <3>8. ASSUME stage'[s] \notin {"merge", "write"}, Readable(stored') PROVE Started(stored'[sweep[s]])
      <4>1. after = Bound(s, journal[s][sweep[s]])
        BY <1>a, <3>4, <3>4a, <3>8 DEF At, JTyped
      <4>2. Started(journal[s][sweep[s]])
        BY <3>1, <3>6, <3>7, <4>1, BoundFlags
      <4>3. QED
        BY <3>1, <3>8, <4>2 DEF LoadedAsStored
    <3>9. QED
      BY <3>1, <3>5, <3>7, <3>8
  <2>3. CASE aim[s] = "note" /\ stage[s] # "note" /\ sweep'[s] = sweep[s]
    <3>1. journal[s] \in Entries /\ sweep[s] \in Gen /\ stage[s] \notin {"idle", "load"}
      BY <1>a, <2>3 DEF StageOK, Entries
    <3>2. Started(journal[s][sweep[s]])
      BY <2>3 DEF FlaggedFirst
    <3>3. Started(journal'[s][sweep[s]])
      BY <2>1, <2>3, <3>1, <3>2, WorksShow
    <3>4. ASSUME stage'[s] \notin {"merge", "write"}, Readable(stored') PROVE Started(stored'[sweep[s]])
      <4>1. CASE stage[s] \in {"merge", "write"}
        BY <1>2, <1>a, <2>3, <3>2, <3>4, <4>1, StaysAnnounced
      <4>2. CASE stage[s] \notin {"merge", "write"}
        BY <1>a, <2>3, <3>2, <3>4, <4>2 DEF FlaggedFirst
      <4>3. QED
        BY <4>1, <4>2
    <3>5. QED
      BY <2>3, <3>3, <3>4
  <2>4. QED
    BY <1>2, <1>a, <2>2, <2>3, WhoAnnounces
<1>3. QED
  BY <1>1, <1>2 DEF FlaggedFirst

LEMMA InitTelling == JInit => TellingInv
<1> SUFFICES ASSUME JInit PROVE TellingInv
  OBVIOUS
<1>1. AnswerInv /\ JMemoryInv
  BY InitAnswerInv, InitJMemory
<1>2. NoJournal \notin Entries
  BY JournalAssumption DEF Entries
<1>3. ShowsPartial(stored) /\ \A s \in Session : ShowsPartial(journal[s])
  BY <1>2 DEF JInit, ShowsPartial
<1>4. ASSUME NEW s \in Session
      PROVE  TellsPartial(s) /\ UnverifiedUnread(s) /\ LeavesUnread(s) /\ RowsFilled(s) /\ FlaggedFirst(s)
  BY DEF JInit, Init, TellsPartial, UnverifiedUnread, LeavesUnread, Walking, RowsFilled, FlaggedFirst,
         AfterFetch
<1>5. QED
  BY <1>1, <1>3, <1>4 DEF TellingInv

LEMMA StepTelling ==
  OneSession /\ WholeRetries /\ TellingInv /\ [JNext]_jvars => TellingInv'
<1> SUFFICES ASSUME OneSession, WholeRetries, TellingInv, [JNext]_jvars PROVE TellingInv'
  BY Zenon
<1>a. AnswerInv /\ JMemoryInv /\ WalkShape /\ TypeOK /\ AnswerInv' /\ JMemoryInv' /\ WalkShape'
  BY StepAnswerInv, StepJMemory, ShapeParts DEF TellingInv, AnswerInv, JournalInv, WalkShape
<1>1. ASSUME NEW s \in Session, JActs(s) PROVE TellingInv'
  <2>1. /\ ShowsPartial(stored) /\ ShowsPartial(journal[s]) /\ TellsPartial(s) /\ UnverifiedUnread(s)
        /\ LeavesUnread(s) /\ RowsFilled(s) /\ FlaggedFirst(s)
    BY DEF TellingInv
  <2>2. /\ LoadedAsStored(s) /\ AskedIsMissing(s) /\ AskedIsMissing(s)'
    BY <1>a DEF JMemoryInv, Remembers
  <2>3. /\ ShowsPartial(stored)' /\ ShowsPartial(journal[s])' /\ TellsPartial(s)'
        /\ UnverifiedUnread(s)' /\ LeavesUnread(s)' /\ RowsFilled(s)' /\ FlaggedFirst(s)'
    BY <1>1, <1>a, <2>1, <2>2, ShowsStay, TellsStay, LeavesStay, RowsFill, FlagsStay
  <2>4. \A t \in Session : t = s
    BY DEF OneSession
  <2>5. QED
    BY <1>a, <2>3, <2>4 DEF TellingInv
<1>2. CASE \/ /\ UNCHANGED journaling /\ UNCHANGED volatile
              /\ UNCHANGED vars \/ \E k \in Key : UserWrite(k) \/ UserDelete(k)
           \/ Corrupt
  <2>1. /\ UNCHANGED <<journal, stage, aim, already, checked, unverified, sweep>>
        /\ UNCHANGED stored \/ stored' = CorruptJournal
        /\ UNCHANGED <<pc, cur, items, row, content>>
    BY <1>2 DEF volatile, vars, durable, UserWrite, UserDelete, journaling, Corrupt
  <2>2. \A k \in Key, g \in Gen : (store'[k] = g => store[k] = g) /\ (store[k] # Absent => store'[k] # Absent)
    <3>1. \A g \in Gen : g # Own /\ g # Deleted
      BY WalkAssumption DEF Gen, Own, Deleted
    <3>2. Own # Absent /\ Deleted # Absent
      BY WalkAssumption DEF Own, Deleted, Absent
    <3>3. CASE UNCHANGED store
      BY <3>3
    <3>4. CASE \E j \in Key : store' \in {[store EXCEPT ![j] = Own], [store EXCEPT ![j] = Deleted]}
      BY <1>a, <3>1, <3>2, <3>4 DEF TypeOK
    <3>5. QED
      BY <1>2, <3>3, <3>4 DEF vars, durable, UserWrite, UserDelete, Corrupt
  <2>3. ASSUME NEW g \in Gen, PartlyCopied(g)' PROVE PartlyCopied(g)
    BY <2>1, <2>2, <2>3 DEF PartlyCopied, TakenOver, EverHeld
  <2>4. ASSUME NEW s \in Session
        PROVE  /\ ShowsPartial(journal[s])' /\ TellsPartial(s)' /\ UnverifiedUnread(s)'
               /\ LeavesUnread(s)' /\ RowsFilled(s)' /\ FlaggedFirst(s)'
    <3>1. /\ ShowsPartial(journal[s]) /\ TellsPartial(s) /\ UnverifiedUnread(s)
          /\ LeavesUnread(s) /\ RowsFilled(s) /\ FlaggedFirst(s)
      BY DEF TellingInv
    <3>2. ShowsPartial(journal[s])' /\ TellsPartial(s)' /\ UnverifiedUnread(s)'
      BY <2>1, <2>3, <3>1 DEF ShowsPartial, TellsPartial, UnverifiedUnread
    <3>3. LeavesUnread(s)' /\ RowsFilled(s)'
      BY <2>1, <2>3, <3>1 DEF LeavesUnread, Walking, PassedUnread, RowsFilled
    <3>4. FlaggedFirst(s)'
      BY <2>1, <3>1 DEF FlaggedFirst, Readable
    <3>5. QED
      BY <3>2, <3>3, <3>4
  <2>5. ShowsPartial(stored)'
    <3>1. CorruptJournal \notin Entries
      BY JournalAssumption DEF Entries
    <3>2. QED
      BY <2>1, <2>3, <3>1 DEF TellingInv, ShowsPartial
  <2>6. QED
    BY <1>a, <2>4, <2>5 DEF TellingInv
<1>3. QED
  BY <1>1, <1>2, WhoJActs

\* What an answer says of a partial copy.
LEMMA TellsInterrupted ==
  ASSUME NEW s \in Session, NEW j \in Entries, NEW unread, NEW g \in Gen,
         Started(j[g]) \/ g \in unread, Shows(j[g]), Warranted(g, j[g])
  PROVE  StatusOf(s, j, unread).interrupted
<1>1. j[g] \in JournalState
  BY DEF Entries
<1>2. Started(Bound(s, IF g \in unread THEN MarkImportStarted(j[g]) ELSE j[g]))
  BY <1>1, BoundTelling
<1>3. PICK view : view = [h \in Gen |-> Bound(s, IF h \in unread THEN MarkImportStarted(j[h]) ELSE j[h])]
  OBVIOUS
<1>4. StatusOf(s, j, unread).interrupted = \E h \in Gen : Started(view[h])
  BY <1>3 DEF StatusOf
<1>5. Started(view[g])
  BY <1>2, <1>3
<1>6. QED
  BY <1>4, <1>5

\* A partial copy is told of in the answer, where an answer is told at all.
LEMMA AnswerTells ==
  ASSUME TellingInv, NEW s \in Session, JActs(s), Answers(s), status'[s].told,
         NEW g \in Gen, PartlyCopied(g)'
  PROVE  status'[s].interrupted
<1>a. /\ AnswerInv /\ TypeOK /\ JTyped /\ StageOK(s) /\ AllWarranted(journal[s])
      /\ ShowsPartial(journal[s]) /\ TellsPartial(s)
  BY ShapeParts DEF TellingInv, AnswerInv, JournalInv, WalkShape
<1>b. stage[s] # "idle" /\ stage'[s] = "idle"
  BY DEF Answers
<1>c. /\ ~At(s, "load") /\ ~At(s, "seed") /\ ~At(s, "merge") /\ ~At(s, "write") /\ ~At(s, "walk")
      /\ ~At(s, "readBack") /\ ~At(s, "note") /\ ~At(s, "noteMarker") /\ ~At(s, "noteRead")
      /\ ~At(s, "copy") /\ stage' # stage
  BY <1>a, <1>b DEF At, JTyped
<1>d. ~Leave(s, NoStatus)
  BY <1>a DEF Leave, JTyped, NoStatus
<1>1. status'[s] # NoStatus
  BY DEF NoStatus
<1>2. PartlyCopied(g)
  <2>1. UNCHANGED durable
    BY <1>1, <1>a, WhoAnswers
  <2>2. QED
    BY <2>1 DEF PartlyCopied, TakenOver, EverHeld, durable
<1>3. ASSUME NEW j \in Entries, NEW unread, Leave(s, StatusOf(s, j, unread)),
             Started(j[g]) \/ g \in unread, Shows(j[g]), Warranted(g, j[g])
      PROVE  status'[s].interrupted
  <2>1. status'[s] = StatusOf(s, j, unread)
    BY <1>3, <1>a DEF Leave, JTyped
  <2>2. QED
    BY <1>3, <2>1, TellsInterrupted
<1>4. CASE SeedJournal(s)
  <2>1. PICK unreadable \in SUBSET Gen : KeepJournal(s, unreadable)
    BY <1>c, <1>4 DEF SeedJournal, RebuildJournal, ToStore
  <2>2. journal[s] \in Entries
    BY <1>a, <2>1, ReadableEntries DEF KeepJournal, JTyped
  <2>3. PICK j \in Entries, read \in SUBSET Gen, unread \in SUBSET Gen :
          /\ Established(s, j, read, unread) \/ ToStore(s, j, read, unread)
          /\ (Started(j[g]) \/ g \in unread) /\ Shows(j[g]) /\ Warranted(g, j[g])
    BY <1>2, <1>a, <2>1, <2>2, KeepsTelling
  <2>4. Leave(s, StatusOf(s, j, unread))
    BY <1>c, <2>3 DEF Established, ToStore
  <2>5. QED
    BY <1>3, <2>3, <2>4
<1>5. CASE StoreJournal(s)
  <2>1. Leave(s, StatusOf(s, journal[s], unverified[s]))
    BY <1>c, <1>d, <1>5 DEF StoreJournal, Established, Flagged, Return, Announced
  <2>2. journal[s] \in Entries /\ stage[s] = "write"
    BY <1>a, <1>5 DEF StoreJournal, StageOK, Entries
  <2>3. aim[s] # "note"
    BY <1>c, <1>d, <1>5 DEF StoreJournal, Established, Flagged, Return, Announced
  <2>4. QED
    BY <1>2, <1>3, <1>a, <2>1, <2>2, <2>3 DEF TellsPartial, ShowsPartial, AllWarranted
<1>6. CASE ~SeedJournal(s) /\ ~StoreJournal(s)
  <2>1. CASE JStep(s)
    BY <1>c, <1>6, <2>1 DEF JStep, LoadJournal, MergeStored, JournalShortCut, BelieveSeal, AskAgain,
       JFetchSecrets, BeforeImport, JRecordInProgress, ReadBack, PlainAwait, ResolveOutcomes, journaling
  <2>2. CASE ~JStep(s)
    BY <1>c, <1>d, <2>2 DEF JActs, JFault, AppStep, BeginMigrationJournal, MigrateJournaled, Operate,
       JournalUnavailable, JMarkerUnreadable, NoteLoad, NoteRefused, NoteStarted, NoteMarker,
       NoteReadBack, AppWrite, AppDone, Die, RaiseRevision, journaling
  <2>3. QED
    BY <2>1, <2>2
<1>7. QED
  BY <1>4, <1>5, <1>6

-------------------------------------------------------------------------------
(* One session: what a retry is held to.                                      *)

\* The markers say that g holds data.
Evidence(g) == wip[g] = "data" \/ done[g] = "data" \/ g \in legacy

\* The walk passes g by for good: it is sealed, or a snapshot walk ends before it.
AskedNoMore(g) ==
  \/ done[g] = "data" \/ Bridged(g)
  \/ SnapshotPolicy(Policy) /\ \E h \in Gen : h > g /\ (wip[h] = "data" \/ done[h] = "data")

Speaks(e) == Started(e) \/ e.seen > 0

\* An entry of n items, known to be there or said so by itself, has counted them.
Enough(e, n, known) == known \/ Speaks(e) => e.kind = "imported" \/ e.seen >= n

CountedFor(g, e) ==
  /\ IsDataBearing(e) => Evidence(g)
  /\ ~AskedNoMore(g) => Enough(e, Cardinality(content[g]), wip[g] = "data")

Counted(j) == j \in Entries => \A g \in Gen : CountedFor(g, j[g])

\* Nothing is told of a predecessor before a journal is stored.
StoredFirst ==
  /\ stored # CorruptJournal
  /\ stored = NoJournal => \A g \in Gen : wip[g] # "data"

BridgedOpen == \A g \in Gen : Bridged(g) => done[g] = "absent"

SeedIsStored(s) == stage[s] = "seed" => journal[s] = stored

StoredInUse(s) == pc[s] # "idle" \/ aim[s] = "note" => stored \in Entries

AskedUnbridged(s) == pc[s] \in Asking => ~Bridged(cur[s])

\* A retry is flagged before it is asked.
AskedFlagged(s) == pc[s] \in {"probe", "fetch"} /\ prior[s] => Started(journal[s][cur[s]])

\* What a row says, the markers say.
RowTells(s, g) ==
  /\ row[s][g] = "imported" \/ OnlyRejections(s, g) => Evidence(g)
  /\ row[s][g] = "alreadyMigrated" =>
       /\ already[s][g] \in {"journal", "data"} => Evidence(g)
       /\ already[s][g] = "bridged" => AskedNoMore(g)
       /\ already[s][g] = "empty" => wip[g] # "data"
  /\ row[s][g] = "noData" => wip[g] # "data"

CountInv ==
  /\ TellingInv /\ StoredFirst /\ BridgedOpen /\ Counted(stored)
  /\ \A s \in Session :
       /\ Counted(journal[s]) /\ SeedIsStored(s) /\ StoredInUse(s)
       /\ AskedUnbridged(s) /\ AskedFlagged(s)
       /\ Walking(s) => \A g \in Gen : RowTells(s, g)

\* What the operators on entries keep of a count.
LEMMA EffectiveEnough ==
  ASSUME NEW a \in JournalState, NEW snapshot, NEW rev, NEW n \in Nat, NEW known \in BOOLEAN,
         Enough(a, n, known)
  PROVE  Enough(Effective(a, snapshot, rev), n, known)
BY SMTT(60) DEF Enough, Speaks, Started, IsPending, Effective, Unresolved, Fresh, JournalState, IsNormal, Kind

LEMMA MergedEnough ==
  ASSUME NEW a \in JournalState, NEW b \in JournalState, NEW n \in Nat, NEW known \in BOOLEAN,
         Enough(a, n, known), Enough(b, n, known)
  PROVE  Enough(MergeStates(a, b), n, known)
BY SMTT(60) DEF Enough, Speaks, Started, IsPending, MergeStates, MergeResolved, MergeSettled,
       MergePending, IsDataBearing, CompletenessRank, Larger, Unresolved, JournalState, IsNormal, Kind

LEMMA StartedEnough ==
  ASSUME NEW a \in JournalState, NEW n \in Nat, NEW known \in BOOLEAN, Enough(a, n, known)
  PROVE  /\ known \/ Speaks(a) => n = 0 \/ Enough(MarkImportStarted(a), n, known)
         /\ \A count \in Nat : count >= n =>
              Enough(NoteItemsSeen(MarkImportStarted(a), count), n, known)
         /\ \A count \in Nat : Enough(MarkImportStarted(a), n, known) =>
              Enough(NoteItemsSeen(MarkImportStarted(a), count), n, known)
BY SMTT(60) DEF Enough, Speaks, Started, IsPending, MarkImportStarted, NoteItemsSeen,
       IsDataBearing, Larger, Unresolved, JournalState, IsNormal, Kind

LEMMA RecordedEnough ==
  ASSUME NEW a \in JournalState, NEW n \in Nat, NEW known \in BOOLEAN, Enough(a, n, known)
  PROVE  /\ Enough(Record(a, Imported), n, known)
         /\ ~known => Enough(Record(a, NoData), n, known)
         /\ \A rejected, rev \in Nat :
              Enough(Record(a, ImportedWithRejections(rejected, rev, 0)), n, known)
<1>1. Enough(Imported, n, known) /\ (~known => Enough(NoData, n, known))
  BY DEF Enough, Speaks, Started, IsPending, Imported, NoData, Fresh
<1>2. Record(a, Imported) = MergeStates(a, Imported) /\ Record(a, NoData) = MergeStates(a, NoData)
  BY DEF Record, Imported, NoData, Fresh
<1>3. Enough(Record(a, Imported), n, known) /\ (~known => Enough(Record(a, NoData), n, known))
  BY <1>1, <1>2, EntriesOfWalks, MergedEnough
<1>4. ASSUME NEW rejected \in Nat, NEW rev \in Nat
      PROVE  Enough(Record(a, ImportedWithRejections(rejected, rev, 0)), n, known)
  BY SMTT(60) DEF Record, ImportedWithRejections, Enough, Speaks, Started, IsPending, MergeStates,
       MergeResolved, MergeSettled, MergePending, IsDataBearing, CompletenessRank, Larger, Unresolved,
       JournalState, IsNormal, Kind
<1>5. QED
  BY <1>3, <1>4

LEMMA ContentCounts ==
  ASSUME TypeOK, NEW g \in Gen
  PROVE  /\ Cardinality(content[g]) \in Nat
         /\ content[g] # {} => Cardinality(content[g]) # 0
         /\ \A part \in SUBSET content[g] :
              /\ Cardinality(part) \in Nat
              /\ Cardinality(part) >= Cardinality(content[g]) => part = content[g]
<1>1. content[g] \subseteq Key
  BY DEF TypeOK
<1>2. IsFiniteSet(content[g])
  BY <1>1, JournalAssumption, FS_Subset
<1>3. Cardinality(content[g]) \in Nat /\ (content[g] # {} => Cardinality(content[g]) # 0)
  BY <1>2, FS_CardinalityType, FS_EmptySet
<1>4. ASSUME NEW part \in SUBSET content[g]
      PROVE  /\ Cardinality(part) \in Nat
             /\ Cardinality(part) >= Cardinality(content[g]) => part = content[g]
  <2>1. /\ IsFiniteSet(part) /\ Cardinality(part) <= Cardinality(content[g])
        /\ Cardinality(content[g]) = Cardinality(part) => content[g] = part
    BY <1>2, FS_Subset
  <2>2. Cardinality(part) \in Nat
    BY <2>1, FS_CardinalityType
  <2>3. QED
    BY <1>3, <2>1, <2>2
<1>5. QED
  BY <1>3, <1>4

LEMMA BoundCounted ==
  ASSUME TypeOK, NEW g \in Gen, NEW a \in JournalState, CountedFor(g, a), NEW s
  PROVE  CountedFor(g, Bound(s, a))
<1>1. Cardinality(content[g]) \in Nat /\ (wip[g] = "data") \in BOOLEAN
  BY ContentCounts
<1>2. QED
  BY <1>1, EffectiveEntry, EffectiveEnough DEF CountedFor, Bound

LEMMA MergedCounted ==
  ASSUME TypeOK, NEW g \in Gen, NEW a \in JournalState, NEW b \in JournalState,
         CountedFor(g, a), CountedFor(g, b)
  PROVE  CountedFor(g, MergeStates(a, b))
<1>1. Cardinality(content[g]) \in Nat /\ (wip[g] = "data") \in BOOLEAN
  BY ContentCounts
<1>2. QED
  BY <1>1, MergeKeepsData, MergedEnough DEF CountedFor

\* An import that starts where data was told of, or was counted, keeps the count.
LEMMA StartedCounted ==
  ASSUME TypeOK, NEW g \in Gen, NEW a \in JournalState, CountedFor(g, a), content[g] # {},
         wip[g] = "data" \/ Speaks(a)
  PROVE  CountedFor(g, MarkImportStarted(a))
<1>1. /\ Cardinality(content[g]) \in Nat /\ (wip[g] = "data") \in BOOLEAN
      /\ Cardinality(content[g]) # 0
  BY ContentCounts
<1>2. QED
  BY <1>1, StartedEntry, StartedEnough DEF CountedFor

\* One that starts with all that is there sets it.
LEMMA NotedCounted ==
  ASSUME TypeOK, NEW g \in Gen, NEW a \in JournalState, CountedFor(g, a), NEW count \in Nat,
         count >= Cardinality(content[g]) \/ CountedFor(g, MarkImportStarted(a))
  PROVE  CountedFor(g, NoteItemsSeen(MarkImportStarted(a), count))
<1>1. Cardinality(content[g]) \in Nat /\ (wip[g] = "data") \in BOOLEAN
  BY ContentCounts
<1>2. MarkImportStarted(a) \in JournalState
  BY StartedEntry
<1>3. IsDataBearing(NoteItemsSeen(MarkImportStarted(a), count)) => IsDataBearing(a)
  BY <1>2, StartedEntry, CountedEntry
<1>4. QED
  BY <1>1, <1>3, StartedEnough DEF CountedFor

LEMMA RebuiltCounted ==
  ASSUME TypeOK, NEW g \in Gen, wip[g] # "data"
  PROVE  CountedFor(g, FromMarkers[g])
<1>1. ExactMarker(g) # "wipData"
  BY ExactTells
<1>2. /\ FromMarkers[g] \in {Imported, NoData, Superseded, Fresh}
      /\ FromMarkers[g] = Imported => ExactMarker(g) = "doneData"
  BY <1>1 DEF FromMarkers, Imported, NoData, Superseded, Fresh
<1>3. IsDataBearing(FromMarkers[g]) => Evidence(g)
  BY <1>2, ExactTells, EntriesOfWalks DEF Evidence
<1>4. \A n : Enough(FromMarkers[g], n, FALSE)
  BY <1>2 DEF Enough, Speaks, Started, IsPending, Imported, NoData, Superseded, Fresh
<1>5. (wip[g] = "data") = FALSE
  OBVIOUS
<1>6. QED
  BY <1>3, <1>4, <1>5 DEF CountedFor

\* An entry that is counted stays so.
LEMMA CountStays ==
  ASSUME NEW g \in Gen, NEW e, CountedFor(g, e), UNCHANGED content,
         Evidence(g) => Evidence(g)', AskedNoMore(g) => AskedNoMore(g)',
         wip'[g] = "data" => wip[g] = "data" \/ Speaks(e)
  PROVE  /\ IsDataBearing(e) => Evidence(g)'
         /\ ~AskedNoMore(g)' => Enough(e, Cardinality(content'[g]), wip'[g] = "data")
BY DEF CountedFor, Enough

\* What it asks is not passed by.
LEMMA AskedStillCounts ==
  ASSUME CountInv, NEW s \in Session, pc[s] \in Asking
  PROVE  cur[s] \in Gen /\ ~AskedNoMore(cur[s]) /\ journal[s] \in Entries /\ stored \in Entries
<1>1. /\ TypeOK /\ StageOK(s) /\ WalkAlone(s) /\ AskedUnbridged(s) /\ StoredInUse(s)
  BY ShapeParts DEF CountInv, TellingInv, JMemoryInv, JAloneInv, WalkShape
<1>2. cur[s] \in Gen /\ pc[s] # "idle"
  BY <1>1, CurrentGeneration DEF Asking
<1>3. journal[s] \in Entries /\ stored \in Entries
  BY <1>1, <1>2 DEF StageOK, Entries, StoredInUse
<1>4. QED
  BY <1>1, <1>2, <1>3 DEF WalkAlone, AskedOpen, Unsealed, NoDataBehind, AskedUnbridged, AskedNoMore

\* So whatever is taken from a predecessor known to hold data is all of it.
LEMMA CountedRetries == CountInv => WholeRetries
<1> SUFFICES ASSUME CountInv, NEW s \in Session, pc[s] = "fetch", prior[s],
                    NEW exported \in JExport(s), ~TooShort(s, exported)
             PROVE  exported = content[cur[s]]
  BY DEF WholeRetries
<1>1. /\ TypeOK /\ Counted(journal[s]) /\ AskedFlagged(s)
  BY ShapeParts DEF CountInv, TellingInv, JMemoryInv, JAloneInv, WalkShape
<1>2. cur[s] \in Gen /\ ~AskedNoMore(cur[s]) /\ journal[s] \in Entries
  BY AskedStillCounts DEF Asking
<1>3. /\ Started(journal[s][cur[s]]) /\ journal[s][cur[s]] \in JournalState
      /\ Enough(journal[s][cur[s]], Cardinality(content[cur[s]]), wip[cur[s]] = "data")
  BY <1>1, <1>2 DEF AskedFlagged, Counted, CountedFor, Entries
<1>4. journal[s][cur[s]].seen >= Cardinality(content[cur[s]])
  BY <1>3 DEF Enough, Speaks, Started, IsPending
<1>5. exported \subseteq content[cur[s]]
  BY DEF JExport, Export
<1>6. /\ Cardinality(exported) \in Nat /\ Cardinality(content[cur[s]]) \in Nat
      /\ Cardinality(exported) >= Cardinality(content[cur[s]]) => exported = content[cur[s]]
  BY <1>1, <1>2, <1>5, ContentCounts
<1>7. ~(Cardinality(exported) < journal[s][cur[s]].seen) /\ journal[s][cur[s]].seen \in Nat
  BY <1>3 DEF TooShort, ItemsSeen, Started, JournalState
<1>8. QED
  BY <1>4, <1>6, <1>7

\* Who writes a marker.
LEMMA WhoMarks ==
  ASSUME WalkShape, NEW s \in Session, JActs(s)
  PROVE  /\ UNCHANGED wip \/ JRecordInProgress(s) \/ NoteMarker(s)
         /\ UNCHANGED done \/ RecordDone(s)
<1>1. Moves(s)
  BY WalkMoves DEF WalkShape
<1>2. UNCHANGED done \/ RecordDone(s)
  BY <1>1 DEF Moves, Awaits, StartRun, MarkerUnreadable, ProbeExecutable, NoAnswer, RecordInProgress,
     BeginMarkerFails, Item, WithholdItem, WriteSecret, WriteFails, Flush, FlushFails,
     CompleteMarkerFails, Crash, PassesOver, Asks, Takes, HandsOver, HandOver, Marks, CopiesItself,
     vars, durable
<1>3. ASSUME ~UNCHANGED wip PROVE JRecordInProgress(s) \/ NoteMarker(s)
  <2>1. ~UNCHANGED vars /\ ~UNCHANGED durable
    BY <1>3 DEF vars, durable
  <2>2. ~StartRun(s) /\ ~Crash(s) /\ ~HandOver(s) /\ ~MarkerUnreadable(s)
    BY <2>1, <1>3 DEF StartRun, Crash, HandOver, MarkerUnreadable
  <2>3. \A j, read, unread : ~Established(s, j, read, unread)
    BY <2>1, <2>2 DEF Established
  <2>4. CASE JStep(s)
    <3>1. ~PlainAwait(s)
      BY <1>3 DEF PlainAwait, ProbeExecutable, NoAnswer, BeginMarkerFails, Item, WithholdItem,
         WriteSecret, WriteFails, Flush, FlushFails, RecordDone, CompleteMarkerFails, durable
    <3>2. QED
      BY <2>1, <2>2, <2>3, <2>4, <3>1 DEF JStep, LoadJournal, SeedJournal, KeepJournal, RebuildJournal,
         ToStore, MergeStored, StoreJournal, Flagged, Return, Announced, JournalShortCut, BelieveSeal,
         AskAgain, JFetchSecrets, ReadBack, ResolveOutcomes
  <2>5. CASE ~JStep(s)
    BY <1>3, <2>1, <2>2, <2>5 DEF JActs, JFault, AppStep, BeginMigrationJournal, MigrateJournaled,
       Operate, JournalUnavailable, JMarkerUnreadable, NoteLoad, NoteRefused, NoteStarted,
       NoteReadBack, AppWrite, AppDone, Die, RaiseRevision
  <2>6. QED
    BY <2>4, <2>5
<1>4. QED
  BY <1>2, <1>3

\* What the markers tell they go on telling.
LEMMA EvidenceStays ==
  ASSUME CountInv, NEW s \in Session, JActs(s)
  PROVE  /\ UNCHANGED <<content, legacy>>
         /\ \A g \in Gen : /\ Evidence(g) => Evidence(g)'
                           /\ AskedNoMore(g) => AskedNoMore(g)'
                           /\ Bridged(g)' <=> Bridged(g)
                           /\ Bridged(g)' => done'[g] = "absent"
<1>a. /\ WalkShape /\ TypeOK /\ BridgedOpen /\ Moves(s)
  BY ShapeParts, WalkMoves DEF CountInv, TellingInv, AnswerInv, JournalInv, WalkShape
<1>1. /\ UNCHANGED <<content, legacy>> /\ \A g \in Gen : wip[g] = "data" => wip'[g] = "data"
  BY <1>a, MovesHold
<1>2. \A g \in Gen : Bridged(g)' <=> Bridged(g)
  BY <1>1 DEF Bridged
<1>3. \A g \in Gen : /\ done[g] = "data" => done'[g] = "data"
                     /\ Bridged(g) => done'[g] = "absent"
  <2>1. CASE UNCHANGED done
    BY <1>a, <2>1 DEF BridgedOpen
  <2>2. CASE RecordDone(s)
    <3>1. pc[s] \in Asking
      BY <2>2 DEF RecordDone, Asking
    <3>2. done[cur[s]] # "data" /\ ~Bridged(cur[s]) /\ cur[s] \in Gen
      BY <3>1, AskedStillCounts DEF AskedNoMore
    <3>3. \A g \in Gen : g # cur[s] => done'[g] = done[g]
      BY <1>a, <2>2 DEF RecordDone, TypeOK
    <3>4. QED
      BY <1>a, <3>2, <3>3 DEF BridgedOpen
  <2>3. QED
    BY <1>a, <2>1, <2>2, WhoMarks
<1>4. QED
  BY <1>1, <1>2, <1>3 DEF Evidence, AskedNoMore

\* A marker tells of data once the flag is in the journal, and stored.
LEMMA DataToldFlagged ==
  ASSUME CountInv, NEW s \in Session, JActs(s), NEW g \in Gen, wip'[g] = "data", wip[g] # "data"
  PROVE  /\ UNCHANGED <<stored, journal>> /\ stored \in Entries
         /\ Started(journal[s][g]) /\ Started(stored[g])
         /\ (pc[s] \in Asking /\ g = cur[s]) \/ aim[s] = "note"
<1>a. /\ WalkShape /\ TypeOK /\ JTyped /\ StageOK(s) /\ FlaggedFirst(s) /\ StoredInUse(s)
      /\ ExportBelieved
  BY ShapeParts DEF CountInv, TellingInv, AnswerInv, JournalInv, SealInv, WalkShape
<1>1. CASE JRecordInProgress(s)
  <2>1. pc[s] = "begin" /\ stage[s] = "walk" /\ UNCHANGED <<stored, journal>>
    BY <1>1 DEF JRecordInProgress, RecordInProgress
  <2>2. wip' = [wip EXCEPT ![cur[s]] = StickyInProgress(@, SawData(s))]
    BY <1>1 DEF JRecordInProgress, RecordInProgress
  <2>3. g = cur[s] /\ SawData(s)
    BY <1>a, <2>2 DEF TypeOK, StickyInProgress
  <2>4. items[s] # {}
    BY <1>a, <2>1, <2>3 DEF ExportBelieved, SawData, AfterFetch
  <2>5. stored \in Entries
    BY <1>a, <2>1 DEF StoredInUse
  <2>6. QED
    BY <1>a, <2>1, <2>3, <2>4, <2>5, ReadableEntries DEF FlaggedFirst, AfterFetch, Asking, JTyped
<1>2. CASE NoteMarker(s)
  <2>1. stage[s] = "noteMarker" /\ aim[s] = "note" /\ UNCHANGED <<stored, journal>>
    BY <1>a, <1>2 DEF NoteMarker, StageOK
  <2>2. g = sweep[s]
    BY <1>a, <1>2 DEF NoteMarker, TypeOK
  <2>3. stored \in Entries
    BY <1>a, <2>1 DEF StoredInUse
  <2>4. QED
    BY <1>a, <2>1, <2>2, <2>3, ReadableEntries DEF FlaggedFirst, JTyped
<1>3. QED
  BY <1>a, <1>1, <1>2, WhoMarks

\* Who writes the stored journal, and what.
LEMMA StoresEntries ==
  ASSUME WalkShape, NEW s \in Session, JActs(s)
  PROVE  UNCHANGED stored \/ (StoreJournal(s) /\ stored' = journal[s] /\ stored' \in Entries)
<1>1. UNCHANGED stored \/ StoreJournal(s)
  BY DEF JActs, JStep, JFault, AppStep, BeginMigrationJournal, MigrateJournaled, Operate, LoadJournal,
     SeedJournal, MergeStored, JournalShortCut, BelieveSeal, AskAgain, JFetchSecrets,
     JRecordInProgress, ReadBack, PlainAwait, ResolveOutcomes, JournalUnavailable, JMarkerUnreadable,
     NoteLoad, NoteRefused, NoteStarted, NoteMarker, NoteReadBack, AppWrite, AppDone, Die,
     RaiseRevision, journaling
<1>2. StoreJournal(s) => stored' = journal[s] /\ journal[s] \in Entries
  BY ShapeParts DEF WalkShape, StoreJournal, StageOK, Entries
<1>3. QED
  BY <1>1, <1>2

LEMMA StoredStaysFirst ==
  ASSUME CountInv, NEW s \in Session, JActs(s)
  PROVE  StoredFirst'
<1>a. WalkShape /\ StoredFirst
  BY ShapeParts DEF CountInv, TellingInv, AnswerInv, JournalInv
<1>b. NoJournal \notin Entries /\ CorruptJournal \notin Entries
  BY JournalAssumption DEF Entries
<1>1. CASE stored' \in Entries
  BY <1>b, <1>1 DEF StoredFirst
<1>2. CASE UNCHANGED stored /\ stored \notin Entries
  <2>1. \A g \in Gen : wip'[g] = "data" => wip[g] = "data"
    BY <1>2, DataToldFlagged
  <2>2. QED
    BY <1>a, <1>2, <2>1 DEF StoredFirst
<1>3. QED
  BY <1>a, <1>1, <1>2, StoresEntries

\* A run starts, and the app announces, only over a stored journal.
LEMMA StoredStaysInUse ==
  ASSUME CountInv, NEW s \in Session, JActs(s)
  PROVE  StoredInUse(s)'
<1>a. /\ WalkShape /\ TypeOK /\ JTyped /\ StageOK(s) /\ SeedIsStored(s) /\ StoredInUse(s)
  BY ShapeParts DEF CountInv, TellingInv, AnswerInv, JournalInv, WalkShape
<1>1. CASE stored' \in Entries
  BY <1>1 DEF StoredInUse
<1>2. CASE UNCHANGED stored /\ stored \notin Entries
  <2>1. pc[s] = "idle" /\ aim[s] # "note" /\ ~Readable(stored)
    BY <1>a, <1>2, ReadableEntries DEF StoredInUse, JTyped
  <2>2. ~StoreJournal(s) /\ ~\E g \in Sweeps : NoteLoad(s, g)
    BY <1>a, <1>2, <2>1, ReadableEntries DEF StoreJournal, StageOK, Entries, NoteLoad
  <2>3. ASSUME NEW what, what # "note", For(s, what) PROVE aim'[s] # "note"
    BY <1>a, <2>3 DEF For, JTyped
  <2>4. ASSUME UNCHANGED <<pc, aim>> PROVE StoredInUse(s)'
    BY <2>1, <2>4 DEF StoredInUse
  <2>5. ASSUME NEW answer, Leave(s, answer), UNCHANGED pc PROVE StoredInUse(s)'
    BY <2>1, <2>3, <2>5 DEF Leave, StoredInUse
  <2>6. ASSUME NEW what, what # "note", For(s, what), UNCHANGED pc PROVE StoredInUse(s)'
    BY <2>1, <2>3, <2>6 DEF StoredInUse
  <2>7. CASE SeedJournal(s)
    <3>1. RebuildJournal(s)
      BY <1>a, <2>1, <2>7 DEF SeedJournal, KeepJournal, SeedIsStored
    <3>2. QED
      BY <2>4, <3>1 DEF RebuildJournal, ToStore, vars, volatile
  <2>8. CASE JStep(s) /\ ~SeedJournal(s)
    <3>1. LoadJournal(s) \/ MergeStored(s) \/ ResolveOutcomes(s)
      BY <1>a, <2>1, <2>2, <2>8 DEF JStep, JournalShortCut, BelieveSeal, AskAgain, JFetchSecrets,
         JRecordInProgress, RecordInProgress, ReadBack, StageOK, PlainAwait, ProbeExecutable, NoAnswer,
         BeginMarkerFails, Item, WithholdItem, WriteSecret, Pending, WriteFails, Flush, FlushFails, RecordDone,
         CompleteMarkerFails
    <3>2. QED
      BY <2>4, <2>6, <3>1 DEF LoadJournal, MergeStored, ResolveOutcomes, vars, volatile
  <2>9. CASE JFault(s) \/ Die(s) \/ RaiseRevision(s) \/ BeginMigrationJournal(s) \/ MigrateJournaled(s)
    BY <1>a, <2>1, <2>4, <2>5, <2>6, <2>9 DEF JFault, JournalUnavailable, JMarkerUnreadable,
       MarkerUnreadable, HandOver, StageOK, Die, RaiseRevision, BeginMigrationJournal, MigrateJournaled,
       Operate, vars, volatile
  <2>10. CASE AppStep(s)
    BY <2>2, <2>4, <2>5, <2>10 DEF AppStep, NoteRefused, NoteStarted, NoteMarker, NoteReadBack,
       AppWrite, AppDone, vars, volatile, journaling
  <2>11. QED
    BY <2>7, <2>8, <2>9, <2>10 DEF JActs
<1>3. QED
  BY <1>a, <1>1, <1>2, StoresEntries

LEMMA AskedStaysUnbridged ==
  ASSUME CountInv, NEW s \in Session, JActs(s)
  PROVE  AskedUnbridged(s)'
<1>a. /\ WalkShape /\ TypeOK /\ BridgedOpen /\ AskedUnbridged(s)
  BY ShapeParts DEF CountInv, TellingInv, AnswerInv, JournalInv, WalkShape
<1>b. legacy' = legacy
  BY EvidenceStays
<1>1. SUFFICES ASSUME pc'[s] \in Asking PROVE ~LegacyMigrated(Policy, legacy, cur'[s])
  BY <1>b DEF AskedUnbridged, Bridged
<1>2. CASE AskAgain(s)
  <2>1. pc[s] # "idle" /\ cur' = cur /\ Marker(cur[s]) # "doneData"
    BY <1>2 DEF AskAgain
  <2>2. cur[s] \in Gen
    BY <1>a, <2>1, CurrentGeneration
  <2>3. ~Bridged(cur[s])
    BY <1>a, <2>1, <2>2, MarkerTells DEF BridgedOpen
  <2>4. QED
    BY <2>1, <2>3 DEF Bridged
<1>3. CASE pc[s] \in Asking /\ cur'[s] = cur[s]
  BY <1>a, <1>3 DEF AskedUnbridged, Bridged
<1>4. QED
  BY <1>a, <1>1, <1>2, <1>3, WhoAsks

\* On the way from the flag to the fetch nothing of the question changes.
LEMMA AskingOn ==
  ASSUME WalkShape, NEW s \in Session, Moves(s), pc[s] \in Asking, pc'[s] \in {"probe", "fetch"}
  PROVE  pc[s] \in {"probe", "fetch"} /\ prior'[s] = prior[s]
<1>a. TypeOK
  BY ShapeParts DEF WalkShape
<1>1. ASSUME NEW kind, NEW terminated, NEW keys, Report(s, kind, terminated, keys) PROVE FALSE
  BY <1>a, <1>1 DEF Report, TypeOK
<1>2. QED
  BY <1>1, <1>a DEF Moves, Awaits, StartRun, MarkerUnreadable, ProbeExecutable, NoAnswer,
     RecordInProgress, BeginMarkerFails, Item, WithholdItem, WriteSecret, WriteFails, Flush, FlushFails,
     RecordDone, CompleteMarkerFails, Crash, PassesOver, Asks, Takes, HandsOver, HandOver, Marks,
     CopiesItself, Unresponsive, WriterUnavailable, GoTo, TypeOK, Asking, vars, volatile

LEMMA AskedStaysFlagged ==
  ASSUME CountInv, NEW s \in Session, JActs(s), AskedIsMissing(s)'
  PROVE  AskedFlagged(s)'
<1>a. /\ AnswerInv /\ WalkShape /\ TypeOK /\ JTyped /\ JTyped' /\ StageOK(s) /\ StageOK(s)' /\ Moves(s)
      /\ AskedFlagged(s) /\ AskedIsMissing(s)
  BY ShapeParts, WalkMoves, ActsInShape
     DEF CountInv, TellingInv, AnswerInv, JournalInv, WalkShape, InShape, JMemoryInv, Remembers
<1>1. SUFFICES ASSUME pc'[s] \in {"probe", "fetch"}, prior'[s] PROVE Started(journal'[s][cur'[s]])
  BY DEF AskedFlagged
<1>2. pc'[s] \in Asking /\ journal'[s] \in Entries /\ ~IsDataBearing(journal'[s][cur'[s]])
  BY <1>a, <1>1 DEF Asking, StageOK, Entries, AskedIsMissing
<1>3. CASE AskAgain(s)
  <2>1. /\ pc[s] = "marker" /\ cur[s] \in Gen /\ cur' = cur /\ journal[s] \in Entries
    BY <1>a, <1>3, CurrentGeneration DEF AskAgain, StageOK, Entries
  <2>2. BeforeImport(s, MarkImportStarted(journal[s][cur[s]]), FALSE, "early")
    BY <1>a, <1>1, <1>3 DEF AskAgain, TypeOK
  <2>3. journal'[s][cur[s]] = MarkImportStarted(journal[s][cur[s]])
    BY <1>a, <2>1, <2>2 DEF BeforeImport, JTyped, Entries
  <2>4. QED
    BY <1>2, <2>1, <2>3, OpenFlags, 0 \in Nat DEF Entries
<1>4. CASE pc[s] \in Asking /\ cur'[s] = cur[s]
  <2>1. pc[s] \in {"probe", "fetch"} /\ prior[s]
    BY <1>a, <1>1, <1>4, AskingOn
  <2>2. /\ cur[s] \in Gen /\ journal[s] \in Entries /\ stage[s] \notin {"idle", "load"}
    BY <1>a, <1>4, CurrentGeneration DEF Asking, StageOK, Entries
  <2>3. QED
    BY <1>a, <1>2, <1>4, <2>1, <2>2, WorksShow DEF AskedFlagged
<1>5. QED
  BY <1>a, <1>2, <1>3, <1>4, WhoAsks

\* What the session read of the stored journal is what is stored.
LEMMA SeedStaysStored ==
  ASSUME WalkShape, NEW s \in Session, JActs(s)
  PROVE  SeedIsStored(s)'
BY LoadsStored DEF SeedIsStored

\* A row that says data is in place says that no older snapshot is asked.
LEMMA RowEndsAsking ==
  ASSUME TypeOK, NEW s \in Session, NEW g \in Gen, NEW h \in Gen, h > g,
         SnapshotPolicy(Policy), RowHasData(s, h), RowTells(s, h)
  PROVE  AskedNoMore(g)
<1>1. Evidence(h) \/ AskedNoMore(h)
  BY DEF RowHasData, RowTells
<1>2. CASE wip[h] = "data" \/ done[h] = "data"
  BY <1>2 DEF AskedNoMore
<1>3. CASE h \in legacy \/ Bridged(h)
  <2>1. PICK newest \in legacy : newest >= h
    BY <1>3 DEF Bridged, LegacyMigrated, Gen
  <2>2. newest >= g
    BY <2>1 DEF TypeOK, Gen
  <2>3. QED
    BY <2>2 DEF AskedNoMore, Bridged, LegacyMigrated
<1>4. CASE \E newer \in Gen : newer > h /\ (wip[newer] = "data" \/ done[newer] = "data")
  BY <1>4 DEF AskedNoMore, Gen
<1>5. QED
  BY <1>1, <1>2, <1>3, <1>4 DEF Evidence, AskedNoMore

\* What the walk records keeps the count.
LEMMA RecordedCounted ==
  ASSUME TypeOK, JTyped, NEW s \in Session, NEW g \in Gen, journal[s] \in Entries,
         CountedFor(g, journal[s][g]), \A h \in Gen : RowTells(s, h)
  PROVE  CountedFor(g, Recorded(s, g))
<1> DEFINE refused == ImportedWithRejections(Rejected(s, g), revision[s], 0)
<1>1. /\ journal[s][g] \in JournalState /\ revision[s] \in Nat /\ Rejected(s, g) \in Nat
      /\ Cardinality(content[g]) \in Nat /\ (wip[g] = "data") \in BOOLEAN /\ RowTells(s, g)
  BY RejectedCounts, JournalAssumption, ContentCounts DEF Entries, JTyped
<1>2. ASSUME NEW r \in JournalState, IsDataBearing(r) => Evidence(g),
             \/ AskedNoMore(g)
             \/ Enough(journal[s][g], Cardinality(content[g]), wip[g] = "data")
                  => Enough(Record(journal[s][g], r), Cardinality(content[g]), wip[g] = "data")
      PROVE  CountedFor(g, Record(journal[s][g], r))
  BY <1>1, <1>2, RecordedEntry DEF CountedFor
<1>3. /\ Imported \in JournalState /\ NoData \in JournalState /\ Superseded \in JournalState
      /\ ~IsDataBearing(NoData) /\ ~IsDataBearing(Superseded)
  BY EntriesOfWalks
<1>4. ASSUME Evidence(g), Recorded(s, g) = Record(journal[s][g], Imported)
      PROVE  CountedFor(g, Recorded(s, g))
  BY <1>1, <1>2, <1>3, <1>4, RecordedEnough
<1>5. ASSUME wip[g] # "data", Recorded(s, g) = Record(journal[s][g], NoData)
      PROVE  CountedFor(g, Recorded(s, g))
  <2>1. (wip[g] = "data") = FALSE
    BY <1>5
  <2>2. Enough(journal[s][g], Cardinality(content[g]), wip[g] = "data")
          => Enough(Record(journal[s][g], NoData), Cardinality(content[g]), wip[g] = "data")
    BY <1>1, <2>1, RecordedEnough
  <2>3. QED
    BY <1>2, <1>3, <1>5, <2>2
<1>6. ASSUME AskedNoMore(g), Recorded(s, g) = Record(journal[s][g], Superseded)
      PROVE  CountedFor(g, Recorded(s, g))
  BY <1>2, <1>3, <1>6
<1>7. CASE row[s][g] = "alreadyMigrated" /\ already[s][g] = "bridged"
  <2>1. Recorded(s, g) = Record(journal[s][g], Superseded)
    BY <1>7 DEF Recorded, OnlyRejections, SupersededForGood
  <2>2. QED
    BY <1>1, <1>6, <1>7, <2>1 DEF RowTells
<1>8. CASE row[s][g] = "alreadyMigrated" /\ already[s][g] = "data"
  <2>1. Recorded(s, g) = Record(journal[s][g], Imported)
    BY <1>8 DEF Recorded, OnlyRejections, SupersededForGood
  <2>2. QED
    BY <1>1, <1>4, <1>8, <2>1 DEF RowTells
<1>9. CASE row[s][g] = "alreadyMigrated" /\ already[s][g] = "empty"
  <2>1. Recorded(s, g) = Record(journal[s][g], NoData)
    BY <1>9 DEF Recorded, OnlyRejections, SupersededForGood
  <2>2. QED
    BY <1>1, <1>5, <1>9, <2>1 DEF RowTells
<1>10. CASE row[s][g] = "imported"
  <2>1. Recorded(s, g) = Record(journal[s][g], Imported)
    BY <1>10 DEF Recorded, OnlyRejections, SupersededForGood
  <2>2. QED
    BY <1>1, <1>4, <1>10, <2>1 DEF RowTells
<1>11. CASE row[s][g] = "noData"
  <2>1. Recorded(s, g) = Record(journal[s][g], NoData)
    BY <1>11 DEF Recorded, OnlyRejections, SupersededForGood
  <2>2. QED
    BY <1>1, <1>5, <1>11, <2>1 DEF RowTells
<1>12. CASE OnlyRejections(s, g)
  <2>1. Recorded(s, g) = Record(journal[s][g], refused)
    BY <1>12 DEF Recorded, OnlyRejections, SupersededForGood
  <2>2. refused \in JournalState
    BY <1>1, EntriesOfWalks
  <2>3. Enough(journal[s][g], Cardinality(content[g]), wip[g] = "data")
          => Enough(Record(journal[s][g], refused), Cardinality(content[g]), wip[g] = "data")
    BY <1>1, RecordedEnough
  <2>4. Evidence(g)
    BY <1>1, <1>12 DEF RowTells
  <2>5. QED
    BY <1>2, <2>1, <2>2, <2>3, <2>4
<1>13. CASE SupersededForGood(s, g)
  <2>1. AskedNoMore(g)
    BY <1>13, RowEndsAsking DEF SupersededForGood
  <2>2. Recorded(s, g) = Record(journal[s][g], Superseded)
    BY <1>13 DEF Recorded, SupersededForGood, OnlyRejections
  <2>3. QED
    BY <1>6, <2>1, <2>2
<1>14. QED
  BY <1>7, <1>8, <1>9, <1>10, <1>11, <1>12, <1>13 DEF Recorded

\* A session's own step leaves it with a journal that counts.
LEMMA WorksCounted ==
  ASSUME CountsItems, CountInv, NEW s \in Session, JActs(s), journal'[s] \in Entries, NEW g \in Gen
  PROVE  CountedFor(g, journal'[s][g])
<1>a. /\ AnswerInv /\ Shape /\ RunInv /\ TypeOK /\ JTyped /\ StageOK(s) /\ KnownReal /\ StoredFirst
      /\ SeedIsStored(s) /\ AskedFlagged(s) /\ (Walking(s) => \A h \in Gen : RowTells(s, h))
      /\ (journal[s] \in Entries => CountedFor(g, journal[s][g]))
      /\ (stored \in Entries => CountedFor(g, stored[g]))
  BY ShapeParts DEF CountInv, TellingInv, AnswerInv, JournalInv, WalkShape, Counted
<1>1. CASE journal'[s] \in {journal[s], stored}
  BY <1>a, <1>1
<1>2. ~(\E answer : Leave(s, answer))
  <2>1. ASSUME NEW answer, Leave(s, answer) PROVE journal'[s] = NoJournal
    BY <1>a, <2>1 DEF Leave, JTyped
  <2>2. NoJournal \notin Entries
    BY JournalAssumption DEF Entries
  <2>3. QED
    BY <2>1, <2>2
<1>3. ASSUME NEW j \in Entries, CountedFor(g, j[g]),
             NEW read, NEW unread, Established(s, j, read, unread)
      PROVE  CountedFor(g, journal'[s][g])
  <2>1. journal'[s] = Rebind(s, j)
    BY <1>2, <1>3, <1>a DEF Established, JTyped
  <2>2. journal'[s][g] = Bound(s, j[g])
    BY <2>1 DEF Rebind
  <2>3. j[g] \in JournalState
    BY DEF Entries
  <2>4. QED
    BY <1>a, <1>3, <2>2, <2>3, BoundCounted
<1>4. ASSUME NEW j \in Entries, CountedFor(g, j[g]),
             NEW read, NEW unread, ToStore(s, j, read, unread)
      PROVE  CountedFor(g, journal'[s][g])
  <2>1. journal'[s] = j
    BY <1>a, <1>4 DEF ToStore, JTyped
  <2>2. QED
    BY <1>4, <2>1
<1>5. ASSUME NEW entry, CountedFor(cur[s], journal[s][cur[s]]) => CountedFor(cur[s], entry),
             journal[s] \in Entries, cur[s] \in Gen,
             NEW retry, NEW what, BeforeImport(s, entry, retry, what)
      PROVE  CountedFor(g, journal'[s][g])
  <2>1. CASE UNCHANGED journal
    BY <1>1, <2>1
  <2>2. CASE journal' = [journal EXCEPT ![s][cur[s]] = entry]
    <3>1. journal'[s][g] = IF g = cur[s] THEN entry ELSE journal[s][g]
      BY <1>a, <1>5, <2>2 DEF JTyped, Entries
    <3>2. QED
      BY <1>a, <1>5, <3>1
  <2>3. QED
    BY <1>5, <2>1, <2>2 DEF BeforeImport
<1>6. CASE journal' = journal
  BY <1>1, <1>6
<1>7. CASE LoadJournal(s) \/ \E h \in Sweeps : NoteLoad(s, h)
  BY <1>1, <1>7, <1>a DEF LoadJournal, NoteLoad, JTyped
<1>8. CASE SeedJournal(s)
  <2>1. ASSUME NEW unreadable \in SUBSET Gen, KeepJournal(s, unreadable)
        PROVE  CountedFor(g, journal'[s][g])
    <3>1. journal[s] \in Entries /\ journal[s][g] \in JournalState
      BY <1>a, <2>1, ReadableEntries DEF KeepJournal, JTyped, Entries
    <3>2. PICK reopened \in SUBSET {h \in Gen : ExactMarker(h) = "wipData"} :
            LET j == [h \in Gen |-> IF h \in reopened THEN MarkImportStarted(journal[s][h])
                                                       ELSE journal[s][h]]
            IN \E read, unread : Established(s, j, read, unread) \/ ToStore(s, j, read, unread)
      BY <2>1 DEF KeepJournal
    <3>3. PICK j : j = [h \in Gen |-> IF h \in reopened THEN MarkImportStarted(journal[s][h])
                                                         ELSE journal[s][h]]
      OBVIOUS
    <3>4. j \in Entries
      BY <3>1, <3>3, StartedEntry DEF Entries
    <3>5. CountedFor(g, j[g])
      <4>1. CASE g \in reopened
        <5>1. wip[g] = "data" /\ content[g] # {}
          BY <1>a, <4>1, ExactTells DEF KnownReal
        <5>2. QED
          BY <1>a, <3>1, <3>3, <4>1, <5>1, StartedCounted
      <4>2. CASE g \notin reopened
        BY <1>a, <3>1, <3>3, <4>2
      <4>3. QED
        BY <4>1, <4>2
    <3>6. QED
      BY <1>3, <1>4, <3>2, <3>3, <3>4, <3>5
  <2>2. CASE RebuildJournal(s)
    <3>1. stored = NoJournal
      BY <1>a, <1>8, <2>2 DEF SeedJournal, RebuildJournal, SeedIsStored, StoredFirst, Readable
    <3>2. wip[g] # "data"
      BY <1>a, <3>1 DEF StoredFirst
    <3>3. QED
      BY <1>a, <1>4, <2>2, <3>2, Rebuilt, RebuiltCounted DEF RebuildJournal
  <2>3. QED
    BY <1>8, <2>1, <2>2 DEF SeedJournal
<1>9. CASE MergeStored(s)
  <2>1. journal[s] \in Entries /\ journal[s][g] \in JournalState
    BY <1>a, <1>9 DEF MergeStored, StageOK, Entries
  <2>2. journal'[s] = journal[s] \/ (stored \in Entries /\ journal'[s] = MergeInto(s, stored))
    BY <1>a, <1>9, ReadableEntries DEF MergeStored, JTyped, Readable, StoredFirst
  <2>3. CASE stored \in Entries /\ journal'[s] = MergeInto(s, stored)
    <3>1. journal'[s][g] = MergeStates(Bound(s, stored[g]), Bound(s, journal[s][g]))
      BY <2>3 DEF MergeInto
    <3>2. stored[g] \in JournalState
      BY <2>3 DEF Entries
    <3>3. /\ Bound(s, stored[g]) \in JournalState /\ Bound(s, journal[s][g]) \in JournalState
      BY <2>1, <3>2, EffectiveEntry DEF Bound
    <3>4. CountedFor(g, Bound(s, stored[g])) /\ CountedFor(g, Bound(s, journal[s][g]))
      BY <1>a, <2>1, <2>3, <3>2, BoundCounted
    <3>5. QED
      BY <1>a, <3>1, <3>3, <3>4, MergedCounted
  <2>4. QED
    BY <1>1, <2>2, <2>3
<1>10. CASE StoreJournal(s)
  <2>1. journal[s] \in Entries
    BY <1>a, <1>10 DEF StoreJournal, StageOK, Entries
  <2>2. QED
    BY <1>a, <1>2, <1>3, <1>6, <1>10, <2>1 DEF StoreJournal, Flagged, Return, Announced
<1>11. CASE AskAgain(s) \/ JFetchSecrets(s)
  <2>1. /\ journal[s] \in Entries /\ cur[s] \in Gen /\ journal[s][cur[s]] \in JournalState
        /\ pc[s] # "idle"
    BY <1>a, <1>11, CurrentGeneration DEF AskAgain, JFetchSecrets, StageOK, Entries
  <2>2. CASE AskAgain(s)
    <3>1. PICK known \in BOOLEAN :
            /\ known => Marker(cur[s]) = "wipData" \/ KnownData(s)
            /\ BeforeImport(s, IF known THEN MarkImportStarted(journal[s][cur[s]])
                               ELSE journal[s][cur[s]], FALSE, "early")
      BY <2>2 DEF AskAgain
    <3>2. CASE known
      <4>1. content[cur[s]] # {}
        BY <1>a, <2>1, <3>1, <3>2, KnownDataReal
      <4>2. wip[cur[s]] = "data" \/ Speaks(journal[s][cur[s]])
        <5>1. Marker(cur[s]) = "wipData" => wip[cur[s]] = "data"
          BY <1>a, <2>1, MarkerTells
        <5>2. KnownData(s) => Speaks(journal[s][cur[s]])
          BY <2>1 DEF KnownData, Speaks, ItemsSeen
        <5>3. QED
          BY <3>1, <3>2, <5>1, <5>2
      <4>3. CountedFor(cur[s], journal[s][cur[s]])
              => CountedFor(cur[s], MarkImportStarted(journal[s][cur[s]]))
        BY <1>a, <2>1, <4>1, <4>2, StartedCounted
      <4>4. BeforeImport(s, MarkImportStarted(journal[s][cur[s]]), FALSE, "early")
        BY <3>1, <3>2
      <4>5. QED
        BY <1>5, <2>1, <4>3, <4>4
    <3>3. CASE ~known
      BY <1>5, <2>1, <3>1, <3>3
    <3>4. QED
      BY <3>2, <3>3
  <2>3. CASE JFetchSecrets(s) /\ ~UNCHANGED journal
    <3>1. PICK exported \in JExport(s) :
            /\ prior[s] \/ exported # {}
            /\ BeforeImport(s, NoteItemsSeen(MarkImportStarted(journal[s][cur[s]]),
                                             Cardinality(exported)),
                            Started(journal[s][cur[s]]), "late")
      BY <2>3 DEF JFetchSecrets
    <3>2. exported \subseteq content[cur[s]]
      BY DEF JExport, Export
    <3>3. Cardinality(exported) \in Nat
      BY <1>a, <2>1, <3>2, ContentCounts
    <3>4. ASSUME prior[s], CountedFor(cur[s], journal[s][cur[s]])
          PROVE  CountedFor(cur[s], MarkImportStarted(journal[s][cur[s]]))
      <4>1. content[cur[s]] # {}
        BY <1>a, <3>4 DEF KnownReal
      <4>2. Speaks(journal[s][cur[s]])
        BY <1>a, <2>3, <3>4 DEF JFetchSecrets, AskedFlagged, Speaks
      <4>3. QED
        BY <1>a, <2>1, <3>4, <4>1, <4>2, StartedCounted
    <3>5. ~prior[s] => Cardinality(exported) >= Cardinality(content[cur[s]])
      <4>1. ~prior[s] => exported = content[cur[s]]
        BY <3>1 DEF JExport, Export
      <4>2. Cardinality(content[cur[s]]) \in Nat
        BY <1>a, <2>1, ContentCounts
      <4>3. QED
        BY <4>1, <4>2
    <3>6. CountedFor(cur[s], journal[s][cur[s]])
            => CountedFor(cur[s], NoteItemsSeen(MarkImportStarted(journal[s][cur[s]]),
                                                Cardinality(exported)))
      BY <1>a, <2>1, <3>3, <3>4, <3>5, NotedCounted
    <3>7. QED
      BY <1>5, <2>1, <3>1, <3>6
  <2>4. QED
    BY <1>6, <1>11, <2>2, <2>3
<1>12. CASE ResolveOutcomes(s)
  <2>1. journal[s] \in Entries /\ Walking(s)
    BY <1>a, <1>12 DEF ResolveOutcomes, StageOK, Entries, Walking
  <2>2. \/ journal'[s][g] = MarkImportStarted(Recorded(s, g)) /\ ExactMarker(g) = "wipData"
        \/ journal'[s][g] = Recorded(s, g)
    BY <1>a, <1>12 DEF ResolveOutcomes, Resolve, JTyped
  <2>3. Recorded(s, g) \in JournalState /\ CountedFor(g, Recorded(s, g))
    BY <1>a, <2>1, RecordedIsState, RecordedCounted
  <2>4. CASE journal'[s][g] = MarkImportStarted(Recorded(s, g)) /\ ExactMarker(g) = "wipData"
    <3>1. wip[g] = "data" /\ content[g] # {}
      BY <1>a, <2>4, ExactTells DEF KnownReal
    <3>2. QED
      BY <1>a, <2>3, <2>4, <3>1, StartedCounted
  <2>5. QED
    BY <2>2, <2>3, <2>4
<1>13. CASE NoteStarted(s)
  <2>1. sweep[s] \in Gen /\ journal[s] \in Entries
    BY <1>a, <1>13 DEF NoteStarted, StageOK, Entries
  <2>2. PICK count : count = Cardinality(content[sweep[s]])
    OBVIOUS
  <2>3. count \in Nat
    BY <1>a, <2>1, <2>2, ContentCounts
  <2>4. PICK after : /\ after = NoteItemsSeen(MarkImportStarted(Bound(s, journal[s][sweep[s]])), count)
                     /\ journal' = [journal EXCEPT ![s] = [Rebind(s, @) EXCEPT ![sweep[s]] = after]]
    BY <1>13, <2>2 DEF NoteStarted
  <2>5. journal'[s][g] = IF g = sweep[s] THEN after ELSE Bound(s, journal[s][g])
    BY <1>a, <2>1, <2>4, Rebound DEF JTyped, Entries, Rebind
  <2>6. /\ journal[s][g] \in JournalState /\ Bound(s, journal[s][g]) \in JournalState
        /\ CountedFor(g, Bound(s, journal[s][g]))
    BY <1>a, <2>1, EffectiveEntry, BoundCounted DEF Entries, Bound
  <2>7. g = sweep[s] => CountedFor(g, after)
    BY <1>a, <2>2, <2>3, <2>4, <2>6, NotedCounted
  <2>8. QED
    BY <2>5, <2>6, <2>7
<1>14. CASE \/ BeginMigrationJournal(s) \/ MigrateJournaled(s) \/ JournalShortCut(s)
            \/ (\E unreadable \in BOOLEAN : BelieveSeal(s, unreadable)) \/ JRecordInProgress(s)
            \/ ReadBack(s) \/ PlainAwait(s) \/ JMarkerUnreadable(s) \/ NoteMarker(s)
            \/ (\E k \in Key : AppWrite(s, k)) \/ RaiseRevision(s)
  BY <1>6, <1>14 DEF BeginMigrationJournal, MigrateJournaled, Operate, JournalShortCut, BelieveSeal,
       JRecordInProgress, ReadBack, PlainAwait, JMarkerUnreadable, NoteMarker, AppWrite,
       RaiseRevision, journaling
<1>15. CASE JournalUnavailable(s) \/ NoteRefused(s) \/ NoteReadBack(s) \/ AppDone(s) \/ Die(s)
  BY <1>2, <1>6, <1>15 DEF JournalUnavailable, NoteRefused, NoteReadBack, AppDone, Die
<1>16. QED
  BY <1>7, <1>8, <1>9, <1>10, <1>11, <1>12, <1>13, <1>14, <1>15 DEF JActs, JStep, JFault, AppStep

\* A row that leaves out refused items only is pushed by the flush of a predecessor
\* whose marker tells of data.
LEMMA WhoRejects ==
  ASSUME JournalInv, NEW s \in Session, JActs(s), NEW g \in Gen, OnlyRejections(s, g)'
  PROVE  OnlyRejections(s, g) \/ wip[g] = "data"
<1>a. /\ Shape /\ RunInv /\ TypeOK /\ SealInv /\ TalliedInHand /\ Moves(s)
  BY WalkMoves DEF JournalInv, WalkShape, SealInv
<1>b. row'[s][g] = "incomplete"
  BY DEF OnlyRejections
<1>1. CASE row'[s][g] = row[s][g] /\ tally'[s][g] = tally[s][g]
  BY <1>1 DEF OnlyRejections
<1>2. CASE UNCHANGED vars \/ Asks(s) \/ Takes(s) \/ Marks(s) \/ CopiesItself(s)
  BY <1>1, <1>2 DEF Asks, Takes, Marks, CopiesItself, vars, volatile
<1>3. CASE HandsOver(s) \/ StartRun(s) \/ Crash(s)
  BY <1>a, <1>b, <1>3 DEF HandsOver, HandOver, StartRun, Crash, TypeOK
<1>4. CASE PassesOver(s)
  <2>1. PICK kind \in {"alreadyMigrated", "unresponsive", "writerUnavailable"} :
          \E terminated : Report(s, kind, terminated, withheld[s])
    BY <1>4 DEF PassesOver
  <2>2. pc[s] # "idle" /\ tally' = tally
    BY <1>4 DEF PassesOver
  <2>3. row'[s][g] = row[s][g]
    BY <1>a, <1>b, <2>1, <2>2, RowPushed
  <2>4. QED
    BY <1>1, <2>2, <2>3
<1>5. CASE Awaits(s) /\ ~StartRun(s) /\ ~Crash(s)
  <2>1. pc[s] # "idle" /\ \A h \in Gen : h # cur[s] => tally'[s][h] = tally[s][h]
    BY <1>a, <1>5, AwaitsNext, TallyMoves
  <2>2. cur[s] \in Gen /\ row[s][cur[s]] = "none"
    BY <1>a, <2>1, CurrentGeneration DEF RunInv, NothingAhead, Gen
  <2>3. CASE g # cur[s]
    <3>1. row'[s][g] = row[s][g]
      BY <1>a, <1>b, <1>5, <2>3, PushesRow
    <3>2. QED
      BY <1>1, <2>1, <2>3, <3>1
  <2>4. CASE g = cur[s]
    <3>1. Flush(s) /\ tally' = tally
      BY <1>a, <1>b, <1>5, <2>2, <2>4, PushesRow
    <3>2. PICK k \in Key : tally[s][g][k] = "rejected"
      BY <3>1 DEF OnlyRejections
    <3>3. pc[s] = "items" /\ k \in items[s]
      BY <1>a, <2>4, <3>1, <3>2 DEF Flush, TalliedInHand
    <3>4. QED
      BY <1>a, <2>4, <3>3 DEF SealInv, IntentRecorded, SawData
  <2>5. QED
    BY <2>3, <2>4
<1>6. QED
  BY <1>a, <1>2, <1>3, <1>4, <1>5 DEF Moves

\* The rows of a session's own step say what the markers say.
LEMMA RowsStayTelling ==
  ASSUME CountInv, NEW s \in Session, JActs(s), Walking(s)', NEW g \in Gen
  PROVE  RowTells(s, g)'
<1>a. /\ JournalInv /\ WalkShape /\ Shape /\ RunInv /\ TypeOK /\ JTyped /\ StageOK(s) /\ WalkAlone(s)
      /\ StageOK(s)' /\ (journal[s] \in Entries => CountedFor(g, journal[s][g]))
      /\ (Walking(s) => RowTells(s, g))
  BY ShapeParts, ActsInShape
     DEF CountInv, TellingInv, AnswerInv, JournalInv, WalkShape, JMemoryInv, JAloneInv, InShape, Counted
<1>b. /\ Evidence(g) => Evidence(g)'
      /\ AskedNoMore(g) => AskedNoMore(g)'
  BY EvidenceStays
<1>1. CASE StartRun(s)
  <2>1. row'[s][g] = "none"
    BY <1>a, <1>1 DEF StartRun, TypeOK
  <2>2. QED
    BY <2>1 DEF RowTells, OnlyRejections
<1>2. CASE ~StartRun(s)
  <2>1. Walking(s) /\ RowTells(s, g)
    <3>1. stage'[s] # "idle"
      BY <1>a DEF Walking, StageOK
    <3>2. Walking(s)
      BY <1>2, <1>a, <3>1, WalkTurns, MarkerReports DEF Walking, StageOK, Asking
    <3>3. QED
      BY <1>a, <3>2
  <2>2. ASSUME row'[s][g] # "none", wip[g] # "data" PROVE wip'[g] # "data"
    <3>1. SUFFICES ASSUME wip'[g] = "data" PROVE FALSE
      OBVIOUS
    <3>2. aim[s] # "note"
      BY <1>a, <2>1 DEF Walking, StageOK
    <3>3. pc[s] \in Asking /\ g = cur[s]
      BY <2>2, <3>1, <3>2, DataToldFlagged
    <3>4. row[s][g] = "none"
      BY <1>a, <3>3 DEF RunInv, NothingAhead, Asking, AfterFetch, Gen
    <3>5. JRecordInProgress(s)
      <4>1. ~NoteMarker(s)
        BY <1>a, <3>2 DEF NoteMarker, StageOK
      <4>2. QED
        BY <1>a, <2>2, <3>1, <4>1, WhoMarks
    <3>6. row' = row
      BY <3>5 DEF JRecordInProgress, RecordInProgress
    <3>7. QED
      BY <2>2, <3>4, <3>6
  <2>3. row'[s][g] = "imported" => Evidence(g)'
    <3>1. CASE row[s][g] = "imported"
      BY <1>b, <2>1, <3>1 DEF RowTells
    <3>2. CASE row[s][g] # "imported" /\ row'[s][g] = "imported"
      <4>1. RecordDone(s) /\ g = cur[s] /\ SawData(s)
        BY <1>a, <3>2, WhoSeals
      <4>2. done'[g] = "data"
        BY <1>a, <4>1 DEF RecordDone, Flag, TypeOK
      <4>3. QED
        BY <4>2 DEF Evidence
    <3>3. QED
      BY <3>1, <3>2
  <2>4. row'[s][g] = "noData" => wip'[g] # "data"
    <3>1. CASE row[s][g] = "noData" /\ row'[s][g] = "noData"
      BY <2>1, <2>2, <3>1 DEF RowTells
    <3>2. CASE row[s][g] # "noData" /\ row'[s][g] = "noData"
      <4>1. RecordDone(s) /\ g = cur[s]
        BY <1>a, <3>2, WhoSeals
      <4>2. pc[s] = "seal" /\ wip' = wip
        BY <4>1 DEF RecordDone
      <4>3. PICK terminated, keys :
              Report(s, IF SawData(s) THEN "imported" ELSE "noData", terminated, keys)
        BY <4>1 DEF RecordDone
      <4>4. ~SawData(s)
        BY <1>a, <3>2, <4>1, <4>2, <4>3, RowPushed
      <4>5. QED
        BY <1>a, <4>1, <4>2, <4>4 DEF WalkAlone, KnowsWhatMarkersTell, SawData, Asking, AfterFetch
    <3>3. QED
      BY <3>1, <3>2
  <2>5. OnlyRejections(s, g)' => Evidence(g)'
    <3>1. OnlyRejections(s, g)' => OnlyRejections(s, g) \/ wip[g] = "data"
      BY <1>a, WhoRejects
    <3>2. QED
      BY <1>b, <2>1, <3>1 DEF RowTells, Evidence
  <2>6. ASSUME row'[s][g] = "alreadyMigrated"
        PROVE  /\ already'[s][g] \in {"journal", "data"} => Evidence(g)'
               /\ already'[s][g] = "bridged" => AskedNoMore(g)'
               /\ already'[s][g] = "empty" => wip'[g] # "data"
    <3>1. CASE already'[s][g] = "no"
      BY <3>1
    <3>2. CASE row[s][g] = "alreadyMigrated" /\ already[s][g] = already'[s][g]
      BY <1>b, <2>1, <2>2, <2>6, <3>2 DEF RowTells
    <3>3. CASE already'[s][g] = "journal" /\ journal[s] \in Entries /\ IsDataBearing(journal[s][g])
      BY <1>a, <1>b, <3>3 DEF CountedFor
    <3>4. CASE already'[s][g] = "empty" /\ Marker(g) = "doneEmpty"
      <4>1. wip[g] # "data"
        BY <1>a, <3>4, MarkerTells DEF IsDone
      <4>2. QED
        BY <2>2, <2>6, <3>4, <4>1
    <3>5. CASE already'[s][g] = "bridged" /\ Marker(g) = "doneData" /\ SnapshotPolicy(Policy)
      <4>1. AskedNoMore(g)
        BY <1>a, <3>5, MarkerTells DEF AskedNoMore
      <4>2. QED
        BY <1>b, <3>5, <4>1
    <3>6. CASE /\ already'[s][g] = "data" /\ Marker(g) = "doneData"
               /\ ExactMarker(g) = "doneData" \/ ~SnapshotPolicy(Policy)
      <4>1. Evidence(g)
        BY <1>a, <3>6, ExactTells, MarkerTells DEF Bridged, LegacyMigrated, Evidence
      <4>2. QED
        BY <1>b, <3>6, <4>1
    <3>7. QED
      BY <1>a, <2>6, <3>1, <3>2, <3>3, <3>4, <3>5, <3>6, WhoBelieves
  <2>7. QED
    BY <2>3, <2>4, <2>5, <2>6 DEF RowTells
<1>3. QED
  BY <1>1, <1>2

LEMMA InitCount == JInit => CountInv
<1> SUFFICES ASSUME JInit PROVE CountInv
  OBVIOUS
<1>1. TellingInv
  BY InitTelling
<1>2. NoJournal \notin Entries /\ NoJournal # CorruptJournal
  BY JournalAssumption DEF Entries
<1>3. /\ stored = NoJournal /\ \A g \in Gen : wip[g] = "absent" /\ done[g] = "absent"
      /\ \A s \in Session : /\ journal[s] = NoJournal /\ stage[s] = "idle" /\ aim[s] = "none"
                            /\ pc[s] = "idle"
  BY DEF JInit, Init
<1>4. StoredFirst /\ BridgedOpen /\ Counted(stored)
  BY <1>2, <1>3 DEF StoredFirst, BridgedOpen, Counted
<1>5. ASSUME NEW s \in Session
      PROVE  /\ Counted(journal[s]) /\ SeedIsStored(s) /\ StoredInUse(s)
             /\ AskedUnbridged(s) /\ AskedFlagged(s) /\ ~Walking(s)
  BY <1>2, <1>3 DEF Counted, SeedIsStored, StoredInUse, AskedUnbridged, AskedFlagged, Walking, Asking,
     AfterFetch
<1>6. QED
  BY <1>1, <1>4, <1>5 DEF CountInv

\* A session's own step keeps the counts in what is stored and in its copy.
LEMMA CountsStay ==
  ASSUME CountsItems, CountInv, NEW s \in Session, JActs(s)
  PROVE  Counted(stored)' /\ Counted(journal[s])'
<1>a. WalkShape /\ Counted(stored) /\ Counted(journal[s])
  BY DEF CountInv, TellingInv, AnswerInv, JournalInv
<1>b. /\ UNCHANGED content
      /\ \A g \in Gen : (Evidence(g) => Evidence(g)') /\ (AskedNoMore(g) => AskedNoMore(g)')
  BY EvidenceStays
<1>1. ASSUME NEW g \in Gen, stored' \in Entries
      PROVE  /\ IsDataBearing(stored'[g]) => Evidence(g)'
             /\ ~AskedNoMore(g)' => Enough(stored'[g], Cardinality(content'[g]), wip'[g] = "data")
  <2>1. CountedFor(g, stored'[g])
    BY <1>1, <1>a, StoresEntries DEF Counted
  <2>2. wip'[g] = "data" => wip[g] = "data" \/ Speaks(stored'[g])
    BY DataToldFlagged DEF Speaks
  <2>3. QED
    BY <1>b, <2>1, <2>2, CountStays
<1>2. ASSUME NEW g \in Gen, journal'[s] \in Entries
      PROVE  /\ IsDataBearing(journal'[s][g]) => Evidence(g)'
             /\ ~AskedNoMore(g)' => Enough(journal'[s][g], Cardinality(content'[g]), wip'[g] = "data")
  <2>1. CountedFor(g, journal'[s][g])
    BY <1>2, WorksCounted
  <2>2. wip'[g] = "data" => wip[g] = "data" \/ Speaks(journal'[s][g])
    BY DataToldFlagged DEF Speaks
  <2>3. QED
    BY <1>b, <2>1, <2>2, CountStays
<1>3. QED
  BY <1>1, <1>2 DEF Counted, CountedFor, Enough, Speaks

LEMMA StepCount ==
  OneSession /\ CountsItems /\ Damage = FALSE /\ CountInv /\ [JNext]_jvars => CountInv'
<1> SUFFICES ASSUME OneSession, CountsItems, Damage = FALSE, CountInv, [JNext]_jvars PROVE CountInv'
  BY Zenon
<1>1. TellingInv /\ TellingInv'
  BY CountedRetries, StepTelling DEF CountInv
<1>2. ASSUME NEW s \in Session, JActs(s) PROVE CountInv'
  <2>1. WalkShape /\ AskedIsMissing(s)'
    BY <1>1 DEF TellingInv, AnswerInv, JournalInv, JMemoryInv, Remembers
  <2>2. StoredFirst' /\ BridgedOpen' /\ Counted(stored)'
    BY <1>2, StoredStaysFirst, EvidenceStays, CountsStay DEF BridgedOpen
  <2>3. /\ Counted(journal[s])' /\ SeedIsStored(s)' /\ StoredInUse(s)'
        /\ AskedUnbridged(s)' /\ AskedFlagged(s)'
    BY <1>2, <2>1, CountsStay, SeedStaysStored, StoredStaysInUse, AskedStaysUnbridged, AskedStaysFlagged
  <2>4. Walking(s)' => \A g \in Gen : RowTells(s, g)'
    BY <1>2, RowsStayTelling
  <2>5. \A t \in Session : t = s
    BY DEF OneSession
  <2>6. QED
    BY <1>1, <2>2, <2>3, <2>4, <2>5 DEF CountInv
<1>3. CASE /\ UNCHANGED journaling /\ UNCHANGED volatile
           /\ UNCHANGED vars \/ \E k \in Key : UserWrite(k) \/ UserDelete(k)
  <2>1. /\ UNCHANGED <<content, legacy, wip, done, pc, cur, prior, items, tally, row>>
        /\ UNCHANGED <<stored, journal, stage, aim, already>>
    BY <1>3 DEF volatile, vars, durable, UserWrite, UserDelete, journaling
  <2>2. \A g \in Gen : /\ Evidence(g)' <=> Evidence(g)
                       /\ AskedNoMore(g)' <=> AskedNoMore(g)
                       /\ Bridged(g)' <=> Bridged(g)
    BY <2>1 DEF Evidence, AskedNoMore, Bridged
  <2>3. StoredFirst' /\ BridgedOpen' /\ Counted(stored)'
    BY <2>1, <2>2 DEF CountInv, StoredFirst, BridgedOpen, Counted, CountedFor
  <2>4. ASSUME NEW s \in Session
        PROVE  /\ Counted(journal[s])' /\ SeedIsStored(s)' /\ StoredInUse(s)'
               /\ AskedUnbridged(s)' /\ AskedFlagged(s)'
               /\ Walking(s)' => \A g \in Gen : RowTells(s, g)'
    <3>1. Counted(journal[s])'
      BY <2>1, <2>2 DEF CountInv, Counted, CountedFor
    <3>2. SeedIsStored(s)' /\ StoredInUse(s)' /\ AskedFlagged(s)'
      BY <2>1 DEF CountInv, SeedIsStored, StoredInUse, AskedFlagged
    <3>3. AskedUnbridged(s)'
      BY <2>1 DEF CountInv, AskedUnbridged, Bridged
    <3>4. ASSUME Walking(s)', NEW g \in Gen PROVE RowTells(s, g)'
      <4>1. RowTells(s, g)
        BY <2>1, <3>4 DEF CountInv, Walking
      <4>2. OnlyRejections(s, g)' <=> OnlyRejections(s, g)
        BY <2>1 DEF OnlyRejections
      <4>3. QED
        BY <2>1, <2>2, <4>1, <4>2 DEF RowTells
    <3>5. QED
      BY <3>1, <3>2, <3>3, <3>4
  <2>5. QED
    BY <1>1, <2>3, <2>4 DEF CountInv
<1>4. ~Corrupt
  BY DEF Corrupt
<1>5. QED
  BY <1>2, <1>3, <1>4, WhoJActs

-------------------------------------------------------------------------------
(* The theorems that rest on what is taken of a predecessor known to hold data.*)

\* A retry exports all or nothing, or one session whose app says how many items it
\* read has its journal, with their count, undamaged.
RetriesTold == ShortRetry = FALSE \/ (OneSession /\ CountsItems /\ Damage = FALSE)

\* With one session, an app that counts and an undamaged journal, each predecessor
\* known to hold data and still to be asked has the number of its items in the
\* journal, stored before a marker tells of it: across merges, deaths, higher
\* revisions, and whatever part of it was exported since.
THEOREM CountInvariant ==
  ASSUME OneSession, CountsItems, Damage = FALSE
  PROVE  JSpec => []CountInv
<1>1. CountInv /\ [JNext]_jvars => CountInv'
  BY StepCount
<1>2. QED
  BY <1>1, InitCount, PTL DEF JSpec

\* An export that is taken from a predecessor known to hold data is all of it: a
\* shorter one falls short of the count, and is not believed.
THEOREM RetriesAreWhole ==
  ASSUME RetriesTold
  PROVE  JSpec => []WholeRetries
<1> DEFINE Counting == ShortRetry = FALSE \/ CountInv
<1>1. JInit => Counting
  BY InitCount
<1>2. Counting /\ [JNext]_jvars => Counting'
  BY StepCount DEF RetriesTold
<1>3. Counting => WholeRetries
  BY NoShortRetries, CountedRetries
<1> HIDE DEF Counting
<1>4. QED
  BY <1>1, <1>2, <1>3, PTL DEF JSpec

\* The inductive invariant of the journaled walk, of which the next theorems are
\* consequences.
THEOREM JournalInvariant ==
  ASSUME RetriesTold
  PROVE  JSpec => []JournalInv
BY RetriesAreWhole, InitJournalInv, StepJournalInv, PTL DEF JSpec

\* The journaled walk, and the app's own copy behind the same markers, still seal
\* with "data" only what the successor holds, or held, in full.
THEOREM JournaledSealCoversData ==
  ASSUME RetriesTold
  PROVE  JSpec => []SealCoversData
<1>1. JournalInv => SealCoversData
  BY DEF JournalInv, SealInv
<1>2. QED
  BY <1>1, JournalInvariant, PTL

\* The stored journal calls a predecessor imported, with or without rejections,
\* only if each of its items is, or was, in the successor or is refused for good:
\* through stale stores of other sessions, merges, rebuilds from the markers,
\* deaths between any two awaits, damage, and a writer of a higher revision.
THEOREM JournalHonestHolds ==
  ASSUME RetriesTold
  PROVE  JSpec => []JournalHonest
<1>1. JournalInv => JournalHonest
  BY ShapeParts, ReadableEntries DEF JournalInv, WalkShape, JTyped, JournalHonest, Honest
<1>2. QED
  BY <1>1, JournalInvariant, PTL

\* A predecessor of which the successor holds a part only never reads as settled:
\* its stored entry is pending, or gives way to its marker on the next load, and a
\* journal rebuilt from the markers says that its import started.
THEOREM PartialCopyShowsHolds ==
  ASSUME RetriesTold
  PROVE  JSpec => []PartialCopyShows
<1>1. JournalInv => PartialCopyShows
  <2>1. SUFFICES ASSUME JournalInv, NEW g \in Gen, PartlyCopied(g)
                 PROVE  IF Readable(stored)
                        THEN \/ IsPending(stored[g])
                             \/ ~IsDataBearing(stored[g]) /\ ExactMarker(g) = "wipData"
                        ELSE Started(FromMarkers[g])
    BY DEF PartialCopyShows
  <2>2. JTyped /\ Honest(stored)
    BY <2>1, ShapeParts DEF JournalInv, WalkShape
  <2>3. ~TakenOver(g) /\ ExactMarker(g) = "wipData" /\ Started(FromMarkers[g])
    BY <2>1, PartialMarked
  <2>4. Readable(stored) => ~IsDataBearing(stored[g])
    BY <2>2, <2>3, ReadableEntries DEF Honest, JTyped
  <2>5. QED
    BY <2>3, <2>4
<1>2. QED
  BY <1>1, JournalInvariant, PTL

\* The journaled walk, too, seals no predecessor as empty over a value copied from
\* it, whatever it asks again over an empty seal and whatever the app copies itself.
THEOREM JournaledEmptySeal ==
  ASSUME RetriesTold
  PROVE  JSpec => []EmptySealHidesNoImport
<1>1. JournalInv => EmptySealHidesNoImport
  <2>1. SUFFICES ASSUME JournalInv, NEW g \in Gen, Marker(g) = "doneEmpty", NEW k \in Key
                 PROVE  store[k] # g
    BY DEF EmptySealHidesNoImport
  <2>2. TypeOK /\ IntentRecorded
    BY <2>1 DEF JournalInv, SealInv
  <2>3. wip[g] # "data"
    BY <2>1, <2>2, MarkerTells DEF IsDone
  <2>4. QED
    BY <2>2, <2>3 DEF IntentRecorded
<1>2. QED
  BY <1>1, JournalInvariant, PTL

\* The invariant behind what an operation answers: each entry of the stored journal
\* and of each working copy, and each row of a walk under way, is warranted by what
\* the successor holds, what its markers record, or what supersedes the predecessor.
THEOREM AnswerInvariant ==
  ASSUME RetriesTold
  PROVE  JSpec => []AnswerInv
BY RetriesAreWhole, InitAnswerInv, StepAnswerInv, PTL DEF JSpec

\* An answer `complete' is right: each predecessor is taken over, has none, or is
\* superseded by a snapshot in place; through deaths, failed and short answers,
\* stores of other sessions, and the app's own copies.
THEOREM CompleteIsTrueHolds ==
  ASSUME RetriesTold
  PROVE  JSpec => CompleteIsTrue
<1> DEFINE Right == \A s \in Session : Answers(s) /\ status'[s].complete =>
                     \A g \in Gen : DealtWith(g)'
<1>1. AnswerInv /\ [JNext]_jvars => Right
  <2>1. SUFFICES ASSUME AnswerInv, [JNext]_jvars, NEW s \in Session, Answers(s),
                        status'[s].complete, NEW g \in Gen
                 PROVE  DealtWith(g)'
    OBVIOUS
  <2>2. TypeOK /\ SealCoversData
    BY <2>1 DEF AnswerInv, JournalInv, SealInv
  <2>3. JActs(s)
    BY <2>1, AnswersItself
  <2>4. UNCHANGED durable
    BY <2>1, <2>3, CompleteAnswer
  <2>5. PICK e \in JournalState : Warranted(g, e) /\ ~IsPending(e)
    BY <2>1, <2>3, CompleteAnswer
  <2>6. DealtWith(g)
    <3>1. content[g] \subseteq EverHeld => TakenOver(g)
      BY DEF TakenOver
    <3>2. CASE e.kind \in {"imported", "rejections"}
      BY <2>5, <3>1, <3>2 DEF Warranted, DealtWith
    <3>3. CASE e.kind = "noData"
      <4>1. done[g] \in {"empty", "data"}
        BY <2>2, <2>5, <3>3 DEF Warranted, TypeOK, MarkerValue
      <4>2. QED
        BY <2>2, <3>1, <4>1 DEF SealCoversData, DealtWith
    <3>4. CASE e.kind = "superseded"
      BY <2>5, <3>1, <3>4 DEF Warranted, Outdone, DealtWith
    <3>5. QED
      BY <2>5, <3>2, <3>3, <3>4 DEF JournalState, Kind, IsPending
  <2>7. QED
    BY <2>4, <2>6 DEF DealtWith, TakenOver, Bridged, EverHeld, durable
<1>2. CompleteIsTrue <=> [][Right]_jvars
  BY DEF CompleteIsTrue
<1> HIDE DEF Right
<1>3. QED
  BY <1>1, <1>2, AnswerInvariant, PTL DEF JSpec

\* An answer `complete' without rejections leaves out no item of a predecessor that
\* answers for itself: what was refused is told, however the counts were merged.
THEOREM RejectionsToldHolds ==
  ASSUME RetriesTold
  PROVE  JSpec => RejectionsTold
<1> DEFINE Right == \A s \in Session :
                     Answers(s) /\ status'[s].complete /\ ~status'[s].rejections =>
                       \A g \in Gen : (SettledAlone(g) => content[g] \subseteq EverHeld)'
<1>1. AnswerInv /\ [JNext]_jvars => Right
  <2>1. SUFFICES ASSUME AnswerInv, [JNext]_jvars, NEW s \in Session, Answers(s),
                        status'[s].complete, ~status'[s].rejections, NEW g \in Gen
                 PROVE  (SettledAlone(g) => content[g] \subseteq EverHeld)'
    OBVIOUS
  <2>2. TypeOK /\ SealCoversData
    BY <2>1 DEF AnswerInv, JournalInv, SealInv
  <2>3. JActs(s)
    BY <2>1, AnswersItself
  <2>4. UNCHANGED durable
    BY <2>1, <2>3, CompleteAnswer
  <2>5. PICK e \in JournalState : /\ Warranted(g, e) /\ ~IsPending(e)
                                  /\ e.kind = "rejections" => status'[s].rejections
    BY <2>1, <2>3, CompleteAnswer
  <2>6. ASSUME SettledAlone(g) PROVE content[g] \subseteq EverHeld
    <3>1. CASE e.kind = "imported"
      BY <2>5, <3>1 DEF Warranted
    <3>2. CASE e.kind = "noData"
      <4>1. done[g] = "data"
        BY <2>2, <2>5, <2>6, <3>2 DEF Warranted, SettledAlone, TypeOK, MarkerValue
      <4>2. QED
        BY <2>2, <4>1 DEF SealCoversData
    <3>3. CASE e.kind = "superseded"
      BY <2>5, <2>6, <3>3 DEF Warranted, Outdone, SettledAlone
    <3>4. e.kind # "rejections"
      BY <2>1, <2>5
    <3>5. QED
      BY <2>5, <3>1, <3>2, <3>3, <3>4 DEF JournalState, Kind, IsPending
  <2>7. QED
    BY <2>4, <2>6 DEF SettledAlone, Bridged, EverHeld, durable
<1>2. RejectionsTold <=> [][Right]_jvars
  BY DEF RejectionsTold
<1> HIDE DEF Right
<1>3. QED
  BY <1>1, <1>2, AnswerInvariant, PTL DEF JSpec

\* MigrationStatus: with one session at a time, an operation that answers with no
\* interrupted import leaves no partial copy behind, whatever died, failed or was
\* damaged before, and whichever generations the app copied itself.
THEOREM InterruptedIsToldHolds ==
  ASSUME OneSession, RetriesTold
  PROVE  JSpec => InterruptedIsTold
<1> DEFINE Tells == \A s \in Session : Answers(s) /\ status'[s].told /\ ~status'[s].interrupted =>
                      \A g \in Gen : ~PartlyCopied(g)'
<1>1. TellingInv /\ [JNext]_jvars => Tells
  BY AnswersItself, AnswerTells DEF TellingInv
<1>2. WholeRetries /\ TellingInv /\ [JNext]_jvars => TellingInv'
  BY StepTelling
<1>3. InterruptedIsTold <=> [][Tells]_jvars
  BY DEF InterruptedIsTold
<1> HIDE DEF Tells
<1>4. QED
  BY <1>1, <1>2, <1>3, RetriesAreWhole, InitTelling, PTL DEF JSpec
===============================================================================
