---------------------------- MODULE JournaledWalk ----------------------------
(***************************************************************************)
(* The journaled migration: begin_migration_journal on a load, the walk of *)
(* DelegateWalk with the journal as its observer, and the app that copies  *)
(* data itself behind note_app_import_started.                             *)
(*                                                                         *)
(* The journal is one stored value without compare-and-swap.  Every store  *)
(* of it is a read-merge-write in two steps, so that another session's     *)
(* store may fall between the read and the write; and the session may die  *)
(* between any two awaits.  The markers that one start, or one final       *)
(* check, reads are read in one step.                                      *)
(***************************************************************************)
EXTENDS DelegateWalk, Journal

CONSTANTS
  NoJournal,      \* nothing is stored
  CorruptJournal, \* bytes that do not decode
  Sweeps,         \* generations the app copies itself, outside the walk
  MaxRevision,    \* bound: the highest import revision of a build
  Damage,         \* TRUE: the stored journal may be corrupted
  ShortRetry,     \* TRUE: a predecessor known to hold data may export part of it
  CountsItems     \* TRUE: the app says how many items it read

ASSUME JournalAssumption ==
  /\ Sweeps \subseteq Gen
  /\ MaxRevision \in Nat
  /\ {Damage, ShortRetry, CountsItems} \subseteq BOOLEAN
  /\ NoJournal # CorruptJournal
  /\ {NoJournal, CorruptJournal} \cap [Gen -> JournalState] = {}
  /\ IsFiniteSet(Key)

VARIABLES
  stored,     \* the stored journal
  journal,    \* journal[s]: the working copy of session s
  stage,      \* stage[s]: the await of the journaled operation
  aim,        \* aim[s]: what the load or store under way is for
  already,    \* already[s][g]: why the walk did not ask generation g
  checked,    \* checked[s]: generations whose marker the start read
  unverified, \* unverified[s]: those whose marker could not be read
  revision,   \* revision[s]: the import revision of the build it runs
  sweep,      \* sweep[s]: the generation the app copies itself, 0 if none
  status      \* status[s]: the status the last operation returned

journaling == <<stored, journal, stage, aim, already, checked, unverified, revision, sweep, status>>
jvars == <<vars, journaling>>

NoStatus == [told |-> FALSE, complete |-> FALSE, interrupted |-> FALSE, rejections |-> FALSE]
NotAsked == [g \in Gen |-> "no"]

Readable(j) == j \notin {NoJournal, CorruptJournal}

\* A state as it applies under the binding of session s.
Bound(s, state) == Effective(state, SnapshotPolicy(Policy), revision[s])

Rebind(s, j) == [g \in Gen |-> Bound(s, j[g])]

\* The marker of g itself, whatever a legacy seal for a newer one says.
ExactMarker(g) == ReadMarker(done[g], wip[g], g \in legacy)

JInit ==
  /\ Init
  /\ stored = NoJournal
  /\ journal = [s \in Session |-> NoJournal]
  /\ stage = [s \in Session |-> "idle"]
  /\ aim = [s \in Session |-> "none"]
  /\ already = [s \in Session |-> NotAsked]
  /\ checked = [s \in Session |-> {}]
  /\ unverified = [s \in Session |-> {}]
  /\ revision = [s \in Session |-> 0]
  /\ sweep = [s \in Session |-> 0]
  /\ status = [s \in Session |-> NoStatus]

At(s, where) == stage' = [stage EXCEPT ![s] = where]
For(s, what) == aim' = [aim EXCEPT ![s] = what]

-------------------------------------------------------------------------------
(* Returning to the application.                                              *)

\* The status of journal j, a generation whose marker could not be read counted
\* as an import under way.
StatusOf(s, j, unread) ==
  LET view == [g \in Gen |-> Bound(s, IF g \in unread THEN MarkImportStarted(j[g]) ELSE j[g])] IN
  [told        |-> TRUE,
   complete    |-> \A g \in Gen : ~IsPending(view[g]),
   interrupted |-> \E g \in Gen : Started(view[g]),
   rejections  |-> \E g \in Gen : view[g].rejected > 0]

\* The operation ends; what it held goes with it.
Leave(s, answer) ==
  /\ At(s, "idle") /\ For(s, "none")
  /\ status' = [status EXCEPT ![s] = answer]
  /\ journal' = [journal EXCEPT ![s] = NoJournal]
  /\ already' = [already EXCEPT ![s] = NotAsked]
  /\ checked' = [checked EXCEPT ![s] = {}]
  /\ unverified' = [unverified EXCEPT ![s] = {}]
  /\ sweep' = [sweep EXCEPT ![s] = 0]
  /\ UNCHANGED revision

\* The report of the walk is handed over with the status.
HandOver(s) ==
  /\ tally' = [tally EXCEPT ![s] = Untallied]
  /\ row' = [row EXCEPT ![s] = [g \in Gen |-> "none"]]
  /\ UNCHANGED <<durable, pc, cur, prior, items, withheld>>

-------------------------------------------------------------------------------
(* Loading or starting the journal: start_journal.                            *)

Operate(s, what) ==
  /\ stage[s] = "idle"
  /\ At(s, "load") /\ For(s, what)
  /\ status' = [status EXCEPT ![s] = NoStatus]
  /\ UNCHANGED <<vars, stored, journal, already, checked, unverified, revision, sweep>>

BeginMigrationJournal(s) == Operate(s, "begin")
MigrateJournaled(s)      == Operate(s, "run")

LoadJournal(s) ==
  /\ stage[s] = "load"
  /\ journal' = [journal EXCEPT ![s] = stored]
  /\ At(s, "seed")
  /\ UNCHANGED <<vars, stored, aim, already, checked, unverified, revision, sweep, status>>

\* Mutant: a rebuilt journal forgets the imports that started.
FromMarkers_NoFlags ==
  [g \in Gen |->
     CASE ExactMarker(g) = "doneData"                         -> Imported
       [] Marker(g) = "doneEmpty"                             -> NoData
       [] Marker(g) = "doneData" /\ ExactMarker(g) # "doneData" -> Superseded
       [] OTHER                                               -> Fresh]

\* The journal read off the markers.  A seal that holds only through a newer
\* generation supersedes, and may hide an import of this one.
FromMarkers ==
  [g \in Gen |->
     CASE ExactMarker(g) = "wipData"                          -> MarkImportStarted(Fresh)
       [] ExactMarker(g) = "doneData"                         -> Imported
       [] Marker(g) = "doneEmpty"                             -> NoData
       [] Marker(g) = "doneData" /\ ExactMarker(g) \notin {"wipData", "doneData"}
                                                              -> Superseded
       [] OTHER                                               -> Fresh]

\* The journal is established: begin answers, the walk starts on its own copy.
Established(s, j, read, unread) ==
  \/ /\ aim[s] = "begin"
     /\ Leave(s, StatusOf(s, j, unread))
     /\ UNCHANGED vars
  \/ /\ aim[s] = "run"
     /\ journal' = [journal EXCEPT ![s] = Rebind(s, j)]
     /\ checked' = [checked EXCEPT ![s] = read]
     /\ unverified' = [unverified EXCEPT ![s] = unread]
     /\ StartRun(s)
     /\ At(s, "walk") /\ For(s, "none")
     /\ UNCHANGED <<already, revision, sweep, status>>

\* It has to be stored first.
ToStore(s, j, read, unread) ==
  /\ journal' = [journal EXCEPT ![s] = j]
  /\ checked' = [checked EXCEPT ![s] = read]
  /\ unverified' = [unverified EXCEPT ![s] = unread]
  /\ At(s, "merge")
  /\ UNCHANGED <<vars, aim, already, revision, sweep, status>>

\* A readable journal is kept.  Each resolution without the data is checked
\* against its own marker, and reopened if that records an import; one whose
\* marker cannot be read stays as it is, unverified.
KeepJournal(s, unreadable) ==
  LET resolved == {g \in Gen : ~IsPending(journal[s][g]) /\ ~IsDataBearing(journal[s][g])}
      read == resolved \ unreadable
      reopened == {g \in read : ExactMarker(g) = "wipData"}
      j == [g \in Gen |-> IF g \in reopened THEN MarkImportStarted(journal[s][g])
                                             ELSE journal[s][g]]
  IN /\ Readable(journal[s])
     /\ IF reopened = {} THEN Established(s, j, read, resolved \ read)
                         ELSE ToStore(s, j, read, resolved \ read)

\* None, or a corrupt one: it starts from the markers, all of them.
RebuildJournal(s) ==
  /\ ~Readable(journal[s])
  /\ ToStore(s, FromMarkers, Gen, {})

SeedJournal(s) ==
  /\ stage[s] = "seed"
  /\ (\E unreadable \in SUBSET Gen : KeepJournal(s, unreadable)) \/ RebuildJournal(s)
  /\ UNCHANGED stored

-------------------------------------------------------------------------------
(* The read-merge-write of the journal: store_merged.                         *)

MergeInto(s, j) == [g \in Gen |-> MergeStates(Bound(s, j[g]), Bound(s, journal[s][g]))]

\* A journal found corrupt is rebuilt from the markers, except by the app's own
\* import, which is refused.
MergeStored(s) ==
  /\ stage[s] = "merge"
  /\ ~(stored = CorruptJournal /\ aim[s] = "note")
  /\ journal' = [journal EXCEPT ![s] =
                   CASE Readable(stored)        -> MergeInto(s, stored)
                     [] stored = CorruptJournal -> MergeInto(s, FromMarkers)
                     [] stored = NoJournal      -> @]
  /\ At(s, "write")
  /\ UNCHANGED <<vars, stored, aim, already, checked, unverified, revision, sweep, status>>

\* The flag is durable before the first item.  An export that is shorter than
\* what another session counted meanwhile is not believed after all.
Flagged(s) ==
  LET short == aim[s] = "late" /\ Cardinality(items[s]) < ItemsSeen(journal[s][cur[s]]) IN
  /\ aim[s] \in {"early", "late"}
  /\ IF short
     THEN /\ Report(s, "unresponsive", UnresponsiveTerminates(Policy, TRUE), withheld[s])
          /\ UNCHANGED <<durable, tally>>
     ELSE UNCHANGED vars
  /\ At(s, "walk") /\ For(s, "none")
  /\ UNCHANGED <<journal, already, checked, unverified, revision, sweep, status>>

\* The journal now holds the outcome of the walk.
Return(s) ==
  /\ aim[s] = "end"
  /\ Leave(s, StatusOf(s, journal[s], unverified[s]))
  /\ HandOver(s)

\* The app's import is flagged, unless another session's resolution came in.
Announced(s) ==
  /\ aim[s] = "note"
  /\ IF IsDataBearing(journal[s][sweep[s]]) THEN Leave(s, NoStatus)
     ELSE /\ At(s, "noteMarker")
          /\ UNCHANGED <<journal, aim, already, checked, unverified, revision, sweep, status>>
  /\ UNCHANGED vars

StoreJournal(s) ==
  /\ stage[s] = "write"
  /\ stored' = journal[s]
  /\ \/ Established(s, journal[s], checked[s], unverified[s])
     \/ Flagged(s)
     \/ Return(s)
     \/ Announced(s)

\* The journal, or a marker the start reads, cannot be read or written.  The
\* walk halts before an import it could not flag; anything else is given up.
JournalUnavailable(s) ==
  /\ stage[s] \in {"load", "seed", "merge", "write", "note", "noteMarker", "noteRead"}
  /\ stage[s] = "seed" => ~Readable(journal[s])
  /\ IF aim[s] \in {"early", "late"}
     THEN /\ WriterUnavailable(s)
          /\ At(s, "walk") /\ For(s, "none")
          /\ UNCHANGED <<durable, tally, journal, already, checked, unverified,
                         revision, sweep, status>>
     ELSE /\ Leave(s, NoStatus)
          /\ IF aim[s] = "end" THEN HandOver(s) ELSE UNCHANGED vars
  /\ UNCHANGED stored

-------------------------------------------------------------------------------
(* The walk, observed by the journal.                                         *)

AlreadyAs(s, why) == already' = [already EXCEPT ![s][cur[s]] = why]

\* Mutant: an import with rejections is walked again.
ResolvedWithData_ImportedOnly(s) == journal[s][cur[s]].kind = "imported"

\* The working copy is bound already.
ResolvedWithData(s) == IsDataBearing(journal[s][cur[s]])

\* The journal has its data in the successor: neither asked nor its marker read.
JournalShortCut(s) ==
  /\ stage[s] = "walk" /\ pc[s] = "marker"
  /\ ResolvedWithData(s)
  /\ AlreadyAs(s, "journal")
  /\ Report(s, "alreadyMigrated", DataBearingIsAuthoritative(Policy, TRUE), withheld[s])
  /\ UNCHANGED <<durable, tally, stored, journal, stage, aim, checked, unverified,
                 revision, sweep, status>>

\* What the journal knows of a predecessor's data when its markers may not.
KnownData(s) ==
  LET state == journal[s][cur[s]] IN Started(state) \/ ItemsSeen(state) > 0

\* A seal is believed, unless it says `empty' of a predecessor known to hold
\* data.  A data seal may stand for a newer generation: another read tells, and
\* one that fails counts as bridged.
BelieveSeal(s, unreadable) ==
  LET marker == Marker(cur[s])
      bridged == SnapshotPolicy(Policy)
                   /\ (unreadable \/ ExactMarker(cur[s]) # "doneData")
  IN /\ stage[s] = "walk" /\ pc[s] = "marker"
     /\ ~ResolvedWithData(s)
     /\ marker = "doneData" \/ (marker = "doneEmpty" /\ ~KnownData(s))
     /\ AlreadyAs(s, IF marker = "doneEmpty" THEN "empty"
                     ELSE IF bridged THEN "bridged" ELSE "data")
     /\ Report(s, "alreadyMigrated",
               DataBearingIsAuthoritative(Policy, marker = "doneData"), withheld[s])
     /\ UNCHANGED <<durable, tally, stored, journal, stage, aim, checked, unverified,
                    revision, sweep, status>>

\* The journal is to say `entry' of the current predecessor before anything is
\* written from it, and to be stored if that is news or this is a retry.
BeforeImport(s, entry, retry, what) ==
  IF entry # journal[s][cur[s]] \/ retry
  THEN /\ journal' = [journal EXCEPT ![s][cur[s]] = entry]
       /\ At(s, "merge") /\ For(s, what)
  ELSE UNCHANGED <<journal, stage, aim>>

\* An import is under way or was: the journal must say so before the probe.
AskAgain(s) ==
  LET entry == journal[s][cur[s]]
      marker == Marker(cur[s])
      known == marker = "wipData" \/ KnownData(s)
  IN /\ stage[s] = "walk" /\ pc[s] = "marker"
     /\ ~ResolvedWithData(s)
     /\ marker # "doneData" /\ (marker = "doneEmpty" => KnownData(s))
     /\ AlreadyAs(s, IF marker = "doneEmpty" THEN "empty" ELSE "no")
     /\ prior' = [prior EXCEPT ![s] = known]
     /\ GoTo(s, "probe")
     /\ BeforeImport(s, IF known THEN MarkImportStarted(entry) ELSE entry, FALSE, "early")
     /\ UNCHANGED <<durable, cur, items, tally, withheld, row, stored, checked, unverified,
                    revision, sweep, status>>

\* Its row is left to the check after the walk.
JMarkerUnreadable(s) ==
  /\ stage[s] = "walk"
  /\ pc[s] = "marker" /\ ~ResolvedWithData(s)
  /\ MarkerUnreadable(s)
  /\ AlreadyAs(s, "unreadable")
  /\ UNCHANGED <<stored, journal, stage, aim, checked, unverified, revision, sweep, status>>

\* A first answer that is short of some items is believed, and no check can tell.
JExport(s) == Export(cur[s]) \cup (IF ShortRetry /\ prior[s] THEN SUBSET content[cur[s]] ELSE {})

\* Fewer items than an import that started saw, or none after some.
TooShort(s, exported) ==
  /\ prior[s]
  /\ exported = {} \/ Cardinality(exported) < ItemsSeen(journal[s][cur[s]])

\* Before the first item of an import the journal says that it started, and
\* what it saw; a retry stores even what it need not, to read the newest count.
JFetchSecrets(s) ==
  /\ stage[s] = "walk" /\ pc[s] = "fetch"
  /\ \E exported \in JExport(s) :
       LET before == journal[s][cur[s]]
           after == NoteItemsSeen(MarkImportStarted(before), Cardinality(exported))
           sawData == prior[s] \/ exported # {}
       IN \/ /\ TooShort(s, exported)
             /\ Unresponsive(s)
             /\ UNCHANGED <<journal, stage, aim>>
          \/ /\ ~TooShort(s, exported)
             /\ items' = [items EXCEPT ![s] = exported]
             /\ GoTo(s, "begin")
             /\ IF sawData THEN BeforeImport(s, after, Started(before), "late")
                           ELSE UNCHANGED <<journal, stage, aim>>
             /\ UNCHANGED <<cur, prior, withheld, row>>
  /\ UNCHANGED <<durable, tally, stored, already, checked, unverified, revision, sweep, status>>

\* Over an empty seal that was not believed the marker is read back.
JRecordInProgress(s) ==
  /\ stage[s] = "walk"
  /\ RecordInProgress(s)
  /\ IF already[s][cur[s]] = "empty" THEN At(s, "readBack") ELSE UNCHANGED stage
  /\ UNCHANGED <<stored, journal, aim, already, checked, unverified, revision, sweep, status>>

ReadBack(s) ==
  /\ stage[s] = "readBack"
  /\ \/ Marker(cur[s]) = "wipData" /\ UNCHANGED vars
     \/ WriterUnavailable(s) /\ UNCHANGED <<durable, tally>>
  /\ At(s, "walk")
  /\ UNCHANGED <<stored, journal, aim, already, checked, unverified, revision, sweep, status>>

\* The other awaits are those of the plain walk.
PlainAwait(s) ==
  /\ stage[s] = "walk"
  /\ \/ ProbeExecutable(s) \/ NoAnswer(s) \/ BeginMarkerFails(s)
     \/ Item(s) \/ (\E k \in Key : WriteFails(s, k))
     \/ Flush(s) \/ FlushFails(s) \/ RecordDone(s) \/ CompleteMarkerFails(s)
  /\ UNCHANGED journaling

-------------------------------------------------------------------------------
(* After the walk: resolve_outcomes, the check of the markers nobody read, and *)
(* the final store.                                                            *)

\* Mutant: any item that did not land counts as refused.
OnlyRejections_AnyIncomplete(s, g) == row[s][g] = "incomplete"

\* Refused items are all that is missing.
OnlyRejections(s, g) ==
  /\ row[s][g] = "incomplete"
  /\ \E k \in Key : tally[s][g][k] = "rejected"
  /\ \A k \in Key : tally[s][g][k] \notin {"failed", "withheld"}

\* Does the row of g say that its data, or a snapshot newer still, is in place?
RowHasData(s, g) ==
  \/ row[s][g] = "imported" \/ OnlyRejections(s, g)
  \/ row[s][g] = "alreadyMigrated" /\ already[s][g] \in {"journal", "bridged", "data"}

\* Mutant: whatever a terminated walk left behind counts as superseded.
Resolves_BehindAnything(s, g) == row[s][g] = "superseded" /\ SnapshotPolicy(Policy)

\* Superseded resolves when this run proves why.
SupersededForGood(s, g) ==
  /\ row[s][g] = "superseded" /\ SnapshotPolicy(Policy)
  /\ \E h \in Gen : h > g /\ RowHasData(s, h)

\* Mutant: the wrong counter.
Rejected_Failed(s, g) == Cardinality({k \in Key : tally[s][g][k] = "failed"})

Rejected(s, g) == Cardinality({k \in Key : tally[s][g][k] = "rejected"})

\* The entry of g once the walk is recorded.  What the journal itself resolved,
\* was never asked, or gave no answer keeps its state.
Recorded(s, g) ==
  LET state == journal[s][g] IN
  CASE row[s][g] = "alreadyMigrated" /\ already[s][g] = "bridged" -> Record(state, Superseded)
    [] row[s][g] = "alreadyMigrated" /\ already[s][g] = "data"    -> Record(state, Imported)
    [] row[s][g] = "alreadyMigrated" /\ already[s][g] = "empty"   -> Record(state, NoData)
    [] row[s][g] = "imported"                                     -> Record(state, Imported)
    [] row[s][g] = "noData"                                       -> Record(state, NoData)
    [] OnlyRejections(s, g) ->
         Record(state, ImportedWithRejections(Rejected(s, g), revision[s], 0))
    [] SupersededForGood(s, g)                                    -> Record(state, Superseded)
    [] OTHER                                                      -> state

\* Neither the walk nor the start read its marker.
Unread(s, g) ==
  /\ \/ row[s][g] = "superseded"
     \/ already[s][g] \in {"unreadable", "bridged", "journal"}
  /\ g \notin checked[s]

\* One that says an import is under way, or hides it, is flagged again.
Resolve(s, unreadable) ==
  LET unread == {g \in Gen : /\ Unread(s, g)
                             /\ ~IsDataBearing(Recorded(s, g)) /\ ~Started(Recorded(s, g))}
      reached == {g \in Gen : row[s][g] # "superseded"
                              /\ already[s][g] \notin {"unreadable", "bridged", "journal"}}
  IN /\ journal' = [journal EXCEPT ![s] = [g \in Gen |->
                      IF g \in unread \ unreadable /\ ExactMarker(g) = "wipData"
                      THEN MarkImportStarted(Recorded(s, g)) ELSE Recorded(s, g)]]
     /\ unverified' = [unverified EXCEPT ![s] =
                         ((@ \ unread) \cup (unread \cap unreadable)) \ reached]

ResolveOutcomes(s) ==
  /\ stage[s] = "walk" /\ pc[s] = "idle"
  /\ \E unreadable \in SUBSET Gen : Resolve(s, unreadable)
  /\ At(s, "merge") /\ For(s, "end")
  /\ UNCHANGED <<vars, stored, already, checked, revision, sweep, status>>

-------------------------------------------------------------------------------
(* The app's own import: note_app_import_started, and the copy it allows.     *)

\* It read all of g, and says how many items or that it cannot tell.
NoteLoad(s, g) ==
  /\ stage[s] = "idle" /\ content[g] # {}
  /\ Readable(stored)
  /\ journal' = [journal EXCEPT ![s] = stored]
  /\ sweep' = [sweep EXCEPT ![s] = g]
  /\ At(s, "note") /\ For(s, "note")
  /\ status' = [status EXCEPT ![s] = NoStatus]
  /\ UNCHANGED <<vars, stored, already, checked, unverified, revision>>

\* The journal, as stored, or the marker of a newer generation shows data in it.
HoldsData(s, h) ==
  LET state == journal[s][h] IN
  \/ IsDataBearing(state) \/ Started(state) \/ (IsPending(state) /\ state.rejected > 0)
  \/ ExactMarker(h) \in {"wipData", "doneData"}

\* A snapshot policy holds the app to what the walk would import.
NotImportable(s, g) ==
  /\ SnapshotPolicy(Policy)
  /\ \/ \E h \in Gen : h > g /\
          (HoldsData(s, h) \/ (Policy = NewestSnapshotWins /\ ExactMarker(h) # "doneEmpty"))
     \/ /\ Marker(g) = "doneData" /\ ExactMarker(g) # "doneData"
        /\ ~IsDataBearing(Bound(s, journal[s][g]))

AlreadyImported(s, g) == IsDataBearing(Bound(s, journal[s][g])) \/ Marker(g) = "doneData"

NoteRefused(s) ==
  /\ stage[s] = "note"
  /\ NotImportable(s, sweep[s]) \/ AlreadyImported(s, sweep[s])
  /\ Leave(s, NoStatus)
  /\ UNCHANGED <<vars, stored>>

\* The journal first, then the marker.
NoteStarted(s) ==
  /\ stage[s] = "note"
  /\ ~NotImportable(s, sweep[s]) /\ ~AlreadyImported(s, sweep[s])
  /\ LET g == sweep[s]
         count == IF CountsItems THEN Cardinality(content[g]) ELSE 0
         before == Bound(s, journal[s][g])
         after == NoteItemsSeen(MarkImportStarted(before), count)
     IN /\ journal' = [journal EXCEPT ![s] = [Rebind(s, @) EXCEPT ![g] = after]]
        /\ At(s, IF after = before THEN "noteMarker" ELSE "merge")
  /\ UNCHANGED <<vars, stored, aim, already, checked, unverified, revision, sweep, status>>

NoteMarker(s) ==
  /\ stage[s] = "noteMarker"
  /\ wip' = [wip EXCEPT ![sweep[s]] = "data"]
  /\ At(s, "noteRead")
  /\ UNCHANGED <<content, legacy, store, done, volatile, stored, journal, aim, already,
                 checked, unverified, revision, sweep, status>>

NoteReadBack(s) ==
  /\ stage[s] = "noteRead"
  /\ IF Marker(sweep[s]) = "wipData"
     THEN /\ At(s, "copy")
          /\ UNCHANGED <<journal, aim, already, checked, unverified, revision, sweep, status>>
     ELSE Leave(s, NoStatus)
  /\ UNCHANGED <<vars, stored>>

\* The app writes what it read, over nothing the successor holds.
AppWrite(s, k) ==
  /\ stage[s] = "copy"
  /\ k \in content[sweep[s]] /\ ~Present(k)
  /\ store' = [store EXCEPT ![k] = sweep[s]]
  /\ UNCHANGED <<content, legacy, wip, done, volatile, journaling>>

AppDone(s) ==
  /\ stage[s] = "copy"
  /\ Leave(s, NoStatus)
  /\ UNCHANGED <<vars, stored>>

-------------------------------------------------------------------------------
(* The environment.                                                           *)

\* The session dies: only what is stored stays.
Die(s) ==
  /\ stage[s] # "idle"
  /\ Leave(s, NoStatus)
  /\ IF pc[s] # "idle" THEN Crash(s) ELSE HandOver(s)
  /\ UNCHANGED stored

\* A build with a repaired import path takes over.
RaiseRevision(s) ==
  /\ stage[s] = "idle" /\ revision[s] < MaxRevision
  /\ revision' = [revision EXCEPT ![s] = @ + 1]
  /\ UNCHANGED <<vars, stored, journal, stage, aim, already, checked, unverified, sweep, status>>

Corrupt ==
  /\ Damage /\ Readable(stored)
  /\ stored' = CorruptJournal
  /\ UNCHANGED <<vars, journal, stage, aim, already, checked, unverified, revision, sweep, status>>

User(k) == (UserWrite(k) \/ UserDelete(k)) /\ UNCHANGED journaling

JStep(s) ==
  \/ LoadJournal(s) \/ SeedJournal(s) \/ MergeStored(s) \/ StoreJournal(s)
  \/ JournalShortCut(s) \/ (\E unreadable \in BOOLEAN : BelieveSeal(s, unreadable))
  \/ AskAgain(s) \/ JFetchSecrets(s) \/ JRecordInProgress(s) \/ ReadBack(s)
  \/ PlainAwait(s) \/ ResolveOutcomes(s)

JFault(s) == JournalUnavailable(s) \/ JMarkerUnreadable(s)

AppStep(s) ==
  \/ (\E g \in Sweeps : NoteLoad(s, g)) \/ NoteRefused(s) \/ NoteStarted(s)
  \/ NoteMarker(s) \/ NoteReadBack(s) \/ (\E k \in Key : AppWrite(s, k)) \/ AppDone(s)

JNext ==
  \/ \E s \in Session :
       \/ BeginMigrationJournal(s) \/ MigrateJournaled(s)
       \/ JStep(s) \/ JFault(s) \/ AppStep(s) \/ Die(s) \/ RaiseRevision(s)
  \/ \E k \in Key : User(k)
  \/ Corrupt

JSpec == JInit /\ [][JNext]_jvars

-------------------------------------------------------------------------------
(* Properties.                                                                *)

Stage == {"idle", "load", "seed", "merge", "write", "walk", "readBack",
          "note", "noteMarker", "noteRead", "copy"}

JournalValue == {NoJournal, CorruptJournal} \cup [Gen -> JournalState]

\* TypeOK, of the journal: no stored or working entry has a flag or a count that
\* its kind does not carry, and a walk is only under way in a journaled run.
JTypeOK ==
  /\ stored \in JournalValue /\ journal \in [Session -> JournalValue]
  /\ stage \in [Session -> Stage]
  /\ aim \in [Session -> {"none", "begin", "run", "early", "late", "end", "note"}]
  /\ already \in [Session ->
       [Gen -> {"no", "journal", "data", "empty", "bridged", "unreadable"}]]
  /\ checked \in [Session -> SUBSET Gen] /\ unverified \in [Session -> SUBSET Gen]
  /\ revision \in [Session -> 0..MaxRevision]
  /\ sweep \in [Session -> 0..N]
  /\ status \in 
       [Session -> [told : BOOLEAN, complete : BOOLEAN, interrupted : BOOLEAN, rejections : BOOLEAN]]
  /\ \A s \in Session : pc[s] # "idle" => stage[s] \in {"walk", "readBack", "merge", "write"}

\* Every item of g is, or was, in the successor, or is refused for good.
TakenOver(g) == \A k \in content[g] : k \in EverHeld \/ <<g, k>> \in Rejects

\* Something of g was copied and something more of it should have been.
PartlyCopied(g) == (\E k \in Key : store[k] = g) /\ ~TakenOver(g)

\* There is nothing left to ask g for: its data is in place, it answered that it
\* has none, or a newer snapshot supersedes it.
DealtWith(g) ==
  \/ TakenOver(g) \/ done[g] = "empty" \/ Bridged(g)
  \/ SnapshotPolicy(Policy) /\ \E h \in Gen : h > g /\ content[h] # {} /\ TakenOver(h)

\* g answers for itself: no older API's seal, empty answer or newer data.
SettledAlone(g) ==
  /\ done[g] # "empty" /\ ~Bridged(g)
  /\ SnapshotPolicy(Policy) => \A h \in Gen : h > g => content[h] = {}

\* The step at which an operation answers session s.
Answers(s) == stage[s] # "idle" /\ stage'[s] = "idle"

\* "Every predecessor in the lineage is resolved. There is nothing to probe": an
\* operation that answers `complete' is right, whatever died, failed or came
\* short before, and whichever generations the app copied itself.
CompleteIsTrue ==
  [][\A s \in Session : Answers(s) /\ status'[s].complete => \A g \in Gen : DealtWith(g)']_jvars

\* "Non-zero means data the user had did NOT migrate: surface it": an operation
\* that answers `complete' with no rejections leaves out no item of a predecessor
\* that was not itself superseded, sealed by an older API, or empty in its answer.
RejectionsTold ==
  [][\A s \in Session :
       Answers(s) /\ status'[s].complete /\ ~status'[s].rejections =>
         \A g \in Gen : (SettledAlone(g) => content[g] \subseteq EverHeld)']_jvars

\* An operation that answers with no interrupted import leaves no partial copy
\* behind.  (One session: the marker that another one records after this one
\* read it is found by the next load, see PartialCopyShows.)
InterruptedIsTold ==
  [][\A s \in Session : Answers(s) /\ status'[s].told /\ ~status'[s].interrupted =>
       \A g \in Gen : ~PartlyCopied(g)']_jvars

\* A partial copy is never settled in what is stored: its entry is pending, or
\* says that none of the data is here against a marker that the next load reads
\* and believes instead; without a journal the rebuild flags it.  Stale stores
\* of other sessions, deaths and a corrupt journal do not break it.
PartialCopyShows ==
  \A g \in Gen : PartlyCopied(g) =>
    IF Readable(stored)
    THEN \/ IsPending(stored[g])
         \/ ~IsDataBearing(stored[g]) /\ ExactMarker(g) = "wipData"
    ELSE Started(FromMarkers[g])

\* What the journal calls imported is: each item is in the successor, or refused.
JournalHonest ==
  Readable(stored) => \A g \in Gen : IsDataBearing(stored[g]) => TakenOver(g)

\* A predecessor whose data is in the successor is not walked again, although an
\* import with refused items has no completion marker: a key the user deleted
\* since stays deleted, until a higher revision reopens it.  (One session.)
ResolvedNotReoffered ==
  [][\A s \in Session, g \in Gen, k \in Key :
       Readable(stored) /\ IsDataBearing(Bound(s, stored[g])) => ~Copies(g, k)]_jvars
===============================================================================
