----------------------------- MODULE DelegateWalk -----------------------------
(***************************************************************************)
(* The delegate secret migration: migrate_delegate_secrets walking the     *)
(* predecessors newest first, and the successor's never-clobber writer.    *)
(*                                                                         *)
(* A session is one process (a tab, an app instance) that runs the walk    *)
(* over the shared successor.  Every await of the walk is a step of its    *)
(* own, so sessions interleave, the user edits the successor in between,   *)
(* and a session may crash at any of them, keeping only what is durable.   *)
(*                                                                         *)
(* Predecessors are named by their generation, 1 (oldest) to N (newest).   *)
(* A value is named by the generation it was copied from; a key the user   *)
(* deleted reads as absent to the code, but the model remembers that the   *)
(* successor once held it.                                                 *)
(***************************************************************************)
EXTENDS Integers, FiniteSets, DelegateMarkers

CONSTANTS
  N,            \* number of predecessor generations
  Key,          \* secret keys
  Session,      \* concurrent callers of the walk
  Policy,       \* the SecretSelectionPolicy of every call
  Buffering,    \* TRUE: the writer lands items at flush; FALSE: as SecretStoreIo
  Rejects,      \* <<generation, key>> pairs the import path refuses for good
  LegacyChoice, \* generations an older API may have migrated before
  FaultyExport, \* TRUE: a predecessor may answer an export with nothing
  UserActive    \* TRUE: the user writes and deletes keys during migration

Gen == 1..N

ASSUME WalkAssumption ==
  /\ N \in Nat \ {0}
  /\ Policy \in SecretSelectionPolicy
  /\ Buffering \in BOOLEAN
  /\ Rejects \subseteq (Gen \X Key)
  /\ LegacyChoice \subseteq Gen
  /\ FaultyExport \in BOOLEAN
  /\ UserActive \in BOOLEAN

Absent  == 0          \* the successor never held the key
Deleted == -1         \* the user deleted it
Own     == N + 1      \* the successor's own value
Value   == -1..(N + 1)

VARIABLES
  content,  \* content[g]: the keys generation g holds (frozen)
  legacy,   \* generations with a generation-keyed completion marker
  store,    \* store[k]: where the successor's value for k came from
  wip,      \* wip[g]: the in-progress marker for g
  done,     \* done[g]: the completion marker for g
  pc,       \* pc[s]: the await the walk of session s is at
  cur,      \* cur[s]: the predecessor it is walking, 0 when idle
  prior,    \* prior[s]: an earlier attempt is known to have seen data in it
  items,    \* items[s]: what it exported
  tally,    \* tally[s][g][k]: what became of each offered item
  withheld, \* withheld[s]: keys older generations may not supply this run
  row       \* row[s][g]: the report of the run, one row per predecessor

durable  == <<content, legacy, store, wip, done>>
volatile == <<pc, cur, prior, items, tally, withheld, row>>
vars     == <<durable, volatile>>

Outcome == {"none", "written", "skipped", "failed", "rejected", "withheld"}
Row == {"none", "imported", "noData", "alreadyMigrated", "unresponsive",
        "incomplete", "flushFailed", "sealFailed", "writerUnavailable", "superseded"}

\* What a store lookup says: has_secret.
Present(k) == store[k] \notin {Absent, Deleted}

\* The keys the successor holds or once held.
EverHeld == {k \in Key : store[k] # Absent}

Bridged(g) == LegacyMigrated(Policy, legacy, g)
Marker(g)  == ReadMarker(done[g], wip[g], Bridged(g))
SawData(s) == prior[s] \/ items[s] # {}

OfferedAs(s, outcome) == {k \in Key : tally[s][cur[s]][k] = outcome}
\* Mutant: a retryable failure no longer costs the completion marker.
IsClean_IgnoresFailed(s) ==
  \A k \in Key : tally[s][cur[s]][k] \notin {"rejected", "withheld"}

IsClean(s) ==
  \A k \in Key : tally[s][cur[s]][k] \notin {"failed", "rejected", "withheld"}

Untallied == [g \in Gen |-> [k \in Key |-> "none"]]

Init ==
  /\ content \in [Gen -> SUBSET Key]
  /\ legacy \in SUBSET LegacyChoice
  /\ store = [k \in Key |-> IF \E g \in legacy : k \in content[g] THEN Own ELSE Absent]
  /\ wip = [g \in Gen |-> "absent"]
  /\ done = [g \in Gen |-> "absent"]
  /\ pc = [s \in Session |-> "idle"]
  /\ cur = [s \in Session |-> 0]
  /\ prior = [s \in Session |-> FALSE]
  /\ items = [s \in Session |-> {}]
  /\ tally = [s \in Session |-> Untallied]
  /\ withheld = [s \in Session |-> {}]
  /\ row = [s \in Session |-> [g \in Gen |-> "none"]]

-------------------------------------------------------------------------------
(* Moving on.  A row is pushed for the current predecessor; when the walk     *)
(* terminates, every older one is Superseded.                                 *)

StartRun(s) ==
  /\ pc[s] = "idle"
  /\ pc' = [pc EXCEPT ![s] = "marker"]
  /\ cur' = [cur EXCEPT ![s] = N]
  /\ tally' = [tally EXCEPT ![s] = Untallied]
  /\ row' = [row EXCEPT ![s] = [g \in Gen |-> "none"]]
  /\ UNCHANGED <<durable, prior, items, withheld>>

GoTo(s, stage) == pc' = [pc EXCEPT ![s] = stage]

Report(s, kind, terminated, keysWithheld) ==
  LET finished == terminated \/ cur[s] = 1 IN
  /\ row' = [row EXCEPT ![s] = [g \in Gen |->
               IF g = cur[s] THEN kind
               ELSE IF terminated /\ g < cur[s] THEN "superseded" ELSE @[g]]]
  /\ pc' = [pc EXCEPT ![s] = IF finished THEN "idle" ELSE "marker"]
  /\ cur' = [cur EXCEPT ![s] = IF finished THEN 0 ELSE @ - 1]
  /\ withheld' = [withheld EXCEPT ![s] = IF finished THEN {} ELSE keysWithheld]
  /\ prior' = [prior EXCEPT ![s] = FALSE]
  /\ items' = [items EXCEPT ![s] = {}]

\* The node could not be reached, or its answer is not believed.
Unresponsive(s) ==
  Report(s, "unresponsive", UnresponsiveTerminates(Policy, prior[s]), withheld[s])

\* The successor's markers cannot be read or written: the walk stops.
WriterUnavailable(s) == Report(s, "writerUnavailable", TRUE, withheld[s])

-------------------------------------------------------------------------------
(* The awaits of the walk, in order.                                          *)

ReadMigrationMarker(s) ==
  /\ pc[s] = "marker"
  /\ LET marker == Marker(cur[s]) IN
     \/ /\ IsDone(marker)
        /\ Report(s, "alreadyMigrated",
                  DataBearingIsAuthoritative(Policy, marker = "doneData"), withheld[s])
     \/ /\ ~IsDone(marker)
        /\ prior' = [prior EXCEPT ![s] = marker = "wipData"]
        /\ GoTo(s, "probe")
        /\ UNCHANGED <<cur, items, withheld, row>>
  /\ UNCHANGED <<durable, tally>>

MarkerUnreadable(s) ==
  /\ pc[s] = "marker"
  /\ WriterUnavailable(s)
  /\ UNCHANGED <<durable, tally>>

ProbeExecutable(s) ==
  /\ pc[s] = "probe"
  /\ GoTo(s, "fetch")
  /\ UNCHANGED <<durable, cur, prior, items, tally, withheld, row>>

\* NotInstalled, NoReply and a transport error end alike.
NoAnswer(s) ==
  /\ pc[s] \in {"probe", "fetch"}
  /\ Unresponsive(s)
  /\ UNCHANGED <<durable, tally>>

Export(g) == IF FaultyExport THEN {content[g], {}} ELSE {content[g]}

\* An export of nothing after an earlier attempt saw data is not believed.
FetchSecrets(s) ==
  /\ pc[s] = "fetch"
  /\ \E exported \in Export(cur[s]) :
       \/ /\ prior[s] /\ exported = {}
          /\ Unresponsive(s)
       \/ /\ ~(prior[s] /\ exported = {})
          /\ items' = [items EXCEPT ![s] = exported]
          /\ GoTo(s, "begin")
          /\ UNCHANGED <<cur, prior, withheld, row>>
  /\ UNCHANGED <<durable, tally>>

\* Phase 1: record intent, with the data flag, before any item.
RecordInProgress(s) ==
  /\ pc[s] = "begin"
  /\ wip' = [wip EXCEPT ![cur[s]] = StickyInProgress(@, SawData(s))]
  /\ GoTo(s, "items")
  /\ UNCHANGED <<content, legacy, store, done, cur, prior, items, tally, withheld, row>>

BeginMarkerFails(s) ==
  /\ pc[s] = "begin"
  /\ ~(~SawData(s) /\ wip[cur[s]] = "data")  \* a downgrade is skipped, never attempted
  /\ WriterUnavailable(s)
  /\ UNCHANGED <<durable, tally>>

Pending(s) == {k \in items[s] : tally[s][cur[s]][k] = "none"}

TallyAs(s, k, outcome) == tally' = [tally EXCEPT ![s][cur[s]][k] = outcome]

\* An item that a newer generation left unresolved is never offered.
WithholdItem(s, k) ==
  /\ pc[s] = "items" /\ k \in Pending(s)
  /\ k \in withheld[s]
  /\ TallyAs(s, k, "withheld")
  /\ UNCHANGED <<durable, pc, cur, prior, items, withheld, row>>

\* The writer declines a key the successor already holds, refuses some for
\* good, and otherwise writes the value (at once, or into its buffer).
WriteSecret(s, k) ==
  /\ pc[s] = "items" /\ k \in Pending(s)
  /\ k \notin withheld[s]
  /\ \/ /\ Present(k)
        /\ TallyAs(s, k, "skipped")
        /\ UNCHANGED store
     \/ /\ ~Present(k) /\ <<cur[s], k>> \in Rejects
        /\ TallyAs(s, k, "rejected")
        /\ UNCHANGED store
     \/ /\ ~Present(k) /\ <<cur[s], k>> \notin Rejects
        /\ TallyAs(s, k, "written")
        /\ store' = IF Buffering THEN store ELSE [store EXCEPT ![k] = cur[s]]
  /\ UNCHANGED <<content, legacy, wip, done, pc, cur, prior, items, withheld, row>>

WriteFails(s, k) ==
  /\ pc[s] = "items" /\ k \in Pending(s)
  /\ k \notin withheld[s]
  /\ ~Present(k) /\ <<cur[s], k>> \notin Rejects
  /\ TallyAs(s, k, "failed")
  /\ UNCHANGED <<durable, pc, cur, prior, items, withheld, row>>

\* Landing a set of buffered keys, never over a key the successor holds.
Land(g, keys) ==
  [k \in Key |-> IF k \in keys /\ ~Present(k) THEN g ELSE store[k]]

\* Mutant: the completion marker does not wait for the flush.
Flush_Lost(s) ==
  /\ pc[s] = "items" /\ Pending(s) = {}
  /\ IF IsClean(s)
     THEN /\ GoTo(s, "seal")
          /\ UNCHANGED <<cur, prior, items, withheld, row>>
     ELSE Report(s, "incomplete",
                 DataBearingIsAuthoritative(Policy, SawData(s)),
                 withheld[s] \cup OfferedAs(s, "failed"))
  /\ UNCHANGED <<durable, tally>>

\* Mutant: keys refused for good are withheld from older generations too.
Flush_WithholdsRejected(s) ==
  /\ pc[s] = "items" /\ Pending(s) = {}
  /\ store' = IF Buffering THEN Land(cur[s], OfferedAs(s, "written")) ELSE store
  /\ IF IsClean(s)
     THEN /\ GoTo(s, "seal")
          /\ UNCHANGED <<cur, prior, items, withheld, row>>
     ELSE Report(s, "incomplete",
                 DataBearingIsAuthoritative(Policy, SawData(s)),
                 withheld[s] \cup OfferedAs(s, "failed") \cup OfferedAs(s, "rejected"))
  /\ UNCHANGED <<content, legacy, wip, done, tally>>

\* Every item was offered and the flush confirms them.  A clean predecessor
\* goes on to its completion marker, any other is reported as it is.
Flush(s) ==
  /\ pc[s] = "items" /\ Pending(s) = {}
  /\ store' = IF Buffering THEN Land(cur[s], OfferedAs(s, "written")) ELSE store
  /\ IF IsClean(s)
     THEN /\ GoTo(s, "seal")
          /\ UNCHANGED <<cur, prior, items, withheld, row>>
     ELSE Report(s, "incomplete",
                 DataBearingIsAuthoritative(Policy, SawData(s)),
                 withheld[s] \cup OfferedAs(s, "failed"))
  /\ UNCHANGED <<content, legacy, wip, done, tally>>

\* Mutant: a failed flush withholds nothing, as if its items had landed.
FlushFails_NoWithholding(s) ==
  /\ Buffering
  /\ pc[s] = "items" /\ Pending(s) = {}
  /\ \E landed \in SUBSET OfferedAs(s, "written") : store' = Land(cur[s], landed)
  /\ tally' = [tally EXCEPT ![s][cur[s]] =
                 [k \in Key |-> IF @[k] = "written" THEN "failed" ELSE @[k]]]
  /\ Report(s, "flushFailed",
            DataBearingIsAuthoritative(Policy, SawData(s)),
            withheld[s] \cup OfferedAs(s, "failed"))
  /\ UNCHANGED <<content, legacy, wip, done>>

\* A buffering writer loses its batch (some of it may have landed): the writes
\* are re-counted as failed, and every key it resolved is withheld.
FlushFails(s) ==
  /\ Buffering
  /\ pc[s] = "items" /\ Pending(s) = {}
  /\ \E landed \in SUBSET OfferedAs(s, "written") : store' = Land(cur[s], landed)
  /\ tally' = [tally EXCEPT ![s][cur[s]] =
                 [k \in Key |-> IF @[k] = "written" THEN "failed" ELSE @[k]]]
  /\ Report(s, "flushFailed",
            DataBearingIsAuthoritative(Policy, SawData(s)),
            withheld[s] \cup OfferedAs(s, "failed")
                        \cup OfferedAs(s, "written") \cup OfferedAs(s, "skipped"))
  /\ UNCHANGED <<content, legacy, wip, done>>

\* Phase 2: the completion marker, only when everything landed.
RecordDone(s) ==
  /\ pc[s] = "seal"
  /\ done' = [done EXCEPT ![cur[s]] = Flag(SawData(s))]
  /\ Report(s, IF SawData(s) THEN "imported" ELSE "noData",
            DataBearingIsAuthoritative(Policy, SawData(s)), withheld[s])
  /\ UNCHANGED <<content, legacy, store, wip, tally>>

CompleteMarkerFails(s) ==
  /\ pc[s] = "seal"
  /\ Report(s, "sealFailed",
            DataBearingIsAuthoritative(Policy, SawData(s)), withheld[s])
  /\ UNCHANGED <<durable, tally>>

-------------------------------------------------------------------------------
(* The environment: the session dies, or the user edits the successor.        *)

Crash(s) ==
  /\ pc[s] # "idle"
  /\ pc' = [pc EXCEPT ![s] = "idle"]
  /\ cur' = [cur EXCEPT ![s] = 0]
  /\ prior' = [prior EXCEPT ![s] = FALSE]
  /\ items' = [items EXCEPT ![s] = {}]
  /\ tally' = [tally EXCEPT ![s] = Untallied]
  /\ withheld' = [withheld EXCEPT ![s] = {}]
  /\ row' = [row EXCEPT ![s] = [g \in Gen |-> "none"]]
  /\ UNCHANGED durable

UserWrite(k) ==
  /\ UserActive
  /\ store' = [store EXCEPT ![k] = Own]
  /\ UNCHANGED <<content, legacy, wip, done, volatile>>

UserDelete(k) ==
  /\ UserActive
  /\ Present(k)
  /\ store' = [store EXCEPT ![k] = Deleted]
  /\ UNCHANGED <<content, legacy, wip, done, volatile>>

Item(s) == \E k \in Key : WithholdItem(s, k) \/ WriteSecret(s, k)

\* A step of the walk that makes progress, and one that meets a fault.
Step(s) ==
  \/ ReadMigrationMarker(s) \/ ProbeExecutable(s) \/ FetchSecrets(s)
  \/ RecordInProgress(s) \/ Item(s) \/ Flush(s) \/ RecordDone(s)

Fault(s) ==
  \/ MarkerUnreadable(s) \/ NoAnswer(s) \/ BeginMarkerFails(s)
  \/ (\E k \in Key : WriteFails(s, k)) \/ FlushFails(s) \/ CompleteMarkerFails(s)

Next ==
  \/ \E s \in Session : StartRun(s) \/ Step(s) \/ Fault(s) \/ Crash(s)
  \/ \E k \in Key : UserWrite(k) \/ UserDelete(k)

Spec == Init /\ [][Next]_vars

-------------------------------------------------------------------------------
(* The report, as the application reads it.                                   *)

IsComplete(s) ==
  \A g \in Gen : row[s][g] \notin
    {"unresponsive", "incomplete", "flushFailed", "sealFailed", "writerUnavailable"}

\* Mutant: only the tally is consulted, not the stage a failure happened at.
RetryMayHelp_TallyOnly(s) ==
  \E g \in Gen, k \in Key : tally[s][g][k] = "failed"

\* Mutant: a permanent rejection counts as worth another try.
RetryMayHelp_Rejections(s) ==
  \E g \in Gen :
    \/ row[s][g] \in {"unresponsive", "writerUnavailable", "flushFailed", "sealFailed"}
    \/ row[s][g] = "incomplete"

RetryMayHelp(s) ==
  \E g \in Gen :
    \/ row[s][g] \in {"unresponsive", "writerUnavailable", "flushFailed", "sealFailed"}
    \/ /\ row[s][g] = "incomplete"
       /\ \E k \in Key : tally[s][g][k] \in {"failed", "withheld"}

\* The report of a run that ended, rather than of none or of one under way.
Reported(s) == pc[s] = "idle" /\ \A g \in Gen : row[s][g] # "none"

-------------------------------------------------------------------------------
(* Properties.                                                                *)

TypeOK ==
  /\ content \in [Gen -> SUBSET Key]
  /\ legacy \subseteq Gen
  /\ store \in [Key -> Value]
  /\ wip \in [Gen -> MarkerValue]
  /\ done \in [Gen -> MarkerValue]
  /\ pc \in [Session -> {"idle", "marker", "probe", "fetch", "begin", "items", "seal"}]
  /\ cur \in [Session -> 0..N]
  /\ \A s \in Session : (cur[s] = 0) <=> (pc[s] = "idle")
  /\ prior \in [Session -> BOOLEAN]
  /\ items \in [Session -> SUBSET Key]
  /\ tally \in [Session -> [Gen -> [Key -> Outcome]]]
  /\ withheld \in [Session -> SUBSET Key]
  /\ row \in [Session -> [Gen -> Row]]

\* A completion marker that says "data" is only ever recorded over a complete
\* copy: every key of that predecessor is, or was, in the successor.  Crashes,
\* lost buffers, failed writes, faulty exports and other sessions do not break
\* it (the two-phase marker, the flush boundary and the sticky data flag).
SealCoversData ==
  \A g \in Gen : done[g] = "data" => content[g] \subseteq EverHeld

\* A predecessor the markers call empty is never one whose items are in the
\* successor: an import that began outranks an empty seal, whoever wrote it.
EmptySealHidesNoImport ==
  \A g \in Gen : Marker(g) = "doneEmpty" => \A k \in Key : store[k] # g

\* Delete-by-absence (NewestSnapshotWins): a value copied from a generation is in
\* the successor only if every newer generation is empty.
NewestSnapshotOnly ==
  \A k \in Key, h \in Gen : store[k] \in Gen /\ h > store[k] => content[h] = {}

\* Within one run an older generation never fills the hole a newer one left: a
\* key whose write failed there, or went down with its failed flush.
UnresolvedAt(s, h, k) ==
  \/ tally[s][h][k] \in {"failed", "withheld"}
  \/ tally[s][h][k] = "skipped" /\ row[s][h] = "flushFailed"

NoShadowInRun ==
  \A s \in Session, g, h \in Gen, k \in Key :
    h > g /\ tally[s][g][k] = "written" => ~UnresolvedAt(s, h, k)

\* Does a report answer for generation g?  Not for one an older API sealed, nor
\* (under a snapshot policy) for one behind a newer generation with data.
Answerable(g) ==
  /\ ~Bridged(g)
  /\ SnapshotPolicy(Policy) => \A h \in Gen : h > g => content[h] = {}

\* A report that reads complete is true: "it is safe to proceed as a clean
\* migration" because everything the policy asks for reached the successor.
CompleteMeansLanded ==
  \A s \in Session, g \in Gen :
    Reported(s) /\ IsComplete(s) /\ Answerable(g) => content[g] \subseteq EverHeld

\* A retry loop driven by retry_may_help never stops with an item missing that
\* the successor would still accept.
StopsOnlyOnRejections ==
  \A s \in Session, g \in Gen, k \in Key :
    Reported(s) /\ ~RetryMayHelp(s) /\ Answerable(g) /\ k \in content[g] =>
      k \in EverHeld \/ <<g, k>> \in Rejects

\* A step that copies generation g's value of k into the successor.
Copies(g, k) == store[k] # g /\ store'[k] = g

\* A generation known to hold data is never passed over (the narrow protection
\* ContinuePastUnresponsive keeps): nothing older is copied from then on.
KnownDataNeverPassed ==
  [][\A g, h \in Gen, k \in Key :
       Copies(g, k) /\ h > g => wip[h] # "data" /\ done[h] # "data"]_vars

\* A sealed predecessor is never imported again, so a key the user deleted
\* after its migration completed stays deleted.  (One session: a session that
\* overlaps the sealing one may still be writing.)
SealedNeverRecopied ==
  [][\A g \in Gen, k \in Key :
       Copies(g, k) => done[g] # "data" /\ ~IsDone(Marker(g))]_vars

\* What the comment on MigrationMarker says of several sessions too: "a completed
\* Done is never re-imported".  A predecessor whose completion marker says "data"
\* is never asked again, because it reads as done from then on.
DataSealStands ==
  [][\A g \in Gen : done[g] = "data" => IsDone(Marker(g))']_vars
-------------------------------------------------------------------------------
(* The inductive invariant, in parts.                                         *)

AfterFetch == {"begin", "items", "seal"}
BeforeItems == {"marker", "probe", "fetch", "begin"}

\* What a session took from the export is all of it or nothing, and nothing is
\* only believed of a predecessor no earlier attempt saw data in.
ExportBelieved ==
  \A s \in Session : pc[s] \in AfterFetch =>
    /\ items[s] = content[cur[s]] \/ items[s] = {}
    /\ prior[s] => items[s] # {}

\* An outcome that claims the successor has the key is true by then: at once,
\* or for a buffering writer once its flush returned.
TallyHonest ==
  \A s \in Session, g \in Gen, k \in Key :
    \/ tally[s][g][k] = "skipped"
    \/ tally[s][g][k] = "written" /\ ~Buffering
    => k \in EverHeld

ReadyToSeal ==
  \A s \in Session : pc[s] = "seal" => items[s] \subseteq EverHeld

\* Every copy is behind an in-progress marker that saw data.
IntentRecorded ==
  /\ \A g \in Gen, k \in Key : store[k] = g => wip[g] = "data"
  /\ \A s \in Session, g \in Gen, k \in Key : tally[s][g][k] = "written" => wip[g] = "data"
  /\ \A s \in Session : pc[s] \in {"items", "seal"} /\ SawData(s) => wip[cur[s]] = "data"

SealInv ==
  TypeOK /\ ExportBelieved /\ TallyHonest /\ ReadyToSeal /\ IntentRecorded /\ SealCoversData

\* The run has said nothing yet of the predecessors it still has to walk.
NothingAhead ==
  \A s \in Session, g \in Gen : pc[s] # "idle" =>
    /\ g <= cur[s] => row[s][g] = "none"
    /\ g < cur[s] \/ (g = cur[s] /\ pc[s] \in BeforeItems) =>
         \A k \in Key : tally[s][g][k] = "none"

\* Whatever a newer generation left unresolved is withheld from here on.
UnresolvedWithheld ==
  \A s \in Session, h \in Gen, k \in Key : pc[s] # "idle" =>
    /\ h > cur[s] /\ UnresolvedAt(s, h, k) => k \in withheld[s]
    /\ h = cur[s] /\ tally[s][h][k] = "withheld" => k \in withheld[s]

CleanAtSeal == \A s \in Session : pc[s] = "seal" => IsClean(s)

RunInv == TypeOK /\ NothingAhead /\ UnresolvedWithheld /\ CleanAtSeal /\ NoShadowInRun
===============================================================================
