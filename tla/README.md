# Verification of freenet-migrate

freenet-migrate carries an application's data from old generations of a Freenet
delegate or contract to the current one. A generation is replaced by publishing
new code, new code has a new key, and whatever was stored under the old key stays
there unless somebody fetches it. The crates here decide whom to ask, in which
order, what to believe, what to copy, and when a migration is finished. Being
wrong loses data, or brings deleted data back; both are permanent and silent.

This directory holds TLA+ models of those decisions, the TLC runs that check them
on small instances, and TLAPS proofs for every instance of the most important
results. `PROJECT.json` maps every definition to the lines it models.

## The system

| Component | Source | State | Operations | Interacts with |
|---|---|---|---|---|
| Delegate walk | `freenet-migrate/src/delegate_migrate.rs` | per call: position, data flag, withheld keys, tally, report | `migrate_delegate_secrets`, its awaits | predecessor delegates (export round trip), the successor's writer and markers |
| Markers and the legacy bridge | `delegate.rs`, `SecretStoreIo` | `pred-wip`, `pred-done`, `done:<gen>` secrets in the successor | `migration_marker`, `record_marker` | the walk, the store-to-store import, a later run |
| Journal | `journal.rs`, `delegate_migrate.rs` | one blob per successor: per predecessor pending / resolved, items seen, absent streak | begin, note, record, merge | the walk (observer), other sessions, the app |
| Store-to-store import | `delegate.rs` | the same markers | `import_secrets_once`, `import_predecessor_secrets_once`, export | the same store as the walk |
| Contract probe | `driver.rs` | candidates left, the one outstanding, unresolved, fold, outcome | `next_action`, `on_response`, `on_absent`, `on_unknown`, `take_outcome` | the app's transport and timers |
| Pointer contract | `contracts/pointer-contract/src/lib.rs` | one signed record per replica | validate, update, summarize, delta | replicas, publishers |
| Pointer resolver | `pointer.rs` | the consumer's floor, one request | `on_response`, `on_absent`, `on_unreachable`, `take_outcome` | the pointer contract, the app's stored floor |
| Successor pointers | `successor.rs` | none | sign, verify, supersedes | the app |
| Predecessor ids, carry-forward | `contract.rs` | none | derive the predecessors' ids, fold one in | the probe |
| Registry, guard, codegen | `freenet-migrate-build/src` | none (build time) | validate, check the guard, generate | the lineage every other part reads |

What is hard here: several sessions (tabs) migrate the same successor at once; a
session can die at any await; the writer may buffer and lose a batch; a frozen
predecessor may answer nothing although it holds data, or not at all; a response
may arrive after its timer; a store may have been written by an older API; and the
user goes on writing and deleting in the successor meanwhile.

What makes each part correct:

- *walk*: a seal covers the copy it vouches for; an older value never shadows a
  newer one; a deleted key does not come back; a report that reads complete is
  true; retrying makes progress and stops;
- *probe*: silence is never absence; no rollback past a generation that was not
  ruled out; nothing the outcome leaves unsaid;
- *journal*: a load that answers complete is right, and one that answers "nothing
  interrupted" leaves no partial copy; merging loses neither an import that started nor
  a resolution, whatever the order of sessions; *import*: at most one completed copy per
  predecessor;
- *pointer contract*: replicas converge on the highest record; *resolver*: the
  floor never falls, a withdrawn record never resolves, the baked-in fallback is
  never used after a resolution;
- *registry*: one entry per key, the guard refuses a key change without an entry.

## Modules

### DelegateMarkers — the markers and what they mean

Pure operators: the three values a marker secret can have, the answer
`migration_marker` gives for every combination (`ReadMarker`), the sticky data flag
of an in-progress marker (`StickyInProgress`), the reading of an older API's
`done:<gen>` markers (`LegacyMigrated`), and the two questions a policy answers: does
data end the walk (`DataBearingIsAuthoritative`), does silence
(`UnresponsiveTerminates`).

### DelegateWalk — `migrate_delegate_secrets`

A session is one process that runs the walk; any number run it over one successor.
State that survives a crash: `content` (what each frozen predecessor holds),
`store` (the successor's secrets), `wip` and `done` (its markers), `legacy` (markers
of the older API). State of a session: `pc` (the await it is at), `cur` (the
predecessor it walks), `prior` (`prior_saw_data`), `items` (the export), `tally`,
`withheld` (`withheld_keys`), `row` (the report).

Every await of the loop body is one action, so anything may happen between two:

| Action | Code in `AppSideRoundTrip::walk` |
|---|---|
| `StartRun` | the call, the descending sort by generation |
| `ReadMigrationMarker`, `MarkerUnreadable` | the marker query; `AlreadyMigrated`, or the prior data flag |
| `ProbeExecutable`, `FetchSecrets`, `NoAnswer` | the probe verdict and the export; silence; an export of nothing after data |
| `RecordInProgress`, `BeginMarkerFails` | phase 1: the in-progress marker before any item |
| `WithholdItem`, `WriteSecret`, `WriteFails` | one exported item: withheld, declined, rejected, written, failed |
| `Flush`, `FlushFails` | the durability boundary, the recount, the incomplete row |
| `RecordDone`, `CompleteMarkerFails` | phase 2: the completion marker, the row, termination |
| `Crash`, `UserWrite`, `UserDelete` | the environment |

`Report` is the end of one iteration: it pushes the row, sets `terminated`, and (as
the loop's first lines do) marks every older predecessor superseded.

A value is named by the generation it came from, `Own` when it is the user's; a
deleted key reads as absent to the code and is remembered as `Deleted` by the
model, which is how "never resurrected" can be said. The five reserved-namespace
filters, the wording of errors and the three shapes of "no answer" (which end
alike in a plain walk) are abstracted. Duplicate keys in one export are not
modelled: the second copy is declined as already authoritative.

### SecretCopy and DelegateWalkRefinement

`SecretCopy` is the promise without the mechanism: secrets arrive from unsealed
predecessors, a predecessor is sealed after its last secret. Sessions, stages,
failures and the data flag disappear. `DelegateWalkRefinement` instantiates it with
`held <- EverHeld` and `sealed <- {g : done[g] # "absent"}`.

### MCDelegateWalk, MCDelegateWalkLive

Constants for TLC; the second adds the application that retries and
faults that stop at last.

### SecretImport — `delegate.rs`

The migration primitives without an application's walk: every generation's delegate
answers export requests, and imports what it is brought. `store[d]` is the whole
secret store of generation `d`, the crate's own keys (`WipMarker`, `DoneMarker`,
`JournalKey`) among the application's, because a successor is exported one day and
its markers then stand in the listing. `exports` are messages: delivered to any later
generation, at any time, repeatedly or never. `run` is the import being executed,
one host call at a time. `took` is a history variable, the keys an import brought
over or found in place; `readable` in an export is another, the keys of the scope that were
there and did not fail to be read.

| Action | Code |
|---|---|
| `HandleExportRequest` | `export_scoped`: list, refuse a listing as long as the cap, pass over the reserved keys, read each of the others; any of these reads may fail, and the key is then dropped |
| `BeginImport` | the checks of `import_secrets_once` or `import_predecessor_secrets_once`, and the in-progress marker of `write_secrets_two_phase` |
| `WriteSecret`, `WriteFails` | one key of its loop, skipped when present |
| `SealImport`, `EndIncomplete` | the completion marker, or none after a failed write |
| `Die` | a trap or a restart between two host calls, or a completion marker that cannot be written |
| `Edit`, `NoteAppImport` | the user; `note_app_import_started` |

`import_secrets_once` keys its markers by generation, the other by the predecessor's
key; a store uses one of them (`api`), and in a model where predecessors are
generations one pair of markers serves both. The host lists at most `Cap` names,
of its choice, and does not say that there are more. `Scope` is the whole store or the
keys of a prefix. What the successor reads of its own markers is taken to be read right.
`OriginPolicy::authorize` is left out: a request it refuses changes
nothing.

### Journal — `journal.rs`

Pure operators over one journal entry: the states (`Fresh`, `Unresolved`, the four
resolutions), `Effective` (how a state reads under the policy family and the import
revision the app runs now), `MergeStates`, and the four ways an entry changes
(`MarkImportStarted`, `NoteItemsSeen`, `Record`, and `Effective` itself when a
journal is rebound). Entries are records in one shape; `IsNormal` says that a field
its kind does not carry is as in `Fresh`, so that equal states are equal records.
`attempts` and `absent_streak` decide nothing and are left out.

### JournaledWalk — `begin_migration_journal`, `migrate_delegate_secrets_journaled`, `note_app_import_started`

Extends `DelegateWalk` with the journal that observes it. `stored` is the one value
in the successor (or none, or bytes that do not decode). Of a session: `journal`
(its working copy), `stage` (the await outside the plain walk it is at), `aim` (what
the load or store under way is for), `already` (why a row reads `AlreadyMigrated`:
`done_with_data`, `bridged`, `journal_resolved`), `checked` and `unverified`
(`MarkerChecks`), `revision`, `sweep` (the generation the app copies itself) and
`status` (the answer).

| Action | Code |
|---|---|
| `BeginMigrationJournal`, `MigrateJournaled`, `LoadJournal`, `SeedJournal` | `start_journal`: load, check each resolution without data against its marker, or read a fresh one off all markers |
| `MergeStored`, `StoreJournal` | `store_merged`, its re-read and its write; what the store was for goes on in the same step (`Established`, `Flagged`, `Return`, `Announced`) |
| `JournalShortCut`, `BelieveSeal`, `AskAgain` | the head of the loop body, journaled: the journal's own resolution, a seal, an empty seal contradicted by the journal, the early flag |
| `JFetchSecrets` | the export, held to what the journal counted, and the flag before the first item |
| `JRecordInProgress`, `ReadBack` | the in-progress marker, read back over an empty seal |
| `PlainAwait` | every other await, as in `DelegateWalk` |
| `ResolveOutcomes` | `resolve_outcomes`, `record`, the check of the markers nobody read |
| `NoteLoad`, `NoteRefused`, `NoteStarted`, `NoteMarker`, `NoteReadBack` | `note_app_import_started` |
| `AppWrite`, `AppDone` | the copy it allows, by the app |
| `JournalUnavailable`, `JMarkerUnreadable`, `Die`, `Corrupt`, `RaiseRevision`, `User` | failures and the environment |

The store is read-merge-write without compare-and-swap, so another session's store
may fall between `MergeStored` and `StoreJournal` and be erased; nearly everything
the start and the end of a journaled walk check exists for that window. The marker
reads of one start, or of one final check, are one step.

The app's own copy (`AppWrite`) is the caller's code: it writes what it read over
nothing the successor holds, any part of it, and may stop anywhere. That is the
least its documentation asks of it.

Two things no code can know bound what is claimed. The first answer of a predecessor
is believed: when nothing has counted its items, a short export cannot be told from a
whole one, so `JExport` is short only where the predecessor is known to hold data
(`ShortRetry`), and only in the run whose app counts its items. And an answer given
while another session is at work may be stale as soon as it is given.

### MCJournaledWalk

Constants for TLC.

### ProbeDriver — `driver.rs`

One module for the driver, the application that pumps it and the network. Driver
state: `candidates` (newest first), `hops` (how many were asked, so what remains is
the tail), `waiting` (the last asked one is outstanding), `unresolved`, `fold` and
`source`, `local` (the snapshot, consumed once), `outcome`. Environment: `net`
(GETs under way), `device` and `forward` (the application's state and what it has
PUT under the current key). `denied` is a history variable, the ids answered
`NotFound` in the current probe; the code has no such field, and properties need it
because a wrong `NotFound` is the one thing the driver documents it cannot catch.

| Action | Code |
|---|---|
| `New` | `ProbeDriver::new`, with `NoLegacy` for an empty lineage |
| `NextAction` | `next_action`: asked again, `finish_exhausted`, or the next candidate |
| `Answer` | `on_response` or `on_absent` for any GET under way, including late ones |
| `Silence` | `on_unknown`: a timer, a failed send |
| `TakeOutcome` | `take_outcome` and the adoption the outcome's comments ask for |

An event is ignored unless it is for the outstanding id (`Listening`). GETs outlive
the probe that sent them, and may be answered more than once. A contract state is
the set of generations it carries; merges are unions, which is what the
fold's precondition (commutative, idempotent) allows. `Init` admits any list that is
sorted by generation (`NewestFirst`), whatever the slice order of the lineage, and
lists in which an id comes round twice. Policy, silence rule, hop cap and whether a
peer may wrongly say `NotFound` are state that never changes (`setup`, from `Setups`),
so that one run covers every combination in `Setups`. TLC pairs a hop cap below the number of
candidates with `FoldAll` only; the theorems hold for any setups.

### PointerRecords, PointerNetwork, PointerContract — `contracts/pointer-contract/src/lib.rs`

`PointerRecords` has the records an author signs for one pointer and their order:
higher version, then lower code hash, then lower signature. The contract compares
encoded bytes; two records of one version differ in hash or signature only, so that
is the same order. A hash and a signature are numbers; hash 0 is the all-zero
tombstone, which is why a withdrawal wins over any release of its own version.
A state, a delta or a summary is a signed record, nothing, or `Garbage` (it does not
decode, or does not verify for this author and app).

`PointerNetwork` is the promise: a peer only replaces a record by one that supersedes
it, unless it loses its copy, and a peer behind another catches up. `PointerContract`
is what implements it: the contract's four entry points on every peer, called by a
node's anti-entropy.

| Action | Code |
|---|---|
| `Put` | `validate_state` of a first PUT |
| `Update` | `update_state` with a batch of at most two updates, damaged or empty ones included |
| `Heartbeat` | `summarize_state`, sent to a peer |
| `OnSummary` | `get_state_delta` for a summary that differs from one's own |
| `OnDelta` | `update_state` with the delta, which may be late, repeated or superseded |
| `Drop`, `Lose` | the link loses a message; a peer evicts or damages its store |

The node is external: `Drop`, `Lose`, `Consume` and the trigger of each entry point
come from what the contract's comments say of it (summaries that are equal byte for
byte end the exchange). A link carries one message at a time; a later one takes its
place, which is a loss, and a message may be handled twice. Batches of two are
enough for the fold over updates, in which each candidate is merged into the best so
far and one that does not verify refuses the call.

### PointerResolver — `freenet-migrate/src/pointer.rs`

The sans-IO resolver, the application that pumps it, and peers that behave as
`PointerNetwork` does (the module extends it, so the consumer is checked over the
promise and not over one implementation of it). Resolver state: `phase`, `armed`
(`outstanding`), `outcome`. Application state: `floor` (persisted), `pending` (the
floor still to persist), `key` (what it runs on). Between them, `asked` and `reply`:
a GET and the answer on its way, which outlive the resolution that sent it.

| Action | Code |
|---|---|
| `New`, `NextAction` | `PointerResolver::new`, `next_action` (arms the gate; asked again it issues the same GET) |
| `Serve`, `Arrive` | a peer answers with what it holds; `on_response` / `on_absent`, ignored unless the gate is armed |
| `OnUnreachable` | `on_unreachable` |
| `TakeOutcome`, `Persist` | `take_outcome`, and the adoption and `next_floor` its documentation asks for |
| `Restart` | the process dies anywhere and comes back with the floor it persisted |

What the application does with an outcome (`TakeOutcome`, `Persist`, `RunsOn`) is
taken from the documentation of `PointerOutcome` and `next_floor`: it is the caller's
code. One answer is in flight at a time; a newer one replaces it.

### LineageRelease — `freenet-migrate-build`, `lineage.rs`, `contract.rs`

How the lineage that every other module starts from comes to be. `file` is the registry
as written; `mains` the builds that were merged; `released` the keys that went live;
`lineage` what the live release carries.

| Action | Code |
|---|---|
| `Merge` | a change of the registry, the component, or both passes CI: `Registry::from_entry_toml_str` or the unified schema, `validate`, `check_migration_guard` against the build it replaces |
| `Release` | `generate_string`, `render`, `emit` in the build script; the build goes live |

The author appends at most one row per change, and gets it wrong in every way the
checks are there for: no row, a row for another build, the same build in the other
encoding, a key of another build or with other parameters, a version in another style.
What the checks cannot know is assumed and said in `NewRow`: rows are appended, the row
of a build records the parameters it ran with and a generation above the ones before,
and no new row claims an irregular key. `Init` is a fresh component, or a delegate with
a grandfathered row. What a release asks (`Target`) is `predecessor_ids` for a contract,
derived from its own parameters, and the stored keys for a delegate.

## Runs

| Run | Question and bounds | States |
|---|---|---|
| `walk_snapshot` | NewestSnapshotWins, 3 generations, 2 keys, one session, user edits, markers of an older API: is only the newest snapshot ever taken, is a sealed generation ever copied again, is a complete report true? Three generations are the least at which a walk can pass one, take one and leave one. | 137k |
| `walk_live` | UnionAllGenerations, 3 generations, 2 keys, one session, a buffering writer, one item refused for good: does an older value fill a newer one's hole, is SecretCopy implemented, is every generation that can be sealed, do retries settle, and never too early? Three generations are the least at which a hole can be passed over by one and filled by another. | 320k |
| `walk_stale_seal` | expected violation, see below | |

Fairness (`LiveSpec`): weak fairness of each session's next progress step, that is,
an application that calls the migration again when it is idle, and an await that
returns. `retry_may_help` exists to drive such a loop, and its comment asks the
application to bound its retries because a fault may be permanent; a fault that
never stops refutes every liveness property, hence `<>[][~Trouble]`: faults, silences and
crashes happen any number of times and then no more. Nothing is assumed
fair of faults, crashes or the user.

ContinuePastUnresponsive, the third policy, is checked in `journal_load`, whose walk is
this one under a journal; two sessions over one pair of markers, with buffering
writers and faulty exports, in `journal_sessions`.

| Run | Question and bounds | States |
|---|---|---|
| `import` | three generations, two secrets in the oldest, a journal in the second, a cap of four names, either import function, one edit or own import of the app, one fault: does a seal that says data cover all that could be read, is a deleted key ever brought back, an older generation ever taken after a newer one, is the data flag true, is an interrupted import finished? | 168k |
| `import_past_cap` | expected violation, see below | |

Three generations are the least in which a successor is a predecessor and an older export
can arrive after a newer one. Four names put a store with two secrets and one import's
markers at the cap, so both sides of it occur. `FairSpec`: a delegate runs to the end of its
call unless it dies, the application goes on asking every predecessor and delivering what
it gets, and a message does not travel for ever. Strong fairness of asking and of
delivery, because a delegate in the middle of an import answers nobody. Faults and edits
are bounded, and nothing is assumed fair of them. The user's edits and the imports that an
application notes as its own share a bound, to keep the run short; the theorems hold for any
number of both.

A secret that the predecessor's host fails to read is dropped from the export, beside any
others that are read (`get_secret` answers `None` either way). Both import functions then
seal what arrived, and the lost key is never asked again: the cap is checked for truncation, single
reads are not. An export that lost everything is refused only when an attempt before it saw data;
as a first answer it is sealed as empty, and by `import_secrets_once` in any case.
`SealCoversReadable` therefore speaks of the keys that could be read when the export was made.

| Run | Question and bounds | States |
|---|---|---|
| `journal_load` | One session under ContinuePastUnresponsive, the policy with most branches: is what a load answers true (`CompleteIsTrue`, `RejectionsTold`, `InterruptedIsTold`), does a seal cover its data although retries come back short, is a resolved predecessor ever copied again, is newer data ever passed over by the walk or by the app? Two generations (one can supersede the other), two keys (an import can be partial), one refused item, two builds, the app's own import of either generation, an older API's seal. | 1.7M |
| `journal_sessions` | Two sessions, one predecessor, two keys, buffering writers, corrupt journals, faulty exports: does what is stored still show a partial copy, is what it calls imported there, does a seal cover its data although a flush may lose some, does an empty seal ever hide an import? The entries of a journal do not influence each other in a merge, so one predecessor is enough for the lost-update window, and two sessions for every read-then-write race on one pair of markers. | 3.6M |

`InterruptedIsTold` and `ResolvedNotReoffered` are single-session properties: a status
is computed from what its session read, and another session may start an import
right after. The promise over several sessions is `PartialCopyShows`, about what is
stored and marked, hence about what the next load will find. `DealtWith` and `SettledAlone` name the documented ways a predecessor's data may stay
behind: an empty answer, an older API's seal, a newer snapshot, a refused item. Only
a count can catch a short retry, and a corrupt journal loses it, so `journal_sessions`
has no short retries.

| Run | Question and bounds | States |
|---|---|---|
| `probe` | newest-first-wins, halting at silence or walking past it, and fold-all, with a hop cap and without, wrong `NotFound`s, late and repeated events, repeated probes: is an older generation ever adopted over an open one, is every gap reported, is anything put forward unprepared, does every probe end, does what can be recovered reach the device? Three candidates in every slice order (one adopted, one before it, one after it), and a list in which an id comes round twice. | 191k |

`FairSpec`: the application pumps the driver, takes the outcome and probes again, the
outstanding GET is answered or its timer fires, and where silences are bounded a GET is
answered before its timer from some point on. The driver's own advice is to retry a probe that met silence,
and no property of recovery can hold if silence never ends.

| Run | Question and bounds | States |
|---|---|---|
| `pointer_contract` | two peers, a release, a release signed twice with different signatures, a withdrawal of the same version: does the contract implement `PointerNetwork`, does exactly one of two diverged peers owe the other, do they converge? | 3k |
| `pointer_resolver` | two peers, a release, two competing releases of the next version, a withdrawal, a release after it: does the floor ever fall, does the key agree with the floor across crashes, does the consumer get to the network's release? | 53k |

Two peers are enough for the contract: every exchange is between two, and the proof
below has no bound. Four or five records give every relation that the order tells
apart (older, same version with another hash, with another signature, a tombstone)
and a release after a withdrawal.

`PointerContract!FairSpec` asks strong fairness of heartbeats and of the handling of
each kind of message: a link may lose messages, but not every one. From it TLC derives
the weak fairness of `PointerNetwork!Sync` (part of `ImplementsNetwork`).
`FairConsumerSpec` keeps that weak fairness and adds the application's own loop and,
infinitely often, a GET that is answered before its timer. `Converges` and `CatchesUp`
are conditional: they say what holds once peers stop losing records (and, for the
consumer, once no crash comes between a resolution and its floor). Without that, an
eviction or a crash for ever undoes every step.

| Run | Question and bounds | States |
|---|---|---|
| `release` | three builds, two parameter sets, a stray build, three rows, four builds merged, both components, both schemata: is every key that was live still asked, the one retired last first, each once, and does every entry keep its number? | 402k |
| `release_revert` | expected violation, see below | |

Three builds and four merges give A, B, C, a revert to A and a change away from it.
`AllowMissing` is off: with it a release may ship an empty lineage, which is what the option is
for, in builds that are not released.
`EveryReleaseReachable` assumes `OneKeyPerCode`: a delegate whose parameters change
alone gets a new key that no check of a code hash can see.

## Proofs

`DelegateWalk_proofs` (for any number of generations, keys and sessions, every
policy, both writers, any pattern of faults, crashes and faulty exports):

- `TypeCorrect`: the type invariant.
- `SealCoversDataHolds`: a completion marker that says "data" covers the
  predecessor's whole content. Not inductive alone, because the marker is written
  awaits after the items. `SealInv` adds what carries the fact there: an export is
  all or nothing and nothing is only believed without history (`ExportBelieved`);
  an outcome that claims a key is in the successor is true, for a buffering writer
  from its flush on (`TallyHonest`); at the seal the whole export is held
  (`ReadyToSeal`); every copy is behind an in-progress marker that saw data
  (`IntentRecorded`).
- `EmptySealHidesNoImportHolds`: follows from `IntentRecorded`, which is why an
  empty seal beside such a marker has to be read as in progress.
- `NoShadowInRunHolds`: from `RunInv`: nothing is tallied for predecessors ahead of
  the walk, and what a newer one left unresolved is withheld from then on.

`DelegateWalkRefinement_proofs`: `WalkImplementsSecretCopy`, under truthful exports:
initial states map to initial states and every step maps to `Import`, `Seal`,
`OwnWrite` or a stutter. It needs one more invariant: a session that still holds
items of a sealed predecessor finds all of them held already.

In both modules everything about one session on its own rests on who may change
what: a step moves the walk of one session only, and a marker only at the two awaits that
write it.

`DelegateWalk_proofs`, for one session (another one may seal, or still copy, what this
one is at):

- `SealedNeverRecopiedHolds` and, under the snapshot policies,
  `KnownDataNeverPassedHolds`, from `AloneInv`: between reading a marker and writing the next
  one the predecessor does not read as done (`AtUnsealed`); a session without knowledge of
  data is at one whose in-progress marker knows of none (`KnowsWhatMarkersTell`); and no
  predecessor already passed is known to hold data (`NoDataBehind`).

`DelegateWalkRefinement_proofs`, under truthful exports and for any number of sessions:

- `CompleteMeansLandedHolds` and `StopsOnlyOnRejectionsHolds`, from `ReportInv`. A report is
  read awaits after its rows were pushed, so each row carries what it stands for
  (`RowTrue`: imported means all held, incomplete means each key is held, refused, or tallied
  as failed or withheld), and a superseded row points at the row the run ended at.
- `NewestSnapshotOnlyHolds` under NewestSnapshotWins, from `OnlyEmptyBehind`: whatever the walk
  has passed is empty.

Left to TLC: the liveness properties.

`Journal_proofs` (for every pair of states, so for every count and revision): the laws
of `merge_states` that make the journal safe to store in any order. A merge is
well-formed (`MergeIsState`); the data is in the successor after it exactly when one
side says so (`MergeKeepsData`); a started import stays flagged until then
(`MergeKeepsFlag`); the count a later export is held to only rises
(`MergeCountRises`); merging again changes nothing (`MergeAbsorbs`); and no
resolution that was reopened comes back (`MergeStaysBound`). The merge is not
commutative: between two resolutions of equal rank the older stands. None of these
laws needs it to be. They rest on no assumption; each is a case analysis over the
kinds.

Over `JSpec`, with no assumption (any number of sessions, damage, short retries):
`JTypeCorrect` and `JournaledNoShadow`. The inductive invariant is `WalkShape`: the types,
`StageOK` (where the walk can be at each await of the journal), and `RunInv` of the plain
walk, which the journaled walk keeps because each of its steps moves the walk in one of a
few ways (`Moves`).

The theorems that follow assume `RetriesTold`: retries export all or nothing (`ShortRetry = FALSE`,
as in `journal_sessions`), or one session's app counts its items and its journal is not damaged
(as in `journal_load`).

`RetriesAreWhole` says what that assumption is for: an export that is taken from a predecessor
known to hold data is all of it (`WholeRetries`). Where an export can be short, it rests on
`CountInvariant`. `CountInv` says that each predecessor that a marker or an entry tells of has
its full count in the stored journal and in the working copy, or is asked no more: it is sealed,
or a snapshot walk ends before it (`CountedFor`, `AskedNoMore`). The count is stored with the
flag before the marker tells (`StoredFirst`), so that no death can leave a marker without one;
a retry is flagged before it is asked (`AskedFlagged`), so that its count is what the export is
held to; and the rows of a walk say only what the markers say (`RowTells`), so that no
resolution drops a count. Merges, reopenings and rebuilds keep enough (`MergedEnough`,
`EffectiveEnough`). The assumption is what the argument uses: a journal
rebuilt from markers alone has no counts; an app that does not count leaves a flag without one
when it imports by itself; and with a second session what this one read of the markers and of
the journal need not hold any more when it exports.

On `RetriesTold`: `JournalInvariant`, and from it
`JournaledSealCoversData`, `JournalHonestHolds` and `PartialCopyShowsHolds`. `JournalInv` adds to
`WalkShape` and `SealInv` that the app copies only behind an in-progress marker
(`AppMarked`), that what a tally says of a buffered item stays true until it is flushed
(`TalliedInHand`), and that whatever says "the data is in" is right: the rows (`RowsTaken`),
the older API's seals (`LegacyTaken`), the stored journal and every working copy (`Honest`).
The working copies are needed because one of them is stored next, whatever was stored in
between.

On the same assumption: `CompleteIsTrueHolds` and `RejectionsToldHolds`, the two answers an app
acts on. `JournalInv` is too weak for them: it says what an entry means for the data, not why
an entry may say "no data" or "superseded". `AnswerInv` adds that every entry is `Warranted`
(a flag or a count: there is data; imported: all of it was held; refused items: counted, and
the rest held; no data: a completion marker exists; superseded: `Outdone`), that every row
vouches for what the journal will conclude from it (`RowVouches`), that outcomes are of items
that exist (`TalliedFromContent`), and that markers, sessions and the app believe in data
only where there is some (`KnownReal`). Each operator on entries keeps a warranted entry
warranted (`BoundWarranted`, `MergedWarranted`, `StartedWarranted`, `RecordedWarranted`,
`RebuiltWarranted`), and an answer is drawn from a warranted journal at a step that moves
nothing durable (`WhoAnswers`, `CompleteAnswer`).

On `RetriesTold`, too, `JournaledEmptySeal`. The two theorems about what a session copies,
`JournaledKnownDataNeverPassed` and `ResolvedNotReofferedHolds`, assume one session at a time
(`OneSession`) and nothing of retries: a second session may seal or resolve
between the marker read and the export, and the code does not claim otherwise. `JAloneInv` adds to
`WalkShape` that the session knows what the markers tell of the predecessors behind it
(`WalkAlone`), and that the app asks only for the nearest generation that a marker tells of
(`SweepNearest`). `JMemoryInv` adds that what was just read is still what is stored
(`LoadedAsStored`), that the working copy misses no resolution that the stored journal has for
this build (`CopyKnowsStored`: a store merges, and damage only takes resolutions away), and that
the predecessor asked, or copied by the app, is none of those (`AskedIsMissing`).

With one session and `RetriesTold`, `InterruptedIsToldHolds`: an answer with no interrupted import
leaves no partial copy behind. `TellingInv` adds to `AnswerInv` and `JMemoryInv` where the
warning sits at each point of the walk: no entry, stored or in hand, says that partly copied
data is in (`ShowsPartial`); once the journal is loaded, a partial copy is flagged in the
working copy, or its marker is among those still to be verified (`TellsPartial`), which the
walk has not read (`UnverifiedUnread`); a walk that is done with an unflagged partial copy left
its marker unread, so that the report cannot clear the doubt (`LeavesUnread`, `RowsFilled`);
and the flag is in the working copy before an item is held, and stored before it is written
(`FlaggedFirst`), which is what a death in the middle of an import relies on. The journal of an
app whose operation is "note", which is between its flag and its copy, is the one exception.
`KeepsTelling` and `ResolveTells` carry the warning through the rebuild and the resolution,
`ReportFills` through the walk's report, and `TellsInterrupted` from the journal to the answer.
The assumption on retries comes with `AnswerInv`; the run checks the property with short
retries too.

`ProbeDriver_proofs` (any candidate list, policy, hop cap, contents and events):
`ProbeInvariant` establishes the inductive `ProbeInv`, from which `TypeCorrect`,
`NothingLeftUnsaidHolds`, `ForwardIsPreparedHolds` and `NoRollbackHolds` follow. The
outcome is decided many events after a candidate was asked, so the invariant carries
the account forward: every position asked is answered, denied, unresolved or folded
(`AskedAreAnswered`), nothing newer than the first hit is open (`HitIsNewest`,
`OutcomeIsNewest`). Two lemmas do the work, one for steps that finish a probe
(`FinishProbeInv`) and one for those that do not (`ProbingProbeInv`). Progress
(`ProbeEnds`, `RealIsAdopted`) is checked by TLC only.

`PointerContract_proofs` (any set of signed records, any peers): `TypeCorrect`,
`OneOwesHolds`, and `ContractImplementsNetwork`, in which every step of the replicas
maps to a step of `PointerNetwork` or a stutter. The order is a strict total order on
records (`Beats` lemmas), `Merge` returns the greater, and `update_state` therefore
yields what was stored or the greatest of it and the candidates. The proof is of the
safety part, `Network!Spec`; that the fairness carries over is checked by TLC.

`PointerResolver_proofs` (any records, peers, late answers, crashes):
`ResolverInvariant` establishes `ResolverInv`, from which `TypeCorrect`,
`KeyStandsHolds` and `FloorNeverFallsHolds` follow. `KeyStands` is not inductive: an
outcome moves the key long before its floor is persisted, so the invariant says of an
outcome that it is not behind the floor it was given (`OutcomeStands`), and of a
pending floor that the application already runs on it (`PendingStands`). That no
resolver exists while a floor is pending, and that the answer of a superseded GET is
ordered against the current floor, are the two facts it rests on.

`LineageRelease_proofs` (any builds, parameters and bounds; from `CodeAssumption`,
`OddAssumption` and `BoundsAssumption`): `ReleaseInvariant` establishes the inductive
`Inv`. What a release asks was decided when each row was written, many changes before, so
`Inv` carries it forward. `FileInv`: the registry at hand is valid, its rows are all
numbered or none are, and each is about a build that was merged, a stray or the
grandfathered one. `MainsInv`: every build that was replaced has a row of its own hash,
which is what the guard made sure of, and a delegate's row holds the key that build had.
`ReleasedInv`: what went live is a merged build or the grandfathered key. `LineageInv`:
the live lineage is a rendering of the first rows of the registry, which appending does
not renumber. `OrderInv`: builds go live, and get their generations, in the order they
were merged, unless one comes back. From it follow `TypeCorrect`,
`OneEntryPerPredecessorHolds` and the action property `EntriesStandHolds`;
`EveryReleaseReachableHolds` and `NewestAskedFirstHolds` are proved beside it, at each
release from the registry and the builds at hand.

`SecretImport_proofs` (any number of generations, any keys, scope, cap and bounds; from
the assumptions named in `SecretImport`): `ImportInvariant` establishes the inductive
`ImportInv`. What a seal claims was decided earlier: the keys when the export was made,
the flag when the in-progress marker was written, and the absence of a newer seal when
the import began. `ImportInv` carries each forward. `ExportsCarryReadable`: a message
carries all of the scope but what failed to be read, since a listing as long as the cap is
refused. `ImportAtHand`: the import stands behind its marker, of a
predecessor without a data seal, and has lost no key it did not report as failed.
`MarkersTell`: what was taken is behind a marker that saw data. `NothingNewer`: no newer
generation is completed while an older one is imported into a store within the cap.
The last needs counting: the newest completed generation is read off an enumeration,
which is whole only while the store is short, and a store only grows during an import,
so one that is short now was short then (the cardinality lemmas in front).
From it follow `TypeCorrect`, `FlagTellsDataHolds`, and the action properties
`SealCoversReadableHolds`, `NoResurrectionHolds` and `NoRollbackHolds`. `Finishes` is a liveness
property and stays with TLC.

## Disagreement between code and documentation

`walk_stale_seal`: `SecretStoreIo::record_marker` keeps an in-progress marker's data
flag sticky against a concurrent session, and writes a completion marker
unconditionally. A session that read no marker before another one sealed the
predecessor, and that was answered with nothing (the fault the walk elsewhere
allows for), replaces `Done{had_data: true}` by `Done{had_data: false}`.
`empty_seal_contradicted` then reads the pair as in progress, so a later walk
imports the predecessor again, and keys the user deleted since come back, although
the comment on `MigrationMarker` says a completed `Done` is never re-imported. No
data is lost: the contradiction rule is what keeps `EmptySealHidesNoImport` true.

`import_past_cap`: `newest_completed_generation` finds the completion markers by
enumerating them, and its comment says that the enumeration cap is of no concern for
so few. The host caps the names of the whole store before it filters by prefix, so in a store past the
cap a marker may be missing, and an older export is imported after a newer generation
was completed. With fewer names than the cap `NoRollback` holds.

`release_revert`: after A was replaced by B and B by A again, the guard lets C replace A
because A has a row, the one from before B. Uniqueness refuses a second row and the
documentation refuses a new number, so C's lineage says that B is newer than A. A probe that
takes the newest takes B's data, not A's. `NewestAskedFirst` is the same property
for components that are never reverted.

## Not modelled, and what is left

Not modelled on purpose:

- the pointer-record and pointer-codehash commands: each call reads files, calls the contract's
  sign or verify functions, writes files and ends; there is no state between calls;
- `successor.rs`: two pure checks of one record (`generation > current`, a signature),
  without a caller in the repository;
- carry-forward: a clone, the consumer's own merge and verify, and an assignment on success;
- the text of generated code, cargo directives, TOML, hex and base58 beyond two spellings
  of one hash;
- error types, lookup helpers, builders and re-exports;
- signatures and hashes (opaque values), the parsing of a pointer's parameters, the
  reduced probe I/O of contract consumers, the wasm bridge;
- `register_delegate_with_migration`, which calls the walk after one registration.

More than half of the lines under `src/` are tests inside the source files
(three quarters of `delegate_migrate.rs`), and a third of the rest are comments; they
are what the share of mapped lines is measured against.

Limits of the model: a faulty export answers the walk with nothing; an export that drops
some of its keys cannot be told from a whole one by the plain walk, and is checked
only where the journal counts items. Keys are tokens, values are named by origin.
A journal's lineage does not grow between loads, and its absent streak, which
decides only how often an application may look again, is left out.

Type invariants that are proved below are not checked again by the runs.

What is only model-checked is liveness (`EventuallySealed`, `RetriesSettle`, `Finishes`,
`ProbeEnds`, `RealIsAdopted`, `Converges`, `CatchesUp`, and the fairness of `ImplementsNetwork`):
liveness under fairness and ENABLED are beyond the prover. Every other property of a passing
run is a theorem or part of one.

Not claimed, by a run or a theorem: what a journal answers when several sessions run, or its
entry is damaged, and exports of known data come back short (`RetriesTold` names the cases that
are). A count lost with the journal cannot be had back from the markers.
