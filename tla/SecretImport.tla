----------------------------- MODULE SecretImport -----------------------------
(***************************************************************************)
(* The store-to-store migration primitives: every generation of a delegate *)
(* answers export requests and imports the exports of its predecessors,    *)
(* each import once.  A successor is a later predecessor, so its markers    *)
(* stand in the store that it exports.                                     *)
(*                                                                         *)
(* An export is a message the application carries: it may be delivered at  *)
(* any time, to any later generation, again and again, or never.  An       *)
(* import is a sequence of host calls, any of which may fail and after any *)
(* of which the delegate may die; the user edits every generation meanwhile. *)
(*                                                                         *)
(* The host registers at most Cap key names of a store.  It lists no other *)
(* and does not say so.                                                    *)
(***************************************************************************)
EXTENDS DelegateMarkers, FiniteSets

CONSTANTS
  Generations,  \* the delegate's generations are 1 .. Generations
  AppKey,       \* the keys an application stores
  Scope,        \* the keys an export covers: all of them, or a prefix's
  Stocks,       \* what the generations' stores hold at first
  Journaled,    \* generations whose store may hold a migration journal
  Cap,          \* HOST_ENUMERATION_CAP
  MaxExports,   \* bound on the different exports on their way
  MaxEdits,     \* bound on the user's edits and the application's own imports
  MaxFaults     \* bound on failing writes, failing reads and deaths

ASSUME GenerationsAssumption == Generations \in Nat \ {0}

Delegate == 1 .. Generations
Predecessor == 1 .. Generations - 1

ASSUME ScopeAssumption == Scope \subseteq AppKey
ASSUME StocksAssumption == Stocks \subseteq [Delegate -> SUBSET AppKey]
ASSUME CapAssumption == Cap \in Nat
ASSUME FiniteAssumption == IsFiniteSet(AppKey)
ASSUME BoundsAssumption == {MaxExports, MaxEdits, MaxFaults} \subseteq Nat

\* The keys reserved for the crate.  One store is written through one of the two
\* import functions, so one pair of markers per predecessor is enough.
WipMarker(s) == <<"wip", s>>
DoneMarker(s) == <<"done", s>>
JournalKey == <<"journal", 0>>
Reserved ==
  {WipMarker(s) : s \in Predecessor} \cup {DoneMarker(s) : s \in Predecessor} \cup {JournalKey}

ASSUME ReservedAssumption == AppKey \cap Reserved = {}

Key == AppKey \cup Reserved

\* Mutant: the journal's namespace is not reserved.
IsMarker_NotJournal(k) == k \in Reserved \ {JournalKey}

IsMarker(k) == k \in Reserved

\* The two import functions; an application picks one of them for its stores.
ByGeneration == "import_secrets_once"
ByPredecessor == "import_predecessor_secrets_once"

VARIABLES
  api,      \* the import function in use
  store,    \* store[d][k]: the value of secret k of delegate d
  exports,  \* the exports on their way
  run,      \* the import being executed: the stores are independent, so one at a time
  took,     \* took[d][s]: the keys an import from s wrote in d or found there
  edits,    \* edits and own imports so far
  faults    \* faults so far

vars == <<api, store, exports, run, took, edits, faults>>

-------------------------------------------------------------------------------
(* A delegate's store.                                                        *)

HasSecret(d, k) == store[d][k] # "absent"

Stored(d) == {k \in Key : HasSecret(d, k)}

\* What the host may list: everything, or Cap of the keys that are there.
ListSecrets(d) ==
  IF Cardinality(Stored(d)) <= Cap
  THEN {Stored(d)}
  ELSE {listed \in SUBSET Stored(d) : Cardinality(listed) = Cap}

Done(d, s) == store[d][DoneMarker(s)]
Wip(d, s) == store[d][WipMarker(s)]

-------------------------------------------------------------------------------
(* The export.                                                                *)

\* An export: where it is from, the keys it carries, and (not in the message)
\* the keys of the scope that were there and did not fail to be read.
Export == [from : Predecessor, keys : SUBSET AppKey, readable : SUBSET AppKey]
NoExport == [from |-> 0, keys |-> {}, readable |-> {}]

\* Mutant: only the keys of the scope are counted.
Truncated_ScopeOnly(listed) == Cardinality(listed \cap Scope) >= Cap

\* A listing as long as the cap may lack keys, whatever the scope.
Truncated(listed) == Cardinality(listed) >= Cap

Covered(keys) == IF Scope = AppKey THEN keys ELSE keys \cap Scope

\* The keys an export reads: the crate's own are passed over.
ToRead(listed) == {k \in Covered(listed) : ~IsMarker(k)}

\* The answer to an export request.  Each key is read on its own, and one that the
\* host fails to read looks like one that is not there: it is dropped, and nothing
\* in the answer tells.
HandleExportRequest(s) ==
  /\ run.at # s
  /\ \E listed \in ListSecrets(s) : \E unread \in SUBSET ToRead(listed) :
       /\ ~Truncated(listed)
       /\ unread # {} => faults < MaxFaults
       /\ exports' = exports \cup {[from     |-> s,
                                    keys     |-> ToRead(listed) \ unread,
                                    readable |-> (Stored(s) \cap Scope) \ unread]}
       /\ Cardinality(exports') <= MaxExports
       /\ faults' = IF unread = {} THEN faults ELSE faults + 1
  /\ UNCHANGED <<api, store, run, took, edits>>

\* An export gets lost, or is not delivered any more.
Lose(e) ==
  /\ exports' = exports \ {e}
  /\ UNCHANGED <<api, store, run, took, edits, faults>>

-------------------------------------------------------------------------------
(* The import.                                                                *)

Idle == [at |-> 0, export |-> NoExport, todo |-> {}, failed |-> FALSE, flag |-> "absent"]

\* Mutant: an older generation may still be imported.
NewestCompleted_Ignored(listed) == {}

\* The generations whose completion markers are listed.
NewestCompleted(listed) == {s \in Predecessor : DoneMarker(s) \in listed}

\* ImplausibleGeneration, AlreadyMigrated, StaleGeneration.
MayImportGeneration(d, s, listed) ==
  /\ s < d
  /\ ~HasSecret(d, DoneMarker(s))
  /\ \A newest \in NewestCompleted(listed) : newest <= s

\* Mutant: the completion marker is not consulted.
AlreadyMigrated_Never(d, s) == FALSE

AlreadyMigrated(d, s) ==
  HasSecret(d, DoneMarker(s)) /\ ~EmptySealContradicted(Done(d, s), Wip(d, s))

HadData(keys) == \E k \in keys : ~IsMarker(k)

\* Mutant: an export that lost its data is sealed.
MayImportPredecessor_BelievesEmpty(d, s, keys) == s < d /\ ~AlreadyMigrated(d, s)

\* Mutant: an import in progress is left to whoever started it.
MayImportPredecessor_NotInterrupted(d, s, keys) ==
  s < d /\ ~HasSecret(d, DoneMarker(s)) /\ ~HasSecret(d, WipMarker(s))

\* AlreadyMigrated; Incomplete, when an attempt before this one saw data and this
\* one does not.  The caller asks the predecessors of its lineage.
MayImportPredecessor(d, s, keys) ==
  /\ s < d
  /\ ~AlreadyMigrated(d, s)
  /\ Wip(d, s) = "data" => HadData(keys)

\* The generation-keyed markers have one value.
MarkerFlag(d, s, keys) ==
  IF api = ByGeneration THEN "data" ELSE StickyInProgress(Wip(d, s), HadData(keys))

\* An export reaches d: the checks, and the first write, the in-progress marker.
\* When that fails nothing has happened.
BeginImport(d, e) ==
  /\ run = Idle
  /\ \/ /\ api = ByGeneration
        /\ \E listed \in ListSecrets(d) : MayImportGeneration(d, e.from, listed)
     \/ /\ api = ByPredecessor
        /\ MayImportPredecessor(d, e.from, e.keys)
  /\ LET flag == MarkerFlag(d, e.from, e.keys) IN
       /\ store' = [store EXCEPT ![d][WipMarker(e.from)] = flag]
       /\ run' = [at |-> d, export |-> e, todo |-> {k \in e.keys : ~IsMarker(k)},
                  failed |-> FALSE, flag |-> flag]
  /\ UNCHANGED <<api, exports, took, edits, faults>>

\* One secret of the payload: skipped when the successor has it, written otherwise.
WriteSecret(k) ==
  /\ k \in run.todo
  /\ store' = [store EXCEPT ![run.at][k] = IF @ = "absent" THEN "data" ELSE @]
  /\ took' = [took EXCEPT ![run.at][run.export.from] = @ \cup {k}]
  /\ run' = [run EXCEPT !.todo = @ \ {k}]
  /\ UNCHANGED <<api, exports, edits, faults>>

WriteFails(k) ==
  /\ k \in run.todo
  /\ ~HasSecret(run.at, k)
  /\ faults < MaxFaults
  /\ faults' = faults + 1
  /\ run' = [run EXCEPT !.todo = @ \ {k}, !.failed = TRUE]
  /\ UNCHANGED <<api, store, exports, took, edits>>

\* No write of this attempt failed.
Complete == ~run.failed

\* The completion marker, which is the last write.
SealImport ==
  /\ run # Idle
  /\ run.todo = {}
  /\ Complete
  /\ store' = [store EXCEPT ![run.at][DoneMarker(run.export.from)] = run.flag]
  /\ run' = Idle
  /\ UNCHANGED <<api, exports, took, edits, faults>>

\* PartialImport or Incomplete: a write failed and there is no completion marker.
EndIncomplete ==
  /\ run # Idle
  /\ run.todo = {}
  /\ ~Complete
  /\ run' = Idle
  /\ UNCHANGED <<api, store, exports, took, edits, faults>>

\* The delegate dies, or its completion marker cannot be written.
Die ==
  /\ run # Idle
  /\ faults < MaxFaults
  /\ faults' = faults + 1
  /\ run' = Idle
  /\ UNCHANGED <<api, store, exports, took, edits>>

-------------------------------------------------------------------------------
(* What others do to the stores.                                              *)

\* The user adds or deletes a secret.
Edit(d, k) ==
  /\ run.at # d
  /\ edits < MaxEdits
  /\ edits' = edits + 1
  /\ store' = [store EXCEPT ![d][k] = IF @ = "absent" THEN "data" ELSE "absent"]
  /\ UNCHANGED <<api, exports, run, took, faults>>

\* The application notes an import of its own from s: a marker that saw data.
NoteAppImport(d, s) ==
  /\ api = ByPredecessor
  /\ run.at # d
  /\ s < d
  /\ Done(d, s) # "data" /\ Wip(d, s) # "data"
  /\ edits < MaxEdits
  /\ edits' = edits + 1
  /\ store' = [store EXCEPT ![d][WipMarker(s)] = "data"]
  /\ UNCHANGED <<api, exports, run, took, faults>>

Init ==
  /\ api \in {ByGeneration, ByPredecessor}
  /\ \E journals \in SUBSET Journaled, secrets \in Stocks :
       /\ store = [d \in Delegate |-> [k \in Key |->
             IF k \in secrets[d] \/ (k = JournalKey /\ d \in journals) THEN "data" ELSE "absent"]]
  /\ exports = {}
  /\ run = Idle
  /\ took = [d \in Delegate |-> [s \in Predecessor |-> {}]]
  /\ edits = 0
  /\ faults = 0

Next ==
  \/ \E s \in Predecessor : HandleExportRequest(s)
  \/ \E d \in Delegate :
       \/ \E e \in exports : BeginImport(d, e)
       \/ \E k \in AppKey : Edit(d, k)
       \/ \E s \in Predecessor : NoteAppImport(d, s)
  \/ \E k \in AppKey : WriteSecret(k) \/ WriteFails(k)
  \/ SealImport
  \/ EndIncomplete
  \/ Die
  \/ \E e \in exports : Lose(e)

Spec == Init /\ [][Next]_vars

\* A delegate that does not die runs to the end of its call.  Faults are bounded;
\* once they stop, the application goes on asking for exports and delivering what
\* it gets, and no message stays on its way forever.
FairSpec ==
  /\ Spec
  /\ WF_vars(\E k \in AppKey : WriteSecret(k))
  /\ WF_vars(SealImport)
  /\ WF_vars(EndIncomplete)
  /\ WF_vars(\E e \in exports : Lose(e))
  /\ \A s \in Predecessor : SF_vars(HandleExportRequest(s))
  /\ \A d \in Delegate : \A s \in 1 .. d - 1 :
       SF_vars(\E e \in exports : e.from = s /\ BeginImport(d, e))

-------------------------------------------------------------------------------
(* Properties.                                                                *)

Run == [at : Delegate \cup {0}, export : Export \cup {NoExport}, todo : SUBSET AppKey, failed : BOOLEAN,
        flag : MarkerValue]

TypeOK ==
  /\ api \in {ByGeneration, ByPredecessor}
  /\ store \in [Delegate -> [Key -> MarkerValue]]
  /\ exports \subseteq Export
  /\ run \in Run
  /\ took \in [Delegate -> [Predecessor -> SUBSET AppKey]]
  /\ edits \in 0 .. MaxEdits
  /\ faults \in 0 .. MaxFaults
  /\ run # Idle => run.at \in Delegate /\ run.export \in Export /\ run.todo \subseteq run.export.keys

\* Delegate d seals predecessor s in this step.
Seals(d, s) == Done(d, s)' # Done(d, s)

\* "Writing a completion marker would permanently block a corrected re-import": a
\* seal that says data is written only when every key that the predecessor held
\* when it was asked has been brought over or was there already, whatever was
\* truncated, was interrupted, failed to be written or was delivered out of order.
\* The one exception is the keys whose reads failed while other secrets were
\* exported: no import can know of them.  An export without any secret is never
\* what import_predecessor_secrets_once seals as data.
SealCoversReadable ==
  [][\A d \in Delegate, s \in Predecessor :
       Seals(d, s) /\ Done(d, s)' = "data" =>
         /\ run.at = d /\ run.export.from = s
         /\ run.export.readable \subseteq took[d][s]
         /\ api = ByPredecessor => run.export.keys # {}]_vars

\* The import from s running at d writes a key in this step.
Imports(d, s) ==
  /\ run.at = d
  /\ run.export.from = s
  /\ \E k \in run.todo : ~HasSecret(d, k) /\ HasSecret(d, k)'

\* A completed import stays completed: whatever old export arrives again, and
\* whatever the user has deleted since, a predecessor sealed as data brings no
\* key back.
NoResurrection ==
  [][\A d \in Delegate, s \in Predecessor : Imports(d, s) => Done(d, s) # "data"]_vars

\* "A replayed older export cannot roll state back", as long as the store is not
\* past the host's cap: after a newer generation is sealed, generation-keyed
\* imports take nothing from an older one, an import of it interrupted before
\* included.
NoRollback ==
  [][\A d \in Delegate, s \in Predecessor :
       /\ api = ByGeneration
       /\ Cardinality(Stored(d)) <= Cap
       /\ Imports(d, s)
       => \A newer \in s + 1 .. Generations - 1 : Done(d, newer) = "absent"]_vars

\* The same without the premise that the store is not past the cap.
OlderExportRefused ==
  [][\A d \in Delegate, s \in Predecessor :
       api = ByGeneration /\ Imports(d, s)
         => \A newer \in s + 1 .. Generations - 1 : Done(d, newer) = "absent"]_vars

\* What a later reader is told of predecessor s (predecessor_migration_had_data).
MigrationHadData(d, s) ==
  IF EmptySealContradicted(Done(d, s), Wip(d, s)) THEN "absent" ELSE Done(d, s)

\* The flag a snapshot walk stops on tells the truth: a predecessor is read as
\* empty only if no import ever took a key from it, and as data only if one did,
\* across retries, exports that lost their data, imports of the application's
\* own and stores that hold markers and journals of their own.
FlagTellsData ==
  api = ByPredecessor =>
    \A d \in Delegate, s \in Predecessor :
      /\ MigrationHadData(d, s) = "empty" => took[d][s] = {}
      /\ MigrationHadData(d, s) = "data" => took[d][s] # {}

\* A predecessor's store is short enough to be exported.
Exportable(s) == Cardinality(Stored(s)) < Cap

\* d asks nothing more of s: sealed, or passed by a newer generation.
Settled(d, s) ==
  \/ HasSecret(d, DoneMarker(s)) /\ ~EmptySealContradicted(Done(d, s), Wip(d, s))
  \/ api = ByGeneration /\ \E newer \in s + 1 .. Generations - 1 : HasSecret(d, DoneMarker(newer))

\* Interrupted imports are finished: whatever failed or died, a predecessor whose
\* data can be exported, and that holds data when its successor knows that it
\* did, is settled once faults stop.
Finishes ==
  \A d \in Delegate : \A s \in 1 .. d - 1 :
    <>[](Exportable(s) /\ Stored(s) \cap Scope # {}) => <>Settled(d, s)

-------------------------------------------------------------------------------
(* The inductive invariant, in parts.                                         *)

\* The import at hand stands behind its in-progress marker, of a predecessor that
\* is not sealed as data, and has lost no key that it has not reported as failed.
ImportAtHand ==
  run # Idle =>
    /\ Wip(run.at, run.export.from) = run.flag
    /\ Done(run.at, run.export.from) # "data"
    /\ run.failed \/ run.export.keys \subseteq run.todo \cup took[run.at][run.export.from]
    /\ api = ByPredecessor => (run.flag = "data" <=> run.export.keys # {})

\* A store that is not past the cap hid no seal when the import began.
NothingNewer ==
  run # Idle /\ api = ByGeneration /\ Cardinality(Stored(run.at)) <= Cap =>
    \A newer \in run.export.from + 1 .. Generations - 1 : Done(run.at, newer) = "absent"

\* An export lacks no key of the scope but those that failed to be read.
ExportsCarryReadable ==
  \A e \in exports \cup {run.export} : e.readable \subseteq e.keys

\* Whatever was taken is behind a marker that saw data, and a seal that says data
\* took something.
MarkersTell ==
  api = ByPredecessor =>
    \A d \in Delegate, s \in Predecessor :
      /\ took[d][s] # {} => Wip(d, s) = "data"
      /\ Done(d, s) = "data" => took[d][s] # {}

ImportInv == TypeOK /\ ImportAtHand /\ NothingNewer /\ ExportsCarryReadable /\ MarkersTell
===============================================================================
