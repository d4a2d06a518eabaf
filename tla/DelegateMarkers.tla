--------------------------- MODULE DelegateMarkers ---------------------------
(***************************************************************************)
(* The completion markers a successor delegate keeps for one predecessor,  *)
(* and what a reader makes of them.                                        *)
(*                                                                         *)
(* Two secrets per predecessor live in the reserved namespace of the       *)
(* successor's store: an in-progress marker `pred-wip' and a completion    *)
(* marker `pred-done'.  Each is absent, or says whether the predecessor    *)
(* was seen to hold data ("data") or to be empty ("empty").  A store that  *)
(* the older generation-keyed API wrote to may also hold `done:<gen>'      *)
(* markers; the bridge decides which predecessors those cover.             *)
(***************************************************************************)
EXTENDS Integers

\* The value of a marker secret, "absent" when the secret is not stored.
MarkerValue == {"absent", "empty", "data"}

\* What migration_marker answers: None, InProgress{saw_data} or Done{had_data}.
MigrationMarker == {"none", "wipEmpty", "wipData", "doneEmpty", "doneData"}

NewestSnapshotWins == "NewestSnapshotWins"
ContinuePastUnresponsive == "ContinuePastUnresponsive"
UnionAllGenerations == "UnionAllGenerations"

SecretSelectionPolicy ==
  {NewestSnapshotWins, ContinuePastUnresponsive, UnionAllGenerations}

\* The two snapshot policies take one generation; Union takes them all.
SnapshotPolicy(policy) == policy # UnionAllGenerations

\* Does a predecessor that had data end the walk?
DataBearingIsAuthoritative(policy, hadData) == SnapshotPolicy(policy) /\ hadData

\* Mutant: NewestSnapshotWins walks on past a silence.
UnresponsiveTerminates_OnlyKnownData(policy, priorSawData) ==
  SnapshotPolicy(policy) /\ priorSawData

\* Mutant: ContinuePastUnresponsive walks on past data it knows of.
UnresponsiveTerminates_StrictOnly(policy, priorSawData) ==
  policy = NewestSnapshotWins

\* Does a predecessor that did not answer end the walk?
UnresponsiveTerminates(policy, priorSawData) ==
  \/ policy = NewestSnapshotWins
  \/ policy = ContinuePastUnresponsive /\ priorSawData

\* Is generation g sealed by the generation-keyed markers `legacy'?  A snapshot
\* policy honours any marker at or above g, Union only the one at g.
LegacyMigrated(policy, legacy, g) ==
  IF SnapshotPolicy(policy) THEN \E newest \in legacy : newest >= g
                            ELSE g \in legacy

\* Mutant: an empty seal is believed whatever the in-progress marker says.
EmptySealContradicted_Never(done, wip) == FALSE

\* Mutant: any seal gives way to an in-progress marker that saw data.
EmptySealContradicted_AnySeal(done, wip) == done # "absent" /\ wip = "data"

\* An empty seal beside an in-progress marker that saw data: an import was
\* started after the seal, so the seal is wrong.
EmptySealContradicted(done, wip) == done = "empty" /\ wip = "data"

ReadMarker(done, wip, bridged) ==
  CASE EmptySealContradicted(done, wip)               -> "wipData"
    [] done # "absent" /\ ~EmptySealContradicted(done, wip)
                                                      -> IF done = "data" THEN "doneData"
                                                                          ELSE "doneEmpty"
    [] done = "absent" /\ bridged                     -> "doneData"
    [] done = "absent" /\ ~bridged /\ wip = "data"    -> "wipData"
    [] done = "absent" /\ ~bridged /\ wip = "empty"   -> "wipEmpty"
    [] OTHER                                          -> "none"

IsDone(marker) == marker \in {"doneEmpty", "doneData"}

\* An in-progress marker that saw data is never downgraded; a completion marker
\* is written as given.
StickyInProgress(wip, sawData) ==
  IF sawData \/ wip = "data" THEN "data" ELSE "empty"

Flag(hadData) == IF hadData THEN "data" ELSE "empty"
==============================================================================
