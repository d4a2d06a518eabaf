------------------------------- MODULE Journal -------------------------------
(***************************************************************************)
(* The migration journal: what a successor durably records of one          *)
(* predecessor, how that reads under what the app migrates under now, and  *)
(* how two records of it merge.                                            *)
(*                                                                         *)
(* A journal is a function from generations to entries.  The counts that   *)
(* no decision reads (attempts, the absent streak) are left out.           *)
(***************************************************************************)
EXTENDS Integers

\* A predecessor not dealt with.  In a resolved entry the fields that its kind
\* does not have are as here, so that equal states are equal entries.
Fresh == [kind |-> "pending", started |-> FALSE, rejected |-> 0, revision |-> 0, seen |-> 0]

Imported   == [Fresh EXCEPT !.kind = "imported"]
NoData     == [Fresh EXCEPT !.kind = "noData"]
Superseded == [Fresh EXCEPT !.kind = "superseded"]

ImportedWithRejections(rejected, revision, seen) ==
  [kind |-> "rejections", started |-> FALSE,
   rejected |-> rejected, revision |-> revision, seen |-> seen]

Unresolved(started, rejected, seen) ==
  [kind |-> "pending", started |-> started, rejected |-> rejected, revision |-> 0, seen |-> seen]

Kind == {"pending", "imported", "noData", "superseded", "rejections"}

\* Equal states are equal entries: a field that a kind does not have is as in Fresh.
IsNormal(state) ==
  /\ state.kind # "pending" => ~state.started
  /\ state.kind # "rejections" => state.revision = 0
  /\ state.kind \notin {"pending", "rejections"} => state.rejected = 0 /\ state.seen = 0

JournalState ==
  {state \in [kind : Kind, started : BOOLEAN, rejected : Nat, revision : Nat, seen : Nat] :
     IsNormal(state)}

IsPending(state) == state.kind = "pending"

\* Does it say that the predecessor's data is in the successor?
IsDataBearing(state) == state.kind \in {"imported", "rejections"}

Started(state) == IsPending(state) /\ state.started

\* Mutant: the count is read off resolutions.
ItemsSeen_OfResolved(state) == IF IsPending(state) THEN 0 ELSE state.seen

\* What a later export of the predecessor is held to.
ItemsSeen(state) == IF IsPending(state) THEN state.seen ELSE 0

Larger(m, n) == IF m >= n THEN m ELSE n

\* The state as it applies to an app that migrates under a snapshot policy (or
\* not) with a writer at this import revision.
Effective(state, snapshot, revision) ==
  CASE state.kind = "superseded" /\ ~snapshot -> Fresh
    [] state.kind = "rejections" /\ state.revision < revision ->
         Unresolved(FALSE, state.rejected, state.seen)
    [] OTHER -> state

CompletenessRank(state) ==
  CASE state.kind = "imported"   -> 2
    [] state.kind = "rejections" -> 1
    [] OTHER                     -> 0

MergeResolved(older, newer) ==
  IF older.kind = "rejections" /\ newer.kind = "rejections"
  THEN [(IF newer.revision >= older.revision THEN newer ELSE older)
          EXCEPT !.seen = Larger(older.seen, newer.seen)]
  ELSE IF CompletenessRank(newer) > CompletenessRank(older) THEN newer ELSE older

\* A resolution against a pending entry.  Data was seen once an import started,
\* so one without the data does not settle it.
MergeSettled(resolved, pending) ==
  IF ~IsDataBearing(resolved) /\ pending.started THEN pending
  ELSE IF resolved.kind = "rejections"
       THEN [resolved EXCEPT !.seen = Larger(@, pending.seen)]
       ELSE resolved

MergePending(older, newer) ==
  Unresolved(older.started \/ newer.started,
             Larger(older.rejected, newer.rejected), Larger(older.seen, newer.seen))

MergeStates(older, newer) ==
  CASE ~IsPending(older) /\ ~IsPending(newer) -> MergeResolved(older, newer)
    [] ~IsPending(older) /\  IsPending(newer) -> MergeSettled(older, newer)
    []  IsPending(older) /\ ~IsPending(newer) -> MergeSettled(newer, older)
    []  IsPending(older) /\  IsPending(newer) -> MergePending(older, newer)

\* Mutant: a resolution stands, whatever starts.
MarkImportStarted_KeepsResolution(state) ==
  IF IsPending(state) THEN [state EXCEPT !.started = TRUE] ELSE state

\* Mutant: the flag is set on any entry.
MarkImportStarted_AnyKind(state) == [state EXCEPT !.started = TRUE]

\* An import starts: it reopens a resolution without the data.
MarkImportStarted(state) ==
  CASE IsPending(state)     -> [state EXCEPT !.started = TRUE]
    [] IsDataBearing(state) -> state
    [] OTHER                -> Unresolved(TRUE, 0, 0)

\* The count an import saw, kept on an entry whose import has started.
NoteItemsSeen(state, items) ==
  IF Started(state) THEN [state EXCEPT !.seen = Larger(@, items)] ELSE state

\* What one walk established of a predecessor.
Record(state, resolution) ==
  MergeStates(state,
    IF IsPending(state) /\ resolution.kind = "rejections"
    THEN [resolution EXCEPT !.seen = Larger(@, state.seen)]
    ELSE resolution)
===============================================================================
