------------------------------ MODULE ProbeDriver ------------------------------
(***************************************************************************)
(* The backward probe of the contract migration: the sans-IO ProbeDriver,  *)
(* the application that pumps it, and a network that answers late, twice   *)
(* or never.                                                               *)
(*                                                                         *)
(* A probe asks the predecessor contracts one at a time, newest first, and *)
(* ends in an outcome the application adopts.  The application may then    *)
(* probe again, and answers of an earlier probe may still arrive.          *)
(*                                                                         *)
(* A contract state is the set of generations whose data it carries, with  *)
(* Local for the device's own writes and Pointer for an upgrade pointer,   *)
(* which must never be put forward.                                        *)
(***************************************************************************)
EXTENDS Integers, Sequences

CONSTANTS
  Id,           \* contract instance ids
  Lineages,     \* the lineages as authored: sequences of [id, generation]
  Setups,       \* how the probe is set up, and what the network may answer
  Local, Pointer

NewestFirstWins == "NewestFirstWins"
FoldAll == "FoldAll"

Entry == [id : Id, generation : Nat]

\* The SelectionPolicy, continue_past_unknown, with_max_hops, and whether NotFound
\* may be answered for a contract that exists.
Setup == [policy : {NewestFirstWins, FoldAll}, continuePast : BOOLEAN, maxHops : Nat,
          falseAbsent : BOOLEAN]

ASSUME ProbeAssumption ==
  /\ Lineages \subseteq Seq(Entry)
  /\ Setups \subseteq Setup
  /\ Local \notin Id /\ Pointer \notin Id /\ Local # Pointer

State == SUBSET (Id \cup {Local, Pointer})

VARIABLES
  setup,      \* the set-up of every probe
  candidates, \* the candidates, newest first; they and their states are fixed
  holds,      \* holds[id]: what is stored under id
  phase,      \* "idle" (no driver), "probing" or "done"
  hops,       \* candidates asked so far
  waiting,    \* the candidate asked last is outstanding
  unresolved, \* candidates that never answered
  fold,       \* the fold of the real states, under FoldAll
  source,     \* position of the candidate that hit, 0 for none
  local,      \* the snapshot the driver was given
  outcome,    \* the outcome of a finished probe
  denied,     \* history: ids answered "absent" in this probe
  net,        \* ids of GETs under way, an answer or a timer may still come
  device,     \* the application's state on this device
  forward     \* what it has PUT under the current key

lineageVars == <<setup, candidates, holds>>
driver      == <<phase, hops, waiting, unresolved, fold, source, local, outcome, denied>>
app         == <<device, forward>>
vars        == <<lineageVars, driver, net, app>>

Policy == setup.policy
ContinuePast == setup.continuePast
MaxHops == setup.maxHops
FalseAbsent == setup.falseAbsent

NoOutcome ==
  [kind |-> "none", state |-> {}, source |-> 0, truncatedFold |-> FALSE, unresolved |-> {}]

-------------------------------------------------------------------------------
(* What the application supplies.  Merging is the union of what was merged.   *)

ReadState(id) == {id, Pointer}
MergeWithLocal(recovered, snapshot) == recovered \cup snapshot
MergeGenerations(newer, older) == newer \cup older
PrepareForward(state) == state \ {Pointer}

-------------------------------------------------------------------------------

\* Mutant: the slice order of the lineage is the probe order.
NewestFirst_SliceOrder(list) == TRUE

\* The order a candidate list is sorted into.
NewestFirst(list) ==
  \A i, j \in 1..Len(list) : i < j => list[i].generation >= list[j].generation

UnknownTerminates == Policy = NewestFirstWins /\ ~ContinuePast

Init ==
  /\ setup \in Setups
  /\ candidates \in {list \in Lineages : NewestFirst(list)}
  /\ holds \in [Id -> {"nothing", "placeholder", "real"}]
  /\ device \in {{Local}, {Local, Pointer}}
  /\ forward = {}
  /\ net = {}
  /\ phase = "idle"
  /\ hops = 0
  /\ waiting = FALSE
  /\ unresolved = {}
  /\ fold = {}
  /\ source = 0
  /\ local = {}
  /\ outcome = NoOutcome
  /\ denied = {}

Finish(kind, state, from, open) ==
  /\ phase' = "done"
  /\ outcome' = [kind |-> kind, state |-> state, source |-> from,
                 truncatedFold |-> from # 0 /\ Policy = FoldAll /\ hops < Len(candidates),
                 unresolved |-> open]
  /\ waiting' = FALSE
  /\ unresolved' = {}
  /\ local' = {}
  /\ fold' = {}
  /\ source' = 0

\* ProbeDriver::new.  Without candidates there is no probe.
New ==
  /\ phase = "idle"
  /\ hops' = 0
  /\ denied' = {}
  /\ IF candidates = <<>>
     THEN Finish("noLegacy", device, 0, {})
     ELSE /\ phase' = "probing"
          /\ waiting' = FALSE
          /\ unresolved' = {}
          /\ fold' = {}
          /\ source' = 0
          /\ local' = device
          /\ outcome' = NoOutcome
  /\ UNCHANGED <<lineageVars, net, app>>

\* The candidates never asked.
Remaining == {candidates[i].id : i \in (hops + 1)..Len(candidates)}

\* Mutant: a local snapshot that is only handed back is not prepared.
FinishExhausted_Unprepared ==
  LET open == unresolved \cup Remaining IN
  /\ IF source # 0
     THEN Finish("recovered", PrepareForward(MergeWithLocal(fold, local)), source, open)
     ELSE IF open = {}
     THEN Finish("seedLocal", local, 0, {})
     ELSE Finish("indeterminate", local, 0, open)
  /\ UNCHANGED <<lineageVars, hops, denied, net, app>>

\* The walk is over, by exhaustion or by the hop cap.
FinishExhausted ==
  LET open == unresolved \cup Remaining IN
  /\ IF source # 0
     THEN Finish("recovered", PrepareForward(MergeWithLocal(fold, local)), source, open)
     ELSE IF open = {}
     THEN Finish("seedLocal", PrepareForward(local), 0, {})
     ELSE Finish("indeterminate", PrepareForward(local), 0, open)
  /\ UNCHANGED <<lineageVars, hops, denied, net, app>>

FinishIndeterminate(open) ==
  Finish("indeterminate", PrepareForward(local), 0, open \cup Remaining)

Ask(id) == net' = net \cup {id}

\* next_action, and the GET the application sends for it.  Asked again while a
\* candidate is outstanding, it answers the same.
NextAction ==
  /\ phase = "probing"
  /\ \/ /\ waiting
        /\ Ask(candidates[hops].id)
        /\ UNCHANGED <<lineageVars, driver, app>>
     \/ /\ ~waiting
        /\ hops = Len(candidates) \/ hops >= MaxHops
        /\ FinishExhausted
     \/ /\ ~waiting
        /\ hops < Len(candidates) /\ hops < MaxHops
        /\ hops' = hops + 1
        /\ waiting' = TRUE
        /\ Ask(candidates[hops + 1].id)
        /\ UNCHANGED <<lineageVars, phase, unresolved, fold, source, local, outcome, denied, app>>

-------------------------------------------------------------------------------
(* Events.  One that is not for the outstanding candidate is ignored.         *)

\* Mutant: the id of an event is not compared.
Listening_AnyId(id) == phase = "probing" /\ waiting

Listening(id) == phase = "probing" /\ waiting /\ candidates[hops].id = id

\* A real state: newest-first-wins is done, fold-all goes on.
OnHit(id) ==
  CASE Policy = NewestFirstWins ->
         Finish("recovered", PrepareForward(MergeWithLocal(ReadState(id), local)),
                hops, unresolved)
    [] Policy = FoldAll ->
         /\ fold' = IF source = 0 THEN ReadState(id) ELSE MergeGenerations(fold, ReadState(id))
         /\ source' = IF source = 0 THEN hops ELSE source
         /\ waiting' = FALSE
         /\ UNCHANGED <<phase, unresolved, local, outcome>>

Miss ==
  /\ waiting' = FALSE
  /\ UNCHANGED <<phase, unresolved, fold, source, local, outcome>>

OnResponse(id) ==
  /\ IF ~Listening(id) THEN UNCHANGED driver
     ELSE /\ IF holds[id] = "real" THEN OnHit(id) ELSE Miss
          /\ UNCHANGED <<hops, denied>>
  /\ UNCHANGED <<lineageVars, app>>

\* Mutant: the candidate that was answered absent stays outstanding.
OnAbsent_StillWaiting(id) ==
  /\ IF ~Listening(id) THEN UNCHANGED driver
     ELSE /\ denied' = denied \cup {id}
          /\ UNCHANGED <<phase, hops, waiting, unresolved, fold, source, local, outcome>>
  /\ UNCHANGED <<lineageVars, app>>

\* Mutant: an answered absence stops the walk, as silence does.
OnAbsent_Halts(id) ==
  /\ IF ~Listening(id) THEN UNCHANGED driver
     ELSE /\ FinishIndeterminate(unresolved \cup {id})
          /\ denied' = denied \cup {id}
          /\ UNCHANGED hops
  /\ UNCHANGED <<lineageVars, app>>

OnAbsent(id) ==
  /\ IF ~Listening(id) THEN UNCHANGED driver
     ELSE /\ Miss
          /\ denied' = denied \cup {id}
          /\ UNCHANGED hops
  /\ UNCHANGED <<lineageVars, app>>

\* A timer, a failed send, a lost connection: the candidate stays unresolved.
OnUnknown(id) ==
  /\ IF ~Listening(id) THEN UNCHANGED driver
     ELSE /\ IF UnknownTerminates
             THEN FinishIndeterminate(unresolved \cup {id})
             ELSE /\ waiting' = FALSE
                  /\ unresolved' = unresolved \cup {id}
                  /\ UNCHANGED <<phase, fold, source, local, outcome>>
          /\ UNCHANGED <<hops, denied>>
  /\ UNCHANGED <<lineageVars, app>>

\* After an event for id its GET may still produce another one.
Settle(id) == net' \in {net, net \ {id}}

Answer(id) ==
  /\ id \in net
  /\ \/ holds[id] # "nothing" /\ OnResponse(id)
     \/ (holds[id] = "nothing" \/ FalseAbsent) /\ OnAbsent(id)
  /\ Settle(id)

Silence(id) ==
  /\ id \in net
  /\ OnUnknown(id)
  /\ Settle(id)

-------------------------------------------------------------------------------

\* take_outcome, and what the application does with it.  Nothing is adopted
\* from an indeterminate probe; putting its snapshot forward is its own choice.
TakeOutcome ==
  /\ phase = "done"
  /\ phase' = "idle"
  /\ device' = IF outcome.kind = "recovered" THEN outcome.state ELSE device
  /\ forward' \in CASE outcome.kind \in {"recovered", "seedLocal"} -> {outcome.state}
                    [] outcome.kind = "indeterminate" -> {forward, outcome.state}
                    [] OTHER -> {forward}
  /\ outcome' = NoOutcome
  /\ UNCHANGED <<lineageVars, hops, waiting, unresolved, fold, source, local, denied, net>>

Next ==
  \/ New \/ NextAction \/ TakeOutcome
  \/ \E id \in Id : Answer(id) \/ Silence(id)

Spec == Init /\ [][Next]_vars

\* The application pumps the driver, takes the outcome and probes again; a GET is
\* answered or its timer fires, and one that is sent again and again is answered
\* before its timer in the end.  A late event and a second answer may or may not
\* happen.
Hear(id) == Listening(id) /\ (Answer(id) \/ Silence(id))
HearAnswer(id) == Listening(id) /\ Answer(id)

FairSpec ==
  /\ Spec
  /\ WF_vars(New) /\ WF_vars(NextAction) /\ WF_vars(TakeOutcome)
  /\ WF_vars(\E id \in Id : Hear(id))
  /\ \A id \in Id : SF_vars(HearAnswer(id))

-------------------------------------------------------------------------------
(* Properties.                                                                *)

Outcomes ==
  [kind : {"none", "noLegacy", "recovered", "seedLocal", "indeterminate"},
   state : State, source : Nat, truncatedFold : BOOLEAN, unresolved : SUBSET Id]

TypeOK ==
  /\ setup \in Setup
  /\ candidates \in Seq(Entry)
  /\ holds \in [Id -> {"nothing", "placeholder", "real"}]
  /\ phase \in {"idle", "probing", "done"}
  /\ hops \in 0..Len(candidates)
  /\ waiting \in BOOLEAN
  /\ waiting => phase = "probing" /\ hops > 0 /\ candidates[hops].id \in net
  /\ unresolved \subseteq Id /\ denied \subseteq Id /\ net \subseteq Id
  /\ fold \in State /\ local \in State /\ device \in State /\ forward \in State
  /\ source \in 0..hops
  /\ phase = "probing" => Local \in local   \* "local consumed once"
  /\ outcome \in Outcomes
  /\ (outcome.kind = "none") <=> (phase # "done")
  /\ outcome.source \in 0..Len(candidates)

Real(i) == holds[candidates[i].id] = "real"

\* A probe never adopts an older generation over a newer one it did not rule out:
\* a newer one with real data was answered to be absent or is reported unresolved.
\* Newness is the lineage's generation field, not its slice order.
NoRollback ==
  outcome.source # 0 =>
    \A i \in 1..Len(candidates) :
      Real(i) /\ candidates[i].generation > candidates[outcome.source].generation =>
        candidates[i].id \in outcome.unresolved \cup denied

\* Silence is not absence: a generation with real data is in the outcome's state,
\* or the node said it was not there, or the outcome lists it as unresolved
\* (whether it did not answer, was cut off by the hop cap, or lay behind a halt).
\* Only newest-first-wins leaves out what is older than the generation it took.
NothingLeftUnsaid ==
  phase = "done" =>
    \A i \in 1..Len(candidates) :
      \/ ~Real(i)
      \/ candidates[i].id \in outcome.state \cup outcome.unresolved \cup denied
      \/ Policy = NewestFirstWins /\ outcome.source # 0 /\ i > outcome.source

\* What goes under the current key carries the device's own writes and no upgrade
\* pointer out of an older generation, on every path to an outcome.
ForwardIsPrepared ==
  /\ phase = "done" /\ outcome.kind # "noLegacy" =>
       Local \in outcome.state /\ Pointer \notin outcome.state
  /\ forward # {} => Local \in forward /\ Pointer \notin forward

\* Every probe ends, whatever answers late, twice or never (its timer fires).
ProbeEnds == phase = "probing" ~> phase = "done"
-------------------------------------------------------------------------------
(* The inductive invariant, in parts.                                         *)

\* A generation asked and done with is accounted for.
Answered(i) ==
  \/ ~Real(i)
  \/ candidates[i].id \in unresolved \cup denied
  \/ Policy = FoldAll /\ candidates[i].id \in fold

AskedAreAnswered ==
  phase = "probing" =>
    \A i \in 1..hops : (waiting /\ i = hops) \/ Answered(i)

\* Nothing newer than the first hit is real and unaccounted for.
HitIsNewest ==
  /\ source # 0 => Policy = FoldAll
  /\ source # 0 =>
       \A i \in 1..(source - 1) : Real(i) => candidates[i].id \in unresolved \cup denied
  /\ source = 0 /\ phase = "probing" => fold = {}

OutcomeIsNewest ==
  outcome.source # 0 =>
    \A i \in 1..(outcome.source - 1) :
      Real(i) => candidates[i].id \in outcome.unresolved \cup denied

\* The device's own writes reach the driver and every outcome.
OwnDataKept == Local \in device /\ (phase = "done" => Local \in outcome.state)

ProbeInv ==
  /\ TypeOK /\ OwnDataKept /\ ForwardIsPrepared
  /\ NewestFirst(candidates)
  /\ AskedAreAnswered /\ HitIsNewest /\ OutcomeIsNewest /\ NothingLeftUnsaid
===============================================================================
