-------------------------- MODULE ProbeDriver_proofs --------------------------
(***************************************************************************)
(* Proofs about the contract probe, for any candidate list, policy and hop *)
(* cap, and any order of answers, silences and late events.                *)
(***************************************************************************)
EXTENDS ProbeDriver, SequenceTheorems, TLAPS

Asked(i) == (waiting /\ i = hops) \/ Answered(i)

\* The initial states satisfy the invariant.
LEMMA InitProbeInv == Init => ProbeInv
<1> SUFFICES ASSUME Init PROVE ProbeInv
  OBVIOUS
<1> USE ProbeAssumption DEF Init
<1>1. candidates \in Seq(Entry) /\ Len(candidates) \in Nat /\ NewestFirst(candidates)
  BY LenProperties
<1>2. TypeOK
  <2>1. NoOutcome \in Outcomes /\ NoOutcome.kind = "none" /\ NoOutcome.source = 0
    BY DEF NoOutcome, Outcomes, State
  <2>2. device \in State /\ forward \in State /\ fold \in State /\ local \in State
    BY DEF State
  <2>3. hops \in 0..Len(candidates) /\ source \in 0..hops /\ 0 \in 0..Len(candidates)
    BY <1>1
  <2>4. unresolved \subseteq Id /\ denied \subseteq Id /\ net \subseteq Id
    OBVIOUS
  <2> QED
    BY <1>1, <2>1, <2>2, <2>3, <2>4 DEF TypeOK
<1>3. AskedAreAnswered /\ HitIsNewest /\ OutcomeIsNewest /\ NothingLeftUnsaid
  BY <1>1 DEF AskedAreAnswered, HitIsNewest, OutcomeIsNewest, NothingLeftUnsaid, NoOutcome
<1>4. OwnDataKept /\ ForwardIsPrepared
  BY DEF OwnDataKept, ForwardIsPrepared
<1> QED
  BY <1>1, <1>2, <1>3, <1>4 DEF ProbeInv

\* An outcome keeps the invariant if it names no newer generation left open and
\* leaves nothing unsaid.
LEMMA FinishProbeInv ==
  ASSUME ProbeInv,
         NEW kind \in {"noLegacy", "recovered", "seedLocal", "indeterminate"},
         NEW state \in State, NEW from \in 0..Len(candidates), NEW open \in SUBSET Id,
         Local \in state, kind = "noLegacy" \/ Pointer \notin state,
         Finish(kind, state, from, open),
         UNCHANGED <<lineageVars, app>>,
         hops' \in 0..Len(candidates), denied' \in SUBSET Id, net' \in SUBSET Id,
         from # 0 => \A i \in 1..(from - 1) : Real(i) => candidates[i].id \in open \cup denied',
         \A i \in 1..Len(candidates) :
           \/ ~Real(i)
           \/ candidates[i].id \in state \cup open \cup denied'
           \/ Policy = NewestFirstWins /\ from # 0 /\ i > from
  PROVE  ProbeInv'
<1> USE DEF lineageVars, app
<1>1. /\ phase' = "done" /\ waiting' = FALSE /\ unresolved' = {} /\ local' = {}
      /\ fold' = {} /\ source' = 0
      /\ outcome'.kind = kind /\ outcome'.state = state /\ outcome'.source = from
      /\ outcome'.unresolved = open
  BY DEF Finish
<1>2. outcome' \in Outcomes
  <2>1. Len(candidates) \in Nat
    BY LenProperties DEF ProbeInv, TypeOK
  <2> DEFINE cut == from # 0 /\ Policy = FoldAll /\ hops < Len(candidates)
  <2>2. cut \in BOOLEAN
    OBVIOUS
  <2>3. from \in Nat
    BY <2>1
  <2>4. outcome' = [kind |-> kind, state |-> state, source |-> from,
                    truncatedFold |-> cut, unresolved |-> open]
    BY DEF Finish
  <2> HIDE DEF cut
  <2> QED
    BY <2>2, <2>3, <2>4 DEF Outcomes
<1>3. TypeOK'
  <2>1. candidates' = candidates /\ holds' = holds /\ device' = device /\ forward' = forward
    OBVIOUS
  <2>2. fold' \in State /\ local' \in State /\ unresolved' \subseteq Id
    BY <1>1 DEF State
  <2>3. source' \in 0..hops'
    BY <1>1, LenProperties DEF ProbeInv, TypeOK
  <2> QED
    BY <1>1, <1>2, <2>1, <2>2, <2>3 DEF ProbeInv, TypeOK
<1>4. NewestFirst(candidates)'
  BY DEF ProbeInv, NewestFirst
<1>5. AskedAreAnswered' /\ HitIsNewest'
  BY <1>1 DEF AskedAreAnswered, HitIsNewest
<1>6. OutcomeIsNewest' /\ NothingLeftUnsaid'
  BY <1>1 DEF OutcomeIsNewest, NothingLeftUnsaid, Real, Policy
<1>7. OwnDataKept' /\ ForwardIsPrepared'
  BY <1>1 DEF ProbeInv, OwnDataKept, ForwardIsPrepared
<1> QED
  BY <1>3, <1>4, <1>5, <1>6, <1>7 DEF ProbeInv

\* While the driver probes, an event or a step that keeps it probing keeps the
\* invariant if every position asked stays accounted for.
LEMMA ProbingProbeInv ==
  ASSUME ProbeInv, phase = "probing", phase' = "probing",
         UNCHANGED <<lineageVars, app, local, outcome>>,
         hops' \in 0..Len(candidates), hops <= hops',
         waiting' \in BOOLEAN,
         waiting' => hops' > 0 /\ candidates[hops'].id \in net',
         unresolved \subseteq unresolved', unresolved' \in SUBSET Id,
         denied \subseteq denied', denied' \in SUBSET Id,
         net' \in SUBSET Id,
         fold \subseteq fold', fold' \in State,
         source' = source \/ (source = 0 /\ source' = hops /\ Policy = FoldAll),
         source' = 0 => fold' = {},
         \A i \in 1..hops' : (waiting' /\ i = hops') \/ Answered(i)',
         source # source' =>
           \A i \in 1..(hops - 1) : Real(i) => candidates[i].id \in unresolved \cup denied
  PROVE  ProbeInv'
<1> USE DEF lineageVars, app
<1>1. hops \in 0..Len(candidates) /\ Len(candidates) \in Nat /\ source \in 0..hops
  BY LenProperties DEF ProbeInv, TypeOK
<1>2. TypeOK'
  BY <1>1 DEF ProbeInv, TypeOK, NoOutcome
<1>3. NewestFirst(candidates)'
  BY DEF ProbeInv, NewestFirst
<1>4. AskedAreAnswered'
  BY DEF AskedAreAnswered
<1>5. HitIsNewest'
  BY <1>1 DEF ProbeInv, HitIsNewest, Real, Policy
<1>6. outcome.kind = "none" /\ OutcomeIsNewest
  BY DEF ProbeInv, TypeOK
<1>7. OutcomeIsNewest'
  BY <1>6 DEF OutcomeIsNewest, Real, ProbeInv
<1>8. NothingLeftUnsaid' /\ OwnDataKept' /\ ForwardIsPrepared'
  BY DEF NothingLeftUnsaid, OwnDataKept, ForwardIsPrepared, ProbeInv
<1> QED
  BY <1>2, <1>3, <1>4, <1>5, <1>7, <1>8 DEF ProbeInv

\* What the invariant says of the positions of a driver that is probing.
LEMMA ProbingFacts ==
  ASSUME ProbeInv
  PROVE  /\ candidates \in Seq(Entry) /\ Len(candidates) \in Nat
         /\ \A i \in 1..Len(candidates) : candidates[i].id \in Id
         /\ hops \in 0..Len(candidates) /\ source \in 0..hops
<1>1. candidates \in Seq(Entry) /\ Len(candidates) \in Nat
  BY LenProperties DEF ProbeInv, TypeOK
<1>2. \A i \in 1..Len(candidates) : candidates[i] \in Entry
  BY <1>1, ElementOfSeq
<1> QED
  BY <1>1, <1>2 DEF ProbeInv, TypeOK, Entry

\* Preparing a state keeps the generations it carries.
LEMMA PrepareKeepsIds ==
  ASSUME NEW s \in State
  PROVE  /\ PrepareForward(s) \in State
         /\ \A id \in Id : id \in s => id \in PrepareForward(s)
BY ProbeAssumption DEF PrepareForward, State

\* ProbeDriver::new, with or without candidates.
LEMMA NewProbeInv == ASSUME ProbeInv, New PROVE ProbeInv'
<1> USE DEF lineageVars, app
<1>0. device \in State /\ Local \in device
  BY DEF ProbeInv, TypeOK, OwnDataKept
<1>1. CASE candidates = <<>>
  <2>1. Finish("noLegacy", device, 0, {}) /\ UNCHANGED <<lineageVars, app>> /\ net' = net
    BY <1>1 DEF New
  <2>2. Len(candidates) = 0
    BY <1>1
  <2>3. hops' \in 0..Len(candidates) /\ denied' \in SUBSET Id /\ net' \in SUBSET Id
    BY <2>1, <2>2 DEF New, ProbeInv, TypeOK
  <2>4. \A i \in 1..Len(candidates) : FALSE
    BY <2>2
  <2> QED
    BY <1>0, <2>1, <2>2, <2>3, <2>4, FinishProbeInv
<1>2. CASE candidates # <<>>
  <2>1. /\ phase' = "probing" /\ waiting' = FALSE /\ unresolved' = {} /\ fold' = {}
        /\ source' = 0 /\ local' = device /\ outcome' = NoOutcome
        /\ hops' = 0 /\ denied' = {}
        /\ setup' = setup /\ candidates' = candidates /\ holds' = holds /\ net' = net
        /\ device' = device /\ forward' = forward
    BY <1>2 DEF New
  <2>2. NoOutcome \in Outcomes /\ NoOutcome.kind = "none" /\ NoOutcome.source = 0
    BY DEF NoOutcome, Outcomes, State
  <2>3. TypeOK'
    <3>1. hops' \in 0..Len(candidates') /\ source' \in 0..hops' /\ 0 \in 0..Len(candidates')
      BY <2>1, ProbingFacts
    <3>2. fold' \in State /\ local' \in State
      BY <1>0, <2>1 DEF State
    <3> QED
      BY <1>0, <2>1, <2>2, <3>1, <3>2 DEF ProbeInv, TypeOK
  <2>4. NewestFirst(candidates)'
    BY <2>1 DEF ProbeInv, NewestFirst
  <2>5. AskedAreAnswered' /\ HitIsNewest' /\ OutcomeIsNewest' /\ NothingLeftUnsaid'
    BY <2>1, <2>2 DEF AskedAreAnswered, HitIsNewest, OutcomeIsNewest, NothingLeftUnsaid
  <2>6. OwnDataKept' /\ ForwardIsPrepared'
    BY <1>0, <2>1 DEF OwnDataKept, ForwardIsPrepared, ProbeInv
  <2> QED
    BY <2>3, <2>4, <2>5, <2>6 DEF ProbeInv
<1> QED
  BY <1>1, <1>2

\* A step that leaves the driver and the application alone keeps the invariant:
\* an event that is ignored, a GET sent again.
LEMMA IgnoredProbeInv ==
  ASSUME ProbeInv, UNCHANGED <<lineageVars, driver, app>>,
         net' \in SUBSET Id,
         waiting => candidates[hops].id \in net'
  PROVE  ProbeInv'
<1> USE DEF lineageVars, driver, app
<1>1. TypeOK'
  BY DEF ProbeInv, TypeOK
<1>2. NewestFirst(candidates)' /\ OwnDataKept' /\ ForwardIsPrepared'
  BY DEF ProbeInv, NewestFirst, OwnDataKept, ForwardIsPrepared
<1>3. AskedAreAnswered' /\ HitIsNewest' /\ OutcomeIsNewest' /\ NothingLeftUnsaid'
  BY DEF ProbeInv, AskedAreAnswered, Answered, Real, HitIsNewest, OutcomeIsNewest,
         NothingLeftUnsaid, Policy
<1> QED
  BY <1>1, <1>2, <1>3 DEF ProbeInv

\* The end of a walk, with every candidate asked or left over.
LEMMA ExhaustedProbeInv ==
  ASSUME ProbeInv, phase = "probing", ~waiting, FinishExhausted
  PROVE  ProbeInv'
<1> DEFINE open == unresolved \cup Remaining
<1>1. /\ candidates \in Seq(Entry) /\ Len(candidates) \in Nat
      /\ \A i \in 1..Len(candidates) : candidates[i].id \in Id
      /\ hops \in 0..Len(candidates) /\ source \in 0..hops
  BY ProbingFacts
<1>2. open \in SUBSET Id
  BY <1>1 DEF Remaining, ProbeInv, TypeOK
<1>3. \A i \in 1..Len(candidates) : i > hops => candidates[i].id \in open
  BY <1>1 DEF Remaining
<1>4. \A i \in 1..hops : Answered(i)
  BY DEF ProbeInv, AskedAreAnswered
<1>5. UNCHANGED <<lineageVars, app>> /\ hops' \in 0..Len(candidates)
      /\ denied' = denied /\ denied' \in SUBSET Id /\ net' \in SUBSET Id
  BY <1>1 DEF FinishExhausted, ProbeInv, TypeOK
<1>6. local \in State /\ fold \in State /\ Local \in local
  BY DEF ProbeInv, TypeOK
<1>a. \A s \in State : Local \in s => Local \in PrepareForward(s) /\ Pointer \notin PrepareForward(s)
  BY ProbeAssumption DEF PrepareForward
<1>7. CASE source # 0
  <2> DEFINE state == PrepareForward(MergeWithLocal(fold, local))
  <2>1. Finish("recovered", state, source, open)
    BY <1>7 DEF FinishExhausted
  <2>2. /\ MergeWithLocal(fold, local) \in State /\ Local \in MergeWithLocal(fold, local)
        /\ fold \subseteq MergeWithLocal(fold, local)
    BY <1>6 DEF MergeWithLocal, State
  <2>3. state \in State /\ \A id \in Id : id \in fold => id \in state
    BY <2>2, PrepareKeepsIds
  <2>4. Local \in state /\ Pointer \notin state
    BY <2>2, <1>a
  <2>5. source # 0 => \A i \in 1..(source - 1) : Real(i) => candidates[i].id \in open \cup denied'
    BY <1>5 DEF ProbeInv, HitIsNewest
  <2>6. \A i \in 1..Len(candidates) :
          \/ ~Real(i)
          \/ candidates[i].id \in state \cup open \cup denied'
          \/ Policy = NewestFirstWins /\ source # 0 /\ i > source
    <3> SUFFICES ASSUME NEW i \in 1..Len(candidates), Real(i)
                 PROVE  candidates[i].id \in state \cup open \cup denied'
      OBVIOUS
    <3>1. CASE i > hops
      BY <3>1, <1>3
    <3>2. CASE i \in 1..hops
      BY <3>2, <1>4, <1>1, <1>5, <2>3 DEF Answered
    <3> QED
      BY <3>1, <3>2, <1>1
  <2>7. source \in 0..Len(candidates)
    BY <1>1
  <2> HIDE DEF state, open
  <2> QED
    BY <2>1, <2>3, <2>4, <2>5, <2>6, <2>7, <1>2, <1>5, FinishProbeInv
<1>8. CASE source = 0
  <2> DEFINE state == PrepareForward(local)
  <2>1. \/ Finish("seedLocal", state, 0, open)
        \/ Finish("indeterminate", state, 0, open)
    BY <1>8 DEF FinishExhausted
  <2>2. state \in State /\ Local \in state /\ Pointer \notin state
    BY <1>6, <1>a, PrepareKeepsIds
  <2>3. fold = {}
    BY <1>8 DEF ProbeInv, HitIsNewest
  <2>4. \A i \in 1..Len(candidates) :
          \/ ~Real(i)
          \/ candidates[i].id \in state \cup open \cup denied'
          \/ Policy = NewestFirstWins /\ 0 # 0 /\ i > 0
    <3> SUFFICES ASSUME NEW i \in 1..Len(candidates), Real(i)
                 PROVE  candidates[i].id \in open \cup denied'
      OBVIOUS
    <3>1. CASE i > hops
      BY <3>1, <1>3
    <3>2. CASE i \in 1..hops
      BY <3>2, <1>4, <1>5, <2>3 DEF Answered
    <3> QED
      BY <3>1, <3>2, <1>1
  <2>5. 0 \in 0..Len(candidates)
    BY <1>1
  <2> HIDE DEF state, open
  <2>6. CASE Finish("seedLocal", state, 0, open)
    BY <2>6, <2>2, <2>4, <2>5, <1>2, <1>5, FinishProbeInv
  <2>7. CASE Finish("indeterminate", state, 0, open)
    BY <2>7, <2>2, <2>4, <2>5, <1>2, <1>5, FinishProbeInv
  <2> QED
    BY <2>1, <2>6, <2>7
<1> QED
  BY <1>7, <1>8

\* next_action: asked again, the end of the walk, the next candidate.
LEMMA NextActionProbeInv == ASSUME ProbeInv, NextAction PROVE ProbeInv'
<1>1. /\ candidates \in Seq(Entry) /\ Len(candidates) \in Nat
      /\ \A i \in 1..Len(candidates) : candidates[i].id \in Id
      /\ hops \in 0..Len(candidates) /\ source \in 0..hops
  BY ProbingFacts
<1>2. phase = "probing"
  BY DEF NextAction
<1>3. CASE waiting /\ Ask(candidates[hops].id) /\ UNCHANGED <<lineageVars, driver, app>>
  <2>1. hops \in 1..Len(candidates)
    BY <1>1, <1>3 DEF ProbeInv, TypeOK
  <2>2. net' \in SUBSET Id /\ candidates[hops].id \in net'
    BY <1>1, <1>3, <2>1 DEF Ask, ProbeInv, TypeOK
  <2> QED
    BY <1>3, <2>2, IgnoredProbeInv
<1>4. CASE ~waiting /\ FinishExhausted
  BY <1>2, <1>4, ExhaustedProbeInv
<1>5. CASE /\ ~waiting
           /\ hops < Len(candidates) /\ hops < MaxHops
           /\ hops' = hops + 1 /\ waiting' = TRUE
           /\ Ask(candidates[hops + 1].id)
           /\ UNCHANGED <<lineageVars, phase, unresolved, fold, source, local, outcome, denied, app>>
  <2>1. hops + 1 \in 1..Len(candidates)
    BY <1>1, <1>5
  <2>2. net' \in SUBSET Id /\ candidates[hops'].id \in net'
    BY <1>1, <1>5, <2>1 DEF Ask, ProbeInv, TypeOK
  <2>3. \A i \in 1..hops : Answered(i)
    BY <1>2, <1>5 DEF ProbeInv, AskedAreAnswered
  <2>4. \A i \in 1..hops' : (waiting' /\ i = hops') \/ Answered(i)'
    BY <1>1, <1>5, <2>3 DEF Answered, Real, Policy, lineageVars
  <2>5. /\ unresolved \in SUBSET Id /\ denied \in SUBSET Id /\ fold \in State
        /\ source = 0 => fold = {}
    BY <1>2 DEF ProbeInv, TypeOK, HitIsNewest
  <2> QED
    BY <1>1, <1>2, <1>5, <2>1, <2>2, <2>4, <2>5, ProbingProbeInv
<1> QED
  BY <1>3, <1>4, <1>5 DEF NextAction

\* What holds when an event for the outstanding candidate arrives.
LEMMA ListeningFacts ==
  ASSUME ProbeInv, NEW id \in Id, Listening(id)
  PROVE  /\ phase = "probing" /\ waiting
         /\ hops \in 1..Len(candidates) /\ candidates[hops].id = id
         /\ \A i \in 1..(hops - 1) : Answered(i)
         /\ source = 0 => fold = {}
         /\ source = 0 =>
              \A i \in 1..(hops - 1) : Real(i) => candidates[i].id \in unresolved \cup denied
<1>1. phase = "probing" /\ waiting /\ candidates[hops].id = id
  BY DEF Listening
<1>2. hops \in 1..Len(candidates)
  BY <1>1, ProbingFacts DEF ProbeInv, TypeOK
<1>3. \A i \in 1..(hops - 1) : Answered(i)
  <2> SUFFICES ASSUME NEW i \in 1..(hops - 1) PROVE Answered(i)
    OBVIOUS
  <2>1. i \in 1..hops /\ i # hops
    BY <1>2, ProbingFacts
  <2> QED
    BY <1>1, <2>1 DEF ProbeInv, AskedAreAnswered
<1>4. source = 0 => fold = {}
  BY <1>1 DEF ProbeInv, HitIsNewest
<1> QED
  BY <1>1, <1>2, <1>3, <1>4 DEF Answered

\* After an event the driver goes on: the candidate is accounted for.
LEMMA AdvanceProbeInv ==
  ASSUME ProbeInv, NEW id \in Id, Listening(id),
         phase' = "probing", waiting' = FALSE, hops' = hops,
         UNCHANGED <<lineageVars, app, local, outcome>>,
         unresolved \subseteq unresolved', unresolved' \in SUBSET Id,
         denied \subseteq denied', denied' \in SUBSET Id, net' \in SUBSET Id,
         fold \subseteq fold', fold' \in State,
         source' = source \/ (source = 0 /\ source' = hops /\ Policy = FoldAll),
         source' = 0 => fold' = {},
         \/ holds[id] # "real"
         \/ id \in unresolved' \cup denied'
         \/ Policy = FoldAll /\ id \in fold'
  PROVE  ProbeInv'
<1>1. \A i \in 1..hops' : (waiting' /\ i = hops') \/ Answered(i)'
  <2> SUFFICES ASSUME NEW i \in 1..hops PROVE Answered(i)'
    OBVIOUS
  <2>0. Real(i)' = Real(i) /\ candidates' = candidates /\ Policy' = Policy
    BY DEF Real, Policy, lineageVars
  <2>1. CASE i = hops
    BY <2>0, <2>1, ListeningFacts DEF Answered, Real
  <2>2. CASE i # hops
    <3>1. i \in 1..(hops - 1)
      BY <2>2, ListeningFacts, ProbingFacts
    <3>2. Answered(i)
      BY <3>1, ListeningFacts
    <3> QED
      BY <2>0, <3>2 DEF Answered
  <2> QED
    BY <2>1, <2>2
<1>2. source # source' =>
        \A i \in 1..(hops - 1) : Real(i) => candidates[i].id \in unresolved \cup denied
  BY ListeningFacts
<1>3. phase = "probing" /\ hops \in 0..Len(candidates) /\ hops <= hops'
  BY ListeningFacts, ProbingFacts
<1> QED
  BY <1>1, <1>2, <1>3, ProbingProbeInv

\* A miss: the candidate holds nothing real, or was answered absent.
LEMMA MissProbeInv ==
  ASSUME ProbeInv, NEW id \in Id, Listening(id), Miss, hops' = hops,
         UNCHANGED <<lineageVars, app>>,
         denied \subseteq denied', denied' \in SUBSET Id, net' \in SUBSET Id,
         holds[id] # "real" \/ id \in denied'
  PROVE  ProbeInv'
<1>1. /\ phase' = "probing" /\ waiting' = FALSE
      /\ UNCHANGED <<unresolved, fold, source, local, outcome>>
  BY ListeningFacts DEF Miss
<1>2. unresolved \in SUBSET Id /\ fold \in State /\ (source = 0 => fold = {})
  BY ListeningFacts DEF ProbeInv, TypeOK
<1> QED
  BY <1>1, <1>2, AdvanceProbeInv

\* on_response.
LEMMA OnResponseProbeInv ==
  ASSUME ProbeInv, NEW id \in Id, OnResponse(id), net' \in SUBSET Id,
         ~Listening(id) /\ waiting => candidates[hops].id \in net'
  PROVE  ProbeInv'
<1> USE DEF lineageVars, app
<1>1. CASE ~Listening(id)
  BY <1>1, IgnoredProbeInv DEF OnResponse
<1>2. CASE Listening(id) /\ holds[id] # "real"
  <2>1. Miss /\ hops' = hops /\ denied' = denied /\ UNCHANGED <<lineageVars, app>>
    BY <1>2 DEF OnResponse
  <2>2. denied' \in SUBSET Id
    BY <2>1 DEF ProbeInv, TypeOK
  <2> QED
    BY <1>2, <2>1, <2>2, MissProbeInv
<1>3. CASE Listening(id) /\ holds[id] = "real"
  <2>1. OnHit(id) /\ hops' = hops /\ denied' = denied /\ UNCHANGED <<lineageVars, app>>
    BY <1>3 DEF OnResponse
  <2>2. denied' \in SUBSET Id /\ hops' \in 0..Len(candidates) /\ hops # 0
    BY <1>3, <2>1, ListeningFacts, ProbingFacts DEF ProbeInv, TypeOK
  <2>3. ReadState(id) \in State /\ id \in ReadState(id)
    BY DEF ReadState, State
  <2>4. unresolved \in SUBSET Id /\ fold \in State /\ local \in State /\ Local \in local
    BY <1>3, ListeningFacts DEF ProbeInv, TypeOK
  <2>5. CASE Policy = NewestFirstWins
    <3> DEFINE state == PrepareForward(MergeWithLocal(ReadState(id), local))
    <3>1. Finish("recovered", state, hops, unresolved)
      BY <2>1, <2>5 DEF OnHit, NewestFirstWins, FoldAll
    <3>2. /\ MergeWithLocal(ReadState(id), local) \in State
          /\ id \in MergeWithLocal(ReadState(id), local)
          /\ Local \in MergeWithLocal(ReadState(id), local)
      BY <2>3, <2>4 DEF MergeWithLocal, State
    <3>3. state \in State /\ id \in state
      BY <3>2, PrepareKeepsIds
    <3>4. Local \in state /\ Pointer \notin state
      BY <3>2, ProbeAssumption DEF PrepareForward
    <3>5. \A i \in 1..(hops - 1) : Real(i) => candidates[i].id \in unresolved \cup denied'
      BY <1>3, <2>1, <2>5, ListeningFacts DEF Answered, NewestFirstWins, FoldAll
    <3>6. \A i \in 1..Len(candidates) :
            \/ ~Real(i)
            \/ candidates[i].id \in state \cup unresolved \cup denied'
            \/ Policy = NewestFirstWins /\ hops # 0 /\ i > hops
      <4> SUFFICES ASSUME NEW i \in 1..Len(candidates), Real(i), ~(i > hops)
                   PROVE  candidates[i].id \in state \cup unresolved \cup denied'
        BY <2>2, <2>5
      <4>1. CASE i = hops
        BY <4>1, <1>3, <3>3, ListeningFacts
      <4>2. CASE i \in 1..(hops - 1)
        BY <4>2, <3>5
      <4> QED
        BY <4>1, <4>2, <1>3, ListeningFacts
    <3>7. hops \in 0..Len(candidates)
      BY <1>3, ListeningFacts
    <3> HIDE DEF state
    <3> QED
      BY <2>1, <2>2, <2>4, <3>1, <3>3, <3>4, <3>5, <3>6, <3>7, FinishProbeInv
  <2>6. CASE Policy = FoldAll
    <3>1. /\ fold' = IF source = 0 THEN ReadState(id) ELSE MergeGenerations(fold, ReadState(id))
          /\ source' = IF source = 0 THEN hops ELSE source
          /\ waiting' = FALSE
          /\ UNCHANGED <<phase, unresolved, local, outcome>>
      BY <2>1, <2>6 DEF OnHit, NewestFirstWins, FoldAll
    <3>2. fold \subseteq fold' /\ fold' \in State /\ id \in fold'
      BY <1>3, <2>3, <2>4, <3>1, ListeningFacts DEF MergeGenerations, State
    <3>3. source' # 0
      BY <2>2, <3>1
    <3>4. phase' = "probing"
      BY <1>3, <3>1, ListeningFacts
    <3>5. source' = source \/ (source = 0 /\ source' = hops /\ Policy = FoldAll)
      BY <2>6, <3>1
    <3> QED
      BY <1>3, <2>1, <2>2, <2>4, <2>6, <3>1, <3>2, <3>3, <3>4, <3>5, AdvanceProbeInv
  <2> QED
    BY <2>5, <2>6, ProbeAssumption DEF ProbeInv, TypeOK, Setup, Policy
<1> QED
  BY <1>1, <1>2, <1>3

\* on_absent.
LEMMA OnAbsentProbeInv ==
  ASSUME ProbeInv, NEW id \in Id, OnAbsent(id), net' \in SUBSET Id,
         ~Listening(id) /\ waiting => candidates[hops].id \in net'
  PROVE  ProbeInv'
<1>1. CASE ~Listening(id)
  BY <1>1, IgnoredProbeInv DEF OnAbsent, lineageVars, app
<1>2. CASE Listening(id)
  <2>1. Miss /\ hops' = hops /\ denied' = denied \cup {id} /\ UNCHANGED <<lineageVars, app>>
    BY <1>2 DEF OnAbsent
  <2>2. denied \subseteq denied' /\ denied' \in SUBSET Id /\ id \in denied'
    BY <2>1 DEF ProbeInv, TypeOK
  <2> QED
    BY <1>2, <2>1, <2>2, MissProbeInv
<1> QED
  BY <1>1, <1>2

\* on_unknown: the halt of newest-first-wins, or one more unresolved candidate.
LEMMA OnUnknownProbeInv ==
  ASSUME ProbeInv, NEW id \in Id, OnUnknown(id), net' \in SUBSET Id,
         ~Listening(id) /\ waiting => candidates[hops].id \in net'
  PROVE  ProbeInv'
<1>1. CASE ~Listening(id)
  BY <1>1, IgnoredProbeInv DEF OnUnknown, lineageVars, app
<1>2. CASE Listening(id)
  <2>1. hops' = hops /\ denied' = denied /\ UNCHANGED <<lineageVars, app>>
    BY <1>2 DEF OnUnknown
  <2>2. /\ unresolved \in SUBSET Id /\ denied' \in SUBSET Id /\ fold \in State
        /\ local \in State /\ Local \in local /\ hops' \in 0..Len(candidates)
    BY <1>2, <2>1, ListeningFacts, ProbingFacts DEF ProbeInv, TypeOK
  <2>3. CASE UnknownTerminates
    <3> DEFINE open == (unresolved \cup {id}) \cup Remaining
               state == PrepareForward(local)
    <3>1. Finish("indeterminate", state, 0, open)
      BY <1>2, <2>3 DEF OnUnknown, FinishIndeterminate
    <3>2. open \in SUBSET Id
      BY <2>2, ProbingFacts DEF Remaining
    <3>3. state \in State /\ Local \in state /\ Pointer \notin state
      BY <2>2, PrepareKeepsIds, ProbeAssumption DEF PrepareForward
    <3>4. \A i \in 1..Len(candidates) :
            \/ ~Real(i)
            \/ candidates[i].id \in state \cup open \cup denied'
            \/ Policy = NewestFirstWins /\ 0 # 0 /\ i > 0
      <4> SUFFICES ASSUME NEW i \in 1..Len(candidates), Real(i)
                   PROVE  candidates[i].id \in open \cup denied'
        OBVIOUS
      <4>1. CASE i = hops
        BY <4>1, <1>2, ListeningFacts
      <4>2. CASE i \in 1..(hops - 1)
        <5>1. Policy # FoldAll
          BY <2>3 DEF UnknownTerminates, NewestFirstWins, FoldAll
        <5> QED
          BY <4>2, <5>1, <1>2, <2>1, ListeningFacts DEF Answered
      <4>3. CASE i > hops
        BY <4>3, ProbingFacts DEF Remaining
      <4> QED
        BY <4>1, <4>2, <4>3, <1>2, ListeningFacts, ProbingFacts
    <3>5. 0 \in 0..Len(candidates)
      BY ProbingFacts
    <3> HIDE DEF state, open
    <3> QED
      BY <2>1, <2>2, <3>1, <3>2, <3>3, <3>4, <3>5, FinishProbeInv
  <2>4. CASE ~UnknownTerminates
    <3>1. /\ waiting' = FALSE /\ unresolved' = unresolved \cup {id}
          /\ UNCHANGED <<phase, fold, source, local, outcome>>
      BY <1>2, <2>4 DEF OnUnknown
    <3>2. phase' = "probing" /\ (source' = 0 => fold' = {})
      BY <1>2, <3>1, ListeningFacts
    <3>3. unresolved \subseteq unresolved' /\ unresolved' \in SUBSET Id /\ id \in unresolved'
      BY <2>2, <3>1
    <3> QED
      BY <1>2, <2>1, <2>2, <3>1, <3>2, <3>3, AdvanceProbeInv
  <2> QED
    BY <2>3, <2>4
<1> QED
  BY <1>1, <1>2

\* An answer or a silence, for the outstanding candidate or a late one.
LEMMA EventProbeInv ==
  ASSUME ProbeInv, NEW id \in Id, Answer(id) \/ Silence(id)
  PROVE  ProbeInv'
<1>1. net' \in SUBSET Id
  BY DEF Answer, Silence, Settle, ProbeInv, TypeOK
<1>2. ~Listening(id) /\ waiting => candidates[hops].id \in net'
  BY DEF Answer, Silence, Settle, Listening, ProbeInv, TypeOK
<1>3. OnResponse(id) \/ OnAbsent(id) \/ OnUnknown(id)
  BY DEF Answer, Silence
<1> QED
  BY <1>1, <1>2, <1>3, OnResponseProbeInv, OnAbsentProbeInv, OnUnknownProbeInv

\* take_outcome and the application's adoption.
LEMMA TakeOutcomeProbeInv == ASSUME ProbeInv, TakeOutcome PROVE ProbeInv'
<1> USE DEF lineageVars
<1>1. /\ phase = "done" /\ phase' = "idle" /\ outcome' = NoOutcome
      /\ setup' = setup /\ candidates' = candidates /\ holds' = holds
      /\ hops' = hops /\ waiting' = waiting /\ unresolved' = unresolved /\ fold' = fold
      /\ source' = source /\ local' = local /\ denied' = denied /\ net' = net
  BY DEF TakeOutcome
<1>2. /\ outcome.state \in State /\ Local \in outcome.state
      /\ outcome.kind # "noLegacy" => Pointer \notin outcome.state
      /\ outcome.kind # "none"
  <2>1. outcome \in Outcomes /\ outcome.kind # "none"
    BY <1>1 DEF ProbeInv, TypeOK
  <2> QED
    BY <1>1, <2>1 DEF ProbeInv, OwnDataKept, ForwardIsPrepared, Outcomes
<1>3. device' \in State /\ Local \in device'
  BY <1>2 DEF TakeOutcome, ProbeInv, TypeOK, OwnDataKept
<1>4. forward' = forward \/ (forward' = outcome.state /\ outcome.kind # "noLegacy")
  <2>1. CASE outcome.kind \in {"recovered", "seedLocal"}
    BY <2>1 DEF TakeOutcome
  <2>2. CASE outcome.kind = "indeterminate"
    BY <2>2 DEF TakeOutcome
  <2>3. CASE outcome.kind \notin {"recovered", "seedLocal", "indeterminate"}
    BY <2>3 DEF TakeOutcome
  <2> QED
    BY <2>1, <2>2, <2>3
<1>5. forward' \in State /\ (forward' # {} => Local \in forward' /\ Pointer \notin forward')
  BY <1>2, <1>4 DEF ProbeInv, TypeOK, ForwardIsPrepared
<1>6. NoOutcome \in Outcomes /\ NoOutcome.kind = "none" /\ NoOutcome.source = 0
  BY DEF NoOutcome, Outcomes, State
<1>7. TypeOK'
  <2>1. ~waiting
    BY <1>1 DEF ProbeInv, TypeOK
  <2>2. 0 \in 0..Len(candidates)
    BY ProbingFacts
  <2> QED
    BY <1>1, <1>3, <1>5, <1>6, <2>1, <2>2 DEF ProbeInv, TypeOK
<1>8. NewestFirst(candidates)' /\ OwnDataKept' /\ ForwardIsPrepared'
  BY <1>1, <1>3, <1>5 DEF ProbeInv, NewestFirst, OwnDataKept, ForwardIsPrepared
<1>9. AskedAreAnswered' /\ HitIsNewest' /\ OutcomeIsNewest' /\ NothingLeftUnsaid'
  BY <1>1, <1>6 DEF ProbeInv, AskedAreAnswered, HitIsNewest, Real, OutcomeIsNewest,
                    NothingLeftUnsaid, Policy
<1> QED
  BY <1>7, <1>8, <1>9 DEF ProbeInv

\* The invariant holds in every reachable state.
THEOREM ProbeInvariant == Spec => []ProbeInv
<1>1. ProbeInv /\ [Next]_vars => ProbeInv'
  <2> SUFFICES ASSUME ProbeInv, [Next]_vars PROVE ProbeInv'
    OBVIOUS
  <2>1. CASE New
    BY <2>1, NewProbeInv
  <2>2. CASE NextAction
    BY <2>2, NextActionProbeInv
  <2>3. CASE TakeOutcome
    BY <2>3, TakeOutcomeProbeInv
  <2>4. CASE \E id \in Id : Answer(id) \/ Silence(id)
    BY <2>4, EventProbeInv
  <2>5. CASE UNCHANGED vars
    <3>1. net' \in SUBSET Id /\ (waiting => candidates[hops].id \in net')
      BY <2>5 DEF ProbeInv, TypeOK, vars
    <3> QED
      BY <2>5, <3>1, IgnoredProbeInv DEF vars
  <2> QED
    BY <2>1, <2>2, <2>3, <2>4, <2>5 DEF Next
<1> QED
  BY <1>1, InitProbeInv, PTL DEF Spec

\* The driver never loses its snapshot and asks only for what is under way.
THEOREM TypeCorrect == Spec => []TypeOK
BY ProbeInvariant, PTL DEF ProbeInv

\* Silence is never taken for absence, nor the hop cap or a halt for an answer.
THEOREM NothingLeftUnsaidHolds == Spec => []NothingLeftUnsaid
BY ProbeInvariant, PTL DEF ProbeInv

\* Every path to an outcome prepares what is put forward and keeps own writes.
THEOREM ForwardIsPreparedHolds == Spec => []ForwardIsPrepared
BY ProbeInvariant, PTL DEF ProbeInv

\* No older generation is adopted over one that was not ruled out: what is newer
\* by its generation comes first in the list, and was asked first.
THEOREM NoRollbackHolds == Spec => []NoRollback
<1>1. ProbeInv => NoRollback
  <2> SUFFICES ASSUME ProbeInv, outcome.source # 0, NEW i \in 1..Len(candidates), Real(i),
                      candidates[i].generation > candidates[outcome.source].generation
               PROVE  candidates[i].id \in outcome.unresolved \cup denied
    BY DEF NoRollback
  <2>1. outcome.source \in 1..Len(candidates)
    BY ProbingFacts DEF ProbeInv, TypeOK
  <2>2. /\ candidates[i].generation \in Nat
        /\ candidates[outcome.source].generation \in Nat
    <3>1. candidates[i] \in Entry /\ candidates[outcome.source] \in Entry
      BY <2>1, ProbingFacts, ElementOfSeq
    <3> QED
      BY <3>1 DEF Entry
  <2>3. ~(outcome.source < i) /\ outcome.source # i
    BY <2>1, <2>2 DEF ProbeInv, NewestFirst
  <2>4. i \in 1..(outcome.source - 1)
    BY <2>1, <2>3
  <2> QED
    BY <2>4 DEF ProbeInv, OutcomeIsNewest
<1> QED
  BY <1>1, ProbeInvariant, PTL
===============================================================================
