------------------------ MODULE PointerResolver_proofs ------------------------
(***************************************************************************)
(* The consumer of a pointer never falls behind its floor, for any records, *)
(* peers, late or wrong answers and crashes.                               *)
(***************************************************************************)
EXTENDS PointerResolver, TLAPS

-------------------------------------------------------------------------------
(* Positions.                                                                 *)

\* A position is a version a record can have, and a hash.
LEMMA PositionFields ==
  ASSUME NEW f \in Position
  PROVE  /\ f.version \in Nat /\ f.version > 0 /\ f.hash \in Nat
         /\ f = [version |-> f.version, hash |-> f.hash]
         /\ f # NeverResolved
BY RecordsAssumption DEF Position, At, Record, NeverResolved

\* The position of a record.
LEMMA AtRecord ==
  ASSUME NEW r \in Signed
  PROVE  /\ At(r) \in Position /\ At(r).version = r.version /\ At(r).hash = r.hash
         /\ r.version \in Nat /\ r.version > 0 /\ r.hash \in Nat
         /\ ~IsTombstone(r) => At(r) \in Release
         /\ IsTombstone(r) <=> IsTombstone(At(r))
BY RecordsAssumption DEF Position, Release, At, Record, IsTombstone

\* A release is a position that is no withdrawal, and every such position is one.
LEMMA ReleasePositions ==
  /\ Release \subseteq Position
  /\ \A f \in Position : ~Withdrawn(f) => f \in Release
  /\ \A f \in Release : ~Withdrawn(f)
<1>1. Release \subseteq Position
  BY DEF Release, Position
<1>2. ASSUME NEW f \in Position, ~Withdrawn(f)  PROVE f \in Release
  <2>1. PICK r \in Signed : f = At(r)
    BY <1>2 DEF Position
  <2>2. f.hash # Tombstone
    BY <1>2, PositionFields DEF Withdrawn
  <2>3. ~IsTombstone(r)
    BY <2>1, <2>2, AtRecord DEF IsTombstone
  <2>4. QED  BY <2>1, <2>3, AtRecord
<1>3. ASSUME NEW f \in Release  PROVE ~Withdrawn(f)
  <2>1. PICK r \in Signed : ~IsTombstone(r) /\ f = At(r)
    BY <1>3 DEF Release
  <2>2. QED  BY <2>1, AtRecord DEF IsTombstone, Withdrawn
<1>4. QED  BY <1>1, <1>2, <1>3

\* What runs on a position.
LEMMA RunsOnPosition ==
  ASSUME NEW f \in Position
  PROVE  /\ Withdrawn(f) => RunsOn(f) = Stopped
         /\ ~Withdrawn(f) => RunsOn(f) = f /\ f \in Release
BY PositionFields, ReleasePositions DEF RunsOn

\* The markers of the application are told apart from floors and releases.
LEMMA MarkersDiffer ==
  /\ Release \cap {None, BakedIn, Stopped} = {}
  /\ None \notin Position
  /\ None # BakedIn /\ None # Stopped /\ BakedIn # Stopped
BY ReleasePositions, ResolverAssumption DEF Floor

\* An adopted or confirmed record: what it says, and where it stands.
LEMMA CarryStands ==
  ASSUME NEW r \in Signed, NEW kind \in {"resolved", "unchanged"},
         NotBefore(At(r), floor)
  PROVE  LET o == Carry(kind, r) IN
         /\ o \in [kind : Kinds, at : Floor]
         /\ o.kind \in {"resolved", "unchanged", "withdrawn"}
         /\ o.at = At(r)
         /\ o.kind \in {"resolved", "unchanged"} => o.at \in Release
         /\ o.kind = "withdrawn" => IsTombstone(o.at)
BY AtRecord DEF Carry, Kinds, Floor

\* The anti-rollback order refuses a record, or carries one that is not behind
\* the floor.
LEMMA OrderStands ==
  ASSUME NEW r \in Signed, floor \in Floor
  PROVE  LET o == Order(r) IN
         /\ o \in [kind : Kinds, at : Floor]
         /\ o.kind \in {"resolved", "unchanged", "withdrawn", "stale", "competing"}
         /\ o.kind \in {"resolved", "unchanged"} =>
              o.at \in Release /\ NotBefore(o.at, floor)
         /\ o.kind = "withdrawn" =>
              /\ o.at \in Position /\ IsTombstone(o.at)
              /\ NotBefore(o.at, floor)
<1> USE AtRecord
<1>1. /\ floor.version \in Nat /\ floor.hash \in Nat
      /\ floor = [version |-> floor.version, hash |-> floor.hash]
  BY PositionFields DEF Floor, NeverResolved, Tombstone
<1>2. ASSUME NEW kind \in {"stale", "competing"}
      PROVE  Says(kind) \in [kind : Kinds, at : Floor] /\ Says(kind).kind = kind
  BY DEF Says, Kinds, Floor
<1>3. CASE r.version < floor.version
  BY <1>1, <1>2, <1>3 DEF Order
<1>4. CASE r.version > floor.version
  <2>1. NotBefore(At(r), floor)
    BY <1>4 DEF NotBefore, After
  <2>2. Order(r) = Carry("resolved", r)
    BY <1>1, <1>4 DEF Order
  <2>3. QED  BY <2>1, <2>2, CarryStands
<1>5. CASE r.version = floor.version /\ r.hash < floor.hash
  <2>1. NotBefore(At(r), floor)
    BY <1>5 DEF NotBefore, After
  <2>2. Order(r) = Carry("resolved", r)
    BY <1>1, <1>5 DEF Order
  <2>3. QED  BY <2>1, <2>2, CarryStands
<1>6. CASE r.version = floor.version /\ r.hash = floor.hash
  <2>1. NotBefore(At(r), floor)
    BY <1>1, <1>6 DEF NotBefore, At
  <2>2. Order(r) = Carry("unchanged", r)
    BY <1>1, <1>6 DEF Order
  <2>3. QED  BY <2>1, <2>2, CarryStands
<1>7. CASE r.version = floor.version /\ r.hash > floor.hash
  <2>1. Order(r) = Says("competing")
    BY <1>1, <1>7 DEF Order
  <2>2. QED  BY <1>2, <2>1
<1>8. QED  BY <1>1, <1>3, <1>4, <1>5, <1>6, <1>7

\* An answer the resolver accepts leaves it with an outcome that stands.
LEMMA AnswerStands ==
  ASSUME TypeOK, NEW body \in Body \cup {Absent},
         IF body = Absent THEN OnAbsent ELSE OnResponse(body)
  PROVE  /\ phase' = "done" /\ armed' = FALSE
         /\ outcome' \in [kind : Kinds, at : Floor] /\ outcome'.kind # "none"
         /\ UNCHANGED floor => OutcomeStands'
<1> DEFINE Stands(o) ==
             /\ o.kind \in {"resolved", "unchanged"} => o.at \in Release /\ NotBefore(o.at, floor)
             /\ o.kind = "withdrawn" =>
                  o.at \in Position /\ IsTombstone(o.at) /\ NotBefore(o.at, floor)
             /\ o.kind = "neverPublished" => floor = NeverResolved
<1>1. ASSUME NEW kind \in {"neverPublished", "unavailable", "rejected"},
             kind = "neverPublished" => floor = NeverResolved
      PROVE  /\ Says(kind) \in [kind : Kinds, at : Floor] /\ Says(kind).kind = kind
             /\ Stands(Says(kind))
  BY <1>1 DEF Says, Kinds, Floor
<1>2. CASE body = Absent
  BY <1>1, <1>2 DEF OnAbsent, Finish, OutcomeStands
<1>3. CASE body # Absent /\ ~Usable(body)
  <2>1. OnResponse(body) /\ (body = Empty \/ body = Garbage)
    BY <1>3 DEF Body, Usable
  <2>2. CASE body = Empty
    BY <1>1, <2>1, <2>2, RecordsAssumption DEF OnResponse, Finish, OutcomeStands, Usable
  <2>3. CASE body = Garbage
    BY <1>1, <2>1, <2>3, RecordsAssumption DEF OnResponse, Finish, OutcomeStands, Usable
  <2>4. QED  BY <2>1, <2>2, <2>3
<1>4. CASE body # Absent /\ Usable(body)
  <2>1. /\ body \in Signed /\ body # Empty /\ body # Garbage
        /\ floor \in Floor
    BY <1>4, RecordsAssumption DEF Usable, TypeOK
  <2>2. Finish(Order(body))
    BY <1>4, <2>1 DEF OnResponse
  <2>3. QED  BY <2>1, <2>2, OrderStands DEF Finish, OutcomeStands
<1>5. QED  BY <1>2, <1>3, <1>4

-------------------------------------------------------------------------------

\* Every step keeps the invariant.
LEMMA ResolverStep == ResolverInv /\ [ConsumerNext]_rvars => ResolverInv'
<1> SUFFICES ASSUME ResolverInv, [ConsumerNext]_rvars PROVE ResolverInv'
  OBVIOUS
<1>a. TypeOK /\ OutcomeStands /\ PendingStands /\ KeyStands
  BY DEF ResolverInv
<1>b. NoOutcome \in [kind : Kinds, at : Floor]
  BY DEF NoOutcome, Kinds, Floor
<1>1. ASSUME UNCHANGED <<floor, outcome, pending, key>> PROVE (OutcomeStands /\ PendingStands /\ KeyStands)'
  BY <1>a, <1>1 DEF OutcomeStands, PendingStands, KeyStands
<1>2. CASE UNCHANGED rvars
  BY <1>a, <1>1, <1>2 DEF rvars, resolver, transit, app, TypeOK, ResolverInv
<1>3. CASE New
  BY <1>a, <1>1, <1>3 DEF New, transit, app, TypeOK, ResolverInv
<1>4. CASE NextAction
  BY <1>a, <1>1, <1>4 DEF NextAction, app, TypeOK, ResolverInv
<1>5. CASE OnUnreachable
  <2>1. outcome' = Says("unavailable") /\ phase' = "done" /\ armed' = FALSE /\ pending = None
    BY <1>a, <1>5 DEF OnUnreachable, Finish, Accepts, TypeOK
  <2>2. UNCHANGED <<state, floor, key, pending, asked, reply>>
    BY <1>5 DEF OnUnreachable, transit, app
  <2>3. TypeOK'
    BY <1>a, <2>1, <2>2 DEF TypeOK, Says, Kinds, Floor
  <2>4. OutcomeStands'
    BY <2>1 DEF OutcomeStands, Says
  <2>5. PendingStands' /\ KeyStands'
    BY <1>a, <2>2 DEF PendingStands, KeyStands
  <2>6. QED  BY <2>3, <2>4, <2>5 DEF ResolverInv
<1>6. CASE Arrive
  <2>1. UNCHANGED <<state, asked, floor, key, pending>> /\ reply' = None /\ reply \in Body \cup {Absent}
    BY <1>a, <1>6 DEF Arrive, app, TypeOK
  <2>2. PendingStands' /\ KeyStands'
    BY <1>a, <2>1 DEF PendingStands, KeyStands
  <2>3. CASE ~Accepts
    BY <1>a, <1>1, <1>6, <2>1, <2>3 DEF Arrive, resolver, TypeOK, ResolverInv
  <2>4. CASE Accepts
    <3>1. pending = None
      BY <1>a, <2>4 DEF Accepts, TypeOK
    <3>2. IF reply = Absent THEN OnAbsent ELSE OnResponse(reply)
      BY <1>6, <2>4 DEF Arrive
    <3>3. /\ phase' = "done" /\ armed' = FALSE
          /\ outcome' \in [kind : Kinds, at : Floor] /\ outcome'.kind # "none"
          /\ OutcomeStands'
      BY <1>a, <2>1, <3>2, AnswerStands
    <3>4. TypeOK'
      BY <1>a, <2>1, <3>1, <3>3 DEF TypeOK
    <3>5. QED  BY <2>2, <3>3, <3>4 DEF ResolverInv
  <2>5. QED  BY <2>3, <2>4
<1>7. ASSUME NEW p \in Peer, Serve(p) PROVE ResolverInv'
  BY <1>a, <1>1, <1>7 DEF Serve, Answers, resolver, app, TypeOK, Body, ResolverInv
<1>8. CASE TakeOutcome
  <2>1. /\ phase = "done" /\ phase' = "idle" /\ outcome' = NoOutcome
        /\ UNCHANGED <<state, armed, asked, reply, floor>>
        /\ armed = FALSE /\ pending = None
    BY <1>a, <1>8 DEF TakeOutcome, TypeOK, transit
  <2>2. OutcomeStands'
    BY <2>1 DEF OutcomeStands, NoOutcome
  <2>3. CASE outcome.kind \in {"resolved", "unchanged"}
    <3>1. key' = outcome.at /\ pending' = outcome.at
      BY <1>8, <2>3 DEF TakeOutcome, NextFloor
    <3>2. outcome.at \in Release /\ outcome.at \in Position /\ NotBefore(outcome.at, floor)
      BY <1>a, <2>3, ReleasePositions DEF OutcomeStands
    <3>3. RunsOn(outcome.at) = outcome.at
      BY <3>2, RunsOnPosition, ReleasePositions
    <3>4. PendingStands' /\ KeyStands'
      BY <2>1, <3>1, <3>2, <3>3, MarkersDiffer DEF PendingStands, KeyStands
    <3>5. TypeOK'
      BY <1>a, <1>b, <2>1, <3>1, <3>2 DEF TypeOK, NoOutcome
    <3>6. QED  BY <2>2, <3>4, <3>5 DEF ResolverInv
  <2>4. CASE outcome.kind = "withdrawn"
    <3>1. key' = Stopped /\ pending' = outcome.at
      BY <1>8, <2>4 DEF TakeOutcome, NextFloor
    <3>2. outcome.at \in Position /\ IsTombstone(outcome.at) /\ NotBefore(outcome.at, floor)
      BY <1>a, <2>4 DEF OutcomeStands
    <3>3. Withdrawn(outcome.at) /\ RunsOn(outcome.at) = Stopped
      BY <3>2, RunsOnPosition, PositionFields DEF Withdrawn, IsTombstone
    <3>4. PendingStands' /\ KeyStands'
      BY <2>1, <3>1, <3>2, <3>3, MarkersDiffer DEF PendingStands, KeyStands
    <3>5. TypeOK'
      BY <1>a, <1>b, <2>1, <3>1, <3>2 DEF TypeOK, NoOutcome
    <3>6. QED  BY <2>2, <3>4, <3>5 DEF ResolverInv
  <2>5. CASE outcome.kind = "neverPublished"
    <3>1. key' = BakedIn /\ pending' = None /\ floor = NeverResolved
      BY <1>a, <1>8, <2>5 DEF TakeOutcome, NextFloor, OutcomeStands
    <3>2. PendingStands' /\ KeyStands'
      BY <2>1, <3>1, MarkersDiffer DEF PendingStands, KeyStands
    <3>3. TypeOK'
      BY <1>a, <1>b, <2>1, <3>1 DEF TypeOK, NoOutcome
    <3>4. QED  BY <2>2, <3>2, <3>3 DEF ResolverInv
  <2>6. CASE outcome.kind \notin {"resolved", "unchanged", "withdrawn", "neverPublished"}
    <3>1. key' = key /\ pending' = None
      BY <1>8, <2>6 DEF TakeOutcome, NextFloor
    <3>2. PendingStands' /\ KeyStands'
      BY <1>a, <2>1, <3>1 DEF PendingStands, KeyStands
    <3>3. TypeOK'
      BY <1>a, <1>b, <2>1, <3>1 DEF TypeOK, NoOutcome
    <3>4. QED  BY <2>2, <3>2, <3>3 DEF ResolverInv
  <2>7. QED  BY <2>3, <2>4, <2>5, <2>6
<1>9. CASE Persist
  <2>1. /\ pending \in Position /\ floor' = pending /\ pending' = None
        /\ UNCHANGED <<state, phase, armed, outcome, asked, reply, key>>
        /\ phase = "idle" /\ key = RunsOn(pending)
    BY <1>a, <1>9 DEF Persist, resolver, transit, TypeOK, PendingStands
  <2>2. TypeOK'
    BY <1>a, <2>1 DEF TypeOK, Floor
  <2>3. OutcomeStands'
    <3>1. outcome' = outcome /\ outcome.kind = "none"
      BY <1>a, <2>1 DEF TypeOK
    <3>2. QED  BY <3>1 DEF OutcomeStands
  <2>4. PendingStands'
    BY <2>1 DEF PendingStands
  <2>5. KeyStands'
    <3>1. CASE Withdrawn(pending)
      BY <2>1, <3>1, RunsOnPosition, MarkersDiffer DEF KeyStands
    <3>2. CASE ~Withdrawn(pending)
      <4>1. key = pending /\ key \in Release
        BY <2>1, <3>2, RunsOnPosition
      <4>2. QED  BY <2>1, <4>1, MarkersDiffer DEF KeyStands, NotBefore
    <3>3. QED  BY <3>1, <3>2
  <2>6. QED  BY <2>2, <2>3, <2>4, <2>5 DEF ResolverInv
<1>10. CASE Restart
  <2>1. /\ key' = RunsOn(floor) /\ phase' = "idle" /\ armed' = FALSE /\ outcome' = NoOutcome
        /\ asked' = FALSE /\ reply' = None /\ pending' = None
        /\ UNCHANGED <<state, floor>> /\ floor \in Floor
    BY <1>a, <1>10 DEF Restart, TypeOK
  <2>2. \/ floor = NeverResolved /\ key' = None
        \/ floor \in Position /\ Withdrawn(floor) /\ key' = Stopped
        \/ floor \in Position /\ key' = floor /\ key' \in Release
    <3>1. CASE floor = NeverResolved
      BY <2>1, <3>1 DEF RunsOn, Withdrawn
    <3>2. CASE floor \in Position /\ Withdrawn(floor)
      BY <2>1, <3>2, RunsOnPosition
    <3>3. CASE floor \in Position /\ ~Withdrawn(floor)
      BY <2>1, <3>3, RunsOnPosition
    <3>4. QED  BY <2>1, <3>1, <3>2, <3>3 DEF Floor
  <2>3. TypeOK'
    BY <1>a, <1>b, <2>1, <2>2 DEF TypeOK, NoOutcome
  <2>4. KeyStands'
    BY <2>1, <2>2, MarkersDiffer DEF KeyStands, NotBefore
  <2>5. OutcomeStands' /\ PendingStands'
    BY <2>1 DEF OutcomeStands, PendingStands, NoOutcome
  <2>6. QED  BY <2>3, <2>4, <2>5 DEF ResolverInv
<1>11. CASE Next /\ UNCHANGED <<resolver, transit, app>>
  <2>1. UNCHANGED <<floor, key, pending, phase, armed, outcome, asked, reply>>
    BY <1>11 DEF resolver, transit, app
  <2>2. state' \in [Peer -> Body]
    BY <1>a, <1>11 DEF TypeOK, Next, Deliver, Lose, Body, Merge
  <2>3. QED  BY <1>a, <1>1, <2>1, <2>2 DEF TypeOK, ResolverInv
<1>12. QED
  BY <1>2, <1>3, <1>4, <1>5, <1>6, <1>7, <1>8, <1>9, <1>10, <1>11 DEF ConsumerNext, ResolverNext

\* The inductive invariant holds.
THEOREM ResolverInvariant == ConsumerSpec => []ResolverInv
<1>1. ResolverInit => ResolverInv
  <2> SUFFICES ASSUME ResolverInit  PROVE ResolverInv
    OBVIOUS
  <2>1. NoOutcome \in [kind : Kinds, at : Floor] /\ NoOutcome.kind = "none"
    BY DEF NoOutcome, Kinds, Floor
  <2>2. state \in [Peer -> Body]
    BY DEF ResolverInit, Init, Body
  <2>3. TypeOK
    BY <2>1, <2>2 DEF ResolverInit, TypeOK, Floor
  <2>4. OutcomeStands /\ PendingStands
    BY <2>1 DEF ResolverInit, OutcomeStands, PendingStands
  <2>5. KeyStands
    BY MarkersDiffer DEF ResolverInit, KeyStands
  <2>6. QED  BY <2>3, <2>4, <2>5 DEF ResolverInv
<1>2. QED  BY <1>1, ResolverStep, PTL DEF ConsumerSpec

\* The resolver and its application keep their shape.
THEOREM TypeCorrect == ConsumerSpec => []TypeOK
BY ResolverInvariant, PTL DEF ResolverInv

\* The application runs on nothing its floor superseded, and on the build-time key
\* only while nothing ever resolved.
THEOREM KeyStandsHolds == ConsumerSpec => []KeyStands
BY ResolverInvariant, PTL DEF ResolverInv

\* Anti-rollback: the persisted floor only moves up.
THEOREM FloorNeverFallsHolds == ConsumerSpec => FloorNeverFalls
<1>1. ResolverInv /\ [ConsumerNext]_rvars => [NotBefore(floor', floor)]_floor
  <2> SUFFICES ASSUME ResolverInv, [ConsumerNext]_rvars, floor' # floor
               PROVE  NotBefore(floor', floor)
    OBVIOUS
  <2>1. Persist
    BY DEF ConsumerNext, ResolverNext, New, NextAction, OnUnreachable, Arrive, Serve,
       TakeOutcome, Restart, rvars, app
  <2>2. QED  BY <2>1 DEF Persist, ResolverInv, PendingStands
<1>2. QED  BY <1>1, ResolverInvariant, PTL DEF ConsumerSpec, FloorNeverFalls
===============================================================================
