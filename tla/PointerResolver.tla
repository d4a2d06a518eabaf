---------------------------- MODULE PointerResolver ----------------------------
(***************************************************************************)
(* A consumer of the pointer: the sans-IO PointerResolver, the application *)
(* that pumps it and persists its floor, and the network it asks.          *)
(*                                                                         *)
(* A resolution is one GET, answered by any peer with whatever it holds,   *)
(* also too late: the answer may arrive after the timer, at the next       *)
(* resolution of the same pointer.  The application may die at any point,  *)
(* between an outcome and the floor it should persist included.            *)
(***************************************************************************)
EXTENDS PointerNetwork

CONSTANTS
  None,     \* no answer, nothing to persist, nothing to run on yet
  BakedIn,  \* the build-time key
  Stopped,  \* the app was withdrawn
  Absent    \* a real negative answer

VARIABLES
  floor,   \* the floor the application persisted
  key,     \* what the application runs on
  phase,   \* "idle" (no resolver), "fetching" or "done"
  armed,   \* the resolver has issued its GET and no event landed
  asked,   \* GETs of this process a peer may still answer
  reply,   \* the answer on its way; a later one takes its place
  outcome, \* of a finished resolution
  pending  \* the floor to persist, taken from an outcome

resolver == <<phase, armed, outcome>>
transit  == <<asked, reply>>
app      == <<floor, key, pending>>
rvars    == <<state, resolver, transit, app>>

\* What a floor holds of a record: its version and its hash.
At(record) == [version |-> record.version, hash |-> record.hash]
Position == {At(r) : r \in Signed}
NeverResolved == [version |-> 0, hash |-> Tombstone]
Floor == Position \cup {NeverResolved}

Withdrawn(f) == f # NeverResolved /\ f.hash = Tombstone

\* The releases there are to run on.
Release == {At(r) : r \in {s \in Signed : ~IsTombstone(s)}}

ASSUME ResolverAssumption ==
  /\ {None, Absent} \cap Body = {} /\ None # Absent
  /\ {None, BakedIn, Stopped} \cap Floor = {}
  /\ None # BakedIn /\ None # Stopped /\ BakedIn # Stopped

\* The order of positions: what supersedes a floor.
After(r, q) == r.version > q.version \/ (r.version = q.version /\ r.hash < q.hash)

NotBefore(r, q) == r = q \/ After(r, q)

NoOutcome == [kind |-> "none", at |-> NeverResolved]
Says(kind) == [kind |-> kind, at |-> NeverResolved]

ResolverInit ==
  /\ Init
  /\ floor = NeverResolved
  /\ key = None
  /\ phase = "idle" /\ armed = FALSE /\ outcome = NoOutcome
  /\ asked = FALSE /\ reply = None
  /\ pending = None

-------------------------------------------------------------------------------
(* The resolver.                                                              *)

New ==
  /\ phase = "idle" /\ pending = None
  /\ phase' = "fetching"
  /\ armed' = FALSE
  /\ UNCHANGED <<state, outcome, transit, app>>

\* Asked again before an event lands it issues the same GET again.
NextAction ==
  /\ phase = "fetching"
  /\ armed' = TRUE
  /\ asked' = TRUE
  /\ UNCHANGED <<state, phase, outcome, reply, app>>

Accepts == phase = "fetching" /\ armed

Finish(result) ==
  /\ phase' = "done"
  /\ armed' = FALSE
  /\ outcome' = result

\* A record that carries the tombstone withdraws the app.
Carry(kind, record) ==
  [kind |-> IF IsTombstone(record) THEN "withdrawn" ELSE kind, at |-> At(record)]

\* Mutant: a record of the floor's own version is adopted whatever its hash.
Order_VersionOnly(record) ==
  IF record.version >= floor.version THEN Carry("resolved", record) ELSE Says("stale")

\* Mutant: a competing record is refused, whichever of the two wins.
Order_RefusesCompeting(record) ==
  CASE record.version < floor.version -> Says("stale")
    [] record.version > floor.version -> Carry("resolved", record)
    [] record.version = floor.version ->
         IF record.hash = floor.hash THEN Carry("unchanged", record) ELSE Says("competing")

\* Anti-rollback, over a record that verified: it supersedes the floor, is the
\* floor's own, or is refused.  Nothing is taken from the floor but the order.
Order(record) ==
  CASE record.version < floor.version -> Says("stale")
    [] record.version > floor.version -> Carry("resolved", record)
    [] record.version = floor.version ->
         CASE record.hash < floor.hash -> Carry("resolved", record)
           [] record.hash = floor.hash -> Carry("unchanged", record)
           [] record.hash > floor.hash -> Says("competing")

OnResponse(body) ==
  Finish(CASE body = Empty -> Says("unavailable")
           [] body = Garbage -> Says("rejected")
           [] Usable(body) -> Order(body))

\* Mutant: absence is believed whatever was resolved before.
OnAbsent_Believed == Finish(Says("neverPublished"))

OnAbsent ==
  Finish(IF floor = NeverResolved THEN Says("neverPublished") ELSE Says("unavailable"))

OnUnreachable ==
  /\ Accepts
  /\ Finish(Says("unavailable"))
  /\ UNCHANGED <<state, transit, app>>

-------------------------------------------------------------------------------
(* The network.  A peer without the contract says so, or sends an empty body. *)

Answers(body) == IF body = Empty THEN {Absent, Empty} ELSE {body}

Serve(p) ==
  /\ asked
  /\ asked' = FALSE
  /\ reply' \in Answers(state[p])
  /\ UNCHANGED <<state, resolver, app>>

\* The answer arrives; one the resolver does not accept is dropped.
Arrive ==
  /\ reply # None
  /\ reply' = None
  /\ IF ~Accepts THEN UNCHANGED resolver
     ELSE IF reply = Absent THEN OnAbsent
     ELSE OnResponse(reply)
  /\ UNCHANGED <<state, asked, app>>

-------------------------------------------------------------------------------
(* The application, as the documentation of the resolver has it.              *)

\* Mutant: a withdrawal moves no floor.
NextFloor_SkipsWithdrawal ==
  IF outcome.kind \in {"resolved", "unchanged"} THEN outcome.at ELSE None

NextFloor ==
  IF outcome.kind \in {"resolved", "unchanged", "withdrawn"} THEN outcome.at ELSE None

\* What runs on a floor: the release accepted at it, or nothing.
RunsOn(position) ==
  CASE position = NeverResolved -> None
    [] Withdrawn(position) -> Stopped
    [] OTHER -> position

TakeOutcome ==
  /\ phase = "done"
  /\ phase' = "idle"
  /\ outcome' = NoOutcome
  /\ pending' = NextFloor
  /\ key' = CASE outcome.kind \in {"resolved", "unchanged"} -> outcome.at
              [] outcome.kind = "withdrawn" -> Stopped
              [] outcome.kind = "neverPublished" -> BakedIn
              [] OTHER -> key
  /\ UNCHANGED <<state, armed, transit, floor>>

Persist ==
  /\ pending # None
  /\ floor' = pending
  /\ pending' = None
  /\ UNCHANGED <<state, resolver, transit, key>>

\* The application dies and comes back with the floor it persisted.
Restart ==
  /\ key' = RunsOn(floor)
  /\ phase' = "idle" /\ armed' = FALSE /\ outcome' = NoOutcome
  /\ asked' = FALSE /\ reply' = None
  /\ pending' = None
  /\ UNCHANGED <<state, floor>>

ResolverNext ==
  \/ New \/ NextAction \/ OnUnreachable \/ Arrive
  \/ (\E p \in Peer : Serve(p))
  \/ TakeOutcome \/ Persist \/ Restart

ConsumerNext == ResolverNext \/ (Next /\ UNCHANGED <<resolver, transit, app>>)

ConsumerSpec == ResolverInit /\ [][ConsumerNext]_rvars

\* The peers catch up with each other; the application resolves again and again
\* until it is told to stop; now and again a GET is answered before its timer.
FairConsumerSpec ==
  /\ ConsumerSpec
  /\ \A p, q \in Peer : WF_rvars(Sync(p, q) /\ UNCHANGED <<resolver, transit, app>>)
  /\ SF_rvars(New /\ key # Stopped) /\ SF_rvars(NextAction)
  /\ SF_rvars(TakeOutcome) /\ SF_rvars(Persist)
  /\ SF_rvars(Accepts /\ \E p \in Peer : Serve(p))
  /\ SF_rvars(Accepts /\ Arrive)

-------------------------------------------------------------------------------
(* Properties.                                                                *)

Kinds == {"none", "resolved", "unchanged", "withdrawn", "competing", "stale",
          "neverPublished", "unavailable", "rejected"}

TypeOK ==
  /\ state \in [Peer -> Body]
  /\ floor \in Floor
  /\ key \in Release \cup {None, BakedIn, Stopped}
  /\ phase \in {"idle", "fetching", "done"}
  /\ armed \in BOOLEAN /\ (armed => phase = "fetching")
  /\ asked \in BOOLEAN
  /\ reply \in Body \cup {Absent, None}
  /\ outcome \in [kind : Kinds, at : Floor]
  /\ (outcome.kind = "none") <=> (phase # "done")
  /\ pending \in Position \cup {None}
  /\ pending # None => phase = "idle"

\* Anti-rollback: the floor only moves up the order of releases, whichever peer
\* answers, however late its answer is, and wherever the application died.
FloorNeverFalls == [][NotBefore(floor', floor)]_floor

\* What the application runs on agrees with what it knows: no release its floor
\* superseded or withdrew, and the build-time key only while nothing ever resolved.
\* It stops only for a withdrawal it verified.
KeyStands ==
  /\ key \in Release => NotBefore(key, floor)
  /\ key \in {None, BakedIn} => floor = NeverResolved
  /\ key = Stopped => Withdrawn(floor) \/ (pending # None /\ Withdrawn(pending))

LosesRecord == \E p \in Peer : Usable(state[p]) /\ ~Usable(state'[p])

\* A step in which the application dies over a resolution, its outcome, or the
\* floor it had to persist.
LosesWork ==
  \/ phase = "fetching" /\ phase' = "idle"
  \/ phase = "done" /\ phase' = "idle" /\ pending' # NextFloor
  \/ pending # None /\ pending' = None /\ floor' # pending

\* Once peers keep their copies and the application stays up, it gets to the network's
\* release, or past it (another peer held a winning record and lost it), unless it
\* was told to stop.
CatchesUp ==
  (<>[][~LosesRecord /\ ~LosesWork]_rvars) =>
    <>[](\/ Withdrawn(floor)
         \/ \A p \in Peer : Usable(state[p]) => NotBefore(floor, At(state[p])))
-------------------------------------------------------------------------------
(* The inductive invariant, in parts.                                         *)

\* An outcome that moves the floor, or the application, is not behind the floor
\* it was given.
OutcomeStands ==
  /\ outcome.kind \in {"resolved", "unchanged"} =>
       outcome.at \in Release /\ NotBefore(outcome.at, floor)
  /\ outcome.kind = "withdrawn" =>
       /\ outcome.at \in Position /\ IsTombstone(outcome.at)
       /\ NotBefore(outcome.at, floor)
  /\ outcome.kind = "neverPublished" => floor = NeverResolved

\* The application already runs on the floor it has to persist.
PendingStands == pending # None => NotBefore(pending, floor) /\ key = RunsOn(pending)

ResolverInv == TypeOK /\ OutcomeStands /\ PendingStands /\ KeyStands
===============================================================================
