---------------------------- MODULE PointerContract ----------------------------
(***************************************************************************)
(* The pointer contract on the peers that replicate it, and the            *)
(* anti-entropy that drives its entry points: a peer sends its summary, one *)
(* that sees a difference answers with the delta it owes, and the delta is *)
(* merged.                                                                 *)
(*                                                                         *)
(* There is a link from every peer to every other.  It carries one message *)
(* at a time: a later one takes the place of an earlier one, a message may *)
(* be lost or handled twice, and by the time it is handled both peers may  *)
(* have moved on.                                                          *)
(***************************************************************************)
EXTENDS PointerRecords, Sequences

CONSTANT Peer

VARIABLES
  state,  \* state[p]: the bytes peer p stores for the pointer
  link    \* link[<<p, q>>]: what is on its way from p to q

vars == <<state, link>>

Link == {pq \in Peer \X Peer : pq[1] # pq[2]}

NoMessage == [kind |-> "none", body |-> Empty]
Summary(body) == [kind |-> "summary", body |-> body]
Delta(body) == [kind |-> "delta", body |-> body]

-------------------------------------------------------------------------------
(* The entry points of the contract.                                          *)

ValidateState(body) == Usable(body)

\* Unusable local state is no state.
Kept(local) == IF Usable(local) THEN local ELSE Empty

\* Mutant: the newest delivery replaces what is stored.
Absorb_Overwrites(best, body) == IF body = Empty THEN best ELSE body

\* An empty payload is no candidate.
Absorb(best, body) ==
  IF body = Empty THEN best ELSE IF best = Empty THEN body ELSE Merge(best, body)

\* update_state over two updates, either of which may be empty: its result, or
\* what was stored when it answers with an error.  One candidate that does not
\* verify refuses the whole call.
UpdateState(local, first, second) ==
  IF Garbage \in {first, second} \/ (Kept(local) = Empty /\ first = Empty /\ second = Empty)
  THEN local
  ELSE Absorb(Absorb(Kept(local), first), second)

\* Mutant: the summary is the version.
SummarizeState_Version(body) ==
  IF Usable(body) THEN CHOOSE r \in Signed : r.version = body.version ELSE Empty

SummarizeState(body) == Kept(body)

\* The whole record, to whom it is owed.
GetStateDelta(local, summary) ==
  IF Usable(local) /\ (Usable(summary) => Merge(summary, local) # summary)
  THEN local
  ELSE Empty

-------------------------------------------------------------------------------
(* The node that calls them.                                                  *)

Init ==
  /\ state = [p \in Peer |-> Empty]
  /\ link = [pq \in Link |-> NoMessage]

\* A PUT at a peer that does not hold the contract yet.
Put(p, body) ==
  /\ state[p] = Empty
  /\ ValidateState(body)
  /\ state' = [state EXCEPT ![p] = body]
  /\ UNCHANGED link

\* A PUT at one that does, or an update, as a batch of at most two.
Update(p, first, second) ==
  /\ state[p] # Empty
  /\ state' = [state EXCEPT ![p] = UpdateState(@, first, second)]
  /\ UNCHANGED link

Heartbeat(p, q) ==
  /\ link[<<p, q>>] = NoMessage
  /\ link' = [link EXCEPT ![<<p, q>>] = Summary(SummarizeState(state[p]))]
  /\ UNCHANGED state

\* The message from p reaches q, and stays on the link if it comes again.
Consume(p, q, again) == IF again THEN link ELSE [link EXCEPT ![<<p, q>>] = NoMessage]

\* Summaries that are the same byte for byte end the exchange; an empty delta
\* is not sent.
OnSummary(p, q, again) ==
  /\ link[<<p, q>>].kind = "summary"
  /\ LET theirs == link[<<p, q>>].body
         delta == IF theirs = SummarizeState(state[q]) THEN Empty
                  ELSE GetStateDelta(state[q], theirs)
     IN link' = IF delta = Empty THEN Consume(p, q, again)
                ELSE [Consume(p, q, again) EXCEPT ![<<q, p>>] = Delta(delta)]
  /\ UNCHANGED state

OnDelta(p, q, again) ==
  /\ link[<<p, q>>].kind = "delta"
  /\ state' = [state EXCEPT ![q] = UpdateState(@, link[<<p, q>>].body, Empty)]
  /\ link' = Consume(p, q, again)

Drop(p, q) ==
  /\ link[<<p, q>>] # NoMessage
  /\ link' = [link EXCEPT ![<<p, q>>] = NoMessage]
  /\ UNCHANGED state

\* A peer that evicted the contract, or whose store is damaged.
Lose(p) ==
  /\ \E lost \in {Empty, Garbage} : state' = [state EXCEPT ![p] = lost]
  /\ UNCHANGED link

Next ==
  \/ \E p \in Peer :
       \/ \E body \in Body : Put(p, body)
       \/ \E first, second \in Body : Update(p, first, second)
       \/ Lose(p)
  \/ \E pq \in Link :
       \/ Heartbeat(pq[1], pq[2])
       \/ \E again \in BOOLEAN : OnSummary(pq[1], pq[2], again) \/ OnDelta(pq[1], pq[2], again)
       \/ Drop(pq[1], pq[2])

Spec == Init /\ [][Next]_vars

\* Heartbeats go on, and what is sent over and over again arrives: a link loses
\* messages, but not every one.
FairSpec ==
  /\ Spec
  /\ \A pq \in Link :
       /\ SF_vars(Heartbeat(pq[1], pq[2]))
       /\ SF_vars(OnSummary(pq[1], pq[2], FALSE))
       /\ SF_vars(OnDelta(pq[1], pq[2], FALSE))

-------------------------------------------------------------------------------
(* Properties.                                                                *)

Message == [kind : {"none", "summary", "delta"}, body : Signed \cup {Empty}]

TypeOK ==
  /\ state \in [Peer -> Body]
  /\ link \in [Link -> Message]
  /\ \A pq \in Link : link[pq].kind = "delta" => Usable(link[pq].body)

\* "Exactly one of two diverged peers owes the other a delta": two peers whose
\* summaries differ never both think the other is ahead, and never both send.
OneOwes ==
  \A pq \in Link :
    LET mine == state[pq[1]]  theirs == state[pq[2]] IN
    Usable(mine) /\ Usable(theirs) /\ mine # theirs =>
      /\ SummarizeState(mine) # SummarizeState(theirs)
      /\ (GetStateDelta(mine, SummarizeState(theirs)) = Empty)
           # (GetStateDelta(theirs, SummarizeState(mine)) = Empty)

Network == INSTANCE PointerNetwork

\* The replicas keep the promise of PointerNetwork: whatever is late, lost,
\* repeated, stale or damaged, a stored record is only replaced by one that
\* supersedes it, and a peer that stays behind another catches up.
ImplementsNetwork == Network!FairSpec

\* A step in which a peer loses a record.
LosesRecord == \E p \in Peer : Usable(state[p]) /\ ~Usable(state'[p])

\* Once peers stop losing their copies they agree for good: byte-different
\* records of one version included, on which a split would otherwise be permanent.
Converges ==
  (<>[][~LosesRecord]_vars) => <>[](\A p, q \in Peer : Kept(state[p]) = Kept(state[q]))
===============================================================================
