---------------------------- MODULE PointerNetwork ----------------------------
(***************************************************************************)
(* What the pointer contract promises of its replicas: a peer moves only   *)
(* to records the author signed, and only up their order, unless it loses  *)
(* its copy; and one that is behind another catches up.                    *)
(***************************************************************************)
EXTENDS PointerRecords

CONSTANT Peer

VARIABLE state  \* state[p]: the bytes peer p stores for the pointer

Init == state = [p \in Peer |-> Empty]

\* Does peer q hold a record that peer p should have?
Behind(p, q) == Usable(state[q]) /\ (Usable(state[p]) => Beats(state[q], state[p]))

Deliver(p, r) ==
  state' = [state EXCEPT ![p] = IF Usable(@) THEN Merge(@, r) ELSE r]

Sync(p, q) == Behind(p, q) /\ state' = [state EXCEPT ![p] = state[q]]

\* The peer is new, evicted the contract, or its store is damaged.
Lose(p) == \E lost \in {Empty, Garbage} : state' = [state EXCEPT ![p] = lost]

Next ==
  \/ \E p \in Peer, r \in Signed : Deliver(p, r)
  \/ \E p \in Peer : Lose(p)

Spec == Init /\ [][Next]_state

FairSpec == Spec /\ \A p, q \in Peer : WF_state(Sync(p, q))
===============================================================================
