------------------------------ MODULE SecretCopy ------------------------------
(***************************************************************************)
(* What the delegate migration promises, without saying how: secrets of    *)
(* the predecessors arrive in the successor, and a predecessor is sealed   *)
(* only after every secret it holds has arrived.  A seal stands forever    *)
(* and nothing is taken from a sealed predecessor any more.                *)
(*                                                                         *)
(* There are no sessions, markers, stages, failures or crashes here: those *)
(* are how DelegateWalk keeps the promise.                                 *)
(***************************************************************************)
CONSTANTS
  Predecessor,  \* the predecessor generations
  Key,          \* secret keys
  OwnWrites     \* TRUE: the user may write keys of its own as well

VARIABLES
  content,  \* content[p]: the keys predecessor p holds
  held,     \* the keys the successor holds, or held and the user deleted since
  sealed    \* the predecessors whose migration is complete

copyVars == <<content, held, sealed>>

Init ==
  /\ content \in [Predecessor -> SUBSET Key]
  /\ held \in SUBSET Key
  /\ sealed = {}

Import(p, keys) ==
  /\ p \notin sealed
  /\ keys \subseteq content[p]
  /\ held' = held \cup keys
  /\ UNCHANGED <<content, sealed>>

Seal(p) ==
  /\ content[p] \subseteq held
  /\ sealed' = sealed \cup {p}
  /\ UNCHANGED <<content, held>>

OwnWrite(k) ==
  /\ OwnWrites
  /\ held' = held \cup {k}
  /\ UNCHANGED <<content, sealed>>

Next ==
  \/ \E p \in Predecessor : Seal(p) \/ \E keys \in SUBSET Key : Import(p, keys)
  \/ \E k \in Key : OwnWrite(k)

Spec == Init /\ [][Next]_copyVars
===============================================================================
