------------------------ MODULE DelegateWalkRefinement ------------------------
(***************************************************************************)
(* The walk implements SecretCopy, whatever its sessions, crashes and      *)
(* failed writes do, as long as an export is truthful.                     *)
(***************************************************************************)
EXTENDS DelegateWalk

Copy == INSTANCE SecretCopy WITH
  Predecessor <- Gen,
  OwnWrites   <- UserActive,
  held        <- EverHeld,
  sealed      <- {g \in Gen : done[g] # "absent"}

\* The walk keeps the promise of SecretCopy: what arrives comes from an unsealed
\* predecessor, and a completion marker follows the last of its secrets.
ImplementsSecretCopy == Copy!Spec
===============================================================================
