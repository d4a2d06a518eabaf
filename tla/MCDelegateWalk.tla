---------------------------- MODULE MCDelegateWalk ----------------------------
(***************************************************************************)
(* Small instances of DelegateWalk.                                        *)
(***************************************************************************)
EXTENDS DelegateWalkRefinement

CONSTANTS k1, k2

NoRejects == {}
NoGens    == {}

\* The import path refuses the newest generation's copy of one key.
RejectNewest == {<<N, k1>>}
===============================================================================
