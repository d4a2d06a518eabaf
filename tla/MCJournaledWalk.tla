---------------------------- MODULE MCJournaledWalk ----------------------------
(***************************************************************************)
(* Small instances of JournaledWalk.                                       *)
(***************************************************************************)
EXTENDS JournaledWalk

CONSTANTS k1, k2

\* The import path refuses the newest generation's copy of one key.
RejectNewest == {<<N, k1>>}

NoRejects == {}
===============================================================================
