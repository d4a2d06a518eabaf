--------------------------- MODULE MCLineageRelease ---------------------------
(***************************************************************************)
(* A small instance of LineageRelease: three builds, a stray one, and a     *)
(* registry of up to three rows.                                           *)
(***************************************************************************)
EXTENDS LineageRelease, TLC

CONSTANTS a, b, c, p, q

Builds == Permutations({a, b, c}) \cup Permutations({p, q})
===============================================================================
