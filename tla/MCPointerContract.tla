--------------------------- MODULE MCPointerContract ---------------------------
(***************************************************************************)
(* A small instance of PointerContract: a release, a release signed twice  *)
(* with different nonces, and a withdrawal signed at the same version.     *)
(***************************************************************************)
EXTENDS PointerContract

Release(version, hash, signature) ==
  [version |-> version, hash |-> hash, signature |-> signature]

SignedTwice == {Release(1, 1, 1), Release(2, 2, 1), Release(2, 2, 2), Release(2, 0, 1)}
===============================================================================
