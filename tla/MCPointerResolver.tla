--------------------------- MODULE MCPointerResolver ---------------------------
(***************************************************************************)
(* A small instance of PointerResolver: a release, two competing releases  *)
(* of the next version, a withdrawal, and a release that ends it.          *)
(***************************************************************************)
EXTENDS PointerResolver

Signs(version, hash) == [version |-> version, hash |-> hash, signature |-> 1]

Competing == {Signs(1, 1), Signs(2, 1), Signs(2, 2), Signs(3, 0), Signs(4, 2)}
===============================================================================
