---------------------------- MODULE MCSecretImport ----------------------------
(***************************************************************************)
(* Small instances of SecretImport: three generations, two secrets, and a  *)
(* cap that the markers of one import bring within reach.                  *)
(***************************************************************************)
EXTENDS SecretImport, TLC

CONSTANTS k1, k2

\* The oldest generation holds both secrets; the user and the imports do the rest.
Oldest == {<<{k1, k2}, {}, {}>>}

\* Any secrets where there is a successor.
AnyStocks == {secrets \in [Delegate -> SUBSET AppKey] : secrets[Generations] = {}}

Secrets == Permutations(AppKey)
===============================================================================
