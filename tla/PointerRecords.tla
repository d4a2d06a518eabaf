---------------------------- MODULE PointerRecords ----------------------------
(***************************************************************************)
(* The records of a pointer: what the author of an app signed, and the     *)
(* order in which one record supersedes another.                           *)
(*                                                                         *)
(* A hash and a signature are numbers, compared as their bytes are.  Hash 0 *)
(* is the all-zero code hash, with which the author withdraws the app.     *)
(***************************************************************************)
EXTENDS Integers

CONSTANTS
  MaxVersion, \* MAX_VERSION
  Signed,     \* every record the author ever signs for this pointer
  Empty,      \* no bytes
  Garbage     \* bytes that do not decode, or do not verify

Record == [version : 1..MaxVersion, hash : Nat, signature : Nat]

ASSUME RecordsAssumption ==
  /\ MaxVersion \in Nat
  /\ Signed \subseteq Record
  /\ Empty \notin Signed /\ Garbage \notin Signed /\ Empty # Garbage

Tombstone == 0

\* The bytes of a state, a delta or a summary.
Body == Signed \cup {Empty, Garbage}

\* decode_verified succeeds.
Usable(body) == body \in Signed

IsTombstone(record) == record.hash = Tombstone

\* Of two encodings of one version, the lower hash, then the lower signature.
EncodedBelow(r, q) == r.hash < q.hash \/ (r.hash = q.hash /\ r.signature < q.signature)

\* Mutant: records of one version are told apart by their hash only.
Beats_IgnoresSignature(r, q) ==
  r.version > q.version \/ (r.version = q.version /\ r.hash < q.hash)

Beats(r, q) == r.version > q.version \/ (r.version = q.version /\ EncodedBelow(r, q))

Merge(current, candidate) == IF Beats(candidate, current) THEN candidate ELSE current
===============================================================================
