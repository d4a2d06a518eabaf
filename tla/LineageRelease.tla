----------------------------- MODULE LineageRelease -----------------------------
(***************************************************************************)
(* The build side of a migration: the registry of predecessors, the CI     *)
(* guard in front of every change of it or of the WASM, the code generator *)
(* that turns it into the lineage a release ships, and the keys that the   *)
(* release then asks.                                                      *)
(*                                                                         *)
(* An author changes the component and edits the registry, one row at a    *)
(* time; what is merged may be released.  The author may make mistakes     *)
(* that the checks are there for: no row, a row for the wrong build, a row *)
(* twice, a wrong key, a version in another style.  What the checks cannot *)
(* know is done right: rows are only appended, the row of a build records  *)
(* its parameters and the highest generation so far, and no new row claims *)
(* an irregular key.                                                       *)
(***************************************************************************)
EXTENDS Integers, Sequences

CONSTANTS
  Code,          \* code hashes of the component's builds
  Stray,         \* the code hash of something else
  Old, Odd,      \* a build before the standard derivation, and the key recorded for it
  Params,        \* parameters
  AllowMissing,  \* allow_missing_registry
  MaxGeneration, \* bound on the generations an author writes
  MaxRows,       \* bound on the rows of a registry
  MaxMains       \* bound on the builds merged

AnyCode == Code \cup {Stray, Old}

ASSUME CodeAssumption == Stray \notin Code /\ Old \notin Code /\ Stray # Old
ASSUME AllowMissingAssumption == AllowMissing \in BOOLEAN
ASSUME BoundsAssumption == {MaxGeneration, MaxRows, MaxMains} \subseteq Nat

\* derive_delegate_key, and contract_id_from_code_hash: a hash of both.
Derive(code, params) == <<code, params>>

NoKey == <<>>

ASSUME OddAssumption == Odd \notin (AnyCode \X Params) \cup {NoKey}

DelegateKey == (AnyCode \X Params) \cup {Odd}

Unnumbered == -1

\* A row as written.  Of a version only its number counts.
Row == [version : (0 .. MaxGeneration) \cup {Unnumbered}, code : AnyCode,
        encoding : {"hex", "base58"}, key : DelegateKey \cup {NoKey},
        params : Params, irregular : BOOLEAN]

Build == [code : Code, params : Params]

VARIABLES
  component, \* "contract" or "delegate"
  schema,    \* "unified", with generations, or "entry", with versions
  file,      \* the registry file, row by row
  mains,     \* the builds of the component that were merged, in order
  released,  \* the keys that went live, in order
  lineage    \* the lineage in the live release

vars == <<component, schema, file, mains, released, lineage>>

Last(seq) == seq[Len(seq)]

main == Last(mains)
live == Last(released)
KeyOf(build) == Derive(build.code, build.params)

-------------------------------------------------------------------------------
(* The registry.                                                              *)

Numbered(rows) == \A i \in DOMAIN rows : rows[i].version # Unnumbered
NoneNumbered(rows) == \A i \in DOMAIN rows : rows[i].version = Unnumbered

\* Mutant: the file is taken to list the newest first.
EntryGenerations_NewestFirst(rows) ==
  IF Numbered(rows) THEN [i \in DOMAIN rows |-> rows[i].version]
                    ELSE [i \in DOMAIN rows |-> Len(rows) - i]

\* The numbers of the versions, or the order of the file.
EntryGenerations(rows) ==
  IF Numbered(rows) THEN [i \in DOMAIN rows |-> rows[i].version]
                    ELSE [i \in DOMAIN rows |-> i - 1]

\* Mutant: versions of different styles are accepted.
Parses_Mixed(rows) ==
  \A i \in DOMAIN rows : component = "delegate" <=> rows[i].key # NoKey

\* Versions of different styles, a delegate without its key, a contract with one.
Parses(rows) ==
  /\ schema = "unified" \/ Numbered(rows) \/ NoneNumbered(rows)
  /\ \A i \in DOMAIN rows : component = "delegate" <=> rows[i].key # NoKey

\* Mutant: code hashes are compared as written.
SameCode_AsWritten(row, other) == row.code = other.code /\ row.encoding = other.encoding

\* Code hashes are compared decoded.
SameCode(row, other) == row.code = other.code

ValidateUnique(rows) ==
  \A i, j \in DOMAIN rows :
    i < j => /\ EntryGenerations(rows)[i] # EntryGenerations(rows)[j]
             /\ ~SameCode(rows[i], rows[j])

\* A regular key derives, an irregular one does not.
KeyChecks(row) == row.irregular <=> row.key # Derive(row.code, row.params)

Validate(rows) ==
  /\ ValidateUnique(rows)
  /\ component = "delegate" => \A i \in DOMAIN rows : KeyChecks(rows[i])

\* Mutant: the guard asks for a predecessor, not for the build that is replaced.
CheckMigrationGuard_AnyRow(base, head, rows) == base = head \/ rows # <<>>

\* The guard asks for the build that is replaced.
CheckMigrationGuard(base, head, rows) ==
  base = head \/ \E i \in DOMAIN rows : rows[i].code = base

-------------------------------------------------------------------------------
(* The lineage.                                                               *)

\* The generated constants: one entry per row, in the order of the rows.
Render(rows) ==
  [i \in DOMAIN rows |-> [generation |-> EntryGenerations(rows)[i],
                          code |-> rows[i].code, key |-> rows[i].key]]

\* predecessor_ids derives with the parameters of the release,
\* predecessor_delegate_keys takes what is stored.
TargetUnder(entry, params) ==
  IF component = "contract" THEN Derive(entry.code, params) ELSE entry.key

\* A registry that does not parse or validate fails the build, a missing one
\* unless that is allowed.
GenerateString(present) ==
  IF present
  THEN {rows \in {file} : Parses(rows) /\ Validate(rows)}
  ELSE {rows \in {<<>>} : AllowMissing}

-------------------------------------------------------------------------------

\* A fresh component, or a delegate with a grandfathered row.
Init ==
  /\ component \in {"contract", "delegate"}
  /\ schema \in {"unified", "entry"}
  /\ \E build \in Build :
       /\ mains = <<build>>
       /\ \/ file = <<>> /\ released = <<KeyOf(build)>>
          \/ /\ component = "delegate"
             /\ \E version \in {0, Unnumbered} :
                  /\ schema = "unified" => version # Unnumbered
                  /\ file = <<[version |-> version, code |-> Old, encoding |-> "hex",
                               key |-> Odd, params |-> build.params, irregular |-> TRUE]>>
             /\ released = <<Odd, KeyOf(build)>>
  /\ lineage = Render(file)

\* What an author may append: a row for the current build, or a mistaken one.
NewRow(row) ==
  /\ schema = "unified" => row.version # Unnumbered
  /\ component = "contract" => row.params = main.params
  /\ row.code = main.code =>
       /\ row.params = main.params
       /\ row.version # Unnumbered => \A i \in DOMAIN file : file[i].version < row.version

\* Nothing, or one more row.
EditedFile ==
  LET codes == {main.code, Stray} \cup {file[i].code : i \in DOMAIN file} IN
  {file} \cup
    {Append(file, row) : row \in
       {new \in [version : (0 .. MaxGeneration) \cup {Unnumbered}, code : codes,
                 encoding : {"hex", "base58"}, key : {NoKey} \cup ({main.code, Stray} \X Params),
                 params : Params, irregular : {FALSE}] :
          Len(file) < MaxRows /\ NewRow(new)}}

\* A change of the registry, of the component or of both passes CI: its own build,
\* and the guard against the build it replaces.  Contracts have stable parameters.
Merge ==
  /\ file' \in EditedFile
  /\ Parses(file') /\ Validate(file')
  /\ \E build \in Build :
       /\ component = "contract" => build.params = main.params
       /\ CheckMigrationGuard(main.code, build.code, file')
       /\ IF build = main
          THEN UNCHANGED mains
          ELSE Len(mains) < MaxMains /\ mains' = Append(mains, build)
  /\ UNCHANGED <<component, schema, released, lineage>>

\* What is merged is built, with the registry at hand or not, and goes live.
Release(present) ==
  /\ \E rows \in GenerateString(present) : lineage' = Render(rows)
  /\ released' = IF KeyOf(main) = live THEN released ELSE Append(released, KeyOf(main))
  /\ UNCHANGED <<component, schema, file, mains>>

Next ==
  \/ Merge
  \/ \E present \in BOOLEAN : Release(present)

Spec == Init /\ [][Next]_vars

-------------------------------------------------------------------------------
(* Properties.                                                                *)

EntryType == [generation : Nat, code : AnyCode, key : DelegateKey \cup {NoKey}]

TypeOK ==
  /\ component \in {"contract", "delegate"}
  /\ schema \in {"unified", "entry"}
  /\ file \in Seq(Row)
  /\ mains \in Seq(Build) /\ mains # <<>>
  /\ released \in Seq(DelegateKey) /\ released # <<>>
  /\ lineage \in Seq(EntryType)
  /\ component = "delegate" =>
       \A i \in DOMAIN lineage : lineage[i].key \in {Odd} \cup {Derive(lineage[i].code, p) : p \in Params}

\* What a release asks: the targets of its lineage, under its own parameters.
Target(entry) == TargetUnder(entry, live[2])

\* No build was merged twice with different parameters.
OneKeyPerCode ==
  \A i, j \in DOMAIN mains : mains[i].code = mains[j].code => mains[i] = mains[j]

\* No build was merged again after another one.
NoCodeTwice ==
  \A i, j \in DOMAIN mains : mains[i].code = mains[j].code => i = j

\* "So the migration probe can still find the old key": whatever rows were
\* forgotten, doubled or mistaken (within NewRow) on the way, every key that was ever live is the
\* live one or is asked by the live release, unless a build changed its parameters
\* alone, which the guard cannot see, or a registry may be missing.
EveryReleaseReachable ==
  ~AllowMissing /\ OneKeyPerCode =>
    \A k \in 1 .. Len(released) :
      released[k] = live \/ \E i \in DOMAIN lineage : Target(lineage[i]) = released[k]

\* The entry of the key that was live before, if any, has the highest generation
\* among those that were ever live: a probe that takes the newest takes that one.
LastRetiredAskedFirst ==
  Len(released) > 1 =>
    \E i \in DOMAIN lineage :
      /\ Target(lineage[i]) = released[Len(released) - 1]
      /\ \A j \in DOMAIN lineage \ {i} :
           lineage[j].generation < lineage[i].generation
             \/ Target(lineage[j]) = live
             \/ \A k \in 1 .. Len(released) : Target(lineage[j]) # released[k]

\* The same for a component that is never reverted to an earlier build.
NewestAskedFirst == ~AllowMissing /\ NoCodeTwice => LastRetiredAskedFirst

\* "Never change it for an existing predecessor": the entry of a predecessor in
\* one release is its entry in the next, with its generation and its key, whatever
\* styles of version the author mixes in.
EntriesStand ==
  [][~AllowMissing =>
       \A i \in DOMAIN lineage : \E j \in DOMAIN lineage' : lineage'[j] = lineage[i]]_vars

\* A predecessor is asked once and has a generation of its own, which the markers
\* of its migration are keyed by.
OneEntryPerPredecessor ==
  \A i, j \in DOMAIN lineage :
    i # j => /\ Target(lineage[i]) # Target(lineage[j])
             /\ lineage[i].generation # lineage[j].generation

-------------------------------------------------------------------------------
(* The inductive invariant, in parts.                                         *)

\* An irregular key is the grandfathered one, of the build before.
RowKey(row) ==
  (row.code = Old /\ row.key = Odd) \/ row.key = Derive(row.code, row.params)

\* The registry at hand is valid, of one style, and about builds that were merged.
FileInv ==
  /\ Numbered(file) \/ NoneNumbered(file)
  /\ schema = "unified" => Numbered(file)
  /\ ValidateUnique(file)
  /\ component = "delegate" => \A i \in DOMAIN file : RowKey(file[i])
  /\ \A i \in DOMAIN file :
       file[i].code \in {Stray, Old} \/ \E m \in DOMAIN mains : mains[m].code = file[i].code

\* What was replaced is registered, under its own key.
MainsInv ==
  /\ \A m \in DOMAIN mains :
       mains[m].code = main.code \/ \E i \in DOMAIN file : file[i].code = mains[m].code
  /\ component = "contract" => \A m \in DOMAIN mains : mains[m].params = main.params
  /\ component = "delegate" /\ OneKeyPerCode =>
       \A i \in DOMAIN file, m \in DOMAIN mains :
         file[i].code = mains[m].code => file[i].key = KeyOf(mains[m])

\* Released k is the grandfathered key, with its row.
Grandfathered(k) ==
  /\ component = "delegate" /\ k = 1 /\ released[k] = Odd
  /\ \E i \in DOMAIN file : file[i].key = Odd

\* What went live was merged.
ReleasedInv ==
  /\ \A k \in DOMAIN released : Grandfathered(k) \/ \E m \in DOMAIN mains : released[k] = KeyOf(mains[m])
  /\ live # Odd

\* The live lineage is how the registry begins.
LineageInv ==
  \A i \in DOMAIN lineage : i \in DOMAIN file /\ lineage[i] = Render(file)[i]

Generation(i) == EntryGenerations(file)[i]

\* Generations are numbered, and keys went live, in the order of the builds.
OrderInv ==
  NoCodeTwice =>
    /\ \A i, j \in DOMAIN file, m, n \in DOMAIN mains :
         m < n /\ file[i].code = mains[m].code /\ file[j].code = mains[n].code
           => Generation(i) < Generation(j)
    /\ \A i, j \in DOMAIN file, n \in DOMAIN mains :
         component = "delegate" /\ file[i].key = Odd /\ file[j].code = mains[n].code
           => Generation(i) < Generation(j)
    /\ \A k, l \in DOMAIN released, m, n \in DOMAIN mains :
         k < l /\ released[k] = KeyOf(mains[m]) /\ released[l] = KeyOf(mains[n]) => m < n

Inv == TypeOK /\ FileInv /\ MainsInv /\ ReleasedInv /\ LineageInv /\ OrderInv
===============================================================================
