------------------------- MODULE LineageRelease_proofs -------------------------
(***************************************************************************)
(* Whatever an author forgets, doubles or mistakes, a key that was live is *)
(* still asked: for any builds, parameters and bounds.                     *)
(***************************************************************************)
EXTENDS LineageRelease, TLAPS

-------------------------------------------------------------------------------
(* Keys.                                                                      *)

\* A key tells the build and the parameters, and no key is the grandfathered one.
LEMMA KeysDiffer ==
  /\ \A c, d \in AnyCode, p, q \in Params : Derive(c, p) = Derive(d, q) <=> c = d /\ p = q
  /\ \A c \in AnyCode, p \in Params :
       Derive(c, p) \in DelegateKey /\ Derive(c, p) # Odd
         /\ Derive(c, p)[1] = c /\ Derive(c, p)[2] = p
  /\ Odd # NoKey
BY OddAssumption DEF Derive, DelegateKey, NoKey

\* The key of a build.
LEMMA BuildKeys ==
  ASSUME NEW build \in Build
  PROVE  /\ build.code \in Code /\ build.code \in AnyCode /\ build.params \in Params
         /\ build.code # Stray /\ build.code # Old
         /\ build = [code |-> build.code, params |-> build.params]
         /\ KeyOf(build) \in DelegateKey /\ KeyOf(build) # Odd
         /\ KeyOf(build)[2] = build.params
BY KeysDiffer, CodeAssumption DEF Build, AnyCode, KeyOf

-------------------------------------------------------------------------------
(* The registry.                                                              *)

\* Every row has a generation.
LEMMA GenerationsAreNumbers ==
  ASSUME NEW rows \in Seq(Row)
  PROVE  /\ DOMAIN EntryGenerations(rows) = DOMAIN rows
         /\ \A i \in DOMAIN rows : EntryGenerations(rows)[i] \in Nat
<1>1. \A i \in DOMAIN rows : i \in Nat \ {0} /\ rows[i] \in Row
  OBVIOUS
<1>2. \A i \in DOMAIN rows : rows[i].version \in (0 .. MaxGeneration) \cup {Unnumbered}
  BY <1>1 DEF Row
<1>3. CASE Numbered(rows)
  BY <1>2, <1>3, BoundsAssumption DEF EntryGenerations, Numbered
<1>4. CASE ~Numbered(rows)
  BY <1>1, <1>4 DEF EntryGenerations
<1>5. QED  BY <1>3, <1>4

\* One more row of the same style: those before keep their generations, and it
\* comes after them, if its version does.
LEMMA AppendedGenerations ==
  ASSUME NEW rows \in Seq(Row), NEW row \in Row,
         Numbered(rows) \/ NoneNumbered(rows),
         Numbered(Append(rows, row)) \/ NoneNumbered(Append(rows, row))
  PROVE  /\ \A i \in DOMAIN rows : EntryGenerations(Append(rows, row))[i] = EntryGenerations(rows)[i]
         /\ (row.version # Unnumbered => \A i \in DOMAIN rows : rows[i].version < row.version) =>
              \A i \in DOMAIN rows :
                EntryGenerations(Append(rows, row))[i]
                  < EntryGenerations(Append(rows, row))[Len(rows) + 1]
<1> DEFINE more == Append(rows, row)
<1>1. /\ more \in Seq(Row) /\ DOMAIN more = 1 .. Len(rows) + 1 /\ DOMAIN rows = 1 .. Len(rows)
      /\ Len(rows) \in Nat /\ more[Len(rows) + 1] = row
      /\ \A i \in DOMAIN rows : more[i] = rows[i] /\ i \in DOMAIN more
  OBVIOUS
<1> HIDE DEF more
<1>2. CASE Numbered(more)
  <2>1. Numbered(rows)
    BY <1>1, <1>2 DEF Numbered
  <2>2. \A i \in DOMAIN more : EntryGenerations(more)[i] = more[i].version
    BY <1>2 DEF EntryGenerations
  <2>3. \A i \in DOMAIN rows : EntryGenerations(rows)[i] = rows[i].version
    BY <2>1 DEF EntryGenerations
  <2>4. Len(rows) + 1 \in DOMAIN more /\ row.version # Unnumbered
    BY <1>1, <1>2 DEF Numbered
  <2>5. QED  BY <1>1, <2>2, <2>3, <2>4 DEF more
<1>3. CASE NoneNumbered(more)
  <2>1. \A i \in DOMAIN more : more[i].version = Unnumbered
    BY <1>3 DEF NoneNumbered
  <2>2. ~Numbered(more)
    BY <1>1, <2>1 DEF Numbered
  <2>3. \A i \in DOMAIN more : EntryGenerations(more)[i] = i - 1
    BY <2>2 DEF EntryGenerations
  <2>4. \A i \in DOMAIN rows : EntryGenerations(rows)[i] = i - 1
    <3>1. CASE DOMAIN rows = {}
      BY <3>1
    <3>2. CASE DOMAIN rows # {}
      <4>1. ~Numbered(rows)
        BY <3>2, <1>1, <2>1 DEF Numbered
      <4>2. QED  BY <4>1 DEF EntryGenerations
    <3>3. QED  BY <3>1, <3>2
  <2>5. \A i \in DOMAIN rows : i - 1 < (Len(rows) + 1) - 1
    BY <1>1
  <2>6. QED  BY <1>1, <2>3, <2>4, <2>5 DEF more
<1>4. QED  BY <1>2, <1>3 DEF more

\* A merge appends at most one row, of the build it replaces or a stray one, with
\* its own key, and leaves the rows before with their generations.
LEMMA FileStep ==
  ASSUME TypeOK, FileInv, Merge
  PROVE  /\ file' \in Seq(Row)
         /\ DOMAIN file \subseteq DOMAIN file'
         /\ \A i \in DOMAIN file :
              file'[i] = file[i] /\ EntryGenerations(file')[i] = EntryGenerations(file)[i]
         /\ \A i \in DOMAIN file' \ DOMAIN file :
              /\ file'[i] \in Row
              /\ file'[i].code \in {main.code, Stray}
              /\ component = "delegate" => file'[i].key = Derive(file'[i].code, file'[i].params)
              /\ file'[i].code = main.code =>
                   /\ file'[i].params = main.params
                   /\ \A j \in DOMAIN file : EntryGenerations(file')[j] < EntryGenerations(file')[i]
         /\ Numbered(file') \/ NoneNumbered(file')
         /\ schema = "unified" => Numbered(file')
         /\ ValidateUnique(file')
<1>0. file \in Seq(Row) /\ mains \in Seq(Build) /\ mains # <<>> /\ main \in Build
  BY DEF TypeOK, main, Last
<1>1. CASE file' = file
  BY <1>0, <1>1 DEF FileInv
<1>2. CASE file' # file
  <2> DEFINE codes == {main.code, Stray} \cup {file[i].code : i \in DOMAIN file}
             Written == [version : (0 .. MaxGeneration) \cup {Unnumbered}, code : codes,
                         encoding : {"hex", "base58"}, key : {NoKey} \cup ({main.code, Stray} \X Params),
                         params : Params, irregular : {FALSE}]
  <2>1. PICK row \in Written : file' = Append(file, row) /\ NewRow(row)
    BY <1>2 DEF Merge, EditedFile
  <2>2. codes \subseteq AnyCode
    <3>1. \A i \in DOMAIN file : file[i] \in Row
      BY <1>0
    <3>2. \A i \in DOMAIN file : file[i].code \in AnyCode
      BY <3>1 DEF Row
    <3>3. main.code \in AnyCode /\ Stray \in AnyCode
      BY <1>0, BuildKeys DEF AnyCode
    <3>4. QED  BY <3>2, <3>3
  <2>3. {NoKey} \cup ({main.code, Stray} \X Params) \subseteq DelegateKey \cup {NoKey}
    BY <1>0, BuildKeys DEF AnyCode, DelegateKey
  <2>4. /\ row.version \in (0 .. MaxGeneration) \cup {Unnumbered} /\ row.code \in codes
        /\ row.irregular = FALSE /\ row.params \in Params /\ row \in Row
    BY <2>1, <2>2, <2>3 DEF Row
  <2> HIDE DEF codes, Written
  <2>5. /\ file' \in Seq(Row) /\ DOMAIN file' = 1 .. Len(file) + 1 /\ DOMAIN file = 1 .. Len(file)
        /\ Len(file) \in Nat /\ file'[Len(file) + 1] = row
        /\ \A i \in DOMAIN file : file'[i] = file[i] /\ i \in DOMAIN file'
        /\ DOMAIN file' \ DOMAIN file = {Len(file) + 1}
    BY <1>0, <2>1, <2>4
  <2>6. /\ ValidateUnique(file')
        /\ component = "delegate" => \A i \in DOMAIN file' : KeyChecks(file'[i])
        /\ Parses(file')
    BY DEF Merge, Validate, Parses, KeyChecks
  <2>7. Numbered(file') \/ NoneNumbered(file')
    <3>1. CASE schema = "unified"
      <4>1. row.version # Unnumbered /\ Numbered(file)
        BY <3>1, <2>1 DEF NewRow, FileInv
      <4>2. QED  BY <4>1, <2>5 DEF Numbered
    <3>2. CASE schema # "unified"
      BY <3>2, <2>6 DEF Parses
    <3>3. QED  BY <3>1, <3>2
  <2>8. schema = "unified" => Numbered(file')
    <3>1. ASSUME schema = "unified"  PROVE row.version # Unnumbered /\ Numbered(file)
      BY <3>1, <2>1 DEF NewRow, FileInv
    <3>2. QED  BY <3>1, <2>5 DEF Numbered
  <2>9. row.code \in {main.code, Stray}
    <3>1. SUFFICES ASSUME NEW i \in DOMAIN file, row.code = file[i].code  PROVE FALSE
      BY <2>4 DEF codes
    <3>2. i < Len(file) + 1 /\ i \in DOMAIN file' /\ Len(file) + 1 \in DOMAIN file'
      BY <2>5
    <3>3. QED  BY <2>5, <2>6, <3>1, <3>2 DEF ValidateUnique, SameCode
  <2>10. component = "delegate" => row.key = Derive(row.code, row.params)
    <3>1. ASSUME component = "delegate"  PROVE KeyChecks(row)
      BY <3>1, <2>5, <2>6
    <3>2. QED  BY <3>1, <2>4 DEF KeyChecks
  <2>11. row.code = main.code =>
           /\ row.params = main.params
           /\ row.version # Unnumbered => \A i \in DOMAIN file : file[i].version < row.version
    BY <2>1 DEF NewRow
  <2>12. /\ \A i \in DOMAIN file : EntryGenerations(file')[i] = EntryGenerations(file)[i]
         /\ row.code = main.code =>
              \A i \in DOMAIN file : EntryGenerations(file')[i] < EntryGenerations(file')[Len(file) + 1]
    BY <1>0, <2>1, <2>4, <2>7, <2>11, AppendedGenerations DEF FileInv
  <2>13. QED
    BY <2>4, <2>5, <2>6, <2>7, <2>8, <2>9, <2>10, <2>11, <2>12
<1>3. QED  BY <1>1, <1>2

-------------------------------------------------------------------------------
(* The builds.                                                                *)

\* A merge adds at most one build, and registers the one it replaces.
LEMMA MainsStep ==
  ASSUME TypeOK, Merge
  PROVE  /\ mains' \in Seq(Build) /\ mains' # <<>> /\ main' \in Build
         /\ DOMAIN mains \subseteq DOMAIN mains'
         /\ \A m \in DOMAIN mains : mains'[m] = mains[m] /\ m <= Len(mains)
         /\ \A m \in DOMAIN mains' \ DOMAIN mains : mains'[m] = main' /\ m > Len(mains)
         /\ component = "contract" => main'.params = main.params
         /\ main'.code # main.code => \E i \in DOMAIN file' : file'[i].code = main.code
         /\ OneKeyPerCode' => OneKeyPerCode
         /\ NoCodeTwice' => NoCodeTwice
<1>1. /\ mains \in Seq(Build) /\ mains # <<>> /\ main = mains[Len(mains)] /\ main \in Build
      /\ Len(mains) \in Nat /\ Len(mains) > 0 /\ DOMAIN mains = 1 .. Len(mains)
  BY DEF TypeOK, main, Last
<1>2. PICK build \in Build :
        /\ component = "contract" => build.params = main.params
        /\ CheckMigrationGuard(main.code, build.code, file')
        /\ IF build = main THEN mains' = mains ELSE mains' = Append(mains, build)
  BY DEF Merge
<1>3. main' = mains'[Len(mains')]
  BY DEF main, Last
<1>4. main' = build
  <2>1. CASE build = main
    BY <1>1, <1>2, <1>3, <2>1
  <2>2. CASE build # main
    BY <1>1, <1>2, <1>3, <2>2
  <2>3. QED  BY <2>1, <2>2
<1>5. /\ mains' \in Seq(Build) /\ mains' # <<>>
      /\ DOMAIN mains \subseteq DOMAIN mains'
      /\ \A m \in DOMAIN mains : mains'[m] = mains[m] /\ m <= Len(mains)
      /\ \A m \in DOMAIN mains' \ DOMAIN mains : mains'[m] = build /\ m > Len(mains)
  <2>1. CASE build = main
    BY <1>1, <1>2, <2>1
  <2>2. CASE build # main
    BY <1>1, <1>2, <2>2
  <2>3. QED  BY <2>1, <2>2
<1>6. main'.code # main.code => \E i \in DOMAIN file' : file'[i].code = main.code
  BY <1>2, <1>4 DEF CheckMigrationGuard
<1>7. (OneKeyPerCode' => OneKeyPerCode) /\ (NoCodeTwice' => NoCodeTwice)
  BY <1>5 DEF OneKeyPerCode, NoCodeTwice
<1>8. QED  BY <1>2, <1>4, <1>5, <1>6, <1>7

\* Without a code merged twice there is one key per code.
LEMMA NoCodeTwiceIsOneKey == NoCodeTwice => OneKeyPerCode
BY DEF NoCodeTwice, OneKeyPerCode

-------------------------------------------------------------------------------
(* Types.                                                                     *)

\* The entries that a registry generates.
LEMMA RenderedEntries ==
  ASSUME NEW rows \in Seq(Row)
  PROVE  /\ Render(rows) \in Seq(EntryType)
         /\ DOMAIN Render(rows) = DOMAIN rows
         /\ \A i \in DOMAIN rows :
              /\ rows[i] \in Row
              /\ Render(rows)[i].code = rows[i].code /\ Render(rows)[i].key = rows[i].key
              /\ Render(rows)[i].generation = EntryGenerations(rows)[i]
<1>1. /\ DOMAIN rows = 1 .. Len(rows) /\ Len(rows) \in Nat
      /\ \A i \in DOMAIN rows : rows[i] \in Row
  OBVIOUS
<1>2. \A i \in DOMAIN rows : rows[i].code \in AnyCode /\ rows[i].key \in DelegateKey \cup {NoKey}
  BY <1>1 DEF Row
<1>3. \A i \in DOMAIN rows :
        [generation |-> EntryGenerations(rows)[i], code |-> rows[i].code, key |-> rows[i].key] \in EntryType
  BY <1>2, GenerationsAreNumbers DEF EntryType
<1>4. Render(rows) \in [1 .. Len(rows) -> EntryType]
  BY <1>1, <1>3 DEF Render
<1>5. Render(rows) \in Seq(EntryType)
  BY <1>1, <1>4
<1>6. QED  BY <1>1, <1>5 DEF Render

\* A delegate's rows hold the grandfathered key or one of their build.
LEMMA RowKeys ==
  ASSUME NEW row \in Row, RowKey(row)
  PROVE  row.key \in {Odd} \cup {Derive(row.code, p) : p \in Params}
BY DEF RowKey, Row

-------------------------------------------------------------------------------
(* The steps.                                                                 *)

\* A release ships the registry, or nothing where that is allowed, and its key is
\* the live one.
LEMMA ReleaseStep ==
  ASSUME TypeOK, NEW present \in BOOLEAN, Release(present)
  PROVE  /\ UNCHANGED <<component, schema, file, mains>>
         /\ lineage' = Render(file) \/ (AllowMissing /\ lineage' = Render(<<>>))
         /\ released' \in Seq(DelegateKey) /\ released' # <<>>
         /\ live' = KeyOf(main) /\ live' = released'[Len(released')]
         /\ DOMAIN released' = 1 .. Len(released') /\ Len(released') \in Nat \ {0}
         /\ DOMAIN released = 1 .. Len(released) /\ Len(released) \in Nat \ {0}
         /\ live = released[Len(released)]
         /\ \/ KeyOf(main) = live /\ released' = released
            \/ /\ KeyOf(main) # live /\ Len(released') = Len(released) + 1
               /\ \A k \in DOMAIN released : released'[k] = released[k] /\ k \in DOMAIN released'
<1>1. /\ released \in Seq(DelegateKey) /\ released # <<>> /\ main \in Build
      /\ live = released[Len(released)] /\ live' = released'[Len(released')]
  BY DEF TypeOK, main, live, Last
<1>2. KeyOf(main) \in DelegateKey
  BY <1>1, BuildKeys
<1>3. released' = IF KeyOf(main) = live THEN released ELSE Append(released, KeyOf(main))
  BY DEF Release
<1>4. UNCHANGED <<component, schema, file, mains>>
  BY DEF Release
<1>5. lineage' = Render(file) \/ (AllowMissing /\ lineage' = Render(<<>>))
  BY DEF Release, GenerateString
<1>6. CASE KeyOf(main) = live
  BY <1>1, <1>3, <1>4, <1>5, <1>6
<1>7. CASE KeyOf(main) # live
  BY <1>1, <1>2, <1>3, <1>4, <1>5, <1>7
<1>8. QED  BY <1>6, <1>7

LEMMA TypeStep ==
  ASSUME TypeOK, FileInv, Next
  PROVE  TypeOK'
<1>1. CASE Merge
  <2>1. UNCHANGED <<component, schema, released, lineage>>
    BY <1>1 DEF Merge
  <2>2. file' \in Seq(Row) /\ mains' \in Seq(Build) /\ mains' # <<>>
    BY <1>1, FileStep, MainsStep
  <2>3. QED  BY <2>1, <2>2 DEF TypeOK
<1>2. ASSUME NEW present \in BOOLEAN, Release(present)
      PROVE  TypeOK'
  <2>1. /\ UNCHANGED <<component, schema, file, mains>>
        /\ released' \in Seq(DelegateKey) /\ released' # <<>>
        /\ \/ lineage' = Render(file)
           \/ lineage' = Render(<<>>)
    BY <1>2, ReleaseStep
  <2>2. file \in Seq(Row) /\ <<>> \in Seq(Row)
    BY DEF TypeOK
  <2>3. lineage' \in Seq(EntryType)
    BY <2>1, <2>2, RenderedEntries
  <2>4. ASSUME component = "delegate", NEW i \in DOMAIN lineage'
        PROVE  lineage'[i].key \in {Odd} \cup {Derive(lineage'[i].code, p) : p \in Params}
    <3>1. CASE lineage' = Render(file)
      <4>1. i \in DOMAIN file /\ file[i] \in Row /\ lineage'[i].key = file[i].key /\ lineage'[i].code = file[i].code
        BY <2>2, <2>4, <3>1, RenderedEntries
      <4>2. RowKey(file[i])
        BY <2>4, <4>1 DEF FileInv
      <4>3. QED  BY <4>1, <4>2, RowKeys
    <3>2. CASE lineage' = Render(<<>>)
      <4>1. DOMAIN lineage' = DOMAIN <<>>
        BY <2>2, <3>2, RenderedEntries
      <4>2. DOMAIN <<>> = {}
        OBVIOUS
      <4>3. QED  BY <2>4, <4>1, <4>2
    <3>3. QED  BY <2>1, <3>1, <3>2
  <2>5. QED  BY <2>1, <2>3, <2>4 DEF TypeOK
<1>3. QED  BY <1>1, <1>2 DEF Next

LEMMA FileInvStep ==
  ASSUME TypeOK, FileInv, Next
  PROVE  FileInv'
<1>1. CASE Merge
  <2>1. component' = component /\ schema' = schema
    BY <1>1 DEF Merge
  <2>2. ASSUME component = "delegate", NEW i \in DOMAIN file'
        PROVE  RowKey(file'[i])
    BY <1>1, <2>2, FileStep DEF RowKey, FileInv
  <2>3. ASSUME NEW i \in DOMAIN file', file'[i].code \notin {Stray, Old}
        PROVE  \E m \in DOMAIN mains' : mains'[m].code = file'[i].code
    <3>1. \A m \in DOMAIN mains : m \in DOMAIN mains' /\ mains'[m] = mains[m]
      BY <1>1, MainsStep
    <3>2. Len(mains) \in DOMAIN mains /\ mains[Len(mains)] = main
      BY DEF TypeOK, main, Last
    <3>3. CASE i \in DOMAIN file
      <4>1. file'[i] = file[i]
        BY <1>1, <3>3, FileStep
      <4>2. PICK m \in DOMAIN mains : mains[m].code = file[i].code
        BY <2>3, <3>3, <4>1 DEF FileInv
      <4>3. QED  BY <3>1, <4>1, <4>2
    <3>4. CASE i \notin DOMAIN file
      <4>1. file'[i].code = main.code
        BY <1>1, <2>3, <3>4, FileStep
      <4>2. QED  BY <3>1, <3>2, <4>1
    <3>5. QED  BY <3>3, <3>4
  <2>4. QED
    BY <1>1, <2>1, <2>2, <2>3, FileStep DEF FileInv, Numbered, NoneNumbered, ValidateUnique,
       SameCode, EntryGenerations
<1>2. ASSUME NEW present \in BOOLEAN, Release(present)
      PROVE  FileInv'
  BY <1>2 DEF Release, FileInv, Numbered, NoneNumbered, ValidateUnique, SameCode,
     EntryGenerations, RowKey
<1>3. QED  BY <1>1, <1>2 DEF Next

LEMMA MainsInvStep ==
  ASSUME TypeOK, FileInv, MainsInv, Next
  PROVE  MainsInv'
<1>0. /\ mains \in Seq(Build) /\ main \in Build
      /\ \A m \in DOMAIN mains : mains[m] \in Build
      /\ Len(mains) \in DOMAIN mains /\ mains[Len(mains)] = main
  BY DEF TypeOK, main, Last
<1>1. CASE Merge
  <2>1. component' = component
    BY <1>1 DEF Merge
  <2>2. ASSUME NEW m \in DOMAIN mains', mains'[m].code # main'.code
        PROVE  \E i \in DOMAIN file' : file'[i].code = mains'[m].code
    <3>1. m \in DOMAIN mains /\ mains'[m] = mains[m]
      BY <1>1, <2>2, MainsStep
    <3>2. CASE mains[m].code = main.code
      BY <1>1, <2>2, <3>1, <3>2, MainsStep
    <3>3. CASE mains[m].code # main.code
      <4>1. PICK i \in DOMAIN file : file[i].code = mains[m].code
        BY <3>1, <3>3 DEF MainsInv
      <4>2. i \in DOMAIN file' /\ file'[i] = file[i]
        BY <1>1, FileStep
      <4>3. QED  BY <3>1, <4>1, <4>2
    <3>4. QED  BY <3>2, <3>3
  <2>3. ASSUME component = "contract", NEW m \in DOMAIN mains'
        PROVE  mains'[m].params = main'.params
    BY <1>1, <2>3, MainsStep DEF MainsInv
  <2>4. ASSUME component = "delegate", OneKeyPerCode', NEW i \in DOMAIN file', NEW m \in DOMAIN mains',
               file'[i].code = mains'[m].code
        PROVE  file'[i].key = KeyOf(mains'[m])
    <3>1. /\ \A n \in DOMAIN mains : n \in DOMAIN mains' /\ mains'[n] = mains[n]
          /\ OneKeyPerCode /\ mains'[m] \in Build
      BY <1>1, <2>4, MainsStep
    <3>2. \A n \in DOMAIN mains' : mains'[n].code = mains'[m].code => mains'[n] = mains'[m]
      BY <2>4 DEF OneKeyPerCode
    <3>3. CASE i \in DOMAIN file
      <4>1. file'[i] = file[i]
        BY <1>1, <3>3, FileStep
      <4>2. file[i].code \notin {Stray, Old}
        BY <2>4, <3>1, <4>1, BuildKeys
      <4>3. PICK n \in DOMAIN mains : mains[n].code = file[i].code
        BY <3>3, <4>2 DEF FileInv
      <4>4. file[i].key = KeyOf(mains[n])
        BY <2>4, <3>1, <3>3, <4>3 DEF MainsInv
      <4>5. mains[n] = mains'[m]
        BY <2>4, <3>1, <3>2, <4>1, <4>3
      <4>6. QED  BY <4>1, <4>4, <4>5
    <3>4. CASE i \notin DOMAIN file
      <4>1. /\ file'[i].code \in {main.code, Stray}
            /\ file'[i].key = Derive(file'[i].code, file'[i].params)
            /\ file'[i].code = main.code => file'[i].params = main.params
        BY <1>1, <2>4, <3>4, FileStep
      <4>2. file'[i].code = main.code
        BY <2>4, <3>1, <4>1, BuildKeys
      <4>3. mains'[m] = main
        BY <1>0, <2>4, <3>1, <3>2, <4>2
      <4>4. QED  BY <4>1, <4>2, <4>3 DEF KeyOf
    <3>5. QED  BY <3>3, <3>4
  <2>5. QED  BY <2>1, <2>2, <2>3, <2>4 DEF MainsInv
<1>2. ASSUME NEW present \in BOOLEAN, Release(present)
      PROVE  MainsInv'
  <2>1. UNCHANGED <<component, file, mains>>
    BY <1>2 DEF Release
  <2>2. main' = main /\ (OneKeyPerCode' <=> OneKeyPerCode)
    BY <2>1 DEF main, Last, OneKeyPerCode
  <2>3. QED  BY <2>1, <2>2 DEF MainsInv
<1>3. QED  BY <1>1, <1>2 DEF Next

LEMMA ReleasedInvStep ==
  ASSUME TypeOK, FileInv, ReleasedInv, Next
  PROVE  ReleasedInv'
<1>0. /\ main \in Build /\ Len(mains) \in DOMAIN mains /\ mains[Len(mains)] = main
  BY DEF TypeOK, main, Last
<1>1. CASE Merge
  <2>1. /\ component' = component /\ released' = released /\ live' = live
        /\ \A m \in DOMAIN mains : m \in DOMAIN mains' /\ mains'[m] = mains[m]
        /\ \A i \in DOMAIN file : i \in DOMAIN file' /\ file'[i] = file[i]
    BY <1>1, MainsStep, FileStep DEF Merge, live, Last
  <2>2. ASSUME NEW k \in DOMAIN released', Grandfathered(k)
        PROVE  Grandfathered(k)'
    BY <2>1, <2>2 DEF Grandfathered
  <2>3. ASSUME NEW k \in DOMAIN released'
        PROVE  Grandfathered(k)' \/ \E m \in DOMAIN mains' : released'[k] = KeyOf(mains'[m])
    <3>1. CASE Grandfathered(k)
      BY <2>2, <3>1
    <3>2. CASE \E m \in DOMAIN mains : released[k] = KeyOf(mains[m])
      BY <2>1, <3>2
    <3>3. QED  BY <2>1, <3>1, <3>2 DEF ReleasedInv
  <2>4. QED  BY <2>1, <2>3 DEF ReleasedInv
<1>2. ASSUME NEW present \in BOOLEAN, Release(present)
      PROVE  ReleasedInv'
  <2>1. /\ UNCHANGED <<component, file, mains>>
        /\ live' = KeyOf(main)
        /\ \A k \in DOMAIN released' :
             (k \in DOMAIN released /\ released'[k] = released[k]) \/ released'[k] = KeyOf(main)
    BY <1>2, ReleaseStep
  <2>2. live' # Odd
    BY <1>0, <2>1, BuildKeys
  <2>3. ASSUME NEW k \in DOMAIN released'
        PROVE  Grandfathered(k)' \/ \E m \in DOMAIN mains' : released'[k] = KeyOf(mains'[m])
    <3>1. CASE released'[k] = KeyOf(main)
      BY <1>0, <2>1, <3>1
    <3>2. CASE k \in DOMAIN released /\ released'[k] = released[k]
      BY <2>1, <3>2 DEF ReleasedInv, Grandfathered
    <3>3. QED  BY <2>1, <3>1, <3>2
  <2>4. QED  BY <2>2, <2>3 DEF ReleasedInv
<1>3. QED  BY <1>1, <1>2 DEF Next

LEMMA LineageInvStep ==
  ASSUME TypeOK, FileInv, LineageInv, Next
  PROVE  LineageInv'
<1>0. file \in Seq(Row)
  BY DEF TypeOK
<1>1. CASE Merge
  <2>1. lineage' = lineage
    BY <1>1 DEF Merge
  <2>2. ASSUME NEW i \in DOMAIN lineage
        PROVE  i \in DOMAIN file' /\ lineage[i] = Render(file')[i]
    <3>1. i \in DOMAIN file /\ lineage[i] = Render(file)[i]
      BY <2>2 DEF LineageInv
    <3>2. i \in DOMAIN file' /\ file'[i] = file[i] /\ EntryGenerations(file')[i] = EntryGenerations(file)[i]
      BY <1>1, <3>1, FileStep
    <3>3. QED  BY <3>1, <3>2 DEF Render
  <2>3. QED  BY <2>1, <2>2 DEF LineageInv
<1>2. ASSUME NEW present \in BOOLEAN, Release(present)
      PROVE  LineageInv'
  <2>1. file' = file /\ (lineage' = Render(file) \/ lineage' = Render(<<>>))
    BY <1>2, ReleaseStep
  <2>2. DOMAIN <<>> = {} /\ <<>> \in Seq(Row)
    OBVIOUS
  <2>3. DOMAIN Render(<<>>) = {} /\ DOMAIN Render(file) = DOMAIN file
    BY <1>0, <2>2, RenderedEntries
  <2>4. QED  BY <2>1, <2>3 DEF LineageInv
<1>3. QED  BY <1>1, <1>2 DEF Next

LEMMA OrderInvStep ==
  ASSUME TypeOK, FileInv, ReleasedInv, OrderInv, Next
  PROVE  OrderInv'
<1>0. /\ mains \in Seq(Build) /\ main \in Build
      /\ \A m \in DOMAIN mains : mains[m] \in Build /\ m \in 1 .. Len(mains)
      /\ Len(mains) \in DOMAIN mains /\ mains[Len(mains)] = main /\ Len(mains) \in Nat
  BY DEF TypeOK, main, Last
<1> SUFFICES ASSUME NoCodeTwice'
             PROVE  /\ \A i, j \in DOMAIN file', m, n \in DOMAIN mains' :
                         m < n /\ file'[i].code = mains'[m].code /\ file'[j].code = mains'[n].code
                           => Generation(i)' < Generation(j)'
                    /\ \A i, j \in DOMAIN file', n \in DOMAIN mains' :
                         component' = "delegate" /\ file'[i].key = Odd /\ file'[j].code = mains'[n].code
                           => Generation(i)' < Generation(j)'
                    /\ \A k, l \in DOMAIN released', m, n \in DOMAIN mains' :
                         k < l /\ released'[k] = KeyOf(mains'[m]) /\ released'[l] = KeyOf(mains'[n])
                           => m < n
  BY DEF OrderInv
<1>1. CASE Merge
  <2>1. /\ component' = component /\ released' = released
        /\ NoCodeTwice
        /\ \A m \in DOMAIN mains : m \in DOMAIN mains' /\ mains'[m] = mains[m]
        /\ \A m \in DOMAIN mains' : mains'[m] \in Build
        /\ \A m \in DOMAIN mains' \ DOMAIN mains : m > Len(mains) /\ m \in Nat
        /\ \A i \in DOMAIN file :
             i \in DOMAIN file' /\ file'[i] = file[i] /\ Generation(i)' = Generation(i)
    BY <1>1, MainsStep, FileStep DEF Merge, Generation
  \* A row of a merged build is of one that was merged before this step.
  <2>2. ASSUME NEW i \in DOMAIN file', NEW m \in DOMAIN mains', file'[i].code = mains'[m].code
        PROVE  /\ m \in DOMAIN mains
               /\ i \in DOMAIN file \/ m = Len(mains)
    <3>1. file'[i].code \notin {Stray, Old}
      BY <2>1, <2>2, BuildKeys
    <3>2. \A n \in DOMAIN mains : file'[i].code = mains[n].code => m = n
      BY <2>1, <2>2 DEF NoCodeTwice
    <3>3. CASE i \in DOMAIN file
      BY <2>1, <3>1, <3>2, <3>3 DEF FileInv
    <3>4. CASE i \notin DOMAIN file
      <4>1. file'[i].code = main.code
        BY <1>1, <3>1, <3>4, FileStep
      <4>2. QED  BY <1>0, <3>2, <4>1
    <3>5. QED  BY <3>3, <3>4
  \* A new row of a merged build comes after every other.
  <2>3. ASSUME NEW i \in DOMAIN file, NEW j \in DOMAIN file' \ DOMAIN file,
               NEW n \in DOMAIN mains', file'[j].code = mains'[n].code
        PROVE  Generation(i)' < Generation(j)'
    <3>1. n = Len(mains) /\ n \in DOMAIN mains
      BY <2>2, <2>3
    <3>2. file'[j].code = main.code
      BY <1>0, <2>1, <2>3, <3>1
    <3>3. QED  BY <1>1, <3>2, FileStep DEF Generation
  <2>4. ASSUME NEW i \in DOMAIN file', NEW j \in DOMAIN file', NEW m \in DOMAIN mains', NEW n \in DOMAIN mains',
               m < n, file'[i].code = mains'[m].code, file'[j].code = mains'[n].code
        PROVE  Generation(i)' < Generation(j)'
    <3>1. m \in DOMAIN mains /\ n \in DOMAIN mains
      BY <2>2, <2>4
    <3>2. i \in DOMAIN file
      BY <1>0, <2>2, <2>4, <3>1
    <3>3. CASE j \in DOMAIN file
      BY <2>1, <2>4, <3>1, <3>2, <3>3 DEF OrderInv
    <3>4. CASE j \notin DOMAIN file
      BY <2>3, <2>4, <3>2, <3>4
    <3>5. QED  BY <3>3, <3>4
  <2>5. ASSUME NEW i \in DOMAIN file', NEW j \in DOMAIN file', NEW n \in DOMAIN mains',
               component = "delegate", file'[i].key = Odd, file'[j].code = mains'[n].code
        PROVE  Generation(i)' < Generation(j)'
    <3>1. i \in DOMAIN file
      <4>1. SUFFICES ASSUME i \notin DOMAIN file  PROVE FALSE
        OBVIOUS
      <4>2. /\ file'[i] \in Row /\ file'[i].code \in {main.code, Stray}
            /\ file'[i].key = Derive(file'[i].code, file'[i].params)
        BY <1>1, <2>5, <4>1, FileStep
      <4>3. file'[i].code \in AnyCode /\ file'[i].params \in Params
        BY <4>2 DEF Row
      <4>4. QED  BY <2>5, <4>2, <4>3, KeysDiffer
    <3>2. n \in DOMAIN mains
      BY <2>2, <2>5
    <3>3. CASE j \in DOMAIN file
      BY <2>1, <2>5, <3>1, <3>2, <3>3 DEF OrderInv
    <3>4. CASE j \notin DOMAIN file
      BY <2>3, <2>5, <3>1, <3>4
    <3>5. QED  BY <3>3, <3>4
  <2>6. ASSUME NEW k \in DOMAIN released, NEW l \in DOMAIN released, NEW m \in DOMAIN mains', NEW n \in DOMAIN mains',
               k < l, released[k] = KeyOf(mains'[m]), released[l] = KeyOf(mains'[n])
        PROVE  m < n
    <3>1. ASSUME NEW x \in DOMAIN released, NEW p \in DOMAIN mains', released[x] = KeyOf(mains'[p])
          PROVE  p \in DOMAIN mains
      <4>1. mains'[p] \in Build /\ released[x] # Odd
        BY <2>1, <3>1, BuildKeys
      <4>2. PICK q \in DOMAIN mains : released[x] = KeyOf(mains[q])
        BY <4>1 DEF ReleasedInv, Grandfathered
      <4>3. mains[q] \in Build /\ mains'[q] = mains[q] /\ q \in DOMAIN mains'
        BY <1>0, <2>1
      <4>4. mains'[q].code = mains'[p].code
        <5>1. /\ mains[q].code \in AnyCode /\ mains[q].params \in Params
              /\ mains'[p].code \in AnyCode /\ mains'[p].params \in Params
          BY <4>1, <4>3, BuildKeys
        <5>2. Derive(mains[q].code, mains[q].params) = Derive(mains'[p].code, mains'[p].params)
          BY <3>1, <4>2 DEF KeyOf
        <5>3. QED  BY <4>3, <5>1, <5>2, KeysDiffer
      <4>5. QED  BY <4>3, <4>4 DEF NoCodeTwice
    <3>2. m \in DOMAIN mains /\ n \in DOMAIN mains
      BY <2>6, <3>1
    <3>3. QED  BY <2>1, <2>6, <3>2 DEF OrderInv
  <2>7. QED  BY <2>1, <2>4, <2>5, <2>6
<1>2. ASSUME NEW present \in BOOLEAN, Release(present)
      PROVE  OrderInv'
  <2>1. /\ UNCHANGED <<component, file, mains>>
        /\ \A i : Generation(i)' = Generation(i)
    BY <1>2 DEF Release, Generation
  <2>2. NoCodeTwice
    BY <2>1 DEF NoCodeTwice
  <2>3. ASSUME NEW k \in DOMAIN released', NEW l \in DOMAIN released', NEW m \in DOMAIN mains, NEW n \in DOMAIN mains,
               k < l, released'[k] = KeyOf(mains[m]), released'[l] = KeyOf(mains[n])
        PROVE  m < n
    <3>1. \A p \in DOMAIN mains : KeyOf(mains[p]) = KeyOf(main) => p = Len(mains)
      <4>1. ASSUME NEW p \in DOMAIN mains, KeyOf(mains[p]) = KeyOf(main)
            PROVE  p = Len(mains)
        <5>1. mains[p].code = mains[Len(mains)].code
          BY <1>0, <4>1, KeysDiffer, BuildKeys DEF KeyOf
        <5>2. QED  BY <1>0, <2>2, <5>1 DEF NoCodeTwice
      <4>2. QED  BY <4>1
    <3>2. CASE KeyOf(main) = live /\ released' = released
      BY <2>2, <2>3, <3>2 DEF OrderInv
    <3>3. CASE /\ KeyOf(main) # live /\ Len(released') = Len(released) + 1
               /\ \A x \in DOMAIN released : released'[x] = released[x] /\ x \in DOMAIN released'
      <4>1. /\ live' = KeyOf(main) /\ live' = released'[Len(released')]
            /\ DOMAIN released' = 1 .. Len(released') /\ DOMAIN released = 1 .. Len(released)
            /\ Len(released) \in Nat \ {0} /\ live = released[Len(released)]
        BY <1>2, ReleaseStep
      <4>2. k \in DOMAIN released /\ released[k] = KeyOf(mains[m])
        BY <2>3, <3>3, <4>1
      <4>3. CASE l \in DOMAIN released
        BY <2>2, <2>3, <3>3, <4>2, <4>3 DEF OrderInv
      <4>4. CASE l \notin DOMAIN released
        <5>1. released'[l] = KeyOf(main) /\ n = Len(mains)
          BY <2>3, <3>1, <3>3, <4>1, <4>4
        <5>2. SUFFICES ASSUME m = Len(mains)  PROVE FALSE
          BY <1>0, <5>1
        <5>3. k # Len(released)
          BY <1>0, <3>3, <4>1, <4>2, <5>2
        <5>4. Len(released) \in DOMAIN released /\ k < Len(released) /\ live # Odd
          BY <4>1, <4>2, <5>3 DEF ReleasedInv
        <5>5. PICK p \in DOMAIN mains : live = KeyOf(mains[p])
          BY <4>1, <5>4 DEF ReleasedInv, Grandfathered
        <5>6. m < p
          BY <2>2, <4>1, <4>2, <5>4, <5>5 DEF OrderInv
        <5>7. QED  BY <1>0, <5>2, <5>5, <5>6
      <4>5. QED  BY <4>3, <4>4
    <3>4. QED  BY <1>2, <3>2, <3>3, ReleaseStep
  <2>4. QED  BY <2>1, <2>2, <2>3 DEF OrderInv
<1>3. QED  BY <1>1, <1>2 DEF Next, OrderInv

LEMMA InitInv ==
  ASSUME Init
  PROVE  Inv
<1>1. PICK build \in Build :
        /\ mains = <<build>>
        /\ \/ file = <<>> /\ released = <<KeyOf(build)>>
           \/ /\ component = "delegate"
              /\ \E version \in {0, Unnumbered} :
                   /\ schema = "unified" => version # Unnumbered
                   /\ file = <<[version |-> version, code |-> Old, encoding |-> "hex",
                                key |-> Odd, params |-> build.params, irregular |-> TRUE]>>
              /\ released = <<Odd, KeyOf(build)>>
  BY DEF Init
<1>2. /\ mains \in Seq(Build) /\ mains # <<>> /\ DOMAIN mains = {1} /\ mains[1] = build /\ main = build
      /\ component \in {"contract", "delegate"} /\ schema \in {"unified", "entry"} /\ lineage = Render(file)
  BY <1>1 DEF main, Last, Init
<1>3. KeyOf(build) \in DelegateKey /\ KeyOf(build) # Odd /\ Odd \in DelegateKey
  BY BuildKeys DEF DelegateKey
<1>4. CASE file = <<>> /\ released = <<KeyOf(build)>>
  <2>1. DOMAIN file = {} /\ file \in Seq(Row) /\ released \in Seq(DelegateKey) /\ released # <<>>
        /\ DOMAIN released = {1} /\ released[1] = KeyOf(build) /\ live = KeyOf(build)
    BY <1>3, <1>4 DEF live, Last
  <2>2. DOMAIN lineage = {} /\ lineage \in Seq(EntryType)
    BY <1>2, <2>1, RenderedEntries
  <2>3. TypeOK
    BY <1>2, <2>1, <2>2 DEF TypeOK
  <2>4. FileInv
    BY <2>1 DEF FileInv, Numbered, ValidateUnique
  <2>5. MainsInv
    BY <1>2, <2>1 DEF MainsInv
  <2>6. ReleasedInv
    BY <1>2, <1>3, <2>1 DEF ReleasedInv
  <2>7. LineageInv
    BY <2>2 DEF LineageInv
  <2>8. OrderInv
    BY <2>1 DEF OrderInv
  <2>9. QED  BY <2>3, <2>4, <2>5, <2>6, <2>7, <2>8 DEF Inv
<1>5. ASSUME component = "delegate", released = <<Odd, KeyOf(build)>>, NEW version \in {0, Unnumbered},
             schema = "unified" => version # Unnumbered,
             file = <<[version |-> version, code |-> Old, encoding |-> "hex",
                       key |-> Odd, params |-> build.params, irregular |-> TRUE]>>
      PROVE  Inv
  <2> DEFINE row == [version |-> version, code |-> Old, encoding |-> "hex",
                     key |-> Odd, params |-> build.params, irregular |-> TRUE]
  <2>1. row \in Row
    BY BuildKeys, <1>3, BoundsAssumption DEF Row, AnyCode, Unnumbered
  <2>2. row.version = version /\ row.code = Old /\ row.key = Odd
    OBVIOUS
  <2>3. file = <<row>>
    BY <1>5
  <2> HIDE DEF row
  <2>4. /\ DOMAIN file = {1} /\ file \in Seq(Row) /\ file[1] = row
    BY <2>1, <2>3
  <2>5. /\ released \in Seq(DelegateKey) /\ released # <<>> /\ DOMAIN released = {1, 2} /\ Len(released) = 2
        /\ released[1] = Odd /\ released[2] = KeyOf(build) /\ live = KeyOf(build)
    BY <1>3, <1>5 DEF live, Last
  <2>6. DOMAIN lineage = {1} /\ lineage \in Seq(EntryType) /\ lineage[1].key = Odd
    BY <1>2, <2>2, <2>4, RenderedEntries
  <2>7. TypeOK
    BY <1>2, <2>4, <2>5, <2>6 DEF TypeOK
  <2>8. FileInv
    BY <1>5, <2>2, <2>4 DEF FileInv, Numbered, NoneNumbered, ValidateUnique, RowKey
  <2>9. MainsInv
    <3>1. build.code # Old
      BY BuildKeys
    <3>2. QED  BY <1>2, <2>2, <2>4, <3>1 DEF MainsInv
  <2>10. ReleasedInv
    BY <1>2, <1>3, <1>5, <2>2, <2>4, <2>5 DEF ReleasedInv, Grandfathered
  <2>11. LineageInv
    BY <1>2, <2>4, <2>6 DEF LineageInv
  <2>12. OrderInv
    <3>1. build.code # Old
      BY BuildKeys
    <3>2. QED  BY <1>2, <1>3, <2>2, <2>4, <2>5, <3>1 DEF OrderInv
  <2>13. QED  BY <2>7, <2>8, <2>9, <2>10, <2>11, <2>12 DEF Inv
<1>6. QED  BY <1>1, <1>4, <1>5

LEMMA StepInv ==
  ASSUME Inv, [Next]_vars
  PROVE  Inv'
<1>1. CASE Next
  BY <1>1, TypeStep, FileInvStep, MainsInvStep, ReleasedInvStep, LineageInvStep, OrderInvStep DEF Inv
<1>2. CASE UNCHANGED vars
  <2>1. /\ UNCHANGED <<component, schema, file, mains, released, lineage>>
        /\ main' = main /\ live' = live
    BY <1>2 DEF vars, main, live, Last
  <2>2. TypeOK' /\ FileInv'
    BY <2>1 DEF Inv, TypeOK, FileInv, Numbered, NoneNumbered, ValidateUnique, SameCode,
       EntryGenerations, RowKey
  <2>3. MainsInv' /\ ReleasedInv'
    BY <2>1 DEF Inv, MainsInv, ReleasedInv, Grandfathered, OneKeyPerCode
  <2>4. LineageInv' /\ OrderInv'
    BY <2>1 DEF Inv, LineageInv, OrderInv, NoCodeTwice, Generation
  <2>5. QED  BY <2>2, <2>3, <2>4 DEF Inv
<1>3. QED  BY <1>1, <1>2

\* The inductive invariant.
THEOREM ReleaseInvariant == Spec => []Inv
BY InitInv, StepInv, PTL DEF Spec

\* Types, and that a delegate's entry holds a key of its build or the grandfathered one.
THEOREM TypeCorrect == Spec => []TypeOK
BY ReleaseInvariant, PTL DEF Inv

-------------------------------------------------------------------------------
(* What a release asks.                                                       *)

\* What is asked for row i of the registry under some parameters.
LEMMA RowTargets ==
  ASSUME Inv, NEW params \in Params, NEW i \in DOMAIN file
  PROVE  /\ i \in DOMAIN Render(file)
         /\ Render(file)[i].generation = Generation(i)
         /\ file[i].code \in AnyCode
         /\ component = "contract" => TargetUnder(Render(file)[i], params) = Derive(file[i].code, params)
         /\ component = "delegate" => TargetUnder(Render(file)[i], params) = file[i].key
         /\ \A c \in Code, p \in Params :
              TargetUnder(Render(file)[i], params) = Derive(c, p) => file[i].code = c
<1>1. /\ file \in Seq(Row) /\ component \in {"contract", "delegate"}
      /\ component = "delegate" => RowKey(file[i])
  BY DEF Inv, TypeOK, FileInv
<1>2. /\ i \in DOMAIN Render(file) /\ file[i] \in Row
      /\ Render(file)[i].code = file[i].code /\ Render(file)[i].key = file[i].key
      /\ Render(file)[i].generation = Generation(i)
  BY <1>1, RenderedEntries DEF Generation
<1>3. file[i].code \in AnyCode /\ file[i].params \in Params
  BY <1>2 DEF Row
<1>4. /\ component = "contract" => TargetUnder(Render(file)[i], params) = Derive(file[i].code, params)
      /\ component = "delegate" => TargetUnder(Render(file)[i], params) = file[i].key
  BY <1>2 DEF TargetUnder
<1>5. ASSUME NEW c \in Code, NEW p \in Params, TargetUnder(Render(file)[i], params) = Derive(c, p)
      PROVE  file[i].code = c
  <2>1. c \in AnyCode
    BY DEF AnyCode
  <2>2. CASE component = "contract"
    BY <1>3, <1>4, <1>5, <2>1, <2>2, KeysDiffer
  <2>3. CASE component = "delegate"
    <3>1. file[i].key = Derive(c, p) /\ file[i].key # Odd
      BY <1>4, <1>5, <2>1, <2>3, KeysDiffer
    <3>2. file[i].key = Derive(file[i].code, file[i].params)
      BY <1>1, <2>3, <3>1 DEF RowKey
    <3>3. Derive(file[i].code, file[i].params) = Derive(c, p)
      BY <3>1, <3>2
    <3>4. QED  BY <1>3, <1>5, <2>1, <3>3, KeysDiffer
  <2>4. QED  BY <1>1, <2>2, <2>3
<1>6. QED  BY <1>2, <1>3, <1>4, <1>5

\* Two rows have different codes, generations and targets.
LEMMA RowsDiffer ==
  ASSUME Inv, NEW params \in Params, NEW i \in DOMAIN file, NEW j \in DOMAIN file, i # j
  PROVE  /\ Generation(i) # Generation(j)
         /\ TargetUnder(Render(file)[i], params) # TargetUnder(Render(file)[j], params)
<1>1. /\ file \in Seq(Row) /\ component \in {"contract", "delegate"}
      /\ file[i] \in Row /\ file[j] \in Row
      /\ component = "delegate" => RowKey(file[i]) /\ RowKey(file[j])
  BY DEF Inv, TypeOK, FileInv
<1>2. i \in Nat /\ j \in Nat /\ (i < j \/ j < i)
  BY <1>1
<1>3. file[i].code # file[j].code /\ Generation(i) # Generation(j)
  BY <1>2 DEF Inv, FileInv, ValidateUnique, SameCode, Generation
<1>4. /\ file[i].code \in AnyCode /\ file[i].params \in Params
      /\ file[j].code \in AnyCode /\ file[j].params \in Params
  BY <1>1 DEF Row
<1>5. CASE component = "contract"
  BY <1>3, <1>4, <1>5, RowTargets, KeysDiffer
<1>6. CASE component = "delegate"
  <2>1. file[i].key # file[j].key
    BY <1>1, <1>3, <1>4, <1>6, KeysDiffer DEF RowKey
  <2>2. TargetUnder(Render(file)[i], params) = file[i].key
    BY <1>6, RowTargets
  <2>3. TargetUnder(Render(file)[j], params) = file[j].key
    BY <1>6, RowTargets
  <2>4. QED  BY <1>3, <2>1, <2>2, <2>3
<1>7. QED  BY <1>1, <1>5, <1>6

\* The live key carries parameters.
LEMMA LiveParams ==
  ASSUME TypeOK, ReleasedInv
  PROVE  live[2] \in Params
<1>1. live \in DelegateKey /\ live # Odd
  BY DEF TypeOK, ReleasedInv, live, Last
<1>2. QED  BY <1>1 DEF DelegateKey

\* A predecessor is asked once and has a generation of its own.
THEOREM OneEntryPerPredecessorHolds == Spec => []OneEntryPerPredecessor
<1>1. ASSUME Inv
      PROVE  OneEntryPerPredecessor
  <2>1. live[2] \in Params
    BY <1>1, LiveParams DEF Inv
  <2>2. ASSUME NEW i \in DOMAIN lineage, NEW j \in DOMAIN lineage, i # j
        PROVE  /\ Target(lineage[i]) # Target(lineage[j])
               /\ lineage[i].generation # lineage[j].generation
    <3>1. i \in DOMAIN file /\ lineage[i] = Render(file)[i]
      BY <1>1 DEF Inv, LineageInv
    <3>2. j \in DOMAIN file /\ lineage[j] = Render(file)[j]
      BY <1>1 DEF Inv, LineageInv
    <3>3. QED  BY <1>1, <2>1, <2>2, <3>1, <3>2, RowsDiffer, RowTargets DEF Target
  <2>3. QED  BY <2>2 DEF OneEntryPerPredecessor
<1>2. QED  BY <1>1, ReleaseInvariant, PTL

\* The entry of a predecessor in one release is its entry in the next.
THEOREM EntriesStandHolds == Spec => EntriesStand
<1>1. ASSUME Inv, [Next]_vars
      PROVE  [~AllowMissing =>
                \A i \in DOMAIN lineage : \E j \in DOMAIN lineage' : lineage'[j] = lineage[i]]_vars
  <2>1. SUFFICES ASSUME Next, ~AllowMissing, NEW i \in DOMAIN lineage
                 PROVE  i \in DOMAIN lineage' /\ lineage'[i] = lineage[i]
    BY <1>1
  <2>2. CASE Merge
    BY <2>2 DEF Merge
  <2>3. ASSUME NEW present \in BOOLEAN, Release(present)
        PROVE  i \in DOMAIN lineage' /\ lineage'[i] = lineage[i]
    <3>1. lineage' = Render(file)
      BY <1>1, <2>1, <2>3, ReleaseStep DEF Inv
    <3>2. i \in DOMAIN file /\ lineage[i] = Render(file)[i] /\ file \in Seq(Row)
      BY <1>1 DEF Inv, LineageInv, TypeOK
    <3>3. QED  BY <3>1, <3>2, RenderedEntries
  <2>4. QED  BY <2>1, <2>2, <2>3 DEF Next
<1>2. QED  BY <1>1, ReleaseInvariant, PTL DEF Spec, EntriesStand

-------------------------------------------------------------------------------
(* Every key that was live.                                                   *)

\* After a release the lineage is the registry's, asked under the build's parameters.
LEMMA Shipped ==
  ASSUME Inv, ~AllowMissing, NEW present \in BOOLEAN, Release(present)
  PROVE  /\ lineage' = Render(file) /\ DOMAIN lineage' = DOMAIN file
         /\ live' = KeyOf(main) /\ main \in Build /\ main.params \in Params
         /\ \A i \in DOMAIN file : Target(lineage[i])' = TargetUnder(Render(file)[i], main.params)
<1>1. /\ lineage' = Render(file) /\ live' = KeyOf(main) /\ component' = component
  BY ReleaseStep DEF Inv
<1>2. main \in Build /\ file \in Seq(Row)
  BY DEF Inv, TypeOK, main, Last
<1>3. live'[2] = main.params /\ main.params \in Params
  BY <1>1, <1>2, BuildKeys
<1>4. DOMAIN lineage' = DOMAIN file
  BY <1>1, <1>2, RenderedEntries
<1>5. ASSUME NEW i \in DOMAIN file
      PROVE  Target(lineage[i])' = TargetUnder(Render(file)[i], main.params)
  BY <1>1, <1>3 DEF Target, TargetUnder
<1>6. QED  BY <1>1, <1>2, <1>3, <1>4, <1>5

\* A registered build's row is asked under its key.
LEMMA RegisteredIsAsked ==
  ASSUME Inv, OneKeyPerCode, NEW m \in DOMAIN mains, NEW i \in DOMAIN file,
         file[i].code = mains[m].code
  PROVE  TargetUnder(Render(file)[i], main.params) = KeyOf(mains[m])
<1>1. /\ mains[m] \in Build /\ main \in Build /\ main.params \in Params
      /\ component \in {"contract", "delegate"}
  BY BuildKeys DEF Inv, TypeOK, main, Last
<1>2. CASE component = "contract"
  <2>1. mains[m].params = main.params
    BY <1>2 DEF Inv, MainsInv
  <2>2. TargetUnder(Render(file)[i], main.params) = Derive(file[i].code, main.params)
    BY <1>1, <1>2, RowTargets
  <2>3. QED  BY <2>1, <2>2 DEF KeyOf
<1>3. CASE component = "delegate"
  <2>1. file[i].key = KeyOf(mains[m])
    BY <1>3 DEF Inv, MainsInv
  <2>2. TargetUnder(Render(file)[i], main.params) = file[i].key
    BY <1>1, <1>3, RowTargets
  <2>3. QED  BY <2>1, <2>2
<1>4. QED  BY <1>1, <1>2, <1>3

\* The initial release asks for the grandfathered key, if there is one.
LEMMA InitReachable ==
  ASSUME Init
  PROVE  EveryReleaseReachable /\ LastRetiredAskedFirst
<1>1. Inv
  BY InitInv
<1>2. PICK build \in Build :
        \/ file = <<>> /\ released = <<KeyOf(build)>>
        \/ component = "delegate" /\ Len(file) = 1 /\ file[1].key = Odd /\ released = <<Odd, KeyOf(build)>>
  BY DEF Init
<1>3. CASE file = <<>> /\ released = <<KeyOf(build)>>
  <2>1. Len(released) = 1 /\ released[1] = live
    BY <1>3 DEF live, Last
  <2>2. QED  BY <2>1 DEF EveryReleaseReachable, LastRetiredAskedFirst
<1>4. CASE component = "delegate" /\ Len(file) = 1 /\ file[1].key = Odd /\ released = <<Odd, KeyOf(build)>>
  <2>1. Len(released) = 2 /\ released[1] = Odd /\ released[2] = live
    BY <1>4 DEF live, Last
  <2>2. file \in Seq(Row) /\ DOMAIN file = {1} /\ lineage = Render(file)
    BY <1>1, <1>4 DEF Init, Inv, TypeOK
  <2>3. DOMAIN lineage = {1} /\ lineage[1].key = Odd
    BY <1>4, <2>2, RenderedEntries
  <2>4. Target(lineage[1]) = Odd
    BY <1>4, <2>3 DEF Target, TargetUnder
  <2>5. EveryReleaseReachable
    BY <2>1, <2>3, <2>4 DEF EveryReleaseReachable
  <2>6. LastRetiredAskedFirst
    BY <2>1, <2>3, <2>4 DEF LastRetiredAskedFirst
  <2>7. QED  BY <2>5, <2>6
<1>5. QED  BY <1>2, <1>3, <1>4

LEMMA StepReachable ==
  ASSUME Inv, EveryReleaseReachable, [Next]_vars
  PROVE  EveryReleaseReachable'
<1>1. CASE Merge
  <2>1. /\ UNCHANGED <<component, released, lineage>> /\ live' = live
        /\ OneKeyPerCode' => OneKeyPerCode
    BY <1>1, MainsStep DEF Merge, Inv, live, Last
  <2>2. QED  BY <2>1 DEF EveryReleaseReachable, Target, TargetUnder
<1>2. ASSUME NEW present \in BOOLEAN, Release(present)
      PROVE  EveryReleaseReachable'
  <2>1. UNCHANGED <<component, file, mains>>
    BY <1>2 DEF Release
  <2>2. SUFFICES ASSUME ~AllowMissing, OneKeyPerCode, NEW k \in 1 .. Len(released'),
                        released'[k] # live'
                 PROVE  \E i \in DOMAIN lineage' : Target(lineage[i])' = released'[k]
    BY <2>1 DEF EveryReleaseReachable, OneKeyPerCode
  <2>3. /\ DOMAIN lineage' = DOMAIN file /\ live' = KeyOf(main)
        /\ \A i \in DOMAIN file : Target(lineage[i])' = TargetUnder(Render(file)[i], main.params)
        /\ main.params \in Params
    BY <1>2, <2>2, Shipped
  <2>4. k \in DOMAIN released /\ released'[k] = released[k]
    BY <1>2, <2>2, ReleaseStep DEF Inv
  <2>5. CASE Grandfathered(k)
    <3>1. PICK i \in DOMAIN file : file[i].key = Odd
      BY <2>5 DEF Grandfathered
    <3>2. component = "delegate" /\ released[k] = Odd
      BY <2>5 DEF Grandfathered
    <3>3. TargetUnder(Render(file)[i], main.params) = file[i].key
      BY <2>3, <3>2, RowTargets
    <3>4. QED  BY <2>3, <2>4, <3>1, <3>2, <3>3
  <2>6. ASSUME NEW m \in DOMAIN mains, released[k] = KeyOf(mains[m])
        PROVE  \E i \in DOMAIN lineage' : Target(lineage[i])' = released'[k]
    <3>1. mains[m].code # main.code
      <4>1. Len(mains) \in DOMAIN mains /\ main = mains[Len(mains)]
        BY DEF Inv, TypeOK, main, Last
      <4>2. QED  BY <2>2, <2>3, <2>4, <2>6, <4>1 DEF OneKeyPerCode
    <3>2. PICK i \in DOMAIN file : file[i].code = mains[m].code
      BY <3>1 DEF Inv, MainsInv
    <3>3. TargetUnder(Render(file)[i], main.params) = KeyOf(mains[m])
      BY <2>2, <3>2, RegisteredIsAsked
    <3>4. QED  BY <2>3, <2>4, <2>6, <3>2, <3>3
  <2>7. QED  BY <2>4, <2>5, <2>6 DEF Inv, ReleasedInv
<1>3. CASE UNCHANGED vars
  BY <1>3 DEF vars, EveryReleaseReachable, OneKeyPerCode, Target, TargetUnder, live, Last
<1>4. QED  BY <1>1, <1>2, <1>3 DEF Next

\* Every key that was ever live is the live one or is asked by the live release.
THEOREM EveryReleaseReachableHolds == Spec => []EveryReleaseReachable
<1>1. Init => Inv /\ EveryReleaseReachable
  BY InitInv, InitReachable
<1>2. Inv /\ EveryReleaseReachable /\ [Next]_vars => (Inv /\ EveryReleaseReachable)'
  BY StepInv, StepReachable
<1>3. QED  BY <1>1, <1>2, PTL DEF Spec

-------------------------------------------------------------------------------
(* The order in which they are asked.                                         *)

\* The entry of the key retired last, at a release: no other key that was live,
\* but the live one itself, has a higher generation.
LEMMA ReleasedInOrder ==
  ASSUME Inv, Inv', ~AllowMissing, NoCodeTwice, NEW present \in BOOLEAN, Release(present),
         Len(released') > 1
  PROVE  LastRetiredAskedFirst'
<1> DEFINE last == Len(released') - 1
           asked(i) == TargetUnder(Render(file)[i], main.params)
<1>1. /\ lineage' = Render(file) /\ DOMAIN lineage' = DOMAIN file /\ live' = KeyOf(main)
      /\ main \in Build /\ main.params \in Params
      /\ \A i \in DOMAIN file : Target(lineage[i])' = asked(i)
  BY Shipped
<1>2. /\ UNCHANGED <<component, file, mains>>
      /\ Len(released') \in Nat /\ DOMAIN released' = 1 .. Len(released')
      /\ live' = released'[Len(released')]
  BY ReleaseStep DEF Inv
<1>3. /\ mains \in Seq(Build) /\ Len(mains) \in DOMAIN mains /\ mains[Len(mains)] = main
      /\ \A m \in DOMAIN mains : mains[m] \in Build /\ m \in Nat
  BY DEF Inv, TypeOK, main, Last
<1>4. last \in DOMAIN released' /\ Len(released') \in DOMAIN released' /\ last < Len(released')
  BY <1>2
\* What went live, in the state after the release.
<1>5. \A k \in DOMAIN released' :
        \/ component = "delegate" /\ k = 1 /\ released'[k] = Odd /\ \E i \in DOMAIN file : file[i].key = Odd
        \/ \E m \in DOMAIN mains : released'[k] = KeyOf(mains[m])
  BY <1>2 DEF Inv, ReleasedInv, Grandfathered
<1>6. \A k, l \in DOMAIN released', m, n \in DOMAIN mains :
        k < l /\ released'[k] = KeyOf(mains[m]) /\ released'[l] = KeyOf(mains[n]) => m < n
  BY <1>2 DEF Inv, OrderInv, NoCodeTwice
<1>7. \A i \in DOMAIN file : lineage'[i].generation = Generation(i)
  BY <1>1, RowTargets
<1>8. \A i, j \in DOMAIN file : asked(i) = asked(j) => i = j
  BY <1>1, RowsDiffer
<1> HIDE DEF asked
<1>9. SUFFICES ASSUME NEW i \in DOMAIN file, asked(i) = released'[last],
                      \A j \in DOMAIN file \ {i} : \A k \in 1 .. last - 1 :
                        asked(j) = released'[k] => Generation(j) < Generation(i)
               PROVE  LastRetiredAskedFirst'
  <2>1. CASE component = "delegate" /\ last = 1 /\ released'[last] = Odd /\ \E i \in DOMAIN file : file[i].key = Odd
    <3>1. PICK i \in DOMAIN file : file[i].key = Odd
      BY <2>1
    <3>2. asked(i) = released'[last]
      BY <1>1, <2>1, <3>1, RowTargets DEF asked
    <3>3. \A k \in 1 .. last - 1 : FALSE
      <4>1. SUFFICES ASSUME NEW k \in 1 .. last - 1
                     PROVE  FALSE
        OBVIOUS
      <4>2. Len(released') \in Nat /\ last = 1
        BY <1>2, <2>1
      <4>3. QED  BY <4>2
    <3>4. QED  BY <1>9, <3>2, <3>3
  <2>2. ASSUME NEW m \in DOMAIN mains, released'[last] = KeyOf(mains[m])
        PROVE  LastRetiredAskedFirst'
    <3>1. m < Len(mains)
      BY <1>1, <1>2, <1>3, <1>4, <1>6, <2>2
    <3>2. mains[m].code # main.code
      BY <1>3, <3>1 DEF NoCodeTwice
    <3>3. PICK i \in DOMAIN file : file[i].code = mains[m].code
      BY <3>2 DEF Inv, MainsInv
    <3>4. asked(i) = released'[last]
      BY <2>2, <3>3, RegisteredIsAsked, NoCodeTwiceIsOneKey DEF asked
    <3>5. ASSUME NEW j \in DOMAIN file \ {i}, NEW k \in 1 .. last - 1, asked(j) = released'[k]
          PROVE  Generation(j) < Generation(i)
      <4>1. k \in DOMAIN released' /\ k < last
        BY <1>2
      <4>2. CASE component = "delegate" /\ released'[k] = Odd
        <5>1. file[j].key = Odd
          BY <1>1, <3>5, <4>2, RowTargets DEF asked
        <5>2. QED  BY <3>3, <4>2, <5>1 DEF Inv, OrderInv
      <4>3. ASSUME NEW n \in DOMAIN mains, released'[k] = KeyOf(mains[n])
            PROVE  Generation(j) < Generation(i)
        <5>1. n < m
          BY <1>4, <1>6, <2>2, <4>1, <4>3
        <5>2. mains[n].code \in Code /\ mains[n].params \in Params
          BY <1>3, BuildKeys
        <5>3. file[j].code = mains[n].code
          BY <1>1, <3>5, <4>3, <5>2, RowTargets DEF asked, KeyOf
        <5>4. QED  BY <3>3, <5>1, <5>3 DEF Inv, OrderInv
      <4>4. QED  BY <1>5, <4>1, <4>2, <4>3
    <3>6. QED  BY <1>9, <3>4, <3>5
  <2>3. QED  BY <1>4, <1>5, <2>1, <2>2
<1>10. ASSUME NEW j \in DOMAIN file \ {i}
       PROVE  \/ Generation(j) < Generation(i)
              \/ asked(j) = live'
              \/ \A k \in 1 .. Len(released') : asked(j) # released'[k]
  <2>1. SUFFICES ASSUME asked(j) # live', NEW k \in 1 .. Len(released'), asked(j) = released'[k]
                 PROVE  Generation(j) < Generation(i)
    OBVIOUS
  <2>2. k # Len(released')
    BY <1>2, <2>1
  <2>3. k # last
    BY <1>8, <1>9, <1>10, <2>1
  <2>4. k \in 1 .. last - 1
    <3>1. /\ Len(released') \in Nat /\ k \in 1 .. Len(released')
          /\ k # Len(released') /\ k # Len(released') - 1
      BY <1>2, <2>1, <2>2, <2>3
    <3>2. QED  BY <3>1
  <2>5. QED  BY <1>9, <1>10, <2>1, <2>4
<1>11. QED
  BY <1>1, <1>7, <1>9, <1>10 DEF LastRetiredAskedFirst

LEMMA StepNewest ==
  ASSUME Inv, Inv', NewestAskedFirst, [Next]_vars
  PROVE  NewestAskedFirst'
<1>1. CASE Merge
  <2>1. /\ UNCHANGED <<component, released, lineage>> /\ live' = live
        /\ NoCodeTwice' => NoCodeTwice
    BY <1>1, MainsStep DEF Merge, Inv, live, Last
  <2>2. QED  BY <2>1 DEF NewestAskedFirst, LastRetiredAskedFirst, Target, TargetUnder
<1>2. ASSUME NEW present \in BOOLEAN, Release(present)
      PROVE  NewestAskedFirst'
  <2>1. mains' = mains
    BY <1>2 DEF Release
  <2>2. SUFFICES ASSUME ~AllowMissing, NoCodeTwice
                 PROVE  LastRetiredAskedFirst'
    BY <2>1 DEF NewestAskedFirst, NoCodeTwice
  <2>3. CASE Len(released') > 1
    BY <1>2, <2>2, <2>3, ReleasedInOrder
  <2>4. CASE ~(Len(released') > 1)
    BY <2>4 DEF LastRetiredAskedFirst
  <2>5. QED  BY <2>3, <2>4
<1>3. CASE UNCHANGED vars
  BY <1>3 DEF vars, NewestAskedFirst, LastRetiredAskedFirst, NoCodeTwice, Target, TargetUnder, live, Last
<1>4. QED  BY <1>1, <1>2, <1>3 DEF Next

\* Of the keys that were live, the one retired last has the highest generation, as
\* long as the component is never reverted.
THEOREM NewestAskedFirstHolds == Spec => []NewestAskedFirst
<1>1. Init => Inv /\ NewestAskedFirst
  BY InitInv, InitReachable DEF NewestAskedFirst
<1>2. Inv /\ NewestAskedFirst /\ [Next]_vars => (Inv /\ NewestAskedFirst)'
  BY StepInv, StepNewest
<1>3. QED  BY <1>1, <1>2, PTL DEF Spec
===============================================================================
