-------------------------- MODULE SecretImport_proofs --------------------------
(***************************************************************************)
(* Proofs about SecretImport, for any number of generations, any keys and  *)
(* scope, any cap, and any number of exports, edits and faults.            *)
(***************************************************************************)
EXTENDS SecretImport, FiniteSetTheorems, TLAPS

-------------------------------------------------------------------------------
(* The keys of a store.                                                       *)

LEMMA MarkersDiffer ==
  /\ \A s \in Predecessor : /\ WipMarker(s) \in Reserved /\ DoneMarker(s) \in Reserved
                            /\ WipMarker(s) \in Key /\ DoneMarker(s) \in Key
  /\ \A s, t \in Predecessor : /\ WipMarker(s) # DoneMarker(t)
                               /\ WipMarker(s) = WipMarker(t) => s = t
                               /\ DoneMarker(s) = DoneMarker(t) => s = t
BY DEF WipMarker, DoneMarker, Reserved, Key

LEMMA AppKeysAreNoMarkers ==
  \A k \in AppKey : /\ k \in Key /\ ~IsMarker(k)
                    /\ \A s \in Predecessor : k # WipMarker(s) /\ k # DoneMarker(s)
BY ReservedAssumption, MarkersDiffer DEF Key, IsMarker

LEMMA KeyIsFinite == IsFiniteSet(Key)
<1> DEFINE wips == {WipMarker(s) : s \in Predecessor}
           dones == {DoneMarker(s) : s \in Predecessor}
           wipOf == [s \in Predecessor |-> WipMarker(s)]
           doneOf == [s \in Predecessor |-> DoneMarker(s)]
<1>1. IsFiniteSet(Predecessor)
  BY GenerationsAssumption, FS_Interval DEF Predecessor
<1>2. wipOf \in Surjection(Predecessor, wips) /\ doneOf \in Surjection(Predecessor, dones)
  BY DEF Surjection
<1>3. IsFiniteSet(wips) /\ IsFiniteSet(dones)
  BY <1>1, <1>2, FS_Surjection
<1>4. IsFiniteSet({JournalKey})
  BY FS_Singleton
<1> HIDE DEF wips, dones
<1>5. IsFiniteSet(wips \cup dones)
  BY <1>3, FS_Union
<1>6. IsFiniteSet((wips \cup dones) \cup {JournalKey})
  BY <1>4, <1>5, FS_Union
<1>7. Reserved = (wips \cup dones) \cup {JournalKey}
  BY DEF Reserved, wips, dones
<1>8. QED
  BY <1>6, <1>7, FiniteAssumption, FS_Union DEF Key

\* A store that lists no more than before holds no more names.
LEMMA FewerKeysStored ==
  ASSUME NEW fewer \in SUBSET Key, NEW more \in SUBSET Key, fewer \subseteq more,
         Cardinality(more) <= Cap
  PROVE  Cardinality(fewer) <= Cap
<1>1. IsFiniteSet(more)
  BY KeyIsFinite, FS_Subset
<1>2. Cardinality(fewer) <= Cardinality(more) /\ IsFiniteSet(fewer)
  BY <1>1, FS_Subset
<1>3. Cardinality(fewer) \in Nat /\ Cardinality(more) \in Nat
  BY <1>1, <1>2, FS_CardinalityType
<1>4. QED
  BY <1>2, <1>3, CapAssumption

\* One write changes one key of one delegate.
LEMMA OneWrite ==
  ASSUME TypeOK, NEW d \in Delegate, NEW k \in Key, NEW value \in MarkerValue,
         store' = [store EXCEPT ![d][k] = value]
  PROVE  /\ store' \in [Delegate -> [Key -> MarkerValue]]
         /\ \A e \in Delegate, j \in Key :
              store'[e][j] = IF e = d /\ j = k THEN value ELSE store[e][j]
BY DEF TypeOK

\* Where there is an import there is a delegate.
LEMMA AtHand ==
  ASSUME TypeOK
  PROVE  /\ run # Idle <=> run.at # 0
         /\ run # Idle => /\ run.at \in Delegate /\ run.export \in Export
                          /\ run.export.from \in Predecessor
                          /\ run.todo \subseteq run.export.keys
                          /\ run.export.keys \subseteq AppKey
         /\ Idle.at = 0 /\ Idle.todo = {} /\ Idle.export = NoExport
BY DEF TypeOK, Idle, Export, Delegate

-------------------------------------------------------------------------------
(* Type correctness.                                                          *)

\* What a truncated-free listing of s is, and what it becomes.
LEMMA ListedWhole ==
  ASSUME NEW s \in Predecessor, NEW listed \in ListSecrets(s), ~Truncated(listed)
  PROVE  listed = Stored(s)
<1>1. CASE Cardinality(Stored(s)) <= Cap
  BY <1>1 DEF ListSecrets
<1>2. CASE ~(Cardinality(Stored(s)) <= Cap)
  <2>1. Cardinality(listed) = Cap
    BY <1>2 DEF ListSecrets
  <2>2. QED
    BY <2>1, CapAssumption DEF Truncated
<1>3. QED
  BY <1>1, <1>2

\* An export carries every key of the scope but those that failed to be read, and
\* none of the crate's own.
LEMMA AnswerCarriesReadable ==
  ASSUME NEW s \in Predecessor, NEW unread
  PROVE  LET answer == [from     |-> s,
                        keys     |-> ToRead(Stored(s)) \ unread,
                        readable |-> (Stored(s) \cap Scope) \ unread]
         IN answer \in Export /\ answer.readable \subseteq answer.keys
<1>1. Stored(s) \subseteq AppKey \cup Reserved
  BY DEF Stored, Key
<1>2. Covered(Stored(s)) \subseteq AppKey \cup Reserved
  BY <1>1, ScopeAssumption DEF Covered
<1>3. ToRead(Stored(s)) \ unread \in SUBSET AppKey
  BY <1>2 DEF ToRead, IsMarker
<1>4. (Stored(s) \cap Scope) \ unread \in SUBSET AppKey
  BY ScopeAssumption
<1>5. Stored(s) \cap Scope \subseteq ToRead(Stored(s))
  BY ScopeAssumption, AppKeysAreNoMarkers DEF ToRead, Covered
<1>6. QED
  BY <1>3, <1>4, <1>5 DEF Export

LEMMA InitType == Init => TypeOK
<1> SUFFICES ASSUME Init PROVE TypeOK
  OBVIOUS
<1>1. store \in [Delegate -> [Key -> MarkerValue]]
  BY DEF Init, MarkerValue
<1>2. run \in Run
  BY DEF Init, Idle, Run, MarkerValue
<1>3. edits \in 0 .. MaxEdits /\ faults \in 0 .. MaxFaults
  BY BoundsAssumption DEF Init
<1>4. QED
  BY <1>1, <1>2, <1>3 DEF Init, TypeOK

\* A step of the type invariant, one case per action.
LEMMA StepType == TypeOK /\ [Next]_vars => TypeOK'
<1> SUFFICES ASSUME TypeOK, [Next]_vars PROVE TypeOK'
  OBVIOUS
<1>1. ASSUME NEW s \in Predecessor, HandleExportRequest(s) PROVE TypeOK'
  <2>1. PICK listed \in ListSecrets(s) : \E unread \in SUBSET ToRead(listed) :
          /\ ~Truncated(listed)
          /\ unread # {} => faults < MaxFaults
          /\ exports' = exports \cup {[from     |-> s,
                                       keys     |-> ToRead(listed) \ unread,
                                       readable |-> (Stored(s) \cap Scope) \ unread]}
          /\ faults' = IF unread = {} THEN faults ELSE faults + 1
    BY <1>1 DEF HandleExportRequest
  <2>2. listed = Stored(s)
    BY <2>1, ListedWhole
  <2>3. exports' \subseteq Export
    <3>1. PICK unread : exports' = exports \cup {[from     |-> s,
                                                  keys     |-> ToRead(Stored(s)) \ unread,
                                                  readable |-> (Stored(s) \cap Scope) \ unread]}
      BY <2>1, <2>2
    <3>2. QED
      BY <3>1, AnswerCarriesReadable DEF TypeOK
  <2>4. faults' \in 0 .. MaxFaults
    BY <2>1, BoundsAssumption DEF TypeOK
  <2>5. UNCHANGED <<api, store, run, took, edits>>
    BY <1>1 DEF HandleExportRequest
  <2>6. QED
    BY <2>3, <2>4, <2>5 DEF TypeOK
<1>2. ASSUME NEW d \in Delegate, NEW e \in exports, BeginImport(d, e) PROVE TypeOK'
  <2>1. e \in Export /\ e.from \in Predecessor /\ WipMarker(e.from) \in Key
    BY MarkersDiffer DEF TypeOK, Export
  <2>2. MarkerFlag(d, e.from, e.keys) \in MarkerValue
    BY DEF MarkerFlag, StickyInProgress, MarkerValue
  <2>3. store' \in [Delegate -> [Key -> MarkerValue]]
    BY <1>2, <2>1, <2>2, OneWrite DEF BeginImport
  <2>4. run' \in Run /\ run'.at \in Delegate /\ run'.export \in Export
                     /\ run'.todo \subseteq run'.export.keys
    BY <1>2, <2>1, <2>2 DEF BeginImport, Run, Export
  <2>5. QED
    BY <1>2, <2>3, <2>4 DEF BeginImport, TypeOK
<1>3. ASSUME NEW d \in Delegate, NEW k \in AppKey, Edit(d, k) PROVE TypeOK'
  <2>1. store' \in [Delegate -> [Key -> MarkerValue]]
    BY <1>3, AppKeysAreNoMarkers DEF Edit, TypeOK, MarkerValue
  <2>2. QED
    BY <1>3, <2>1, BoundsAssumption DEF Edit, TypeOK
<1>4. ASSUME NEW d \in Delegate, NEW s \in Predecessor, NoteAppImport(d, s) PROVE TypeOK'
  <2>1. store' \in [Delegate -> [Key -> MarkerValue]]
    BY <1>4, MarkersDiffer, OneWrite DEF NoteAppImport, MarkerValue
  <2>2. QED
    BY <1>4, <2>1, BoundsAssumption DEF NoteAppImport, TypeOK
<1>5. ASSUME NEW k \in AppKey, WriteSecret(k) PROVE TypeOK'
  <2>1. run # Idle /\ k \in Key
    BY <1>5, AtHand, AppKeysAreNoMarkers DEF WriteSecret
  <2>2. store' \in [Delegate -> [Key -> MarkerValue]]
    BY <1>5, <2>1 DEF WriteSecret, TypeOK, MarkerValue
  <2>3. took' \in [Delegate -> [Predecessor -> SUBSET AppKey]]
    BY <1>5, <2>1, AtHand DEF WriteSecret, TypeOK
  <2>4. run' \in Run /\ run'.at = run.at /\ run'.export = run.export /\ run'.todo \subseteq run.todo
    BY <1>5 DEF WriteSecret, TypeOK, Run
  <2>5. QED
    BY <1>5, <2>1, <2>2, <2>3, <2>4 DEF WriteSecret, TypeOK
<1>6. ASSUME NEW k \in AppKey, WriteFails(k) PROVE TypeOK'
  <2>1. run # Idle
    BY <1>6, AtHand DEF WriteFails
  <2>2. run' \in Run /\ run'.at = run.at /\ run'.export = run.export /\ run'.todo \subseteq run.todo
    BY <1>6 DEF WriteFails, TypeOK, Run
  <2>3. QED
    BY <1>6, <2>1, <2>2, BoundsAssumption DEF WriteFails, TypeOK
<1>7. Idle \in Run
  BY DEF Idle, Run, MarkerValue
<1>8. CASE SealImport
  <2>1. store' \in [Delegate -> [Key -> MarkerValue]]
    <3>1. run.flag \in MarkerValue /\ DoneMarker(run.export.from) \in Key
      BY <1>8, AtHand, MarkersDiffer DEF SealImport, TypeOK, Run
    <3>2. QED
      BY <1>8, <3>1, AtHand, OneWrite DEF SealImport
  <2>2. QED
    BY <1>7, <1>8, <2>1 DEF SealImport, TypeOK
<1>9. CASE EndIncomplete
  BY <1>7, <1>9 DEF EndIncomplete, TypeOK
<1>10. CASE Die
  BY <1>7, <1>10, BoundsAssumption DEF Die, TypeOK
<1>11. ASSUME NEW e \in exports, Lose(e) PROVE TypeOK'
  BY <1>11 DEF Lose, TypeOK
<1>12. CASE UNCHANGED vars
  BY <1>12 DEF vars, TypeOK
<1>13. QED
  BY <1>1, <1>2, <1>3, <1>4, <1>5, <1>6, <1>8, <1>9, <1>10, <1>11, <1>12 DEF Next

\* A delegate's store, the exports and the import at hand keep their shape.
THEOREM TypeCorrect == Spec => []TypeOK
BY InitType, StepType, PTL DEF Spec

-------------------------------------------------------------------------------
(* The inductive invariant.                                                   *)

LEMMA InitImportInv == Init => ImportInv
<1> SUFFICES ASSUME Init PROVE ImportInv
  OBVIOUS
<1>1. TypeOK
  BY InitType
<1>2. ExportsCarryReadable
  BY DEF Init, ExportsCarryReadable, Idle, NoExport
<1>3. MarkersTell
  <2>1. \A d \in Delegate, s \in Predecessor : took[d][s] = {} /\ Done(d, s) = "absent"
    <3>1. \A s \in Predecessor : /\ DoneMarker(s) \in Key /\ DoneMarker(s) \notin AppKey
                                 /\ DoneMarker(s) # JournalKey
      BY MarkersDiffer, AppKeysAreNoMarkers DEF DoneMarker, JournalKey
    <3>2. QED
      BY <3>1, StocksAssumption DEF Init, Done
  <2>2. QED
    BY <2>1 DEF MarkersTell
<1>4. QED
  BY <1>1, <1>2, <1>3 DEF Init, ImportInv, ImportAtHand, NothingNewer


\* What is done to other stores does not disturb the import at hand.
LEMMA ImportUndisturbed ==
  ASSUME ImportInv, UNCHANGED <<api, run, took>>,
         run # Idle => \A k \in Key : store'[run.at][k] = store[run.at][k]
  PROVE  ImportAtHand' /\ NothingNewer'
<1>1. CASE run = Idle
  BY <1>1 DEF ImportAtHand, NothingNewer
<1>2. CASE run # Idle
  <2>1. run.at \in Delegate /\ run.export.from \in Predecessor
    BY <1>2, AtHand DEF ImportInv
  <2>2. Stored(run.at)' = Stored(run.at)
    BY <1>2 DEF Stored, HasSecret
  <2>3. \A s \in Predecessor : Wip(run.at, s)' = Wip(run.at, s) /\ Done(run.at, s)' = Done(run.at, s)
    BY <1>2, MarkersDiffer DEF Wip, Done
  <2>4. ImportAtHand'
    BY <1>2, <2>1, <2>3 DEF ImportInv, ImportAtHand
  <2>5. \A newer \in run.export.from + 1 .. Generations - 1 : newer \in Predecessor
    BY <2>1, GenerationsAssumption DEF Predecessor
  <2>6. NothingNewer'
    BY <1>2, <2>2, <2>3, <2>5 DEF ImportInv, NothingNewer
  <2>7. QED
    BY <2>4, <2>6
<1>3. QED
  BY <1>1, <1>2

\* In-progress markers only ever come to say data.
LEMMA MarkersStillTell ==
  ASSUME MarkersTell, UNCHANGED <<api, took>>,
         \A d \in Delegate, s \in Predecessor :
           Done(d, s)' = Done(d, s) /\ (Wip(d, s)' = Wip(d, s) \/ Wip(d, s)' = "data")
  PROVE  MarkersTell'
BY DEF MarkersTell

LEMMA BeginsImport ==
  ASSUME ImportInv, TypeOK', NEW d \in Delegate, NEW e \in exports, BeginImport(d, e)
  PROVE  ImportInv'
<1> DEFINE flag == MarkerFlag(d, e.from, e.keys)
<1>1. /\ e \in Export /\ e.from \in Predecessor /\ WipMarker(e.from) \in Key
      /\ e.keys \subseteq AppKey /\ TypeOK
  BY MarkersDiffer DEF ImportInv, TypeOK, Export
<1>2. /\ run' = [at |-> d, export |-> e, todo |-> {k \in e.keys : ~IsMarker(k)},
                 failed |-> FALSE, flag |-> flag]
      /\ UNCHANGED <<api, exports, took>>
  BY DEF BeginImport
<1>3. flag \in MarkerValue /\ flag # "absent"
  BY DEF MarkerFlag, StickyInProgress, MarkerValue
<1>4. \A c \in Delegate, j \in Key :
        store'[c][j] = IF c = d /\ j = WipMarker(e.from) THEN flag ELSE store[c][j]
  BY <1>1, <1>3, OneWrite DEF BeginImport
<1>5. \A c \in Delegate, s \in Predecessor :
        /\ Done(c, s)' = Done(c, s)
        /\ Wip(c, s)' = IF c = d /\ s = e.from THEN flag ELSE Wip(c, s)
  BY <1>1, <1>4, MarkersDiffer DEF Done, Wip
<1>6. run' # Idle /\ run'.at = d /\ run'.export = e
  BY <1>2 DEF Idle, Delegate
<1>7. HadData(e.keys) <=> e.keys # {}
  BY <1>1, AppKeysAreNoMarkers DEF HadData
<1>8. ImportAtHand'
  <2>1. Done(d, e.from) # "data"
    BY DEF BeginImport, MayImportGeneration, MayImportPredecessor, AlreadyMigrated, HasSecret,
           Done, EmptySealContradicted
  <2>2. run'.export.keys \subseteq run'.todo
    BY <1>1, <1>2, AppKeysAreNoMarkers
  <2>3. api = ByPredecessor => (flag = "data" <=> e.keys # {})
    BY <1>7 DEF BeginImport, MayImportPredecessor, MarkerFlag, StickyInProgress, ByPredecessor, ByGeneration
  <2>4. QED
    BY <1>1, <1>2, <1>5, <1>6, <2>1, <2>2, <2>3 DEF ImportAtHand
<1>9. NothingNewer'
  <2>1. SUFFICES ASSUME api = ByGeneration, Cardinality(Stored(d)') <= Cap,
                        NEW newer \in e.from + 1 .. Generations - 1
                 PROVE  Done(d, newer)' = "absent"
    BY <1>2, <1>6 DEF NothingNewer
  <2>2. newer \in Predecessor /\ ~(newer <= e.from)
    BY <1>1, <2>1, GenerationsAssumption DEF Predecessor
  <2>3. Stored(d) \subseteq Stored(d)'
    BY <1>3, <1>4 DEF Stored, HasSecret
  <2>4. Cardinality(Stored(d)) <= Cap
    BY <2>1, <2>3, FewerKeysStored DEF Stored
  <2>5. PICK listed \in ListSecrets(d) : MayImportGeneration(d, e.from, listed)
    BY <2>1 DEF BeginImport, ByGeneration, ByPredecessor
  <2>6. listed = Stored(d)
    BY <2>4, <2>5 DEF ListSecrets
  <2>7. DoneMarker(newer) \notin Stored(d)
    BY <2>2, <2>5, <2>6 DEF MayImportGeneration, NewestCompleted
  <2>8. Done(d, newer) = "absent"
    BY <2>2, <2>7, MarkersDiffer DEF Stored, HasSecret, Done
  <2>9. QED
    BY <1>5, <2>2, <2>8
<1>10. ExportsCarryReadable'
  BY <1>2, <1>6 DEF ImportInv, ExportsCarryReadable
<1>11. MarkersTell'
  <2>1. SUFFICES ASSUME api = ByPredecessor PROVE MarkersTell'
    BY <1>2 DEF MarkersTell
  <2>2. Wip(d, e.from) = "data" => flag = "data"
    BY <2>1 DEF MarkerFlag, StickyInProgress, ByGeneration, ByPredecessor
  <2>3. QED
    BY <1>2, <1>5, <2>2 DEF ImportInv, MarkersTell
<1>12. QED
  BY <1>8, <1>9, <1>10, <1>11 DEF ImportInv

LEMMA WritesSecret ==
  ASSUME ImportInv, TypeOK', NEW k \in AppKey, WriteSecret(k)
  PROVE  ImportInv'
<1>0. PICK d \in Delegate, from \in Predecessor : d = run.at /\ from = run.export.from
  BY AtHand DEF ImportInv, WriteSecret
<1>1. /\ TypeOK /\ run # Idle /\ d = run.at /\ from = run.export.from
      /\ k \in run.export.keys /\ k \in Key
  BY <1>0, AtHand, AppKeysAreNoMarkers DEF ImportInv, WriteSecret
<1>2. /\ run' # Idle /\ run'.at = d /\ run'.export = run.export /\ run'.todo = run.todo \ {k}
      /\ run'.failed = run.failed /\ run'.flag = run.flag
  BY <1>1, AtHand DEF WriteSecret, TypeOK, Run
<1>3. \A c \in Delegate, s \in Predecessor :
        took'[c][s] = IF c = d /\ s = from THEN took[c][s] \cup {k} ELSE took[c][s]
  BY <1>1 DEF WriteSecret, TypeOK
<1>4. \A c \in Delegate, j \in Key :
        \/ store'[c][j] = store[c][j]
        \/ c = d /\ j = k /\ store'[c][j] = "data"
  BY <1>1 DEF WriteSecret, TypeOK
<1>5. \A c \in Delegate, s \in Predecessor : Done(c, s)' = Done(c, s) /\ Wip(c, s)' = Wip(c, s)
  BY <1>4, MarkersDiffer, AppKeysAreNoMarkers DEF Done, Wip
<1>6. UNCHANGED <<api, exports>>
  BY DEF WriteSecret
<1>7. ImportAtHand'
  <2>1. run.failed \/ run.export.keys \subseteq run'.todo \cup took'[d][from]
    BY <1>1, <1>2, <1>3 DEF ImportInv, ImportAtHand
  <2>2. QED
    BY <1>1, <1>2, <1>5, <1>6, <2>1 DEF ImportInv, ImportAtHand
<1>8. NothingNewer'
  <2>1. SUFFICES ASSUME api = ByGeneration, Cardinality(Stored(d)') <= Cap,
                        NEW newer \in from + 1 .. Generations - 1
                 PROVE  Done(d, newer)' = "absent"
    BY <1>1, <1>2, <1>6 DEF NothingNewer
  <2>2. Stored(d) \subseteq Stored(d)'
    BY <1>1, <1>4 DEF Stored, HasSecret
  <2>3. Cardinality(Stored(d)) <= Cap
    BY <2>1, <2>2, FewerKeysStored DEF Stored
  <2>4. newer \in Predecessor
    BY <1>1, <2>1, GenerationsAssumption DEF Predecessor
  <2>5. QED
    BY <1>1, <1>5, <2>1, <2>3, <2>4 DEF ImportInv, NothingNewer
<1>9. ExportsCarryReadable'
  BY <1>2, <1>6 DEF ImportInv, ExportsCarryReadable
<1>10. MarkersTell'
  <2>1. api = ByPredecessor => Wip(d, from) = "data"
    BY <1>1 DEF ImportInv, ImportAtHand
  <2>2. \A c \in Delegate, s \in Predecessor :
          /\ took[c][s] # {} => took'[c][s] # {}
          /\ (c = d /\ s = from) \/ took'[c][s] = took[c][s]
    BY <1>3
  <2>3. QED
    BY <1>5, <1>6, <2>1, <2>2 DEF ImportInv, MarkersTell
<1>11. QED
  BY <1>7, <1>8, <1>9, <1>10 DEF ImportInv

LEMMA SealsImport ==
  ASSUME ImportInv, TypeOK', SealImport
  PROVE  ImportInv'
<1>1. /\ TypeOK /\ run # Idle /\ run.at \in Delegate /\ run.export.from \in Predecessor
      /\ DoneMarker(run.export.from) \in Key /\ run.flag \in MarkerValue
  BY AtHand, MarkersDiffer DEF ImportInv, SealImport, TypeOK, Run
<1>2. \A c \in Delegate, j \in Key :
        store'[c][j] = IF c = run.at /\ j = DoneMarker(run.export.from) THEN run.flag ELSE store[c][j]
  BY <1>1, OneWrite DEF SealImport
<1>3. \A c \in Delegate, s \in Predecessor :
        /\ Wip(c, s)' = Wip(c, s)
        /\ Done(c, s)' = IF c = run.at /\ s = run.export.from THEN run.flag ELSE Done(c, s)
  BY <1>1, <1>2, MarkersDiffer DEF Done, Wip
<1>4. api = ByPredecessor /\ run.flag = "data" => took[run.at][run.export.from] # {}
  BY <1>1 DEF SealImport, Complete, ImportInv, ImportAtHand
<1>5. MarkersTell'
  BY <1>1, <1>3, <1>4 DEF SealImport, ImportInv, MarkersTell
<1>6. ExportsCarryReadable'
  BY DEF SealImport, ImportInv, ExportsCarryReadable, Idle, NoExport
<1>7. ImportAtHand' /\ NothingNewer'
  BY DEF SealImport, ImportAtHand, NothingNewer
<1>8. QED
  BY <1>5, <1>6, <1>7 DEF ImportInv

\* A step of the invariant, one case per action.
LEMMA StepImportInv == ImportInv /\ [Next]_vars => ImportInv'
<1> SUFFICES ASSUME ImportInv, [Next]_vars PROVE ImportInv'
  OBVIOUS
<1>a. TypeOK /\ TypeOK'
  BY StepType DEF ImportInv
<1>1. ASSUME NEW s \in Predecessor, HandleExportRequest(s) PROVE ImportInv'
  <2>1. PICK listed \in ListSecrets(s) : \E unread \in SUBSET ToRead(listed) :
          /\ ~Truncated(listed)
          /\ exports' = exports \cup {[from     |-> s,
                                       keys     |-> ToRead(listed) \ unread,
                                       readable |-> (Stored(s) \cap Scope) \ unread]}
    BY <1>1 DEF HandleExportRequest
  <2>2. listed = Stored(s)
    BY <2>1, ListedWhole
  <2>3. UNCHANGED <<api, store, run, took>>
    BY <1>1 DEF HandleExportRequest
  <2>4. ExportsCarryReadable'
    BY <2>1, <2>2, <2>3, AnswerCarriesReadable DEF ImportInv, ExportsCarryReadable
  <2>5. ImportAtHand' /\ NothingNewer'
    BY <2>3, ImportUndisturbed
  <2>6. MarkersTell'
    BY <2>3, MarkersStillTell DEF ImportInv, Done, Wip
  <2>7. QED
    BY <1>a, <2>4, <2>5, <2>6 DEF ImportInv
<1>2. ASSUME NEW d \in Delegate, NEW e \in exports, BeginImport(d, e) PROVE ImportInv'
  BY <1>a, <1>2, BeginsImport
<1>3. ASSUME NEW d \in Delegate, NEW k \in AppKey, Edit(d, k) PROVE ImportInv'
  <2>1. UNCHANGED <<api, exports, run, took>> /\ run.at # d
    BY <1>3 DEF Edit
  <2>2. \A c \in Delegate, j \in Key : (c = d /\ j = k) \/ store'[c][j] = store[c][j]
    BY <1>a, <1>3, AppKeysAreNoMarkers DEF Edit, TypeOK
  <2>3. ImportAtHand' /\ NothingNewer'
    BY <1>a, <2>1, <2>2, AtHand, ImportUndisturbed
  <2>4. MarkersTell'
    BY <2>1, <2>2, MarkersDiffer, AppKeysAreNoMarkers, MarkersStillTell DEF ImportInv, Done, Wip
  <2>5. ExportsCarryReadable'
    BY <2>1 DEF ImportInv, ExportsCarryReadable
  <2>6. QED
    BY <1>a, <2>3, <2>4, <2>5 DEF ImportInv
<1>4. ASSUME NEW d \in Delegate, NEW s \in Predecessor, NoteAppImport(d, s) PROVE ImportInv'
  <2>1. UNCHANGED <<api, exports, run, took>> /\ run.at # d
    BY <1>4 DEF NoteAppImport
  <2>2. \A c \in Delegate, j \in Key :
          store'[c][j] = IF c = d /\ j = WipMarker(s) THEN "data" ELSE store[c][j]
    BY <1>a, <1>4, MarkersDiffer, OneWrite DEF NoteAppImport, MarkerValue
  <2>3. ImportAtHand' /\ NothingNewer'
    BY <1>a, <2>1, <2>2, AtHand, ImportUndisturbed
  <2>4. MarkersTell'
    BY <2>1, <2>2, MarkersDiffer, MarkersStillTell DEF ImportInv, Done, Wip
  <2>5. ExportsCarryReadable'
    BY <2>1 DEF ImportInv, ExportsCarryReadable
  <2>6. QED
    BY <1>a, <2>3, <2>4, <2>5 DEF ImportInv
<1>5. ASSUME NEW k \in AppKey, WriteSecret(k) PROVE ImportInv'
  BY <1>a, <1>5, WritesSecret
<1>6. ASSUME NEW k \in AppKey, WriteFails(k) PROVE ImportInv'
  <2>1. /\ run # Idle /\ run' # Idle /\ run'.at = run.at /\ run'.export = run.export
        /\ run'.failed = TRUE /\ run'.flag = run.flag
        /\ UNCHANGED <<api, store, exports, took>>
    BY <1>a, <1>6, AtHand DEF WriteFails, TypeOK, Run
  <2>2. ImportAtHand' /\ NothingNewer'
    BY <2>1 DEF ImportInv, ImportAtHand, NothingNewer, Done, Wip, Stored, HasSecret
  <2>3. ExportsCarryReadable' /\ MarkersTell'
    BY <2>1 DEF ImportInv, ExportsCarryReadable, MarkersTell, Done, Wip
  <2>4. QED
    BY <1>a, <2>2, <2>3 DEF ImportInv
<1>7. CASE SealImport
  BY <1>a, <1>7, SealsImport
<1>8. CASE EndIncomplete \/ Die
  <2>1. run' = Idle /\ UNCHANGED <<api, store, exports, took>>
    BY <1>8 DEF EndIncomplete, Die
  <2>2. ImportAtHand' /\ NothingNewer'
    BY <2>1 DEF ImportAtHand, NothingNewer
  <2>3. ExportsCarryReadable' /\ MarkersTell'
    BY <2>1 DEF ImportInv, ExportsCarryReadable, MarkersTell, Done, Wip, Idle, NoExport
  <2>4. QED
    BY <1>a, <2>2, <2>3 DEF ImportInv
<1>9. ASSUME NEW e \in exports, Lose(e) PROVE ImportInv'
  <2>1. UNCHANGED <<api, store, run, took>> /\ exports' \subseteq exports
    BY <1>9 DEF Lose
  <2>2. ImportAtHand' /\ NothingNewer'
    BY <2>1, ImportUndisturbed
  <2>3. ExportsCarryReadable' /\ MarkersTell'
    BY <2>1 DEF ImportInv, ExportsCarryReadable, MarkersTell, Done, Wip
  <2>4. QED
    BY <1>a, <2>2, <2>3 DEF ImportInv
<1>10. CASE UNCHANGED vars
  BY <1>10 DEF vars, ImportInv, TypeOK, ImportAtHand, NothingNewer, ExportsCarryReadable, MarkersTell,
               Done, Wip, Stored, HasSecret
<1>11. QED
  BY <1>1, <1>2, <1>3, <1>4, <1>5, <1>6, <1>7, <1>8, <1>9, <1>10 DEF Next

\* The inductive invariant.
THEOREM ImportInvariant == Spec => []ImportInv
BY InitImportInv, StepImportInv, PTL DEF Spec


-------------------------------------------------------------------------------
(* What follows from it.                                                      *)

\* Whatever an import took can be told from the markers: a predecessor reads as
\* empty only if nothing was taken from it, and as data only if something was.
THEOREM FlagTellsDataHolds == Spec => []FlagTellsData
<1>1. ImportInv => FlagTellsData
  BY DEF ImportInv, MarkersTell, FlagTellsData, MigrationHadData, EmptySealContradicted
<1>2. QED  BY <1>1, ImportInvariant, PTL

\* A completion marker only changes when the import at hand is sealed.
LEMMA OnlySealImportSeals ==
  ASSUME ImportInv, [Next]_vars, NEW d \in Delegate, NEW s \in Predecessor, Seals(d, s)
  PROVE  /\ SealImport /\ d = run.at /\ s = run.export.from /\ Done(d, s)' = run.flag
<1>1. TypeOK /\ DoneMarker(s) \in Key /\ DoneMarker(s) \notin AppKey
  BY MarkersDiffer, AppKeysAreNoMarkers DEF ImportInv
<1>2. store'[d][DoneMarker(s)] # store[d][DoneMarker(s)]
  BY DEF Seals, Done
<1>3. ASSUME NEW c \in Delegate, NEW e \in exports, BeginImport(c, e) PROVE FALSE
  <2>1. e.from \in Predecessor /\ WipMarker(e.from) # DoneMarker(s)
    BY <1>1, MarkersDiffer DEF TypeOK, Export
  <2>2. QED
    BY <1>1, <1>2, <1>3, <2>1 DEF BeginImport, TypeOK
<1>4. ASSUME NEW c \in Delegate, NEW k \in AppKey, Edit(c, k) PROVE FALSE
  BY <1>1, <1>2, <1>4 DEF Edit, TypeOK
<1>5. ASSUME NEW c \in Delegate, NEW t \in Predecessor, NoteAppImport(c, t) PROVE FALSE
  BY <1>1, <1>2, <1>5, MarkersDiffer DEF NoteAppImport, TypeOK
<1>6. ASSUME NEW k \in AppKey, WriteSecret(k) PROVE FALSE
  BY <1>1, <1>2, <1>6 DEF WriteSecret, TypeOK
<1>7. store' # store
  BY <1>2
<1>8. SealImport
  BY <1>3, <1>4, <1>5, <1>6, <1>7
     DEF Next, HandleExportRequest, WriteFails, EndIncomplete, Die, Lose, vars
<1>9. run.at \in Delegate /\ run.export.from \in Predecessor /\ run.flag \in MarkerValue
  BY <1>1, <1>8, AtHand DEF SealImport, TypeOK, Run
<1>10. \A c \in Delegate, j \in Key :
        store'[c][j] = IF c = run.at /\ j = DoneMarker(run.export.from) THEN run.flag ELSE store[c][j]
  BY <1>1, <1>8, <1>9, MarkersDiffer, OneWrite DEF SealImport
<1>11. d = run.at /\ s = run.export.from
  BY <1>1, <1>2, <1>9, <1>10, MarkersDiffer
<1>12. QED
  BY <1>1, <1>8, <1>10, <1>11 DEF Done

\* A seal that says data is written only when every key the predecessor held, when
\* it was asked, has been brought over or was there already, but for the keys whose
\* reads failed beside others that were exported.
THEOREM SealCoversReadableHolds == Spec => SealCoversReadable
<1> DEFINE Covers(d, s) == /\ run.at = d /\ run.export.from = s
                           /\ run.export.readable \subseteq took[d][s]
                           /\ api = ByPredecessor => run.export.keys # {}
<1>1. ASSUME ImportInv, [Next]_vars, NEW d \in Delegate, NEW s \in Predecessor,
             Seals(d, s), Done(d, s)' = "data"
      PROVE  Covers(d, s)
  <2>1. SealImport /\ d = run.at /\ s = run.export.from /\ run.flag = "data"
    BY <1>1, OnlySealImportSeals
  <2>2. api = ByPredecessor => run.export.keys # {}
    BY <1>1, <2>1 DEF SealImport, ImportInv, ImportAtHand
  <2>3. run.export.readable \subseteq run.export.keys
    BY <1>1 DEF ImportInv, ExportsCarryReadable
  <2>4. run.export.keys \subseteq took[d][s]
    BY <1>1, <2>1 DEF SealImport, Complete, ImportInv, ImportAtHand
  <2>5. QED
    BY <2>1, <2>2, <2>3, <2>4
<1> DEFINE SealsCover == \A d \in Delegate, s \in Predecessor :
                           Seals(d, s) /\ Done(d, s)' = "data" => Covers(d, s)
<1>2. ImportInv /\ [Next]_vars => SealsCover
  BY <1>1
<1> HIDE DEF SealsCover
<1>3. Spec => [][SealsCover]_vars
  BY <1>2, ImportInvariant, PTL DEF Spec
<1>4. QED
  BY <1>3 DEF SealCoversReadable, SealsCover

\* Who imports has an import at hand.
LEMMA ImportsAtHand ==
  ASSUME ImportInv, NEW d \in Delegate, NEW s \in Predecessor, Imports(d, s)
  PROVE  run # Idle /\ run.at = d /\ run.export.from = s
BY AtHand DEF ImportInv, Imports, Delegate

\* A predecessor sealed as data brings no key back, whatever arrives again.
THEOREM NoResurrectionHolds == Spec => NoResurrection
<1> DEFINE NoneBack == \A d \in Delegate, s \in Predecessor : Imports(d, s) => Done(d, s) # "data"
<1>1. ImportInv => NoneBack
  BY ImportsAtHand DEF ImportInv, ImportAtHand
<1> HIDE DEF NoneBack
<1>2. Spec => [][NoneBack]_vars
  BY <1>1, ImportInvariant, PTL DEF Spec
<1>3. QED
  BY <1>2 DEF NoResurrection, NoneBack

\* In a store that is not past the cap nothing older than a sealed generation is
\* imported.
THEOREM NoRollbackHolds == Spec => NoRollback
<1> DEFINE Forward == \A d \in Delegate, s \in Predecessor :
                        /\ api = ByGeneration
                        /\ Cardinality(Stored(d)) <= Cap
                        /\ Imports(d, s)
                        => \A newer \in s + 1 .. Generations - 1 : Done(d, newer) = "absent"
<1>1. ImportInv => Forward
  BY ImportsAtHand DEF ImportInv, NothingNewer
<1> HIDE DEF Forward
<1>2. Spec => [][Forward]_vars
  BY <1>1, ImportInvariant, PTL DEF Spec
<1>3. QED
  BY <1>2 DEF NoRollback, Forward

===============================================================================
