----------------------- MODULE ProvenanceReader_proofs -----------------------
(***************************************************************************)
(* Proofs about ExportProvenance, for any number of exporters, outputs,    *)
(* files, intervals and contents, and then about ProvenanceReader, for any *)
(* readers, reports and loads of theirs.  The argument for the exporters:  *)
(* the flock makes the exporter between its release and its acquisition    *)
(* the only one there (LockCoversCommit), so the manifest it read is still *)
(* the manifest when it replaces it (CommitInProgress), which gives the    *)
(* ledger refinement; and the first directory fsync makes the data durable *)
(* before that (CommitInProgress, at "synced"), which gives                *)
(* ReceiptedFamilyIsWhole.  For the readers: exporters behave as in        *)
(* ExportProvenance whatever readers do (ReaderStep), so a manifest read   *)
(* at any time binds receipts, and receipts are for ever (SeenIsReceipted);*)
(* and the session of a reader that nobody disturbs is one look at one     *)
(* directory (SessionInProgress).                                          *)
(***************************************************************************)
EXTENDS ProvenanceReader, TLAPS

-----------------------------------------------------------------------------
(* Facts about exports and manifests *)

(* A staged export has a layout, an interval and a content for each name.  *)
LEMMA ExportFields ==
    ASSUME NEW e \in Export
    PROVE  /\ e.layout \in Layouts
           /\ e.layout \subseteq Names
           /\ e.layout # {}
           /\ e.interval \in Intervals
           /\ e.content \in [e.layout -> Digests]
           /\ StaleNames(e) \subseteq Names
           /\ FamilyWritten(e) \subseteq Families
BY LayoutAssumption, FamilyAssumption DEF Export, StaleNames, FamilyWritten

(* The value Fetch stages is an Export.                                    *)
LEMMA ExportIntro ==
    ASSUME NEW layout \in Layouts, NEW interval \in Intervals,
           NEW content \in [layout -> Digests]
    PROVE  [layout |-> layout, interval |-> interval, content |-> content]
               \in Export
BY DEF Export

(* A name an export does not cover is not of the family it writes.         *)
LEMMA FamilyCovered ==
    ASSUME NEW e \in Export, NEW n \in Names
    PROVE  FamilyOf[n] \in FamilyWritten(e)
               <=> n \in e.layout \/ n \in StaleNames(e)
BY ExportFields DEF StaleNames, FamilyWritten

(* The merged manifest is a manifest.                                      *)
LEMMA MergedType ==
    ASSUME NEW b \in Manifest, NEW e \in Export
    PROVE  Merged(b, e) \in Manifest
<1>1. b.generation + 1 \in Nat
  BY DEF Manifest
<1>2. ASSUME NEW n \in e.layout
      PROVE  [interval |-> e.interval, digest |-> e.content[n]] \in Entry
  BY ExportFields DEF Entry
<1>3. [n \in Names |->
         IF n \in e.layout
         THEN [interval |-> e.interval, digest |-> e.content[n]]
         ELSE IF n \in StaleNames(e) THEN NoEntry
         ELSE b.entries[n]] \in [Names -> Entry \cup {NoEntry}]
  BY <1>2 DEF Manifest
<1>4. QED
  BY <1>1, <1>3 DEF Merged, Manifest

(* Malformed is not a manifest.                                            *)
LEMMA MalformedIsNoManifest == Malformed \notin Manifest
BY SentinelAssumption DEF Manifest, Entry

(* A directory without a manifest reads as a manifest with no entries.     *)
LEMMA NoManifestType == NoManifest \in Manifest
BY DEF NoManifest, Manifest

-----------------------------------------------------------------------------
(* Type correctness *)

(* Initially the directory is well typed.                                  *)
LEMMA InitType == Init => TypeOK
BY NoManifestType, FamilyAssumption, BoundAssumption
   DEF Init, TypeOK, PCs, Content

(* Leaving resets an exporter's record.                                    *)
LEMMA LeaveType ==
    ASSUME TypeOK, NEW w \in Writers, Leave(w)
    PROVE  /\ pc' \in [Writers -> PCs]
           /\ export' \in [Writers -> Export \cup {NoExport}]
           /\ base' \in [Writers -> Manifest]
           /\ todo' \in [Writers -> SUBSET Names]
           /\ doomed' \in [Writers -> SUBSET Names]
           /\ lock' \in Writers \cup {Free}
BY NoManifestType DEF TypeOK, Leave, PCs

(* A type-correct state in the middle of a commit steps to one.            *)
LEMMA NextType == IInv /\ [Next]_vars => TypeOK'
<1> SUFFICES ASSUME IInv, [Next]_vars PROVE TypeOK'
  OBVIOUS
<1> USE DEF writerVars, diskVars, counterVars, historyVars
<1>0. TypeOK
  BY DEF IInv
<1>1. ASSUME NEW w \in Writers, Fetch(w) PROVE TypeOK'
  <2>1. export' \in [Writers -> Export \cup {NoExport}]
    BY <1>0, <1>1, ExportIntro DEF Fetch, TypeOK
  <2>2. exportsStarted' \in 0..MaxExports
    BY <1>0, <1>1, BoundAssumption DEF Fetch, TypeOK
  <2>3. pc' \in [Writers -> PCs]
    BY <1>0, <1>1 DEF Fetch, TypeOK, PCs
  <2>4. QED
    BY <1>0, <1>1, <2>1, <2>2, <2>3 DEF Fetch, TypeOK
<1>2. ASSUME NEW w \in Writers, Acquire(w) PROVE TypeOK'
  BY <1>0, <1>2 DEF Acquire, TypeOK, PCs
<1>3. ASSUME NEW w \in Writers, ReadDirectory(w) PROVE TypeOK'
  <2>1. todo' \in [Writers -> SUBSET Names]
    BY <1>0, <1>3, ExportFields DEF ReadDirectory, TypeOK, NoExport
  <2>2. doomed' \in [Writers -> SUBSET Names]
    BY <1>0, <1>3 DEF ReadDirectory, TypeOK, StaleNames
  <2>3. QED
    BY <1>0, <1>3, <2>1, <2>2 DEF ReadDirectory, TypeOK, PCs
<1>4. ASSUME NEW w \in Writers, RefuseMalformed(w) PROVE TypeOK'
  BY <1>0, <1>4, LeaveType DEF RefuseMalformed, TypeOK
<1>5. ASSUME NEW w \in Writers, ReplaceData(w) PROVE TypeOK'
  <2>1. PICK n \in todo[w] :
           /\ disk' = [disk EXCEPT ![n] = export[w].content[n]]
           /\ mayHold' = [mayHold EXCEPT ![n] = @ \cup {export[w].content[n]}]
           /\ todo' = [todo EXCEPT ![w] = @ \ {n}]
    BY <1>5 DEF ReplaceData
  <2>2. export[w] \in Export /\ n \in export[w].layout
    BY <1>5 DEF ReplaceData, IInv, CommitInProgress
  <2>3. QED
    BY <1>0, <1>5, <2>1, <2>2, ExportFields DEF ReplaceData, TypeOK, Content
<1>6. ASSUME NEW w \in Writers, Retire(w) PROVE TypeOK'
  BY <1>0, <1>6 DEF Retire, TypeOK, Content
<1>7. ASSUME NEW w \in Writers, SyncData(w) PROVE TypeOK'
  BY <1>0, <1>7 DEF SyncData, Durable, TypeOK, PCs
<1>8. ASSUME NEW w \in Writers, WriteManifest(w) PROVE TypeOK'
  <2>1. export[w] \in Export
    BY <1>8 DEF WriteManifest, IInv, CommitInProgress
  <2>2. Merged(base[w], export[w]) \in Manifest
    BY <1>0, <2>1, MergedType DEF TypeOK
  <2>3. ReceiptsOf(export[w]) \subseteq Names \X Intervals \X Digests
    BY <2>1, ExportFields DEF ReceiptsOf
  <2>4. QED
    BY <1>0, <1>8, <2>2, <2>3 DEF WriteManifest, TypeOK, PCs
<1>9. ASSUME NEW w \in Writers, SyncManifest(w) PROVE TypeOK'
  BY <1>0, <1>9, LeaveType DEF SyncManifest, Durable, TypeOK
<1>10. ASSUME NEW w \in Writers, Stop(w) PROVE TypeOK'
  BY <1>0, <1>10, LeaveType DEF Stop, TypeOK
<1>11. ASSUME PowerLoss PROVE TypeOK'
  <2>1. powerLosses' \in 0..MaxPowerLosses
    BY <1>0, <1>11, BoundAssumption DEF PowerLoss, TypeOK
  <2>2. dirty' \subseteq Families
    BY <1>0, <1>11, FamilyAssumption DEF PowerLoss, TypeOK
  <2>3. /\ disk' \in [Names -> Content]
        /\ mayHold' \in [Names -> SUBSET Content]
    BY <1>0, <1>11 DEF PowerLoss, TypeOK
  <2>4. /\ manifest' \in Manifest \cup {Malformed}
        /\ manifestMayBe' \subseteq Manifest \cup {Malformed}
    BY <1>0, <1>11 DEF PowerLoss, TypeOK
  <2>5. QED
    BY <1>0, <1>11, <2>1, <2>2, <2>3, <2>4, NoManifestType
       DEF PowerLoss, TypeOK, PCs
<1>12. ASSUME DamageManifest PROVE TypeOK'
  BY <1>0, <1>12, BoundAssumption DEF DamageManifest, TypeOK
<1>13. CASE UNCHANGED vars
  BY <1>0, <1>13 DEF vars, TypeOK
<1>14. QED
  BY <1>1, <1>2, <1>3, <1>4, <1>5, <1>6, <1>7, <1>8, <1>9, <1>10, <1>11,
     <1>12, <1>13 DEF Next, ExporterStep, Commit

-----------------------------------------------------------------------------
(* Mutual exclusion *)

(* Whoever leaves takes only its own lock with it.                         *)
LEMMA LeaveLock ==
    ASSUME TypeOK, LockCoversCommit, NEW w \in Writers, Leave(w)
    PROVE  LockCoversCommit'
BY SentinelAssumption DEF Leave, LockCoversCommit, TypeOK, Critical

(* Every step keeps the lock with the exporter in its commit.              *)
LEMMA NextLock == IInv /\ [Next]_vars => LockCoversCommit'
<1> SUFFICES ASSUME TypeOK, LockCoversCommit, [Next]_vars
             PROVE  LockCoversCommit'
  BY DEF IInv
<1> USE SentinelAssumption
        DEF writerVars, diskVars, counterVars, historyVars
<1>1. ASSUME NEW w \in Writers, Fetch(w) PROVE LockCoversCommit'
  BY <1>1 DEF Fetch, LockCoversCommit, TypeOK, Critical
<1>2. ASSUME NEW w \in Writers, Acquire(w) PROVE LockCoversCommit'
  BY <1>2 DEF Acquire, LockCoversCommit, TypeOK, Critical
<1>3. ASSUME NEW w \in Writers, ReadDirectory(w) PROVE LockCoversCommit'
  BY <1>3 DEF ReadDirectory, LockCoversCommit, TypeOK, Critical
<1>4. ASSUME NEW w \in Writers, RefuseMalformed(w) PROVE LockCoversCommit'
  BY <1>4, LeaveLock DEF RefuseMalformed
<1>5. ASSUME NEW w \in Writers, ReplaceData(w) PROVE LockCoversCommit'
  BY <1>5 DEF ReplaceData, LockCoversCommit
<1>6. ASSUME NEW w \in Writers, Retire(w) PROVE LockCoversCommit'
  BY <1>6 DEF Retire, LockCoversCommit
<1>7. ASSUME NEW w \in Writers, SyncData(w) PROVE LockCoversCommit'
  BY <1>7 DEF SyncData, LockCoversCommit, TypeOK, Critical
<1>8. ASSUME NEW w \in Writers, WriteManifest(w) PROVE LockCoversCommit'
  BY <1>8 DEF WriteManifest, LockCoversCommit, TypeOK, Critical
<1>9. ASSUME NEW w \in Writers, SyncManifest(w) PROVE LockCoversCommit'
  BY <1>9, LeaveLock DEF SyncManifest
<1>10. ASSUME NEW w \in Writers, Stop(w) PROVE LockCoversCommit'
  BY <1>10, LeaveLock DEF Stop
<1>11. ASSUME PowerLoss PROVE LockCoversCommit'
  BY <1>11 DEF PowerLoss, LockCoversCommit, Critical
<1>12. ASSUME DamageManifest PROVE LockCoversCommit'
  BY <1>12 DEF DamageManifest, LockCoversCommit
<1>13. CASE UNCHANGED vars
  BY <1>13 DEF vars, LockCoversCommit
<1>14. QED
  BY <1>1, <1>2, <1>3, <1>4, <1>5, <1>6, <1>7, <1>8, <1>9, <1>10, <1>11,
     <1>12, <1>13 DEF Next, ExporterStep, Commit

-----------------------------------------------------------------------------
(* What a power loss can leave *)

(* The current values stay among those a power loss can leave.             *)
LEMMA NextMayBe == IInv /\ [Next]_vars => MayBeSound'
<1> SUFFICES ASSUME IInv, [Next]_vars PROVE MayBeSound'
  OBVIOUS
<1> USE DEF writerVars, diskVars, counterVars, historyVars
<1>0. TypeOK /\ MayBeSound
  BY DEF IInv
<1>1. ASSUME UNCHANGED diskVars PROVE MayBeSound'
  BY <1>0, <1>1 DEF MayBeSound
<1>2. ASSUME NEW w \in Writers, ReplaceData(w) PROVE MayBeSound'
  BY <1>0, <1>2 DEF ReplaceData, MayBeSound, TypeOK
<1>3. ASSUME NEW w \in Writers, Retire(w) PROVE MayBeSound'
  BY <1>0, <1>3 DEF Retire, MayBeSound, TypeOK
<1>4. ASSUME NEW w \in Writers, SyncData(w) \/ SyncManifest(w)
      PROVE  MayBeSound'
  BY <1>0, <1>4 DEF SyncData, SyncManifest, Durable, MayBeSound, TypeOK
<1>5. ASSUME NEW w \in Writers, WriteManifest(w) PROVE MayBeSound'
  <2>1. export[w] \in Export /\ manifestMayBe = {manifest} /\ manifest # Malformed
    BY <1>5 DEF WriteManifest, IInv, CommitInProgress
  <2>2. Merged(base[w], export[w]) # Malformed
    BY <1>0, <2>1, MergedType, MalformedIsNoManifest DEF TypeOK
  <2>3. QED
    BY <1>0, <1>5, <2>1, <2>2 DEF WriteManifest, MayBeSound
<1>6. ASSUME PowerLoss PROVE MayBeSound'
  BY <1>0, <1>6 DEF PowerLoss, MayBeSound
<1>7. ASSUME DamageManifest PROVE MayBeSound'
  BY <1>0, <1>7 DEF DamageManifest, MayBeSound
<1>8. QED
  BY <1>1, <1>2, <1>3, <1>4, <1>5, <1>6, <1>7
     DEF Next, ExporterStep, Commit, vars, Fetch, Acquire, ReadDirectory,
         RefuseMalformed, Stop

-----------------------------------------------------------------------------
(* The commit in progress *)

(* A step that leaves w's record and the directory alone, and does not     *)
(* shrink dirty, keeps what w relies on.                                   *)
LEMMA Untouched ==
    ASSUME NEW w \in Writers, CommitInProgress(w),
           pc'[w] = pc[w], export'[w] = export[w], base'[w] = base[w],
           todo'[w] = todo[w], doomed'[w] = doomed[w],
           UNCHANGED diskVars, dirty \subseteq dirty'
    PROVE  CommitInProgress(w)'
BY DEF CommitInProgress, diskVars

(* An exporter that does not hold the lock is in no step that CommitIn-    *)
(* Progress says anything about, beyond its staged export.                 *)
LEMMA Outside ==
    ASSUME NEW v \in Writers, CommitInProgress(v), pc[v] \notin Critical,
           pc'[v] = pc[v], export'[v] = export[v]
    PROVE  CommitInProgress(v)'
BY DEF CommitInProgress, Critical

(* An idle exporter relies on nothing.                                     *)
LEMMA Resting ==
    ASSUME NEW w \in Writers, pc'[w] = "idle"
    PROVE  CommitInProgress(w)'
BY DEF CommitInProgress

(* Only the holder of the lock is in its commit.                           *)
LEMMA OnlyHolder ==
    ASSUME LockCoversCommit, NEW v \in Writers, NEW w \in Writers,
           v # w, pc[w] \in Critical
    PROVE  pc[v] \notin Critical
BY DEF LockCoversCommit

(* Every step keeps what every exporter relies on.                         *)
LEMMA NextCommit ==
    ASSUME IInv, [Next]_vars, NEW v \in Writers
    PROVE  CommitInProgress(v)'
<1> USE DEF writerVars, diskVars, counterVars, historyVars
<1>0. /\ TypeOK /\ LockCoversCommit /\ MayBeSound
      /\ \A w \in Writers : CommitInProgress(w)
  BY DEF IInv
<1>1. ASSUME NEW w \in Writers, Fetch(w) PROVE CommitInProgress(v)'
  <2>1. CASE v = w
    BY <1>0, <1>1, <2>1, ExportIntro DEF Fetch, CommitInProgress, TypeOK
  <2>2. CASE v # w
    BY <1>0, <1>1, <2>2, Untouched DEF Fetch, TypeOK
  <2>3. QED BY <2>1, <2>2
<1>2. ASSUME NEW w \in Writers, Acquire(w) PROVE CommitInProgress(v)'
  <2>1. CASE v = w
    BY <1>0, <1>2, <2>1 DEF Acquire, CommitInProgress, TypeOK
  <2>2. CASE v # w
    BY <1>0, <1>2, <2>2, Untouched DEF Acquire, TypeOK
  <2>3. QED BY <2>1, <2>2
<1>3. ASSUME NEW w \in Writers, ReadDirectory(w) PROVE CommitInProgress(v)'
  <2>1. CASE v = w
    <3>1. export[w] \in Export
      BY <1>0, <1>3 DEF ReadDirectory, CommitInProgress
    <3>2. QED
      BY <1>0, <1>3, <2>1, <3>1, ExportFields
         DEF ReadDirectory, CommitInProgress, TypeOK
  <2>2. CASE v # w
    BY <1>0, <1>3, <2>2, Untouched DEF ReadDirectory, TypeOK
  <2>3. QED BY <2>1, <2>2
<1>4. ASSUME NEW w \in Writers, Leave(w), UNCHANGED <<diskVars, historyVars>>
      PROVE  CommitInProgress(v)'
  <2>1. CASE v = w
    BY <1>0, <1>4, <2>1, Resting DEF Leave, TypeOK
  <2>2. CASE v # w
    BY <1>0, <1>4, <2>2, Untouched DEF Leave, TypeOK
  <2>3. QED BY <2>1, <2>2
<1>5. ASSUME NEW w \in Writers, ReplaceData(w) PROVE CommitInProgress(v)'
  <2>1. pc[w] \in Critical /\ export[w] \in Export
    BY <1>0, <1>5 DEF ReplaceData, Critical, CommitInProgress
  <2>2. CASE v = w
    <3>1. PICK n \in todo[w] :
             /\ disk' = [disk EXCEPT ![n] = export[w].content[n]]
             /\ todo' = [todo EXCEPT ![w] = @ \ {n}]
      BY <1>5 DEF ReplaceData
    <3>2. n \in export[w].layout /\ n \in Names /\ n \notin StaleNames(export[w])
      BY <1>0, <1>5, <2>1, ExportFields
         DEF ReplaceData, CommitInProgress, StaleNames
    <3>3. QED
      BY <1>0, <1>5, <2>1, <2>2, <3>1, <3>2, ExportFields
         DEF ReplaceData, CommitInProgress, TypeOK
  <2>3. CASE v # w
    BY <1>0, <1>5, <2>1, <2>3, OnlyHolder, Outside DEF ReplaceData
  <2>4. QED BY <2>2, <2>3
<1>6. ASSUME NEW w \in Writers, Retire(w) PROVE CommitInProgress(v)'
  <2>1. pc[w] \in Critical /\ export[w] \in Export
    BY <1>0, <1>6 DEF Retire, Critical, CommitInProgress
  <2>2. CASE v = w
    <3>1. PICK n \in doomed[w] :
             /\ disk' = [disk EXCEPT ![n] = Absent]
             /\ doomed' = [doomed EXCEPT ![w] = @ \ {n}]
      BY <1>6 DEF Retire
    <3>2. n \in StaleNames(export[w]) /\ n \in Names /\ n \notin export[w].layout
      BY <1>0, <1>6, <3>1 DEF Retire, CommitInProgress, StaleNames
    <3>3. QED
      BY <1>0, <1>6, <2>1, <2>2, <3>1, <3>2, ExportFields
         DEF Retire, CommitInProgress, TypeOK
  <2>3. CASE v # w
    BY <1>0, <1>6, <2>1, <2>3, OnlyHolder, Outside DEF Retire
  <2>4. QED BY <2>2, <2>3
<1>7. ASSUME NEW w \in Writers, SyncData(w) PROVE CommitInProgress(v)'
  <2>1. pc[w] \in Critical
    BY <1>7 DEF SyncData, Critical
  <2>2. CASE v = w
    BY <1>0, <1>7, <2>2 DEF SyncData, Durable, CommitInProgress, TypeOK
  <2>3. CASE v # w
    BY <1>0, <1>7, <2>1, <2>3, OnlyHolder, Outside DEF SyncData, TypeOK
  <2>4. QED BY <2>2, <2>3
<1>8. ASSUME NEW w \in Writers, WriteManifest(w) PROVE CommitInProgress(v)'
  <2>1. pc[w] \in Critical
    BY <1>8 DEF WriteManifest, Critical
  <2>2. CASE v = w
    BY <1>0, <1>8, <2>2 DEF WriteManifest, CommitInProgress, TypeOK
  <2>3. CASE v # w
    BY <1>0, <1>8, <2>1, <2>3, OnlyHolder, Outside DEF WriteManifest, TypeOK
  <2>4. QED BY <2>2, <2>3
<1>9. ASSUME NEW w \in Writers, SyncManifest(w) PROVE CommitInProgress(v)'
  <2>1. pc[w] \in Critical
    BY <1>9 DEF SyncManifest, Critical
  <2>2. CASE v = w
    BY <1>0, <1>9, <2>2, Resting DEF SyncManifest, Leave, TypeOK
  <2>3. CASE v # w
    BY <1>0, <1>9, <2>1, <2>3, OnlyHolder, Outside
       DEF SyncManifest, Leave, TypeOK
  <2>4. QED BY <2>2, <2>3
<1>10. ASSUME PowerLoss PROVE CommitInProgress(v)'
  BY <1>10, Resting DEF PowerLoss
<1>11. ASSUME DamageManifest PROVE CommitInProgress(v)'
  <2>1. pc[v] \notin Critical
    BY <1>0, <1>11, SentinelAssumption DEF DamageManifest, LockCoversCommit
  <2>2. QED
    BY <1>0, <1>11, <2>1, Outside DEF DamageManifest
<1>12. CASE UNCHANGED vars
  BY <1>0, <1>12, Untouched DEF vars
<1>13. QED
  BY <1>1, <1>2, <1>3, <1>4, <1>5, <1>6, <1>7, <1>8, <1>9, <1>10, <1>11,
     <1>12 DEF Next, ExporterStep, Commit, RefuseMalformed, Stop

-----------------------------------------------------------------------------
(* The inductive invariant *)

(* The lock covers the commit, and the lock holder's view of the directory *)
(* is the directory: the invariant every other result rests on.            *)
THEOREM CommitInvariant == Spec => []IInv
<1>1. Init => IInv
  <2> SUFFICES ASSUME Init PROVE IInv
    OBVIOUS
  <2>1. LockCoversCommit
    BY SentinelAssumption DEF Init, LockCoversCommit, Critical
  <2>2. MayBeSound
    BY NoManifestType, MalformedIsNoManifest DEF Init, MayBeSound
  <2>3. \A w \in Writers : CommitInProgress(w)
    BY DEF Init, CommitInProgress
  <2>4. QED
    BY InitType, <2>1, <2>2, <2>3 DEF IInv
<1>2. IInv /\ [Next]_vars => IInv'
  BY NextType, NextLock, NextMayBe, NextCommit DEF IInv
<1>3. QED
  BY <1>1, <1>2, PTL DEF Spec

-----------------------------------------------------------------------------
(* Receipted families are whole *)

(* A step that leaves the directory alone and does not shrink dirty keeps  *)
(* receipted families whole.                                               *)
LEMMA WholeUntouched ==
    ASSUME ReceiptedFamilyIsWhole, UNCHANGED <<mayHold, manifest>>,
           dirty \subseteq dirty'
    PROVE  ReceiptedFamilyIsWhole'
BY DEF ReceiptedFamilyIsWhole

(* A directory fsync keeps receipted families whole.                       *)
LEMMA WholeDurable ==
    ASSUME ReceiptedFamilyIsWhole, MayBeSound, Durable,
           UNCHANGED <<disk, manifest, dirty>>
    PROVE  ReceiptedFamilyIsWhole'
BY DEF ReceiptedFamilyIsWhole, MayBeSound, Durable

(* Every step keeps receipted families whole.                              *)
LEMMA NextWhole ==
    IInv /\ ReceiptedFamilyIsWhole /\ [Next]_vars => ReceiptedFamilyIsWhole'
<1> SUFFICES ASSUME IInv, ReceiptedFamilyIsWhole, [Next]_vars
             PROVE  ReceiptedFamilyIsWhole'
  OBVIOUS
<1> USE DEF writerVars, diskVars, counterVars, historyVars
<1>0. /\ TypeOK /\ MayBeSound
      /\ \A w \in Writers : CommitInProgress(w)
  BY DEF IInv
<1>1. ASSUME UNCHANGED <<mayHold, manifest, dirty>>
      PROVE  ReceiptedFamilyIsWhole'
  BY <1>1, WholeUntouched
<1>2. ASSUME NEW w \in Writers, ReplaceData(w)
      PROVE  ReceiptedFamilyIsWhole'
  <2>1. PICK m \in todo[w] :
           mayHold' = [mayHold EXCEPT ![m] = @ \cup {export[w].content[m]}]
    BY <1>2 DEF ReplaceData
  <2>2. m \in export[w].layout
    BY <1>0, <1>2 DEF ReplaceData, CommitInProgress
  <2>3. FamilyOf[m] \in dirty'
    BY <1>2, <2>2 DEF ReplaceData, FamilyWritten
  <2>4. dirty \subseteq dirty' /\ manifest' = manifest
    BY <1>2 DEF ReplaceData
  <2>5. QED
    BY <1>0, <2>1, <2>3, <2>4 DEF ReceiptedFamilyIsWhole, TypeOK
<1>3. ASSUME NEW w \in Writers, Retire(w)
      PROVE  ReceiptedFamilyIsWhole'
  <2>1. PICK m \in doomed[w] :
           mayHold' = [mayHold EXCEPT ![m] = @ \cup {Absent}]
    BY <1>3 DEF Retire
  <2>2. FamilyWritten(export[w]) \subseteq dirty
    BY <1>0, <1>3, ExportFields DEF Retire, CommitInProgress
  <2>3. FamilyOf[m] \in dirty
    BY <1>0, <1>3, <2>2 DEF Retire, CommitInProgress, StaleNames
  <2>4. QED
    BY <1>0, <1>3, <2>1, <2>3 DEF Retire, ReceiptedFamilyIsWhole, TypeOK
<1>4. ASSUME NEW w \in Writers, SyncData(w) \/ SyncManifest(w)
      PROVE  ReceiptedFamilyIsWhole'
  BY <1>0, <1>4, WholeDurable DEF SyncData, SyncManifest
<1>5. ASSUME NEW w \in Writers, WriteManifest(w)
      PROVE  ReceiptedFamilyIsWhole'
  <2> DEFINE e == export[w]
  <2>1. /\ e \in Export
        /\ base[w] = manifest
        /\ manifest \in Manifest
        /\ \A n \in Names : mayHold[n] = {disk[n]}
        /\ \A n \in e.layout : disk[n] = e.content[n]
        /\ \A n \in StaleNames(e) : disk[n] = Absent
    BY <1>0, <1>5 DEF WriteManifest, CommitInProgress, TypeOK
  <2>2. manifest' = Merged(manifest, e) /\ mayHold' = mayHold
    BY <1>5, <2>1 DEF WriteManifest
  <2>3. SUFFICES ASSUME NEW n \in Names, FamilyOf[n] \notin dirty'
                 PROVE  mayHold[n] = {Bound(Merged(manifest, e), n)}
    BY <2>2 DEF ReceiptedFamilyIsWhole
  <2>4. CASE n \in e.layout
    <3>1. Merged(manifest, e).entries[n]
              = [interval |-> e.interval, digest |-> e.content[n]]
      BY <2>4 DEF Merged
    <3>2. [interval |-> e.interval, digest |-> e.content[n]] # NoEntry
      BY <2>1, <2>4, ExportFields, SentinelAssumption
    <3>3. QED
      BY <2>1, <2>4, <3>1, <3>2 DEF Bound
  <2>5. CASE n \in StaleNames(e)
    <3>1. Merged(manifest, e).entries[n] = NoEntry
      BY <2>5 DEF Merged, StaleNames
    <3>2. QED
      BY <2>1, <2>5, <3>1 DEF Bound
  <2>6. CASE n \notin e.layout /\ n \notin StaleNames(e)
    <3>1. Merged(manifest, e).entries[n] = manifest.entries[n]
      BY <2>6 DEF Merged
    <3>2. FamilyOf[n] \notin dirty
      BY <1>5, <2>1, <2>3, <2>6, FamilyCovered DEF WriteManifest
    <3>3. mayHold[n] = {Bound(manifest, n)}
      BY <2>1, <3>2, MalformedIsNoManifest DEF ReceiptedFamilyIsWhole
    <3>4. QED
      BY <3>1, <3>3 DEF Bound
  <2>7. QED
    BY <2>4, <2>5, <2>6
<1>6. ASSUME PowerLoss PROVE ReceiptedFamilyIsWhole'
  <2>1. SUFFICES ASSUME manifest' # Malformed,
                        NEW n \in Names, FamilyOf[n] \notin dirty'
                 PROVE  mayHold'[n] = {Bound(manifest', n)}
    BY DEF ReceiptedFamilyIsWhole
  <2>2. manifest # Malformed
    BY <1>0, <1>6, <2>1 DEF PowerLoss, MayBeSound
  <2>3. FamilyOf[n] \notin dirty /\ Bound(manifest', n) = Bound(manifest, n)
    BY <1>6, <2>1 DEF PowerLoss
  <2>4. mayHold[n] = {Bound(manifest, n)}
    BY <2>2, <2>3 DEF ReceiptedFamilyIsWhole
  <2>5. mayHold'[n] = {disk'[n]} /\ disk'[n] \in mayHold[n]
    BY <1>6 DEF PowerLoss
  <2>6. QED
    BY <2>3, <2>4, <2>5
<1>7. ASSUME DamageManifest PROVE ReceiptedFamilyIsWhole'
  BY <1>7 DEF DamageManifest, ReceiptedFamilyIsWhole
<1>8. QED
  BY <1>1, <1>2, <1>3, <1>4, <1>5, <1>6, <1>7
     DEF Next, ExporterStep, Commit, vars, Fetch, Acquire, ReadDirectory,
         RefuseMalformed, Stop

(* Whatever exporters did, wherever they stopped and whenever the power    *)
(* went, an output whose last export was receipted shows that export and   *)
(* nothing else (_commit_export_provenance).                               *)
THEOREM ReceiptedFamiliesStayWhole == Spec => []ReceiptedFamilyIsWhole
<1>1. Init => ReceiptedFamilyIsWhole
  BY DEF Init, ReceiptedFamilyIsWhole, NoManifest, Bound
<1>2. QED
  BY <1>1, NextWhole, CommitInvariant, PTL DEF Spec

-----------------------------------------------------------------------------
(* The manifest lists receipts only *)

(* Every step keeps the manifest to what was receipted.                    *)
LEMMA NextReceipts ==
    IInv /\ ManifestOnlyReceipts /\ [Next]_vars => ManifestOnlyReceipts'
<1> SUFFICES ASSUME IInv, ManifestOnlyReceipts, [Next]_vars
             PROVE  ManifestOnlyReceipts'
  OBVIOUS
<1> USE DEF writerVars, diskVars, counterVars, historyVars
<1>0. /\ TypeOK /\ MayBeSound
      /\ \A w \in Writers : CommitInProgress(w)
  BY DEF IInv
<1>1. ASSUME manifestMayBe' \subseteq manifestMayBe, UNCHANGED receipts
      PROVE  ManifestOnlyReceipts'
  BY <1>1 DEF ManifestOnlyReceipts
<1>2. ASSUME NEW w \in Writers, WriteManifest(w)
      PROVE  ManifestOnlyReceipts'
  <2> DEFINE e == export[w]
             next == Merged(manifest, e)
  <2>1. e \in Export /\ base[w] = manifest /\ manifest # Malformed
    BY <1>0, <1>2 DEF WriteManifest, CommitInProgress
  <2>2. /\ manifestMayBe' = manifestMayBe \cup {next}
        /\ receipts' = receipts \cup ReceiptsOf(e)
    BY <1>2, <2>1 DEF WriteManifest
  <2>3. ASSUME NEW n \in Names, next.entries[n] # NoEntry
        PROVE  <<n, next.entries[n].interval, next.entries[n].digest>>
                   \in receipts'
    <3>1. CASE n \in e.layout
      BY <2>2, <3>1 DEF Merged, ReceiptsOf
    <3>2. CASE n \notin e.layout
      <4>1. next.entries[n] = manifest.entries[n]
        BY <2>3, <3>2 DEF Merged
      <4>2. QED
        BY <1>0, <2>1, <2>2, <2>3, <4>1 DEF ManifestOnlyReceipts, MayBeSound
    <3>3. QED
      BY <3>1, <3>2
  <2>4. QED
    BY <2>2, <2>3 DEF ManifestOnlyReceipts
<1>3. ASSUME NEW w \in Writers, SyncData(w) \/ SyncManifest(w)
      PROVE  ManifestOnlyReceipts'
  BY <1>0, <1>1, <1>3 DEF SyncData, SyncManifest, Durable, MayBeSound
<1>4. ASSUME PowerLoss PROVE ManifestOnlyReceipts'
  BY <1>1, <1>4 DEF PowerLoss
<1>5. ASSUME DamageManifest PROVE ManifestOnlyReceipts'
  BY <1>5 DEF DamageManifest, ManifestOnlyReceipts
<1>6. QED
  BY <1>1, <1>2, <1>3, <1>4, <1>5
     DEF Next, ExporterStep, Commit, vars, Fetch, Acquire, ReadDirectory,
         RefuseMalformed, ReplaceData, Retire, Stop

(* No manifest, not even one a power loss brings back, binds a file to an  *)
(* interval and a content that no export was receipted for.                *)
THEOREM ManifestListsReceipts == Spec => []ManifestOnlyReceipts
<1>1. Init => ManifestOnlyReceipts
  BY DEF Init, ManifestOnlyReceipts, NoManifest
<1>2. QED
  BY <1>1, NextReceipts, CommitInvariant, PTL DEF Spec

-----------------------------------------------------------------------------
(* The manifest implements the ledger *)

(* Every step of the exporters is a step of the ledger, or none.           *)
LEMMA NextLedger == IInv /\ [Next]_vars => [Ledger!Next]_(Ledger!ledgerVars)
<1> SUFFICES ASSUME IInv, [Next]_vars
             PROVE  [Ledger!Next]_(Ledger!ledgerVars)
  OBVIOUS
<1> USE DEF writerVars, diskVars, counterVars, historyVars
<1>0. /\ TypeOK /\ MayBeSound
      /\ \A w \in Writers : CommitInProgress(w)
  BY DEF IInv
<1>1. ASSUME UNCHANGED <<manifest, manifestMayBe>>
      PROVE  [Ledger!Next]_(Ledger!ledgerVars)
  BY <1>1 DEF Ledger!ledgerVars
<1>2. ASSUME NEW w \in Writers, WriteManifest(w) PROVE Ledger!Next
  <2> DEFINE e == export[w]
             new == [n \in e.layout |->
                        [interval |-> e.interval, digest |-> e.content[n]]]
  <2>1. /\ e \in Export /\ base[w] = manifest /\ manifest # Malformed
        /\ manifestMayBe = {manifest}
    BY <1>0, <1>2 DEF WriteManifest, CommitInProgress
  <2>2. PICK m \in e.layout : TRUE
    BY <2>1, ExportFields
  <2>3. /\ FamilyOf[m] \in Families
        /\ \A n \in e.layout : FamilyOf[n] = FamilyOf[m]
    BY <2>1, <2>2, ExportFields, FamilyAssumption, LayoutAssumption
  <2>4. new \in [e.layout -> Ledger!Receipt]
    BY <2>1, ExportFields DEF Ledger!Receipt
  <2>5. \A n \in Names : n \in StaleNames(e)
            <=> n \notin e.layout /\ FamilyOf[n] = FamilyOf[m]
    BY <2>2, <2>3 DEF StaleNames, FamilyWritten
  <2>6. Merged(manifest, e) =
            [generation |-> manifest.generation + 1,
             entries |-> [n \in Names |->
                 IF n \in DOMAIN new THEN new[n]
                 ELSE IF FamilyOf[n] = FamilyOf[m] THEN NoEntry
                 ELSE manifest.entries[n]]]
    BY <2>5 DEF Merged
  <2>7. Ledger!Commit(FamilyOf[m], new)
    BY <1>2, <2>1, <2>6 DEF WriteManifest, Ledger!Commit
  <2>8. QED
    BY <2>1, <2>3, <2>4, <2>7, ExportFields DEF Ledger!Next
<1>3. ASSUME NEW w \in Writers, SyncData(w) \/ SyncManifest(w)
      PROVE  Ledger!Next
  BY <1>3 DEF SyncData, SyncManifest, Durable, Ledger!Next, Ledger!Settle
<1>4. ASSUME PowerLoss PROVE Ledger!Next
  BY <1>4 DEF PowerLoss, Ledger!Next, Ledger!PowerLoss
<1>5. ASSUME DamageManifest PROVE Ledger!Next
  BY <1>5 DEF DamageManifest, Ledger!Next, Ledger!Damage
<1>6. QED
  BY <1>1, <1>2, <1>3, <1>4, <1>5
     DEF Next, ExporterStep, Commit, vars, Fetch, Acquire, ReadDirectory,
         RefuseMalformed, ReplaceData, Retire, Stop

(* Concurrent exporters of one directory lose no receipt of another        *)
(* output, advance the generation by one per commit, and expose at most    *)
(* the last commit to a power loss: the manifest implements the ledger.    *)
THEOREM ManifestImplementsLedger == Spec => LedgerSpec
<1>1. Init => Ledger!Init
  BY DEF Init, Ledger!Init, Ledger!EmptyLedger, NoManifest
<1>2. QED
  BY <1>1, NextLedger, CommitInvariant, PTL DEF Spec, LedgerSpec, Ledger!Spec


-----------------------------------------------------------------------------
(* The directory under the readers *)

(* A step of the whole is, for the directory, a step of the exporters.     *)
LEMMA ReaderStep == [ReaderNext]_allVars => [Next]_vars
BY DEF ReaderNext, allVars, Write, PowerLossAll, Next, Read, Select,
       ReadManifest, CheckFile, BeginLoad, LoadFile, DecideLane

(* Receipts are never taken back.                                          *)
LEMMA ReceiptsGrow ==
    ASSUME [Next]_vars
    PROVE  receipts \subseteq receipts'
BY DEF Next, ExporterStep, Commit, vars, counterVars, historyVars, Fetch,
       Acquire, ReadDirectory, RefuseMalformed, ReplaceData, Retire, SyncData,
       WriteManifest, SyncManifest, Stop, PowerLoss, DamageManifest

(* A commit counts its manifest, so only an empty one has number 0.        *)
LEMMA NextCounted ==
    ASSUME IInv, EntriesAreCounted, [Next]_vars
    PROVE  EntriesAreCounted'
<1> USE DEF writerVars, diskVars, counterVars, historyVars
<1>0. /\ TypeOK /\ MayBeSound
      /\ \A w \in Writers : CommitInProgress(w)
  BY DEF IInv
<1>1. ASSUME manifestMayBe' \subseteq manifestMayBe PROVE EntriesAreCounted'
  BY <1>1 DEF EntriesAreCounted
<1>2. ASSUME NEW w \in Writers, WriteManifest(w) PROVE EntriesAreCounted'
  <2>1. base[w] \in Manifest /\ Merged(base[w], export[w]).generation = base[w].generation + 1
    BY <1>0, <1>2 DEF TypeOK, Merged
  <2>2. Merged(base[w], export[w]).generation # 0
    BY <2>1 DEF Manifest
  <2>3. QED
    BY <1>2, <2>2 DEF WriteManifest, EntriesAreCounted
<1>3. ASSUME NEW w \in Writers, SyncData(w) \/ SyncManifest(w)
      PROVE  EntriesAreCounted'
  BY <1>0, <1>1, <1>3 DEF SyncData, SyncManifest, Durable, MayBeSound
<1>4. ASSUME PowerLoss PROVE EntriesAreCounted'
  BY <1>1, <1>4 DEF PowerLoss
<1>5. ASSUME DamageManifest PROVE EntriesAreCounted'
  BY <1>5 DEF DamageManifest, EntriesAreCounted
<1>6. QED
  BY <1>1, <1>2, <1>3, <1>4, <1>5
     DEF Next, ExporterStep, Commit, vars, Fetch, Acquire, ReadDirectory,
         RefuseMalformed, ReplaceData, Retire, Stop

-----------------------------------------------------------------------------
(* Verdicts *)

(* A verdict is a fact, and never "unchecked".                             *)
LEMMA VerdictType ==
    ASSUME NEW m \in Manifest \cup {Malformed}, NEW n \in Names,
           NEW c \in Content
    PROVE  /\ Verdict(m, n, c) \in Fact
           /\ Verdict(m, n, c) # Unknown("unchecked")
<1>1. ASSUME NEW reason \in Reasons \ {"unchecked"}
      PROVE  /\ Unknown(reason) \in Fact
             /\ Unknown(reason) # Unknown("unchecked")
  BY <1>1 DEF Unknown, Fact, Reasons
<1>2. CASE m = Malformed
  BY <1>1, <1>2 DEF Verdict, Reasons
<1>3. CASE m # Malformed /\ (m.generation = 0 \/ m.entries[n] = NoEntry \/ c = Absent
                              \/ c # m.entries[n].digest)
  BY <1>1, <1>3 DEF Verdict, Reasons
<1>4. CASE /\ m # Malformed /\ m.generation # 0 /\ m.entries[n] # NoEntry
           /\ c # Absent /\ c = m.entries[n].digest
  <2> DEFINE f == [state |-> "TRUSTED", interval |-> m.entries[n].interval,
                   digest |-> c, generation |-> m.generation]
  <2>1. Verdict(m, n, c) = f
    BY <1>4 DEF Verdict
  <2>2. m \in Manifest /\ m.entries[n] \in Entry /\ c \in Digests
    BY <1>4 DEF Manifest, Content
  <2>3. f \in Fact
    BY <2>2 DEF Fact, Manifest, Entry
  <2>4. f # Unknown("unchecked")
    <3>1. f.state # Unknown("unchecked").state
      BY DEF Unknown
    <3>2. QED
      BY <3>1
  <2>5. QED
    BY <2>1, <2>3, <2>4
<1>5. QED
  BY <1>2, <1>3, <1>4

(* Trust is bound to the content that was hashed and to the entry.         *)
LEMMA VerdictTrusts ==
    ASSUME NEW m, NEW n, NEW c, Verdict(m, n, c).state = "TRUSTED"
    PROVE  /\ m # Malformed
           /\ m.entries[n] # NoEntry
           /\ Verdict(m, n, c).interval = m.entries[n].interval
           /\ Verdict(m, n, c).digest = m.entries[n].digest
           /\ Verdict(m, n, c).digest = c
BY DEF Verdict, Unknown

(* And a file that is what its entry binds is trusted.                     *)
LEMMA BoundIsTrusted ==
    ASSUME NEW m, NEW n, NEW c, m # Malformed, m.generation # 0,
           m.entries[n] # NoEntry, c # Absent, c = m.entries[n].digest
    PROVE  Verdict(m, n, c).state = "TRUSTED"
BY DEF Verdict

-----------------------------------------------------------------------------
(* Type correctness *)

(* Every step keeps the readers' records well typed.                       *)
LEMMA NextReaderType ==
    ASSUME ReaderInv, [ReaderNext]_allVars
    PROVE  ReaderTypeOK'
<1> USE DEF diskVars
<1>0. /\ ReaderTypeOK /\ TypeOK
  BY DEF ReaderInv, IInv
<1>1. CASE UNCHANGED readerVars
  BY <1>0, <1>1 DEF readerVars, ReaderTypeOK
<1>2. CASE Write
  BY <1>0, <1>2 DEF Write, ReaderTypeOK
<1>3. CASE PowerLossAll
  <2>1. NoFacts \in [Names -> Fact]
    BY DEF NoFacts, Fact, Unknown, Reasons
  <2>2. NothingLoaded \in [Names -> Content]
    BY DEF NothingLoaded, Content
  <2>3. QED
    BY <1>3, <2>1, <2>2, NoManifestType DEF PowerLossAll, ReaderTypeOK
<1>4. ASSUME NEW r \in Readers, Select(r) PROVE ReaderTypeOK'
  <2>1. report' \in [Readers -> Reports \cup {Unbounded}]
    BY <1>0, <1>4 DEF Select, ReaderTypeOK
  <2>2. selected' \in [Readers -> SUBSET Names]
    BY <1>0, <1>4 DEF Select, ReaderTypeOK
  <2>3. QED
    BY <1>0, <1>4, <2>1, <2>2 DEF Select, ReaderTypeOK
<1>5. ASSUME NEW r \in Readers, ReadManifest(r) PROVE ReaderTypeOK'
  BY <1>0, <1>5 DEF ReadManifest, ReaderTypeOK, TypeOK
<1>6. ASSUME NEW r \in Readers, CheckFile(r) PROVE ReaderTypeOK'
  <2>1. PICK n \in Unchecked(r) :
           fact' = [fact EXCEPT ![r][n] = Verdict(seen[r], n, disk[n])]
    BY <1>6 DEF CheckFile
  <2>2. n \in Names
    BY <1>0 DEF Unchecked, ReaderTypeOK
  <2>3. Verdict(seen[r], n, disk[n]) \in Fact
    BY <1>0, <2>2, VerdictType DEF ReaderTypeOK, TypeOK
  <2>4. fact' \in [Readers -> [Names -> Fact]]
    BY <1>0, <2>1, <2>2, <2>3 DEF ReaderTypeOK
  <2>5. QED
    BY <1>0, <1>6, <2>4 DEF CheckFile, ReaderTypeOK
<1>7. ASSUME NEW r \in Readers, BeginLoad(r) PROVE ReaderTypeOK'
  BY <1>0, <1>7 DEF BeginLoad, ReaderTypeOK
<1>8. ASSUME NEW r \in Readers, LoadFile(r) PROVE ReaderTypeOK'
  <2>1. PICK n \in toLoad[r] :
           /\ loaded' = [loaded EXCEPT ![r][n] = disk[n]]
           /\ toLoad' = [toLoad EXCEPT ![r] = @ \ {n}]
    BY <1>8 DEF LoadFile
  <2>2. disk[n] \in Content /\ n \in Names
    BY <1>0 DEF ReaderTypeOK, TypeOK
  <2>3. loaded' \in [Readers -> [Names -> Content]]
    BY <1>0, <2>1, <2>2 DEF ReaderTypeOK
  <2>4. toLoad' \in [Readers -> SUBSET Names]
    BY <1>0, <2>1 DEF ReaderTypeOK
  <2>5. QED
    BY <1>0, <1>8, <2>3, <2>4 DEF LoadFile, ReaderTypeOK
<1>9. ASSUME NEW r \in Readers, DecideLane(r) PROVE ReaderTypeOK'
  BY <1>0, <1>9 DEF DecideLane, ReaderTypeOK, Lane
<1>10. QED
  BY <1>1, <1>2, <1>3, <1>4, <1>5, <1>6, <1>7, <1>8, <1>9
     DEF ReaderNext, Read, allVars

-----------------------------------------------------------------------------
(* Receipts behind manifests and facts *)

(* What a reader works with is what the manifest was, and that is bound to *)
(* receipts.                                                               *)
LEMMA NextSeen ==
    ASSUME ReaderInv, [ReaderNext]_allVars
    PROVE  SeenIsReceipted'
<1>0. /\ SeenIsReceipted /\ ReaderTypeOK /\ ManifestOnlyReceipts
      /\ manifest \in manifestMayBe
      /\ receipts \subseteq receipts'
  BY ReaderStep, ReceiptsGrow DEF ReaderInv, IInv, MayBeSound
<1>1. CASE UNCHANGED seen
  BY <1>0, <1>1 DEF SeenIsReceipted
<1>2. CASE PowerLossAll
  BY <1>2 DEF PowerLossAll, SeenIsReceipted, NoManifest
<1>3. ASSUME NEW r \in Readers, ReadManifest(r) PROVE SeenIsReceipted'
  <2>1. SUFFICES ASSUME NEW q \in Readers, NEW n \in Names,
                        seen'[q] # Malformed, seen'[q].entries[n] # NoEntry
                 PROVE  <<n, seen'[q].entries[n].interval,
                          seen'[q].entries[n].digest>> \in receipts'
    BY DEF SeenIsReceipted
  <2>2. CASE q = r
    <3>1. seen'[q] = manifest
      BY <1>0, <1>3, <2>2 DEF ReadManifest, ReaderTypeOK
    <3>2. QED
      BY <1>0, <2>1, <3>1 DEF ManifestOnlyReceipts
  <2>3. CASE q # r
    <3>1. seen'[q] = seen[q]
      BY <1>0, <1>3, <2>3 DEF ReadManifest, ReaderTypeOK
    <3>2. QED
      BY <1>0, <2>1, <3>1 DEF SeenIsReceipted
  <2>4. QED
    BY <2>2, <2>3
<1>4. QED
  BY <1>1, <1>2, <1>3
     DEF ReaderNext, Read, allVars, readerVars, Write, Select, CheckFile,
         BeginLoad, LoadFile, DecideLane

(* A fact is trusted only by a verdict under such a manifest.              *)
LEMMA NextTrusted ==
    ASSUME ReaderInv, [ReaderNext]_allVars
    PROVE  TrustedIsReceipted'
<1>0. /\ TrustedIsReceipted /\ SeenIsReceipted /\ ReaderTypeOK
      /\ receipts \subseteq receipts'
  BY ReaderStep, ReceiptsGrow DEF ReaderInv
<1>1. CASE UNCHANGED fact
  BY <1>0, <1>1 DEF TrustedIsReceipted
<1>2. CASE PowerLossAll
  BY <1>2 DEF PowerLossAll, TrustedIsReceipted, NoFacts, Unknown
<1>3. ASSUME NEW r \in Readers, CheckFile(r) PROVE TrustedIsReceipted'
  <2>1. PICK n \in Unchecked(r) :
           fact' = [fact EXCEPT ![r][n] = Verdict(seen[r], n, disk[n])]
    BY <1>3 DEF CheckFile
  <2>2. n \in Names
    BY <1>0 DEF Unchecked, ReaderTypeOK
  <2>3. SUFFICES ASSUME NEW q \in Readers, NEW m \in Names,
                        fact'[q][m].state = "TRUSTED"
                 PROVE  <<m, fact'[q][m].interval, fact'[q][m].digest>>
                            \in receipts'
    BY DEF TrustedIsReceipted
  <2>4. CASE q = r /\ m = n
    <3>1. fact'[q][m] = Verdict(seen[r], n, disk[n])
      BY <1>0, <2>1, <2>4 DEF ReaderTypeOK
    <3>2. /\ seen[r] # Malformed
          /\ seen[r].entries[n] # NoEntry
          /\ fact'[q][m].interval = seen[r].entries[n].interval
          /\ fact'[q][m].digest = seen[r].entries[n].digest
      BY <2>3, <3>1, VerdictTrusts
    <3>3. QED
      BY <1>0, <2>2, <2>4, <3>2 DEF SeenIsReceipted
  <2>5. CASE ~ (q = r /\ m = n)
    <3>1. fact'[q][m] = fact[q][m]
      BY <1>0, <2>1, <2>5 DEF ReaderTypeOK
    <3>2. QED
      BY <1>0, <2>3, <3>1 DEF TrustedIsReceipted
  <2>6. QED
    BY <2>4, <2>5
<1>4. QED
  BY <1>1, <1>2, <1>3
     DEF ReaderNext, Read, allVars, readerVars, Write, Select, ReadManifest,
         BeginLoad, LoadFile, DecideLane

-----------------------------------------------------------------------------
(* Undisturbed sessions *)

(* A step that leaves the directory and r's record alone.                  *)
LEMMA SessionUntouched ==
    ASSUME NEW r \in Readers, SessionInProgress(r), UNCHANGED <<disk, manifest>>,
           rpc'[r] = rpc[r], report'[r] = report[r], selected'[r] = selected[r],
           seen'[r] = seen[r], fact'[r] = fact[r], toLoad'[r] = toLoad[r],
           loaded'[r] = loaded[r], lane'[r] = lane[r]
    PROVE  SessionInProgress(r)'
BY DEF SessionInProgress, Unchecked

(* An idle reader knows nothing.                                           *)
LEMMA SessionIdle ==
    ASSUME NEW r \in Readers, rpc'[r] = "idle", fact'[r] = NoFacts
    PROVE  SessionInProgress(r)'
BY DEF SessionInProgress, NoFacts

(* A step of another reader.                                               *)
LEMMA SessionOfAnother ==
    ASSUME ReaderTypeOK, NEW r \in Readers, NEW q \in Readers, q # r,
           SessionInProgress(r), Read(q)
    PROVE  SessionInProgress(r)'
<1>1. UNCHANGED <<disk, manifest>>
  BY DEF Read, Select, ReadManifest, CheckFile, BeginLoad, LoadFile,
         DecideLane, vars, diskVars
<1>2. report'[r] = report[r]
  BY DEF Read, Select, ReadManifest, CheckFile, BeginLoad, LoadFile,
         DecideLane, ReaderTypeOK
<1>3. fact'[r] = fact[r] /\ loaded'[r] = loaded[r] /\ toLoad'[r] = toLoad[r]
  BY DEF Read, Select, ReadManifest, CheckFile, BeginLoad, LoadFile,
         DecideLane, ReaderTypeOK
<1>4. /\ rpc'[r] = rpc[r] /\ selected'[r] = selected[r]
      /\ seen'[r] = seen[r] /\ lane'[r] = lane[r]
  BY DEF Read, Select, ReadManifest, CheckFile, BeginLoad, LoadFile,
         DecideLane, ReaderTypeOK
<1>5. QED
  BY <1>1, <1>2, <1>3, <1>4, SessionUntouched

(* A step of the reader itself.                                            *)
LEMMA SessionOfItself ==
    ASSUME TypeOK, ReaderTypeOK, NEW r \in Readers, SessionInProgress(r),
           Read(r)
    PROVE  SessionInProgress(r)'
<1>0. UNCHANGED <<disk, manifest>>
  BY DEF Read, Select, ReadManifest, CheckFile, BeginLoad, LoadFile,
         DecideLane, vars, diskVars
<1>1. CASE Select(r)
  <2>1. /\ rpc[r] = "idle" /\ rpc'[r] = "selected"
        /\ selected'[r] = {n \in Names : disk[n] # Absent}
        /\ fact' = fact
    BY <1>1 DEF Select, ReaderTypeOK
  <2>2. QED
    BY <1>0, <2>1 DEF SessionInProgress, NoFacts
<1>2. CASE ReadManifest(r)
  <2>1. /\ rpc[r] = "selected" /\ rpc'[r] = "checking"
        /\ seen'[r] = manifest
        /\ selected' = selected /\ fact' = fact
    BY <1>2 DEF ReadManifest, ReaderTypeOK
  <2>2. \A n \in selected[r] : fact'[r][n] = Unknown("unchecked")
    BY <2>1 DEF SessionInProgress, NoFacts, ReaderTypeOK
  <2>3. selected'[r] = {n \in Names : disk'[n] # Absent}
    BY <1>0, <2>1 DEF SessionInProgress
  <2>4. seen'[r] = manifest'
    BY <1>0, <2>1
  <2>5. QED
    BY <2>1, <2>2, <2>3, <2>4 DEF SessionInProgress
<1>3. CASE CheckFile(r)
  <2>1. PICK n \in Unchecked(r) :
           fact' = [fact EXCEPT ![r][n] = Verdict(seen[r], n, disk[n])]
    BY <1>3 DEF CheckFile
  <2>2. /\ rpc[r] = "checking" /\ rpc' = rpc
        /\ seen' = seen /\ selected' = selected
    BY <1>3 DEF CheckFile
  <2>3. \A m \in selected[r] :
            fact'[r][m] = fact[r][m] \/ fact'[r][m] = Verdict(seen[r], m, disk[m])
    BY <2>1 DEF Unchecked, ReaderTypeOK
  <2>4. \A m \in selected[r] :
            fact'[r][m] \in {Unknown("unchecked"), Verdict(seen[r], m, disk[m])}
    BY <2>2, <2>3 DEF SessionInProgress
  <2>5. QED
    BY <1>0, <2>2, <2>4 DEF SessionInProgress
<1>4. CASE BeginLoad(r)
  <2>1. /\ rpc[r] = "checking" /\ rpc'[r] = "loading"
        /\ Unchecked(r) = {} /\ toLoad'[r] = selected[r]
        /\ UNCHANGED <<seen, selected, fact, loaded>>
    BY <1>4 DEF BeginLoad, ReaderTypeOK
  <2>2. Unchecked(r)' = {}
    BY <2>1 DEF Unchecked
  <2>3. QED
    BY <1>0, <2>1, <2>2 DEF SessionInProgress
<1>5. CASE LoadFile(r)
  <2>1. PICK n \in toLoad[r] :
           /\ loaded' = [loaded EXCEPT ![r][n] = disk[n]]
           /\ toLoad' = [toLoad EXCEPT ![r] = @ \ {n}]
    BY <1>5 DEF LoadFile
  <2>2. /\ rpc[r] = "loading"
        /\ UNCHANGED <<rpc, seen, selected, fact>>
    BY <1>5 DEF LoadFile
  <2>3. /\ n \in Names
        /\ toLoad'[r] = toLoad[r] \ {n}
        /\ loaded'[r][n] = disk[n]
        /\ \A m \in Names \ {n} : loaded'[r][m] = loaded[r][m]
    BY <2>1 DEF ReaderTypeOK
  <2>4. selected[r] \subseteq Names
    BY DEF ReaderTypeOK
  <2>5. \A m \in selected'[r] \ toLoad'[r] : loaded'[r][m] = disk'[m]
    BY <1>0, <2>2, <2>3, <2>4 DEF SessionInProgress
  <2>6. Unchecked(r)' = {}
    BY <2>2 DEF SessionInProgress, Unchecked
  <2>7. QED
    BY <1>0, <2>2, <2>5, <2>6 DEF SessionInProgress
<1>6. CASE DecideLane(r)
  <2>1. /\ rpc[r] = "loading" /\ rpc'[r] = "decided" /\ toLoad[r] = {}
        /\ lane'[r] = Lane(report[r], selected[r], fact[r])
        /\ UNCHANGED <<report, seen, selected, fact, toLoad, loaded>>
    BY <1>6 DEF DecideLane, ReaderTypeOK
  <2>2. Unchecked(r)' = {}
    BY <2>1 DEF SessionInProgress, Unchecked
  <2>3. QED
    BY <1>0, <2>1, <2>2 DEF SessionInProgress
<1>7. QED
  BY <1>1, <1>2, <1>3, <1>4, <1>5, <1>6 DEF Read

(* Whoever changes the directory disturbs the sessions under way; the      *)
(* others go on, each on its own record.                                   *)
LEMMA NextSession ==
    ASSUME ReaderInv, [ReaderNext]_allVars, NEW r \in Readers \ disturbed'
    PROVE  SessionInProgress(r)'
<1>0. TypeOK /\ ReaderTypeOK
  BY DEF ReaderInv, IInv
<1>1. CASE UNCHANGED allVars
  <2>1. SessionInProgress(r)
    BY <1>1 DEF ReaderInv, allVars, readerVars
  <2>2. QED
    BY <1>1, <2>1, SessionUntouched DEF allVars, readerVars, vars, diskVars
<1>2. CASE Write
  <2>1. r \notin disturbed /\ SessionInProgress(r)
    BY <1>2 DEF Write, ReaderInv
  <2>2. CASE UNCHANGED <<disk, manifest>>
    BY <1>2, <2>1, <2>2, SessionUntouched DEF Write
  <2>3. CASE ~ UNCHANGED <<disk, manifest>>
    <3>1. rpc[r] = "idle"
      BY <1>2, <2>3 DEF Write
    <3>2. rpc'[r] = "idle" /\ fact'[r] = NoFacts
      BY <1>2, <2>1, <3>1 DEF Write, SessionInProgress
    <3>3. QED
      BY <3>2, SessionIdle
  <2>4. QED
    BY <2>2, <2>3
<1>3. CASE PowerLossAll
  BY <1>3, SessionIdle DEF PowerLossAll
<1>4. ASSUME NEW q \in Readers, Read(q) PROVE SessionInProgress(r)'
  <2>1. r \notin disturbed
    BY <1>4 DEF Read, Select, ReadManifest, CheckFile, BeginLoad, LoadFile,
                DecideLane
  <2>2. SessionInProgress(r)
    BY <2>1 DEF ReaderInv
  <2>3. QED
    BY <1>0, <1>4, <2>2, SessionOfItself, SessionOfAnother
<1>5. QED
  BY <1>1, <1>2, <1>3, <1>4 DEF ReaderNext

-----------------------------------------------------------------------------
(* The inductive invariant *)

(* It holds before the first hunt.                                         *)
LEMMA InitReader == ReaderInit => ReaderInv
<1> SUFFICES ASSUME ReaderInit PROVE ReaderInv
  OBVIOUS
<1>1. IInv
  <2>1. LockCoversCommit
    BY SentinelAssumption DEF ReaderInit, Init, LockCoversCommit, Critical
  <2>2. MayBeSound
    BY NoManifestType, MalformedIsNoManifest DEF ReaderInit, Init, MayBeSound
  <2>3. \A w \in Writers : CommitInProgress(w)
    BY DEF ReaderInit, Init, CommitInProgress
  <2>4. QED
    BY InitType, <2>1, <2>2, <2>3 DEF IInv, ReaderInit
<1>2. ReceiptedFamilyIsWhole
  BY DEF ReaderInit, Init, ReceiptedFamilyIsWhole, NoManifest, Bound
<1>3. ManifestOnlyReceipts /\ EntriesAreCounted
  BY DEF ReaderInit, Init, ManifestOnlyReceipts, EntriesAreCounted, NoManifest
<1>4. ReaderTypeOK
  <2>1. NoFacts \in [Names -> Fact]
    BY DEF NoFacts, Fact, Unknown, Reasons
  <2>2. NothingLoaded \in [Names -> Content]
    BY DEF NothingLoaded, Content
  <2>3. QED
    BY <2>1, <2>2, NoManifestType DEF ReaderInit, ReaderTypeOK
<1>5. SeenIsReceipted
  BY DEF ReaderInit, SeenIsReceipted, NoManifest
<1>6. TrustedIsReceipted
  BY DEF ReaderInit, TrustedIsReceipted, NoFacts, Unknown
<1>7. \A r \in Readers \ disturbed : SessionInProgress(r)
  BY DEF ReaderInit, SessionInProgress
<1>8. QED
  BY <1>1, <1>2, <1>3, <1>4, <1>5, <1>6, <1>7 DEF ReaderInv

(* And every step keeps it.                                                *)
LEMMA NextReader == ReaderInv /\ [ReaderNext]_allVars => ReaderInv'
<1> SUFFICES ASSUME ReaderInv, [ReaderNext]_allVars
             PROVE  ReaderInv'
  OBVIOUS
<1>1. IInv /\ [Next]_vars
  BY ReaderStep DEF ReaderInv
<1>2. IInv'
  BY <1>1, NextType, NextLock, NextMayBe, NextCommit DEF IInv
<1>3. ReceiptedFamilyIsWhole' /\ ManifestOnlyReceipts' /\ EntriesAreCounted'
  BY <1>1, NextWhole, NextReceipts, NextCounted DEF ReaderInv
<1>4. QED
  BY <1>2, <1>3, NextReaderType, NextSeen, NextTrusted, NextSession
     DEF ReaderInv

-----------------------------------------------------------------------------
(* The theorems *)

(* Readers are invisible to exporters: with them the directory behaves as  *)
(* it does without (read_manifest and validate_selected_files write        *)
(* nothing and take no lock), so what ExportProvenance promises stays.     *)
THEOREM ReadersAreInvisible == ReaderSpec => Spec
<1>1. ReaderInit => Init
  BY DEF ReaderInit
<1>2. QED
  BY <1>1, ReaderStep, PTL DEF ReaderSpec, Spec

(* Manifests bind receipts, however old the copy a reader holds, and an    *)
(* undisturbed session is one look at one directory.                       *)
THEOREM ReaderInvariant == ReaderSpec => []ReaderInv
BY InitReader, NextReader, PTL DEF ReaderSpec

(* Availability facts (validate_selected_files) are trusted only for bytes *)
(* that were receipted, and, undisturbed, for all of a receipted family.   *)
THEOREM TrustIsBoundToReceipts == ReaderSpec => []TrustIsReceipt
<1>1. ReaderInv => TrustIsReceipt
  <2> SUFFICES ASSUME ReaderInv PROVE ReceiptedFamilyIsTrusted
    BY DEF ReaderInv, TrustIsReceipt
  <2>1. SUFFICES ASSUME NEW r \in Readers \ disturbed, rpc[r] = "decided",
                        seen[r] # Malformed, NEW n \in selected[r],
                        FamilyOf[n] \notin dirty
                 PROVE  fact[r][n].state = "TRUSTED"
    BY DEF ReceiptedFamilyIsTrusted
  <2>2. SessionInProgress(r)
    BY DEF ReaderInv
  <2>3. /\ n \in Names /\ disk[n] # Absent /\ seen[r] = manifest
    BY <2>1, <2>2 DEF SessionInProgress
  <2>4. fact[r][n] = Verdict(manifest, n, disk[n])
    BY <2>1, <2>2, <2>3 DEF SessionInProgress, Unchecked
  <2>5. disk[n] = Bound(manifest, n)
    BY <2>1, <2>3 DEF ReaderInv, IInv, MayBeSound, ReceiptedFamilyIsWhole
  <2>6. manifest.entries[n] # NoEntry /\ disk[n] = manifest.entries[n].digest
    BY <2>3, <2>5 DEF Bound
  <2>7. manifest.generation # 0
    BY <2>1, <2>3, <2>6 DEF ReaderInv, IInv, MayBeSound, EntriesAreCounted
  <2>8. QED
    BY <2>1, <2>3, <2>4, <2>6, <2>7, BoundIsTrusted
<1>2. QED
  BY <1>1, ReaderInvariant, PTL

(* A STRONG lane (_select_coverage_lane) decided while nobody changed the  *)
(* directory is earned by the content that was loaded.                     *)
THEOREM UndisturbedStrongIsEarned ==
    ReaderSpec => []UndisturbedStrongIsContentBound
<1>1. ReaderInv => UndisturbedStrongIsContentBound
  <2> SUFFICES ASSUME ReaderInv, NEW r \in Readers \ disturbed,
                      lane[r] = "strong"
               PROVE  /\ LoadedIsReceipted(r)
                      /\ \A hour \in report[r] :
                            \E n \in selected[r], i \in Intervals :
                               hour \in i /\ <<n, i, loaded[r][n]>> \in receipts
    BY DEF UndisturbedStrongIsContentBound
  <2>1. ReaderTypeOK /\ TrustedIsReceipted /\ SessionInProgress(r)
    BY DEF ReaderInv
  <2>2. rpc[r] = "decided"
    BY <2>1 DEF ReaderTypeOK
  <2>3. /\ selected[r] \subseteq Names
        /\ lane[r] = Lane(report[r], selected[r], fact[r])
        /\ toLoad[r] = {} /\ Unchecked(r) = {}
    BY <2>1, <2>2 DEF SessionInProgress
  <2>4. /\ \A n \in selected[r] : fact[r][n].state = "TRUSTED"
        /\ report[r] \subseteq UNION {fact[r][n].interval : n \in selected[r]}
    BY <2>3 DEF Lane
  <2>5. ASSUME NEW n \in selected[r]
        PROVE  /\ fact[r][n].interval \in Intervals
               /\ <<n, fact[r][n].interval, loaded[r][n]>> \in receipts
    <3>1. fact[r][n] = Verdict(seen[r], n, disk[n])
      BY <2>1, <2>2, <2>3 DEF SessionInProgress, Unchecked
    <3>2. loaded[r][n] = disk[n]
      BY <2>1, <2>2, <2>3 DEF SessionInProgress
    <3>3. fact[r][n].digest = disk[n]
      BY <2>4, <3>1, VerdictTrusts
    <3>4. fact[r][n] \in Fact
      BY <2>1, <2>3 DEF ReaderTypeOK
    <3>5. fact[r][n].interval \in Intervals
      BY <2>4, <3>4 DEF Fact
    <3>6. QED
      BY <2>1, <2>3, <2>4, <3>2, <3>3, <3>5 DEF TrustedIsReceipted
  <2>6. LoadedIsReceipted(r)
    BY <2>4, <2>5 DEF LoadedIsReceipted
  <2>7. ASSUME NEW hour \in report[r]
        PROVE  \E n \in selected[r], i \in Intervals :
                   hour \in i /\ <<n, i, loaded[r][n]>> \in receipts
    <3>1. PICK n \in selected[r] : hour \in fact[r][n].interval
      BY <2>4
    <3>2. QED
      BY <2>5, <3>1
  <2>8. QED
    BY <2>6, <2>7
<1>2. QED
  BY <1>1, ReaderInvariant, PTL
=============================================================================
