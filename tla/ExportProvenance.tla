-------------------------- MODULE ExportProvenance --------------------------
(***************************************************************************)
(* `sigwood export`, from a fetched result to a receipted file.            *)
(*                                                                         *)
(* Exporter processes share one destination directory.  Each stages its    *)
(* files in a private directory, takes the directory's flock, replaces     *)
(* the data files one by one, unlinks the files an earlier export of the   *)
(* same output left, and only then replaces the manifest that binds every  *)
(* file name to a content hash and a requested interval                    *)
(* (exporters/__init__.py, loader/provenance.py).  A process may die, or   *)
(* an operation raise, between any two of these steps, and the machine may *)
(* lose power, which takes back every rename and unlink that no directory  *)
(* fsync has made durable.                                                 *)
(*                                                                         *)
(* Abstractions.  A file's content is its hash.  A basename is a number,   *)
(* its rank in sorted order: the parts of a split export are replaced, and *)
(* stale files unlinked, in ascending order.  A staging directory is       *)
(* private to its process (uuid4 name), so its contents are the exporter's *)
(* own record, and what a dead process leaves in it is never read.  Fsync  *)
(* is assumed to work: _fsync_directory ignores its own errors.            *)
(***************************************************************************)
EXTENDS Integers, FiniteSets

CONSTANTS
    Writers,        \* exporter processes
    Families,       \* logical outputs (the path a query resolves to)
    Names,          \* basenames in the directory
    FamilyOf,       \* output_family_member, as a function
    Layouts,        \* the sets of basenames one export can write
    Intervals,      \* requested windows
    Digests,        \* file contents, by SHA-256
    Legacy,         \* basenames that may exist before the first receipt
    Absent,         \* no file of that name
    NoEntry,        \* no manifest entry of that name
    Malformed,      \* a manifest parse_manifest_bytes refuses
    Free,           \* nobody holds the flock
    MaxExports,     \* bound: exports started
    MaxPowerLosses, \* bound: power losses
    MaxDamages      \* bound: manifests damaged by something else

ASSUME NamesAssumption == Names \subseteq Nat
ASSUME FamilyAssumption == FamilyOf \in [Names -> Families]
ASSUME LayoutAssumption ==
    \A layout \in Layouts :
        /\ layout \subseteq Names
        /\ layout # {}
        /\ \A m, n \in layout : FamilyOf[m] = FamilyOf[n]
ASSUME SentinelAssumption ==
    /\ Absent \notin Digests
    /\ NoEntry \notin [interval: Intervals, digest: Digests]
    /\ Malformed \notin [generation: Nat,
                         entries: [Names -> [interval: Intervals,
                                             digest: Digests] \cup {NoEntry}]]
    /\ Free \notin Writers
ASSUME BoundAssumption ==
    /\ MaxExports \in Nat
    /\ MaxPowerLosses \in Nat
    /\ MaxDamages \in Nat

VARIABLES
    pc,             \* where each exporter is
    export,         \* what each exporter has staged
    base,           \* the manifest each exporter read under the lock
    todo,           \* staged files still to be moved into place
    doomed,         \* stale files still to be unlinked
    lock,           \* holder of the flock, or Free
    disk,           \* the data files, by content
    mayHold,        \* for each name, what a power loss could leave there
    manifest,       \* the manifest file
    manifestMayBe,  \* what a power loss could leave there
    exportsStarted, powerLosses, damages,   \* bounded counters
    dirty,          \* history: families touched since their last receipt
    receipts        \* history: every <<name, interval, digest>> receipted

writerVars == <<pc, export, base, todo, doomed>>
diskVars == <<disk, mayHold, manifest, manifestMayBe>>
counterVars == <<exportsStarted, powerLosses, damages>>
historyVars == <<dirty, receipts>>
vars == <<writerVars, lock, diskVars, counterVars, historyVars>>

-----------------------------------------------------------------------------
(* Types *)

Entry == [interval: Intervals, digest: Digests]
Manifest == [generation: Nat, entries: [Names -> Entry \cup {NoEntry}]]
Content == Digests \cup {Absent}

Export == UNION {[layout: {layout},
                  interval: Intervals,
                  content: [layout -> Digests]] : layout \in Layouts}

PCs == {"idle", "staged", "locked", "replacing", "synced", "published"}

(* The steps an exporter takes while it holds the flock. *)
Critical == {"locked", "replacing", "synced", "published"}

(* The manifest of a directory that has none: generation 0, no entries. *)
NoManifest == [generation |-> 0, entries |-> [n \in Names |-> NoEntry]]

NoExport == [layout |-> {}, interval |-> {}, content |-> <<>>]

First(S, n) == n \in S /\ \A m \in S : n <= m

-----------------------------------------------------------------------------
(* Operators of _commit_export_provenance *)

(* The family this export writes. *)
FamilyWritten(e) == {FamilyOf[n] : n \in e.layout}

(* Files of the output family that this export does not write: stale. *)
StaleNames(e) == {n \in Names \ e.layout : FamilyOf[n] \in FamilyWritten(e)}

(* Mutant: every part is bound to one part's hash.                         *)
MergedOneHash(b, e) ==
    [generation |-> b.generation + 1,
     entries |-> [n \in Names |->
         IF n \in e.layout
         THEN [interval |-> e.interval,
               digest |-> e.content[CHOOSE m \in e.layout : TRUE]]
         ELSE IF n \in StaleNames(e) THEN NoEntry
         ELSE b.entries[n]]]

(* The entries of the new files over what the lock holder read, minus the  *)
(* family's entries it does not write, one generation on.                  *)
Merged(b, e) ==
    [generation |-> b.generation + 1,
     entries |-> [n \in Names |->
         IF n \in e.layout
         THEN [interval |-> e.interval, digest |-> e.content[n]]
         ELSE IF n \in StaleNames(e) THEN NoEntry
         ELSE b.entries[n]]]

ReceiptsOf(e) == {<<n, e.interval, e.content[n]>> : n \in e.layout}

(* What a reader of manifest m should find under name n. *)
Bound(m, n) == IF m.entries[n] = NoEntry THEN Absent ELSE m.entries[n].digest

-----------------------------------------------------------------------------
Init ==
    /\ pc = [w \in Writers |-> "idle"]
    /\ export = [w \in Writers |-> NoExport]
    /\ base = [w \in Writers |-> NoManifest]
    /\ todo = [w \in Writers |-> {}]
    /\ doomed = [w \in Writers |-> {}]
    /\ lock = Free
    /\ disk \in {d \in [Names -> Content] :
                    \A n \in Names \ Legacy : d[n] = Absent}
    /\ mayHold = [n \in Names |-> {disk[n]}]
    /\ manifest = NoManifest
    /\ manifestMayBe = {NoManifest}
    /\ exportsStarted = 0
    /\ powerLosses = 0
    /\ damages = 0
    /\ dirty = {FamilyOf[n] : n \in {m \in Names : disk[m] # Absent}}
    /\ receipts = {}

(* One query of a run is fetched and written into a fresh private staging  *)
(* directory, and the staged files are checked, hashed and turned into     *)
(* manifest entries - all before the lock is asked for.                    *)
Fetch(w) ==
    /\ pc[w] = "idle"
    /\ exportsStarted < MaxExports
    /\ \E layout \in Layouts, interval \in Intervals :
          \E content \in [layout -> Digests] :
             export' = [export EXCEPT ![w] = [layout |-> layout,
                                              interval |-> interval,
                                              content |-> content]]
    /\ pc' = [pc EXCEPT ![w] = "staged"]
    /\ exportsStarted' = exportsStarted + 1
    /\ UNCHANGED <<base, todo, doomed, lock, diskVars, powerLosses, damages,
                   historyVars>>

(* Mutant: a shared lock, which never waits.                               *)
AcquireShared(w) ==
    /\ pc[w] = "staged"
    /\ lock' = w
    /\ pc' = [pc EXCEPT ![w] = "locked"]
    /\ UNCHANGED <<export, base, todo, doomed, diskVars, counterVars,
                   historyVars>>

(* flock(LOCK_EX) on the directory's never-unlinked lock file.             *)
Acquire(w) ==
    /\ pc[w] = "staged"
    /\ lock = Free
    /\ lock' = w
    /\ pc' = [pc EXCEPT ![w] = "locked"]
    /\ UNCHANGED <<export, base, todo, doomed, diskVars, counterVars,
                   historyVars>>

(* Mutant: leaving removes the lock file, whoever holds it.                *)
LeaveUnlinksLock(w) ==
    /\ pc' = [pc EXCEPT ![w] = "idle"]
    /\ export' = [export EXCEPT ![w] = NoExport]
    /\ base' = [base EXCEPT ![w] = NoManifest]
    /\ todo' = [todo EXCEPT ![w] = {}]
    /\ doomed' = [doomed EXCEPT ![w] = {}]
    /\ lock' = Free

(* The exporter is done, by success, exception or death: the flock is gone *)
(* with its descriptor and the staging directory with the export.          *)
Leave(w) ==
    /\ pc' = [pc EXCEPT ![w] = "idle"]
    /\ export' = [export EXCEPT ![w] = NoExport]
    /\ base' = [base EXCEPT ![w] = NoManifest]
    /\ todo' = [todo EXCEPT ![w] = {}]
    /\ doomed' = [doomed EXCEPT ![w] = {}]
    /\ lock' = IF lock = w THEN Free ELSE lock

(* Read the manifest (a missing one counts as generation 0) and list the   *)
(* directory for stale files of the family.                                *)
ReadDirectory(w) ==
    /\ pc[w] = "locked"
    /\ manifest # Malformed
    /\ base' = [base EXCEPT ![w] = manifest]
    /\ todo' = [todo EXCEPT ![w] = export[w].layout]
    /\ doomed' = [doomed EXCEPT ![w] =
                     {n \in StaleNames(export[w]) : disk[n] # Absent}]
    /\ pc' = [pc EXCEPT ![w] = "replacing"]
    /\ UNCHANGED <<export, lock, diskVars, counterVars, historyVars>>

(* A malformed manifest is never overwritten: the export raises.           *)
RefuseMalformed(w) ==
    /\ pc[w] = "locked"
    /\ manifest = Malformed
    /\ Leave(w)
    /\ UNCHANGED <<diskVars, counterVars, historyVars>>

(* fsync one staged file and rename it over its final name.                *)
ReplaceData(w) ==
    /\ pc[w] = "replacing"
    /\ \E n \in todo[w] :
          /\ First(todo[w], n)
          /\ disk' = [disk EXCEPT ![n] = export[w].content[n]]
          /\ mayHold' = [mayHold EXCEPT ![n] = @ \cup {export[w].content[n]}]
          /\ todo' = [todo EXCEPT ![w] = @ \ {n}]
    /\ dirty' = dirty \cup FamilyWritten(export[w])
    /\ UNCHANGED <<pc, export, base, doomed, lock, manifest, manifestMayBe,
                   counterVars, receipts>>

(* Unlink one file that an earlier export of the same output left.         *)
Retire(w) ==
    /\ pc[w] = "replacing"
    /\ todo[w] = {}
    /\ \E n \in doomed[w] :
          /\ First(doomed[w], n)
          /\ disk' = [disk EXCEPT ![n] = Absent]
          /\ mayHold' = [mayHold EXCEPT ![n] = @ \cup {Absent}]
          /\ doomed' = [doomed EXCEPT ![w] = @ \ {n}]
    /\ UNCHANGED <<pc, export, base, todo, lock, manifest, manifestMayBe,
                   counterVars, historyVars>>

(* fsync of the directory: what it holds now is what a power loss leaves.  *)
Durable ==
    /\ mayHold' = [n \in Names |-> {disk[n]}]
    /\ manifestMayBe' = {manifest}

(* Mutant: no directory fsync before the manifest.                         *)
SyncDataSkipped(w) ==
    /\ pc[w] = "replacing"
    /\ todo[w] = {}
    /\ doomed[w] = {}
    /\ pc' = [pc EXCEPT ![w] = "synced"]
    /\ UNCHANGED <<export, base, todo, doomed, lock, diskVars, counterVars,
                   historyVars>>

(* The first directory fsync, after the data and before the manifest.      *)
SyncData(w) ==
    /\ pc[w] = "replacing"
    /\ todo[w] = {}
    /\ doomed[w] = {}
    /\ Durable
    /\ pc' = [pc EXCEPT ![w] = "synced"]
    /\ UNCHANGED <<export, base, todo, doomed, lock, disk, manifest,
                   counterVars, historyVars>>

(* fsync the staged manifest and rename it over the old one.               *)
WriteManifest(w) ==
    /\ pc[w] = "synced"
    /\ manifest' = Merged(base[w], export[w])
    /\ manifestMayBe' = manifestMayBe \cup {Merged(base[w], export[w])}
    /\ dirty' = dirty \ FamilyWritten(export[w])
    /\ receipts' = receipts \cup ReceiptsOf(export[w])
    /\ pc' = [pc EXCEPT ![w] = "published"]
    /\ UNCHANGED <<export, base, todo, doomed, lock, disk, mayHold,
                   counterVars>>

(* The second directory fsync, then the lock and the staging directory go. *)
SyncManifest(w) ==
    /\ pc[w] = "published"
    /\ Durable
    /\ Leave(w)
    /\ UNCHANGED <<disk, manifest, counterVars, historyVars>>

(* Mutant: a lock file that outlives the exporter that created it.         *)
StopLeavesLock(w) ==
    /\ pc[w] # "idle"
    /\ pc' = [pc EXCEPT ![w] = "idle"]
    /\ export' = [export EXCEPT ![w] = NoExport]
    /\ base' = [base EXCEPT ![w] = NoManifest]
    /\ todo' = [todo EXCEPT ![w] = {}]
    /\ doomed' = [doomed EXCEPT ![w] = {}]
    /\ UNCHANGED <<lock, diskVars, counterVars, historyVars>>

(* The exporter raises (disk full, unlink denied, bad backend metadata) or *)
(* is killed, at any point: the directory stays as it is.                  *)
Stop(w) ==
    /\ pc[w] # "idle"
    /\ Leave(w)
    /\ UNCHANGED <<diskVars, counterVars, historyVars>>

(* Every process dies, and each name keeps any of the values it had since  *)
(* the last directory fsync.                                               *)
PowerLoss ==
    /\ powerLosses < MaxPowerLosses
    /\ powerLosses' = powerLosses + 1
    /\ pc' = [w \in Writers |-> "idle"]
    /\ export' = [w \in Writers |-> NoExport]
    /\ base' = [w \in Writers |-> NoManifest]
    /\ todo' = [w \in Writers |-> {}]
    /\ doomed' = [w \in Writers |-> {}]
    /\ lock' = Free
    /\ disk' \in {d \in [Names -> Content] :
                     \A n \in Names : d[n] \in mayHold[n]}
    /\ mayHold' = [n \in Names |-> {disk'[n]}]
    /\ manifest' \in manifestMayBe
    /\ manifestMayBe' = {manifest'}
    /\ dirty' = IF manifest' = manifest THEN dirty
                ELSE dirty \cup
                     {FamilyOf[n] : n \in {m \in Names :
                         Bound(manifest', m) # Bound(manifest, m)}}
    /\ UNCHANGED <<exportsStarted, damages, receipts>>

(* External: between exports, something else leaves a manifest that does   *)
(* not parse.                                                              *)
DamageManifest ==
    /\ damages < MaxDamages
    /\ lock = Free
    /\ manifest # Malformed
    /\ damages' = damages + 1
    /\ manifest' = Malformed
    /\ manifestMayBe' = {Malformed}
    /\ UNCHANGED <<writerVars, lock, disk, mayHold, exportsStarted,
                   powerLosses, historyVars>>

Commit(w) ==
    \/ ReadDirectory(w)
    \/ RefuseMalformed(w)
    \/ ReplaceData(w)
    \/ Retire(w)
    \/ SyncData(w)
    \/ WriteManifest(w)
    \/ SyncManifest(w)

ExporterStep(w) ==
    \/ Fetch(w)
    \/ Acquire(w)
    \/ Commit(w)
    \/ Stop(w)

Next ==
    \/ \E w \in Writers : ExporterStep(w)
    \/ PowerLoss
    \/ DamageManifest

Spec == Init /\ [][Next]_vars

(* The operating system runs every exporter that can run.  flock promises  *)
(* no order among waiters; with finitely many exports weak fairness of     *)
(* each acquisition is enough.                                             *)
Fairness == \A w \in Writers : WF_vars(Acquire(w)) /\ WF_vars(Commit(w))

FairSpec == Spec /\ Fairness

-----------------------------------------------------------------------------
(* Type invariant.                                                         *)
TypeOK ==
    /\ pc \in [Writers -> PCs]
    /\ export \in [Writers -> Export \cup {NoExport}]
    /\ base \in [Writers -> Manifest]
    /\ todo \in [Writers -> SUBSET Names]
    /\ doomed \in [Writers -> SUBSET Names]
    /\ lock \in Writers \cup {Free}
    /\ disk \in [Names -> Content]
    /\ mayHold \in [Names -> SUBSET Content]
    /\ manifest \in Manifest \cup {Malformed}
    /\ manifestMayBe \subseteq Manifest \cup {Malformed}
    /\ exportsStarted \in 0..MaxExports
    /\ powerLosses \in 0..MaxPowerLosses
    /\ damages \in 0..MaxDamages
    /\ dirty \subseteq Families
    /\ receipts \subseteq Names \X Intervals \X Digests

(* The flock covers the whole commit: an exporter between flock(LOCK_EX)   *)
(* and its release is the holder, so no two are there together.            *)
LockCoversCommit ==
    \A w \in Writers : pc[w] \in Critical <=> lock = w

(* A family whose last export ended in a receipt, and that nothing has     *)
(* touched since, is whole: every name of the family holds what the        *)
(* manifest binds to it, stale parts of earlier exports included (they are *)
(* gone), and no power loss can bring anything else back.  This is what    *)
(* the order fsync data, rename data, unlink stale, fsync directory,       *)
(* rename manifest in _commit_export_provenance is for.                    *)
ReceiptedFamilyIsWhole ==
    manifest # Malformed =>
        \A n \in Names : FamilyOf[n] \notin dirty =>
            mayHold[n] = {Bound(manifest, n)}

(* Whatever the manifest binds was once receipted by an export that had    *)
(* fetched that content for that interval - now, and after any power loss. *)
ManifestOnlyReceipts ==
    \A m \in manifestMayBe \ {Malformed} : \A n \in Names :
        m.entries[n] # NoEntry =>
            <<n, m.entries[n].interval, m.entries[n].digest>> \in receipts

(* What the lock holder may rely on, step by step.  The staged export is   *)
(* there until the end; the manifest is the one that was read; files moved *)
(* into place stay there, stale ones stay gone, and both are durable       *)
(* before the manifest is touched.                                         *)
CommitInProgress(w) ==
    /\ pc[w] # "idle" => export[w] \in Export
    /\ pc[w] \in {"replacing", "synced"} =>
           /\ manifest # Malformed
           /\ base[w] = manifest
           /\ todo[w] \subseteq export[w].layout
           /\ doomed[w] \subseteq StaleNames(export[w])
           /\ todo[w] # export[w].layout => FamilyWritten(export[w]) \subseteq dirty
           /\ \A n \in export[w].layout \ todo[w] : disk[n] = export[w].content[n]
           /\ \A n \in StaleNames(export[w]) \ doomed[w] : disk[n] = Absent
    /\ pc[w] = "synced" =>
           /\ todo[w] = {}
           /\ doomed[w] = {}
           /\ \A n \in Names : mayHold[n] = {disk[n]}
           /\ manifestMayBe = {manifest}

(* The current values are among those a power loss can leave, and a        *)
(* damaged manifest leaves no other.                                       *)
MayBeSound ==
    /\ \A n \in Names : disk[n] \in mayHold[n]
    /\ manifest \in manifestMayBe
    /\ Malformed \in manifestMayBe => manifestMayBe = {Malformed}

(* The inductive invariant behind ReceiptedFamilyIsWhole and the ledger.   *)
IInv ==
    /\ TypeOK
    /\ LockCoversCommit
    /\ MayBeSound
    /\ \A w \in Writers : CommitInProgress(w)

(* The manifest implements the ledger: concurrent exporters lose no        *)
(* update, a commit touches one family, generations advance by one, and a  *)
(* power loss takes back at most the last commit.                          *)
Ledger == INSTANCE ProvenanceLedger
              WITH ledger <- manifest, mayRemain <- manifestMayBe

LedgerSpec == Ledger!Spec

(* An exporter that has staged its files gets through: a holder that       *)
(* raises or dies never leaves the directory locked.                       *)
StagedExportEnds == \A w \in Writers : pc[w] = "staged" ~> pc[w] = "idle"
=============================================================================
