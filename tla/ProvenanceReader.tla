-------------------------- MODULE ProvenanceReader --------------------------
(***************************************************************************)
(* A hunt reading a directory that exporters write.                        *)
(*                                                                         *)
(* The loader lists the directory, reads the manifest once, hashes each    *)
(* selected file against its entry (validate_selected_files), then loads   *)
(* the files, and the runner picks the coverage lane from the facts        *)
(* (_select_coverage_lane).  It takes no lock, so exporters run between    *)
(* any two of these steps.                                                 *)
(*                                                                         *)
(* Intervals and reports are sets of whole hours: merging half-open        *)
(* intervals that touch and asking whether one merged interval covers the  *)
(* report is asking whether their hours include the report's.  All outputs *)
(* of the directory are of one kind (say, CloudTrail days), so a session   *)
(* selects every file it lists.  The lstat (type, size) and the hash of a  *)
(* file are one look at it.                                                *)
(***************************************************************************)
EXTENDS ExportProvenance

CONSTANTS
    Readers,    \* hunts
    Reports,    \* the report intervals asked for
    Unbounded   \* no report interval

ASSUME ReportAssumption == Unbounded \notin Reports

VARIABLES
    rpc,        \* where each reader is
    report,     \* the interval the report covers
    selected,   \* the files the listing found
    seen,       \* the manifest read
    fact,       \* the availability fact of each name
    toLoad,     \* selected files not loaded yet
    loaded,     \* the content loaded from each name
    lane,       \* the coverage lane
    disturbed   \* history: readers whose session saw the directory change

readerVars == <<rpc, report, selected, seen, fact, toLoad, loaded,
                lane, disturbed>>
allVars == <<vars, readerVars>>

Reasons == {"unchecked", "manifest_missing", "manifest_malformed",
            "entry_missing", "unreadable", "binding_mismatch"}
Fact == [state: {"UNKNOWN"}, reason: Reasons]
            \cup [state: {"TRUSTED"}, interval: Intervals, digest: Digests,
                 generation: Nat]

Unknown(reason) == [state |-> "UNKNOWN", reason |-> reason]

NoFacts == [n \in Names |-> Unknown("unchecked")]
NothingLoaded == [n \in Names |-> Absent]

ReaderInit ==
    /\ Init
    /\ rpc = [r \in Readers |-> "idle"]
    /\ report = [r \in Readers |-> Unbounded]
    /\ selected = [r \in Readers |-> {}]
    /\ seen = [r \in Readers |-> NoManifest]
    /\ fact = [r \in Readers |-> NoFacts]
    /\ toLoad = [r \in Readers |-> {}]
    /\ loaded = [r \in Readers |-> NothingLoaded]
    /\ lane = [r \in Readers |-> "none"]
    /\ disturbed = {}

(* Discovery: the files of one population that exist now.                  *)
Select(r) ==
    /\ rpc[r] = "idle"
    /\ selected' = [selected EXCEPT ![r] = {n \in Names : disk[n] # Absent}]
    /\ report' \in {[report EXCEPT ![r] = i] : i \in Reports \cup {Unbounded}}
    /\ rpc' = [rpc EXCEPT ![r] = "selected"]
    /\ UNCHANGED <<vars, seen, fact, toLoad, loaded, lane, disturbed>>

(* read_manifest, once for the directory.                                  *)
ReadManifest(r) ==
    /\ rpc[r] = "selected"
    /\ seen' = [seen EXCEPT ![r] = manifest]
    /\ rpc' = [rpc EXCEPT ![r] = "checking"]
    /\ UNCHANGED <<vars, report, selected, fact, toLoad, loaded, lane,
                   disturbed>>

(* Mutant: the entry is believed without hashing the file.                 *)
VerdictUnhashed(m, n, c) ==
    IF m = Malformed THEN Unknown("manifest_malformed")
    ELSE IF m.generation = 0 THEN Unknown("manifest_missing")
    ELSE IF m.entries[n] = NoEntry THEN Unknown("entry_missing")
    ELSE IF c = Absent THEN Unknown("unreadable")
    ELSE [state |-> "TRUSTED",
          interval |-> m.entries[n].interval,
          digest |-> c,
          generation |-> m.generation]

(* The ladder of downgrades for one file under manifest m, c its content.  *)
Verdict(m, n, c) ==
    IF m = Malformed THEN Unknown("manifest_malformed")
    ELSE IF m.generation = 0 THEN Unknown("manifest_missing")
    ELSE IF m.entries[n] = NoEntry THEN Unknown("entry_missing")
    ELSE IF c = Absent THEN Unknown("unreadable")
    ELSE IF c # m.entries[n].digest THEN Unknown("binding_mismatch")
    ELSE [state |-> "TRUSTED",
          interval |-> m.entries[n].interval,
          digest |-> c,
          generation |-> m.generation]

Unchecked(r) ==
    {n \in selected[r] : fact[r][n] = Unknown("unchecked")}

CheckFile(r) ==
    /\ rpc[r] = "checking"
    /\ \E n \in Unchecked(r) :
          /\ First(Unchecked(r), n)
          /\ fact' = [fact EXCEPT ![r][n] = Verdict(seen[r], n, disk[n])]
    /\ UNCHANGED <<vars, rpc, report, selected, seen, toLoad, loaded, lane,
                   disturbed>>

(* All facts are in; the selected files are now read one after the other.  *)
BeginLoad(r) ==
    /\ rpc[r] = "checking"
    /\ Unchecked(r) = {}
    /\ toLoad' = [toLoad EXCEPT ![r] = selected[r]]
    /\ rpc' = [rpc EXCEPT ![r] = "loading"]
    /\ UNCHANGED <<vars, report, selected, seen, fact, loaded, lane, disturbed>>

(* No second look at the manifest; a file that has gone is skipped.        *)
LoadFile(r) ==
    /\ rpc[r] = "loading"
    /\ \E n \in toLoad[r] :
          /\ First(toLoad[r], n)
          /\ loaded' = [loaded EXCEPT ![r][n] = disk[n]]
          /\ toLoad' = [toLoad EXCEPT ![r] = @ \ {n}]
    /\ UNCHANGED <<vars, rpc, report, selected, seen, fact, lane, disturbed>>

(* Mutant: one trusted file is enough.                                     *)
LaneAny(rep, files, facts) ==
    LET trusted == {n \in files : facts[n].state = "TRUSTED"} IN
    IF /\ rep # Unbounded
       /\ trusted # {}
       /\ rep \subseteq UNION {facts[n].interval : n \in trusted}
    THEN "strong" ELSE "weak"

(* STRONG only when the report is bounded, something was selected, every   *)
(* fact is trusted, and the trusted intervals leave no gap in the report.  *)
Lane(rep, files, facts) ==
    IF /\ rep # Unbounded
       /\ files # {}
       /\ \A n \in files : facts[n].state = "TRUSTED"
       /\ rep \subseteq UNION {facts[n].interval : n \in files}
    THEN "strong" ELSE "weak"

DecideLane(r) ==
    /\ rpc[r] = "loading"
    /\ toLoad[r] = {}
    /\ lane' = [lane EXCEPT ![r] = Lane(report[r], selected[r], fact[r])]
    /\ rpc' = [rpc EXCEPT ![r] = "decided"]
    /\ UNCHANGED <<vars, report, selected, seen, fact, toLoad, loaded,
                   disturbed>>

Read(r) ==
    \/ Select(r)
    \/ ReadManifest(r)
    \/ CheckFile(r)
    \/ BeginLoad(r)
    \/ LoadFile(r)
    \/ DecideLane(r)

(* What happens to the directory, seen by the sessions under way.          *)
Write ==
    /\ \/ \E w \in Writers : ExporterStep(w)
       \/ DamageManifest
    /\ disturbed' = IF UNCHANGED <<disk, manifest>> THEN disturbed
                    ELSE disturbed \cup {r \in Readers : rpc[r] # "idle"}
    /\ UNCHANGED <<rpc, report, selected, seen, fact, toLoad, loaded, lane>>

(* A power loss ends the sessions too.                                     *)
PowerLossAll ==
    /\ PowerLoss
    /\ rpc' = [r \in Readers |-> "idle"]
    /\ report' = [r \in Readers |-> Unbounded]
    /\ selected' = [r \in Readers |-> {}]
    /\ seen' = [r \in Readers |-> NoManifest]
    /\ fact' = [r \in Readers |-> NoFacts]
    /\ toLoad' = [r \in Readers |-> {}]
    /\ loaded' = [r \in Readers |-> NothingLoaded]
    /\ lane' = [r \in Readers |-> "none"]
    /\ disturbed' = {}

ReaderNext ==
    \/ Write
    \/ PowerLossAll
    \/ \E r \in Readers : Read(r)

ReaderSpec == ReaderInit /\ [][ReaderNext]_allVars

-----------------------------------------------------------------------------
(* Type invariant of the reader; a lane is there once it is decided.       *)
ReaderTypeOK ==
    /\ rpc \in [Readers -> {"idle", "selected", "checking", "loading",
                            "decided"}]
    /\ report \in [Readers -> Reports \cup {Unbounded}]
    /\ selected \in [Readers -> SUBSET Names]
    /\ seen \in [Readers -> Manifest \cup {Malformed}]
    /\ fact \in [Readers -> [Names -> Fact]]
    /\ toLoad \in [Readers -> SUBSET Names]
    /\ loaded \in [Readers -> [Names -> Content]]
    /\ lane \in [Readers -> {"none", "strong", "weak"}]
    /\ \A r \in Readers : rpc[r] = "decided" <=> lane[r] # "none"
    /\ disturbed \subseteq Readers

(* A trusted fact is never a guess: whatever exporters do between the      *)
(* reading of the manifest and the hashing of the file                     *)
(* (validate_selected_files takes no lock), the bytes hashed are bytes     *)
(* that an export of that file for that interval was receipted for.        *)
TrustedIsReceipted ==
    \A r \in Readers, n \in Names :
        fact[r][n].state = "TRUSTED" =>
            <<n, fact[r][n].interval, fact[r][n].digest>> \in receipts

(* What was loaded from every selected file is what an export of it was    *)
(* receipted for, for the interval the file's fact claims.                 *)
LoadedIsReceipted(r) ==
    \A n \in selected[r] :
        /\ fact[r][n].state = "TRUSTED"
        /\ <<n, fact[r][n].interval, loaded[r][n]>> \in receipts

(* "Select STRONG only from complete content-bound interval coverage"      *)
(* (_select_coverage_lane): the rows a STRONG lane is claimed for come     *)
(* from the content the facts are bound to.  The code does not ensure it:  *)
(* an exporter may replace a file between its validation and its load.     *)
StrongIsContentBound ==
    \A r \in Readers : lane[r] = "strong" => LoadedIsReceipted(r)

(* Without such interference STRONG is earned, after interrupted           *)
(* re-exports, with leftovers of dead exporters and with files that        *)
(* predate the manifest: the data under it was receipted, for hours that   *)
(* together cover the report (_select_coverage_lane).                      *)
UndisturbedStrongIsContentBound ==
    \A r \in Readers \ disturbed : lane[r] = "strong" =>
        /\ LoadedIsReceipted(r)
        /\ \A hour \in report[r] : \E n \in selected[r], i \in Intervals :
               hour \in i /\ <<n, i, loaded[r][n]>> \in receipts

(* And trust is not lost: a reader nobody disturbs, of a family whose last *)
(* export was receipted, trusts every file of it.                          *)
ReceiptedFamilyIsTrusted ==
    \A r \in Readers \ disturbed :
        (rpc[r] = "decided" /\ seen[r] # Malformed) =>
            \A n \in selected[r] : FamilyOf[n] \notin dirty =>
                fact[r][n].state = "TRUSTED"

(* So a fact is trusted if, and undisturbed only if, there is a receipt. *)
TrustIsReceipt == TrustedIsReceipted /\ ReceiptedFamilyIsTrusted

(* Every manifest that a power loss could leave counts its commits: with   *)
(* generation 0 it binds nothing, so "no manifest" is never said of one    *)
(* that has entries.                                                       *)
EntriesAreCounted ==
    \A m \in manifestMayBe \ {Malformed} :
        m.generation = 0 => \A n \in Names : m.entries[n] = NoEntry

(* The manifest a session works with binds receipts, however old it is.    *)
SeenIsReceipted ==
    \A r \in Readers : seen[r] # Malformed =>
        \A n \in Names : seen[r].entries[n] # NoEntry =>
            <<n, seen[r].entries[n].interval, seen[r].entries[n].digest>> \in receipts

(* What an undisturbed session knows, step by step: the files there are,   *)
(* the manifest, the verdict of each file checked, and, of each file read, *)
(* its content.                                                            *)
SessionInProgress(r) ==
    /\ rpc[r] \in {"idle", "selected"} => fact[r] = NoFacts
    /\ rpc[r] # "idle" => selected[r] = {n \in Names : disk[n] # Absent}
    /\ rpc[r] \in {"checking", "loading", "decided"} =>
           /\ seen[r] = manifest
           /\ \A n \in selected[r] :
                  fact[r][n] \in {Unknown("unchecked"), Verdict(seen[r], n, disk[n])}
    /\ rpc[r] \in {"loading", "decided"} =>
           /\ Unchecked(r) = {}
           /\ \A n \in selected[r] \ toLoad[r] : loaded[r][n] = disk[n]
    /\ rpc[r] = "decided" =>
           /\ toLoad[r] = {}
           /\ lane[r] = Lane(report[r], selected[r], fact[r])

(* The inductive invariant behind the two properties of this module.       *)
ReaderInv ==
    /\ IInv
    /\ ReceiptedFamilyIsWhole
    /\ ManifestOnlyReceipts
    /\ EntriesAreCounted
    /\ ReaderTypeOK
    /\ SeenIsReceipted
    /\ TrustedIsReceipted
    /\ \A r \in Readers \ disturbed : SessionInProgress(r)
=============================================================================
