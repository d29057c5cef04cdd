------------------------- MODULE SyslogPreparation -------------------------
(***************************************************************************)
(* The prepared syslog population (detectors/syslog_preparation.py and the *)
(* runner's seam in _runner/planning.py and _runner/analyze.py).           *)
(*                                                                         *)
(* Pass one folds every local row into template counts and identities;     *)
(* pass two, over the same snapshot, admits only the rows that can matter, *)
(* found again by their ordinals in pass one; the Zeek feed is mined last. *)
(* The detector then gets a small frame and the facts of the whole         *)
(* population.  Whenever something does not fit, the run falls back to an  *)
(* ordinary load.                                                          *)
(*                                                                         *)
(* A file is committed with exactly its snapshot's rows, or aborted, as    *)
(* SnapshotFold shows; the miner is changed while the file is still read,  *)
(* so an abort has to undo it.  Mining is online: a template's first row   *)
(* gets its own text, later rows a generalised one, and ids count          *)
(* templates in order of arrival.                                          *)
(***************************************************************************)
EXTENDS Integers, SequencesExt, FiniteSetsExt

CONSTANTS
    NFiles,     \* local files of the snapshot, in order
    Templates,  \* what messages can be instances of
    Hosts,      \* host names, lower case
    Unknown,    \* the host name of rows without one
    Contents,   \* what the local files may hold
    ZeekFeeds,  \* what the Zeek feed may hold
    MaxCount,   \* max_count
    RarityPct   \* rarity_pct

Files == 1..NFiles
Ids == 1..Cardinality(Templates)

(* place: outside the report window, suppressed by the allowlist, or kept. *)
(* signal: reboot, session or update text that is admitted however common. *)
Row == [template: Templates, host: Hosts \cup {Unknown},
        place: {"outside", "suppressed", "kept"}, signal: BOOLEAN]
Texts == {"own", "generalised"}
Assignment == [id: Ids \cup {0}, text: Texts]
Line == [row: Row, id: Ids, text: Texts]

ASSUME PreparationAssumption ==
    /\ NFiles \in Nat
    /\ IsFiniteSet(Templates)
    /\ Contents \subseteq Seq(Row)
    /\ ZeekFeeds \subseteq Seq(Row)
    /\ MaxCount \in Nat
    /\ RarityPct \in 0..100

VARIABLES
    archive,     \* the snapshot's rows of each file
    zeek,        \* rows of the Zeek feed
    suppression, \* allowlist on: the coverage fold rides with pass two
    pc,
    current,     \* the file a pass is at
    miner,       \* _Facts.miner: templates in order of their ids
    checkpoint,  \* _Facts.checkpoint
    delta,       \* assignments of the file's rows consumed so far
    arrays,      \* _Facts.arrays: assignments by file and ordinal
    counts,      \* _Facts.counts, by id
    totals,      \* _Facts.hosts
    hosts,       \* _Facts.arbitration
    indexed,     \* _Facts.committed_files
    unindexed,   \* _Facts.aborted_files
    index,       \* status of the template index
    envelope,    \* ids that may turn out rare
    mode,        \* "ordinary", or "prepared" once registered
    frame,       \* admitted lines
    local,       \* rows of an ordinary load
    admission,   \* status of the final admission
    coverage,    \* status of the coverage fold
    committed,   \* file_outcomes of the final load
    channels,    \* prepared_status of the LoadResult
    warnings,    \* contributions of the patterns: <<pattern, pass, file>>
    declined,    \* DeclineReason, or "no"
    notes,       \* preparation_notes
    failed,      \* preparation_failures has the detector
    report       \* whether the detector has run, and what it told

inputVars == <<archive, zeek, suppression>>
factVars == <<miner, checkpoint, delta, arrays, counts, totals, hosts, indexed,
              unindexed, index>>
planVars == <<envelope, mode>>
loadVars == <<frame, local, admission, coverage, committed, channels, warnings>>
tellVars == <<declined, notes, failed>>
vars == <<inputVars, pc, current, factVars, planVars, loadVars, tellVars, report>>

-----------------------------------------------------------------------------
(* Mining and rarity *)

IdOf(mined, template) == CHOOSE i \in DOMAIN mined : mined[i] = template

(* TemplateMiner.add_log_message, as _Facts.mine and mine_templates use it *)
(* (external: drain3).                                                     *)
Mine(mined, template) ==
    IF Contains(mined, template)
    THEN [miner |-> mined, id |-> IdOf(mined, template), text |-> "generalised"]
    ELSE [miner |-> Append(mined, template), id |-> Len(mined) + 1, text |-> "own"]

(* Rows in order, those that are not kept without an id.                   *)
MineRows(mined, rows) ==
    FoldLeft(LAMBDA acc, row :
                 IF row.place = "kept"
                 THEN LET m == Mine(acc.miner, row.template) IN
                      [miner |-> m.miner,
                       out |-> Append(acc.out, [id |-> m.id, text |-> m.text])]
                 ELSE [acc EXCEPT !.out = Append(@, [id |-> 0, text |-> "own"])],
             [miner |-> mined, out |-> <<>>], rows)

CountIds(assigned) ==
    [i \in Ids |-> Cardinality({k \in DOMAIN assigned : assigned[k].id = i})]
CountHosts(rows) ==
    [h \in Hosts \cup {Unknown} |->
        Cardinality({k \in DOMAIN rows : rows[k].place = "kept" /\ rows[k].host = h})]
Plus(f, g) == [x \in DOMAIN f |-> f[x] + g[x]]

Kept(rows) == SelectSeq(rows, LAMBDA row : row.place = "kept")
InWindow(rows) == SelectSeq(rows, LAMBDA row : row.place # "outside")
HostsOf(rows) == {rows[k].host : k \in DOMAIN rows}

(* _rarity_threshold: the count at the percentile, at most max_count.      *)
Seen(freq) == {i \in DOMAIN freq : freq[i] > 0}
Percentile(freq) ==
    LET n == Cardinality(Seen(freq))
        index0 == (n * RarityPct) \div 100
        rank == IF index0 < 1 THEN 1 ELSE index0
    IN  CHOOSE c \in {freq[i] : i \in Seen(freq)} :
            /\ Cardinality({i \in Seen(freq) : freq[i] < c}) < rank
            /\ Cardinality({i \in Seen(freq) : freq[i] <= c}) >= rank
Threshold(freq) ==
    IF Seen(freq) = {} THEN 0
    ELSE IF Percentile(freq) < MaxCount THEN Percentile(freq) ELSE MaxCount
RareIds(freq) == {i \in Seen(freq) : freq[i] <= Threshold(freq)}

(* _arbitrate_cross_feed_syslog: the local feed carries a host that both   *)
(* have.                                                                   *)
Arbitrated(rows, localHosts) ==
    LET upTo[n \in 0..Len(rows)] ==
            IF n = 0 THEN <<>>
            ELSE IF rows[n].host \in localHosts \ {Unknown} THEN upTo[n - 1]
            ELSE Append(upTo[n - 1], rows[n])
    IN  upTo[Len(rows)]

(* Lines, as the detector reports them from a frame it is given.           *)
Lines(rows, assigned) ==
    [k \in DOMAIN rows |-> [row |-> rows[k], id |-> assigned[k].id,
                            text |-> assigned[k].text]]
Report(lines, freq, perHost) ==
    LET told == SelectSeq(lines, LAMBDA l : l.id \in RareIds(freq) \/ l.row.signal)
    IN  IF told = <<>> THEN <<>>
        ELSE <<[lines |-> told, counts |-> freq, totals |-> perHost]>>

(* The analysis of an ordinary load: suppression, then mining of the local *)
(* rows and the Zeek rows, then rarity.                                    *)
Analysis(localRows, zeekRows) ==
    LET rows == Kept(localRows) \o Kept(zeekRows)
        assigned == MineRows(<<>>, rows).out
    IN  Report(Lines(rows, assigned), CountIds(assigned), CountHosts(rows))

-----------------------------------------------------------------------------
Init ==
    /\ archive \in [Files -> Contents]
    /\ zeek \in ZeekFeeds
    /\ suppression \in BOOLEAN
    /\ pc = "prepare"
    /\ current = 1
    /\ miner = <<>>
    /\ checkpoint = <<>>
    /\ delta = <<>>
    /\ arrays = [f \in Files |-> <<>>]
    /\ counts = [i \in Ids |-> 0]
    /\ totals = [h \in Hosts \cup {Unknown} |-> 0]
    /\ hosts = {}
    /\ indexed = {}
    /\ unindexed = {}
    /\ index = "ready"
    /\ envelope = {}
    /\ mode = "ordinary"
    /\ frame = <<>>
    /\ local = <<>>
    /\ admission = "ready"
    /\ coverage = "ready"
    /\ committed = {}
    /\ channels = {}
    /\ warnings = {}
    /\ declined = "no"
    /\ notes = <<>>
    /\ failed = FALSE
    /\ report = [made |-> FALSE, told |-> <<>>]

(* _record_preparation_disposition                                         *)
Disposition(reason, unrecovered) ==
    /\ declined' = reason
    /\ failed' = (failed \/ unrecovered)
    /\ notes' = IF ~unrecovered /\ reason # "ineligible" THEN Append(notes, reason)
                ELSE notes

-----------------------------------------------------------------------------
(* Pass one: _prepare_populations, prepare, templates_sink                 *)

(* The detector's configuration is invalid; the load goes on without it.   *)
ConfigInvalid ==
    /\ pc = "prepare"
    /\ Disposition("failed", TRUE)
    /\ pc' = "load"
    /\ UNCHANGED <<inputVars, current, factVars, planVars, loadVars, report>>

(* A sibling needs the frame, the default window is pending, no or only    *)
(* small files.                                                            *)
Ineligible ==
    /\ pc = "prepare"
    /\ Disposition("ineligible", FALSE)
    /\ pc' = "load"
    /\ UNCHANGED <<inputVars, current, factVars, planVars, loadVars, report>>

(* An exception in the host, the snapshot or the pass.                     *)
PrepareRaises ==
    /\ pc \in {"prepare", "index", "consume", "indexed"}
    /\ Disposition("failed", FALSE)
    /\ pc' = "load"
    /\ UNCHANGED <<inputVars, current, factVars, planVars, loadVars, report>>

BeginIndex ==
    /\ pc = "prepare"
    /\ pc' = "index"
    /\ UNCHANGED <<inputVars, current, factVars, planVars, loadVars, tellVars, report>>

(* seed_file                                                               *)
SeedFile ==
    /\ pc = "index"
    /\ current <= NFiles
    /\ checkpoint' = miner
    /\ delta' = <<>>
    /\ pc' = "consume"
    /\ UNCHANGED <<inputVars, current, miner, arrays, counts, totals, hosts, indexed,
                   unindexed, index, planVars, loadVars, tellVars, report>>

(* consume of one chunk: the shared miner learns the rows at once.         *)
Consume ==
    /\ pc = "consume"
    /\ \E stop \in (Len(delta) + 1)..Len(archive[current]) :
          LET mined == MineRows(miner, SubSeq(archive[current], Len(delta) + 1, stop))
          IN  /\ miner' = mined.miner
              /\ delta' = delta \o mined.out
    /\ UNCHANGED <<inputVars, pc, current, checkpoint, arrays, counts, totals, hosts,
                   indexed, unindexed, index, planVars, loadVars, tellVars, report>>

CommitFile ==
    /\ pc = "consume"
    /\ Len(delta) = Len(archive[current])
    /\ arrays' = [arrays EXCEPT ![current] = delta]
    /\ counts' = Plus(counts, CountIds(delta))
    /\ totals' = Plus(totals, CountHosts(archive[current]))
    /\ hosts' = hosts \cup HostsOf(InWindow(archive[current]))
    /\ indexed' = indexed \cup {current}
    /\ checkpoint' = <<>>
    /\ delta' = <<>>
    /\ current' = current + 1
    /\ pc' = "index"
    /\ UNCHANGED <<inputVars, miner, unindexed, index, planVars, loadVars, tellVars,
                   report>>

(* Mutant: the miner is not restored.                                      *)
RestoredNot == miner' = miner

(* abort: the miner goes back to the file's checkpoint.                    *)
Restored == miner' = checkpoint

(* The file turns out unreadable, or is rejected, after any of its rows.   *)
AbortFile ==
    /\ pc = "consume"
    /\ Restored
    /\ unindexed' = unindexed \cup {current}
    /\ checkpoint' = <<>>
    /\ delta' = <<>>
    /\ current' = current + 1
    /\ pc' = "index"
    /\ UNCHANGED <<inputVars, arrays, counts, totals, hosts, indexed, index, planVars,
                   loadVars, tellVars, report>>

(* The index abstains or fails, or the snapshot changed.                   *)
IndexOut ==
    /\ pc \in {"index", "consume"}
    /\ current <= NFiles
    /\ index' \in {"abstained", "failed"}
    /\ pc' = "indexed"
    /\ UNCHANGED <<inputVars, current, miner, checkpoint, delta, arrays, counts, totals,
                   hosts, indexed, unindexed, planVars, loadVars, tellVars, report>>

IndexDone ==
    /\ pc = "index"
    /\ current > NFiles
    /\ pc' = "indexed"
    /\ UNCHANGED <<inputVars, current, factVars, planVars, loadVars, tellVars, report>>

(* Templates that may still turn out rare.                                 *)
Envelope == {i \in Ids : counts[i] > 0 /\ counts[i] <= MaxCount}

SumOver(S) == FoldSet(LAMBDA i, sum : sum + counts[i], 0, S)

(* DENSE_CANDIDATE_SHARE                                                   *)
Dense ==
    /\ SumOver(Ids) > 0
    /\ 100 * SumOver(Envelope) >= 60 * SumOver(Ids)

IndexUnusable ==
    /\ pc = "indexed"
    /\ index # "ready" \/ Dense
    /\ Disposition(IF index # "ready" THEN index ELSE "ineligible", FALSE)
    /\ pc' = "load"
    /\ UNCHANGED <<inputVars, current, factVars, planVars, loadVars, report>>

(* host.final                                                              *)
Register ==
    /\ pc = "indexed"
    /\ index = "ready"
    /\ ~Dense
    /\ envelope' = Envelope
    /\ mode' = "prepared"
    /\ channels' = {"candidates"} \cup (IF suppression THEN {"coverage"} ELSE {})
    /\ current' = 1
    /\ pc' = "admit"
    /\ UNCHANGED <<inputVars, factVars, frame, local, admission, coverage, committed,
                   warnings, tellVars, report>>

-----------------------------------------------------------------------------
(* The final load: load_required_logs, candidates                          *)

(* admit: by ordinal, candidates and signals that were mined.              *)
Admitted(f) ==
    LET a == arrays[f]
        lines == [k \in DOMAIN archive[f] |->
                     [row |-> archive[f][k], id |-> a[k].id, text |-> a[k].text]]
    IN  IF f \in unindexed THEN <<>>
        ELSE SelectSeq(lines, LAMBDA l :
                 /\ l.id > 0
                 /\ l.id \in envelope \/ l.row.signal)

AdmitFile ==
    /\ pc = "admit"
    /\ current <= NFiles
    /\ frame' = IF admission = "ready" THEN frame \o Admitted(current) ELSE <<>>
    /\ committed' = committed \cup {current}
    /\ current' = current + 1
    /\ UNCHANGED <<inputVars, pc, factVars, planVars, local, admission, coverage,
                   channels, warnings, tellVars, report>>

(* A rejected file leaves no warning, any other failure does.              *)
AdmitAborts ==
    /\ pc = "admit"
    /\ current <= NFiles
    /\ warnings' \in {warnings, warnings \cup {<<"local", "admit", current>>}}
    /\ current' = current + 1
    /\ UNCHANGED <<inputVars, pc, factVars, planVars, frame, local, admission,
                   coverage, committed, channels, tellVars, report>>

(* admit raises: no frame, while the file itself may still be committed.   *)
AdmissionFails ==
    /\ pc = "admit"
    /\ current <= NFiles
    /\ admission = "ready"
    /\ admission' = "failed"
    /\ frame' = <<>>
    /\ UNCHANGED <<inputVars, pc, current, factVars, planVars, local, coverage,
                   committed, channels, warnings, tellVars, report>>

(* A file is not the one the snapshot names: every sink is out, the pass   *)
(* ends.                                                                   *)
SnapshotChanged ==
    /\ pc = "admit"
    /\ current <= NFiles
    /\ admission' = "failed"
    /\ coverage' = IF suppression /\ coverage = "ready" THEN "failed" ELSE coverage
    /\ frame' = <<>>
    /\ warnings' = warnings \cup {<<"local", "admit", current>>}
    /\ current' = NFiles + 1
    /\ UNCHANGED <<inputVars, pc, factVars, planVars, local, committed, channels,
                   tellVars, report>>

(* The coverage fold abstains or fails.                                    *)
CoverageOut ==
    /\ pc = "admit"
    /\ suppression
    /\ coverage = "ready"
    /\ coverage' \in {"abstained", "failed"}
    /\ UNCHANGED <<inputVars, pc, current, factVars, planVars, frame, local, admission,
                   committed, channels, warnings, tellVars, report>>

(* What the other pattern of the same load has to warn of.                 *)
ZeekWarnings == {<<"zeek", "load", 0>>}

(* Warnings of an ordinary load that cannot read the files of bad.         *)
Unread(bad, pass) == {<<"local", pass, f>> : f \in bad}
LoadedRows(bad) == FlattenSeq([f \in Files |-> IF f \in bad THEN <<>> ELSE archive[f]])

AdmitDone ==
    /\ pc = "admit"
    /\ current > NFiles
    /\ \E more \in SUBSET ZeekWarnings : warnings' = warnings \cup more
    /\ pc' = "loaded"
    /\ UNCHANGED <<inputVars, current, factVars, planVars, frame, local, admission,
                   coverage, committed, channels, tellVars, report>>

(* The load of a run without a prepared population.                        *)
OrdinaryLoad ==
    /\ pc = "load"
    /\ \E bad \in SUBSET Files, more \in SUBSET ZeekWarnings :
          /\ local' = LoadedRows(bad)
          /\ warnings' = warnings \cup Unread(bad, "load") \cup more
    /\ pc' = "arbitrate"
    /\ UNCHANGED <<inputVars, current, factVars, planVars, frame, admission, coverage,
                   committed, channels, tellVars, report>>

-----------------------------------------------------------------------------
(* _recover_populations                                                    *)

Spoilt ==
    \/ admission = "failed"
    \/ "coverage" \in channels /\ coverage # "ready"
    \/ committed # indexed

KeepPopulation ==
    /\ pc = "loaded"
    /\ ~Spoilt
    /\ pc' = "arbitrate"
    /\ UNCHANGED <<inputVars, current, factVars, planVars, loadVars, tellVars, report>>

(* Mutant: the load has the warnings of the reload only.                   *)
ReplacedAlone(bad) ==
    /\ local' = LoadedRows(bad)
    /\ frame' = <<>>
    /\ channels' = {}
    /\ committed' = {}
    /\ warnings' = Unread(bad, "reload")

(* replace_pattern_load: what this pattern contributed is the reload's,    *)
(* what the other patterns contributed stays.                              *)
Replaced(bad) ==
    /\ local' = LoadedRows(bad)
    /\ frame' = <<>>
    /\ channels' = {}
    /\ committed' = {}
    /\ warnings' = {w \in warnings : w[1] # "local"} \cup Unread(bad, "reload")

(* Mutant: the recovery is not told.                                       *)
RecoverQuietly ==
    /\ pc = "loaded"
    /\ Spoilt
    /\ \E bad \in SUBSET Files : Replaced(bad)
    /\ mode' = "ordinary"
    /\ Disposition("ineligible", FALSE)
    /\ pc' = "arbitrate"
    /\ UNCHANGED <<inputVars, current, factVars, envelope, admission, coverage, report>>

Recover ==
    /\ pc = "loaded"
    /\ Spoilt
    /\ \E bad \in SUBSET Files : Replaced(bad)
    /\ mode' = "ordinary"
    /\ Disposition("failed", FALSE)
    /\ pc' = "arbitrate"
    /\ UNCHANGED <<inputVars, current, factVars, envelope, admission, coverage, report>>

(* The reload itself fails: the run ends with an error and no report.      *)
ReloadRaises ==
    /\ pc = "loaded"
    /\ Spoilt
    /\ pc' = "raised"
    /\ UNCHANGED <<inputVars, current, factVars, planVars, loadVars, tellVars, report>>

-----------------------------------------------------------------------------
(* The rest of the run                                                     *)

(* Mutant: the hosts are those of the frame at hand.                       *)
LocalHostsOfFrame ==
    IF mode = "prepared" THEN {frame[k].row.host : k \in DOMAIN frame}
    ELSE HostsOf(InWindow(local))

(* arbitration_hosts, or those of the loaded frame.                        *)
LocalHosts == IF mode = "prepared" THEN hosts ELSE HostsOf(InWindow(local))

Arbitrate ==
    /\ pc = "arbitrate"
    /\ zeek' = Arbitrated(zeek, LocalHosts)
    /\ pc' = IF failed THEN "done" ELSE IF mode = "prepared" THEN "finish" ELSE "detect"
    /\ UNCHANGED <<archive, suppression, current, factVars, planVars, loadVars,
                   tellVars, report>>

(* finish and _score_prepared.  An exception leaves the detector out.      *)
FinishRaises ==
    /\ pc = "finish"
    /\ Disposition("failed", TRUE)
    /\ pc' = "done"
    /\ UNCHANGED <<inputVars, current, factVars, planVars, loadVars, report>>

Finish ==
    /\ pc = "finish"
    /\ committed = indexed
    /\ LET rows == Kept(zeek)
           assigned == MineRows(miner, rows).out
       IN  report' = [made |-> TRUE,
                      told |-> Report(frame \o Lines(rows, assigned),
                                      Plus(counts, CountIds(assigned)),
                                      Plus(totals, CountHosts(rows)))]
    /\ pc' = "done"
    /\ UNCHANGED <<inputVars, current, factVars, planVars, loadVars, tellVars>>

Detect ==
    /\ pc = "detect"
    /\ report' = [made |-> TRUE, told |-> Analysis(local, zeek)]
    /\ pc' = "done"
    /\ UNCHANGED <<inputVars, current, factVars, planVars, loadVars, tellVars>>

Over == pc \in {"done", "raised"} /\ UNCHANGED vars

Next ==
    \/ ConfigInvalid
    \/ Ineligible
    \/ PrepareRaises
    \/ BeginIndex
    \/ SeedFile
    \/ Consume
    \/ CommitFile
    \/ AbortFile
    \/ IndexOut
    \/ IndexDone
    \/ IndexUnusable
    \/ Register
    \/ AdmitFile
    \/ AdmitAborts
    \/ AdmissionFails
    \/ SnapshotChanged
    \/ CoverageOut
    \/ AdmitDone
    \/ OrdinaryLoad
    \/ KeepPopulation
    \/ Recover
    \/ ReloadRaises
    \/ Arbitrate
    \/ FinishRaises
    \/ Finish
    \/ Detect
    \/ Over

Spec == Init /\ [][Next]_vars

-----------------------------------------------------------------------------
(* Type invariant; an admitted line always has an id.                      *)
PrepTypeOK ==
    /\ archive \in [Files -> Contents]
    /\ zeek \in Seq(Row)
    /\ suppression \in BOOLEAN
    /\ pc \in {"prepare", "index", "consume", "indexed", "admit", "load", "loaded",
               "arbitrate", "finish", "detect", "done", "raised"}
    /\ current \in 1..(NFiles + 1)
    /\ miner \in Seq(Templates) /\ Len(miner) <= Cardinality(Templates)
    /\ checkpoint \in Seq(Templates)
    /\ delta \in Seq(Assignment)
    /\ \A f \in Files : arrays[f] \in Seq(Assignment)
    /\ counts \in [Ids -> Nat]
    /\ totals \in [Hosts \cup {Unknown} -> Nat]
    /\ hosts \subseteq Hosts \cup {Unknown}
    /\ indexed \subseteq Files /\ unindexed \subseteq Files
    /\ {index, admission, coverage} \subseteq {"ready", "abstained", "failed"}
    /\ envelope \subseteq Ids
    /\ mode \in {"ordinary", "prepared"}
    /\ frame \in Seq(Line)
    /\ local \in Seq(Row)
    /\ committed \subseteq Files
    /\ channels \subseteq {"candidates", "coverage"}
    /\ declined \in {"no", "ineligible", "abstained", "failed"}
    /\ notes \in Seq({"abstained", "failed"})
    /\ failed \in BOOLEAN

(* What the detector reports from a prepared population, lines with their  *)
(* texts, counts and totals, is what it would have reported from an        *)
(* ordinary load of the same files, whatever was aborted, rolled back or   *)
(* left out on the way (the promise the tests name "matches ordinary").    *)
Population == FlattenSeq([f \in Files |->
                  IF f \in indexed THEN InWindow(archive[f]) ELSE <<>>])

PreparedMatchesOrdinary ==
    mode = "prepared" /\ report.made =>
        report.told = Analysis(Population, zeek)

(* The Zeek rows left are those of hosts the local feed does not have,     *)
(* although the local feed is never loaded in full.                        *)
FeedsDoNotOverlap ==
    mode = "prepared" /\ pc \in {"finish", "done"} =>
        \A k \in DOMAIN zeek, f \in indexed :
            zeek[k].host \notin HostsOf(InWindow(archive[f])) \ {Unknown}

(* Both passes have the same files when the population is finished, and    *)
(* each file has an assignment for every row, so that the guard in finish  *)
(* and the ordinal checks of admit never raise.                            *)
PassesAgree ==
    mode = "prepared" /\ pc \in {"arbitrate", "finish", "done"} =>
        /\ committed = indexed
        /\ admission = "ready"
        /\ \A f \in committed : Len(arrays[f]) = Len(archive[f])

(* The passes agree with each other, and the feeds with the passes. *)
FeedsAgree == FeedsDoNotOverlap /\ PassesAgree

(* Giving the population up after the final load leaves nothing of the     *)
(* prepared pass in the load, and takes nothing from the other pattern.    *)
RecoveryReplacesOnePattern ==
    [][mode = "prepared" /\ mode' = "ordinary" =>
          /\ frame' = <<>> /\ channels' = {} /\ committed' = {}
          /\ \A w \in warnings' : w[2] # "admit"
          /\ {w \in warnings' : w[1] = "zeek"} = {w \in warnings : w[1] = "zeek"}]_vars

(* A detector that does not get its population says so exactly once, and   *)
(* one that was never meant to have it says nothing.                       *)
OneDisposition ==
    /\ Len(notes) + (IF failed THEN 1 ELSE 0) =
           IF declined \in {"no", "ineligible"} THEN 0 ELSE 1
    /\ pc = "done" => /\ failed <=> ~ report.made
                      /\ mode = "ordinary" => declined # "no"
                      /\ declined = "ineligible" => index = "ready" /\ admission = "ready"

(* syslog preparation: the feeds are disjoint and counted alike, and each
   row has one disposition. *)
PopulationIsWhole == FeedsAgree /\ OneDisposition
=============================================================================
