---------------------------- MODULE DnsClusters ----------------------------
(***************************************************************************)
(* Names that stand apart (detectors/dns.py, common/clustering.py).  A     *)
(* child process clusters the rows; rows in no cluster are candidates, and *)
(* so are the leading names of clusters that look like a tunnel.  Those    *)
(* over the threshold are told by parent domain, and families of failing   *)
(* names under it are told beside them.                                    *)
(*                                                                         *)
(* A Zeek row is [name, code], a Pi-hole row [name, kind].  The clustering *)
(* is any one with clusters of at least the minimum size; the score, the   *)
(* parent and the public suffix of a name are given.                       *)
(***************************************************************************)
EXTENDS Integers, FiniteSets, SequencesExt, FiniteSetsExt

CONSTANTS
    Feeds,              \* [zeek, pihole, tuning] a run may have
    ScoreOf, ParentOf,  \* of a name
    PublicParents, NoDomain,    \* parents with a public suffix; names that break features
    ZeekClusterSize, PiholeClusterSize,     \* min_cluster_size of the paths
    ZeekScanFloor, PiholeScanFloor,         \* rows a scanned cluster has
    HighScore, HighShare, ParentShare,      \* thresh_high_entropy; hundredths
    SampleCap, FamilyFloor, FailShare       \* hundredths

ASSUME ClusterAssumption ==
    /\ {ZeekClusterSize, PiholeClusterSize, SampleCap, FamilyFloor} \subseteq Nat \ {0}
    /\ ParentShare > 50         \* so that one parent leads

VARIABLES
    feed,       \* the frames and the settings
    looked,     \* the rows clustered: [name, weight], <<>> when nothing was
    child,      \* the worker: "none", "running", "done", "dead"
    queue,      \* what it put
    outcome,    \* of fit_predict: "none", "ok", "error", "died", "stopped"
    parent,     \* where the detector stands in fit_predict
    label,      \* of each row, 0 is noise
    dense,      \* the clusters surfaced: [id, owned, total, sample]
    stories,    \* the findings
    nameStep    \* "load", "fit", "scan", "tell", "done"

workerVars == <<child, queue, outcome, parent>>
nameVars == <<feed, looked, child, queue, outcome, parent, label, dense, stories, nameStep>>

-----------------------------------------------------------------------------
Path == IF feed.zeek # <<>> THEN "zeek" ELSE IF feed.pihole # <<>> THEN "pihole" ELSE "none"
Usably(rows) == SelectSeq(rows, LAMBDA r : r.name \notin NoDomain)
(* One row for each name that was asked for. *)
Asked == {feed.pihole[i].name : i \in {k \in DOMAIN feed.pihole : feed.pihole[k].kind = "query"}}
            \ NoDomain
Aggregate ==
    SetToSeq({[name |-> n, weight |-> Cardinality({i \in DOMAIN feed.pihole :
                  feed.pihole[i].name = n /\ feed.pihole[i].kind = "query"})] : n \in Asked})
ZeekRows == LET rows == Usably(feed.zeek)
            IN  [i \in DOMAIN rows |-> [name |-> rows[i].name, weight |-> 1]]
RowsToCluster ==
    IF Path = "zeek" THEN ZeekRows
    ELSE IF Cardinality(Asked) < PiholeClusterSize THEN <<>> ELSE Aggregate

RowsIn(l) == {i \in DOMAIN looked : label[i] = l}
NamesIn(rows) == {looked[i].name : i \in rows}
Clusters == {label[i] : i \in DOMAIN looked} \ {0}
WeightOf(rows) == FoldSet(LAMBDA i, n : n + looked[i].weight, 0, rows)
SizeFloor == IF Path = "zeek" THEN ZeekScanFloor ELSE PiholeScanFloor
AtLeast(part, whole, hundredths) == 100 * Cardinality(part) >= hundredths * Cardinality(whole)

-----------------------------------------------------------------------------
(* The tunnel shape: big, high-scoring, under one parent. *)
Under(rows, p) == {i \in rows : ParentOf[looked[i].name] = p}
Leading(rows) == CHOOSE p \in {ParentOf[n] : n \in NamesIn(rows)} :
                    \A q \in {ParentOf[n] : n \in NamesIn(rows)} :
                        Cardinality(Under(rows, p)) >= Cardinality(Under(rows, q))
TunnelShaped(rows) ==
    /\ Cardinality(rows) >= SizeFloor
    /\ AtLeast({i \in rows : ScoreOf[looked[i].name] >= HighScore}, rows, HighShare)
    /\ AtLeast(Under(rows, Leading(rows)), rows, ParentShare)
FirstRow(rows, n) == Min({i \in rows : looked[i].name = n})
Outranks(rows, m, n) == \/ ScoreOf[m] > ScoreOf[n]
                        \/ ScoreOf[m] = ScoreOf[n] /\ FirstRow(rows, m) < FirstRow(rows, n)
Sample(rows, owned) ==
    {n \in owned : Cardinality({m \in owned : Outranks(rows, m, n)}) < SampleCap}
Claimed(found) == UNION {found[k].owned : k \in DOMAIN found}
(* A mutant: a name may be claimed twice. *)
SurfaceAgain(found, l) ==
    LET rows == RowsIn(l)
        owned == NamesIn(Under(rows, Leading(rows)))
    IN  IF ~ TunnelShaped(rows) THEN found
        ELSE Append(found, [id |-> l, owned |-> owned, sample |-> Sample(rows, owned),
                            total |-> WeightOf({i \in rows : looked[i].name \in owned})])
Surface(found, l) ==
    LET rows == RowsIn(l)
        owned == NamesIn(Under(rows, Leading(rows))) \ Claimed(found)
    IN  IF ~ TunnelShaped(rows) \/ owned = {} THEN found
        ELSE Append(found, [id |-> l, owned |-> owned, sample |-> Sample(rows, owned),
                            total |-> WeightOf({i \in rows : looked[i].name \in owned})])

(* Candidates: noise that no cluster counts, and the samples. *)
Noise == NamesIn(RowsIn(0)) \ Claimed(dense)
Sampled == UNION {dense[k].sample : k \in DOMAIN dense}
Clears(names) == {n \in names : ScoreOf[n] >= feed.tuning.threshold}
Candidates == Clears(Noise \cup Sampled)
Parents(names) == {ParentOf[n] : n \in names}
Family(names, p) == {n \in names : ParentOf[n] = p}

(* What the lookups of names came to: of zeek rows with an answer code.    *)
Answers(rows, names) == {i \in DOMAIN rows : rows[i].name \in names /\ rows[i].code # "none"}
Failures(rows, names) == {i \in Answers(rows, names) : rows[i].code = "nxdomain"}
FailsToResolve(names, p) ==
    LET rows == IF Path = "zeek" THEN Usably(feed.zeek) ELSE <<>>
    IN  /\ p \in PublicParents /\ Cardinality(Failures(rows, names)) >= 2
        /\ AtLeast(Failures(rows, names), Answers(rows, names), 50)
(* Two children make a cluster a tunnel. *)
Tunnel(shown) == {k \in DOMAIN dense : dense[k].sample \cap shown # {}
                                       /\ Cardinality(dense[k].owned) >= 2}
Severe(names, p) == FailsToResolve(names, p) \/ (Path = "zeek" /\ Tunnel(names) # {})

Total(names) == WeightOf({i \in DOMAIN looked : looked[i].name \in names \cap Noise})
CountedIn(names) == {k \in DOMAIN dense : dense[k].sample \cap names # {}}
Story(p) ==
    LET names == Family(Candidates, p)
    IN  IF Cardinality(names) = 1
        THEN [kind |-> "single", parent |-> p, names |-> names, high |-> Severe(names, p)]
        ELSE
        [kind |-> "group", parent |-> p, names |-> names, high |-> Severe(names, p),
         count |-> Cardinality(names \cap Noise)
                     + FoldSet(LAMBDA k, n : n + Cardinality(dense[k].owned), 0, CountedIn(names)),
         total |-> Total(names) + FoldSet(LAMBDA k, n : n + dense[k].total, 0, CountedIn(names))]
ScanSummary ==
    LET shown == CountedIn(Candidates)
    IN  IF shown = {} THEN {}
        ELSE {[kind |-> "summary", clusters |-> Cardinality(shown),
               count |-> FoldSet(LAMBDA k, n : n + Cardinality(dense[k].owned), 0, shown)]}
Unscanned ==
    IF Path = "pihole" /\ Clusters # {} /\ ~ feed.tuning.scan
    THEN {[kind |-> "unscanned", clusters |-> Cardinality(Clusters),
           count |-> Cardinality({i \in DOMAIN looked : label[i] # 0})]}
    ELSE {}
(* Families below the threshold, from the full frame. *)
BelowGate == {n \in {feed.zeek[i].name : i \in DOMAIN feed.zeek} :
                ScoreOf[n] < feed.tuning.threshold /\ n # ParentOf[n]}
FailingFamilies(parents) ==
    {[kind |-> "below", parent |-> p, names |-> Family(BelowGate, p)] :
        p \in {q \in parents :
            /\ Cardinality(Family(BelowGate, q)) >= FamilyFloor
            /\ Answers(feed.zeek, Family(BelowGate, q)) # {}
            /\ AtLeast(Failures(feed.zeek, Family(BelowGate, q)),
                       Answers(feed.zeek, Family(BelowGate, q)), FailShare)}}
Promoted == IF ~ feed.tuning.promote THEN {}
            ELSE FailingFamilies(Parents(BelowGate) \ Parents(Candidates))

-----------------------------------------------------------------------------
Load ==
    /\ nameStep = "load"
    /\ looked' = RowsToCluster /\ label' = [i \in DOMAIN looked' |-> 0]
    /\ nameStep' = IF looked' = <<>> THEN "tell" ELSE IF Len(looked') < 2 THEN "scan" ELSE "fit"
    /\ UNCHANGED <<feed, workerVars, dense, stories>>

(* fit_predict_interruptible: the child puts its answer, or an error, or   *)
(* dies; the parent polls the queue and then looks whether it lives.       *)
Spawn == /\ nameStep = "fit" /\ parent = "out" /\ outcome = "none"
         /\ child' = "running" /\ parent' = "get"
         /\ UNCHANGED <<feed, looked, queue, outcome, label, dense, stories, nameStep>>
ChildPuts == /\ child = "running" /\ queue = "empty"
             /\ queue' \in {"ok", "error"}
             /\ UNCHANGED <<feed, looked, child, outcome, parent, label, dense, stories, nameStep>>
ChildEnds == /\ child = "running" /\ queue # "empty" /\ child' = "done"
             /\ UNCHANGED <<feed, looked, queue, outcome, parent, label, dense, stories, nameStep>>
ChildDies == /\ child = "running" /\ queue = "empty" /\ child' = "dead"
             /\ UNCHANGED <<feed, looked, queue, outcome, parent, label, dense, stories, nameStep>>
Get == /\ parent = "get"
       /\ IF queue = "empty" THEN parent' = "check" /\ UNCHANGED <<queue, outcome>>
          ELSE parent' = "join" /\ outcome' = queue /\ queue' = "taken"
       /\ UNCHANGED <<feed, looked, child, label, dense, stories, nameStep>>
CheckAlive == /\ parent = "check"
              /\ IF child = "running" THEN parent' = "get" /\ UNCHANGED outcome
                 ELSE parent' = "clean" /\ outcome' = "died"
              /\ UNCHANGED <<feed, looked, child, queue, label, dense, stories, nameStep>>
Join == /\ parent = "join" /\ parent' = "clean"
        /\ UNCHANGED <<feed, looked, child, queue, outcome, label, dense, stories, nameStep>>
Interrupt == /\ parent \in {"get", "check", "join"}
             /\ parent' = "clean" /\ outcome' = "stopped"
             /\ UNCHANGED <<feed, looked, child, queue, label, dense, stories, nameStep>>
Clusterings ==  \* what the library may return
    LET size(f, l) == Cardinality({i \in DOMAIN f : f[i] = l})
        least == IF Path = "zeek" THEN ZeekClusterSize ELSE PiholeClusterSize
    IN  {f \in [DOMAIN looked -> 0..2] :
            /\ \A l \in {1, 2} : size(f, l) = 0 \/ size(f, l) >= least
            /\ size(f, 2) > 0 => size(f, 1) > 0}
Clean ==        \* terminate, kill, drain, close
    /\ parent = "clean" /\ parent' = "out"
    /\ child' = IF child = "running" THEN "dead" ELSE child
    /\ queue' = "closed"
    /\ nameStep' = IF outcome = "ok" THEN "scan" ELSE "done"
    /\ IF outcome = "ok" THEN label' \in Clusterings ELSE UNCHANGED label
    /\ UNCHANGED <<feed, looked, outcome, dense, stories>>

ScanDense ==
    /\ nameStep = "scan" /\ nameStep' = "tell"
    /\ dense' = IF ~ feed.tuning.scan THEN <<>>
                ELSE FoldLeft(Surface, <<>>, SetToSortSeq(Clusters, <))
    /\ UNCHANGED <<feed, looked, workerVars, label, stories>>
Tell ==
    /\ nameStep = "tell" /\ nameStep' = "done"
    /\ stories' = {Story(p) : p \in Parents(Candidates)} \cup ScanSummary \cup Unscanned \cup Promoted
    /\ UNCHANGED <<feed, looked, workerVars, label, dense>>

NamesInit ==
    /\ feed \in Feeds /\ looked = <<>> /\ child = "none" /\ queue = "empty" /\ outcome = "none"
    /\ parent = "out" /\ label = <<>> /\ dense = <<>> /\ stories = {} /\ nameStep = "load"
NamesNext == \/ Load \/ Spawn \/ ChildPuts \/ ChildEnds \/ ChildDies \/ Get \/ CheckAlive \/ Join
             \/ Interrupt \/ Clean \/ ScanDense \/ Tell
NamesSpec == NamesInit /\ [][NamesNext]_nameVars

-----------------------------------------------------------------------------
(* A parent domain has one story, and it counts each of its names once and *)
(* its lookups at most once: a name in two clusters, or in a cluster and   *)
(* in the noise, is counted where it is claimed; the summary's clusters    *)
(* are those the report shows. *)
StoriesOf(kinds) == {s \in stories : s.kind \in kinds}
CountedUnder(p) == Family(Clears(Noise), p)
    \cup UNION {dense[k].owned : k \in {j \in CountedIn(Candidates) : p \in Parents(dense[j].owned)}}
NamesAreCountedOnce ==
    nameStep = "done" =>
        /\ \A s, t \in StoriesOf({"group", "single", "below"}) : s.parent = t.parent => s = t
        /\ \A s \in StoriesOf({"group"}) :
              /\ s.count = Cardinality(CountedUnder(s.parent))
              /\ s.total <= WeightOf(Under(DOMAIN looked, s.parent))
        /\ \A s \in StoriesOf({"summary"}) :
              /\ s.count = Cardinality(UNION {dense[k].owned : k \in CountedIn(Candidates)})
              /\ \A k \in CountedIn(Candidates) :
                    \E t \in StoriesOf({"group", "single"}) : t.names \cap dense[k].sample # {}

(* Volume hides nothing: a name over the threshold with a row in no        *)
(* cluster is told itself, or is counted in a tunnel of its parent, even   *)
(* if it is not in the tunnel's sample.                                    *)
LoneNamesAreTold ==
    (nameStep = "done" /\ (outcome = "ok" \/ Len(looked) = 1)) =>
        \A n \in Clears(NamesIn(RowsIn(0))) :
            \E s \in StoriesOf({"group", "single"}) :
                s.parent = ParentOf[n] /\ (n \in s.names \/ n \in CountedUnder(s.parent))

(* The worker never outlives the call: when the detector goes on or stops, *)
(* the child is gone and the queue closed, and labels are only used if the *)
(* child put them. *)
WorkerIsGone ==
    /\ (parent = "out" /\ outcome # "none") => child \in {"done", "dead"} /\ queue = "closed"
    /\ (nameStep \in {"scan", "tell"} /\ Len(looked) > 1) => outcome = "ok"

(* dns.py: every name over the threshold is told or counted, once, and the *)
(* worker that clusters the names is gone when the detector goes on. *)
NamesAreAccounted == NamesAreCountedOnce /\ LoneNamesAreTold /\ WorkerIsGone
=============================================================================
