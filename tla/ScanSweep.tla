----------------------------- MODULE ScanSweep -----------------------------
(***************************************************************************)
(* Port scans from connections (detectors/scan.py).  Two sliding windows   *)
(* look for many ports of one host and many hosts of one port, two sets of *)
(* fixed buckets for blocks and for slow scans.  What was measured is      *)
(* named, ranked and folded.                                               *)
(*                                                                         *)
(* A connection is [id, src, dst, port, ts, proto, scan, home]: scan is    *)
(* that its state is one of SCAN_STATES, home that dst is internal.        *)
(* Shares are compared as fractions and not rounded.                       *)
(***************************************************************************)
EXTENDS Integers, FiniteSets, SequencesExt, FiniteSetsExt

CONSTANTS
    ConnSets,                   \* what a run may be given
    VerticalThreshold, HorizontalThreshold, WindowSecs,
    BlockPorts, BlockHosts, SlowMinPorts, SlowMinBuckets,
    BlockStateMin, SlowStateMin,    \* in hundredths
    FoldCount,                  \* _SCAN_FOLD_COUNT
    ManyHosts, MoreHosts,       \* where many destinations are browsing, or blocked ads
    Broad, Broader,             \* breadths that raise a severity
    Discovery, Peers, Trackers, Dark    \* sets of ports

ASSUME ScanAssumption ==
    {VerticalThreshold, HorizontalThreshold, WindowSecs, BlockPorts, BlockHosts, SlowMinPorts,
     SlowMinBuckets, FoldCount} \subseteq Nat \ {0}

VARIABLES
    conns,      \* the frame, after the prefilter
    measured,   \* deduped
    ranked,     \* deduped, sorted
    told,       \* the findings
    scanStep    \* "filter", "measure", "rank", "fold", "done"

scanVars == <<conns, measured, ranked, told, scanStep>>

-----------------------------------------------------------------------------
NoPort == -1
Multicast == {"mdns"}
Usable(S) == {c \in S : /\ c.port # NoPort /\ c.proto # "icmp" /\ c.dst \notin Multicast}
Hits(S) == Cardinality({c \in S : c.scan})
(* Is a share of at least n hundredths of S scan states? *)
ShareOf(hits, total, n) == 100 * hits >= n * total
Share(S, n) == ShareOf(Hits(S), Cardinality(S), n)
Ports(S) == {c.port : c \in S}
Targets(S) == {c.dst : c \in S}
Of(S, src) == {c \in S : c.src = src}
Sources(S) == {c.src : c \in S}

Result(type, src, dst, port, S) ==
    [type |-> type, src |-> src, dst |-> dst, port |-> port, rows |-> S,
     ports |-> IF type = "horizontal" THEN 1 ELSE Cardinality(Ports(S)),
     hosts |-> IF type = "vertical" THEN 1 ELSE Cardinality(Targets(S)), tag |-> ""]

(* A mutant: counts before the window has moved. *)
SweepStepLate(acc, i, rows, field) ==
    LET left == Min({k \in acc.left..i : rows[i].ts - rows[k].ts <= WindowSecs})
        n == Cardinality({rows[k][field] : k \in acc.left..i})
    IN  IF n > acc.n THEN [left |-> left, n |-> n, from |-> acc.left, to |-> i]
        ELSE [acc EXCEPT !.left = left]
(* The two pointers: right goes on by one, left until the span fits. *)
SweepStep(acc, i, rows, field) ==
    LET left == Min({k \in acc.left..i : rows[i].ts - rows[k].ts <= WindowSecs})
        n == Cardinality({rows[k][field] : k \in left..i})
    IN  IF n > acc.n THEN [left |-> left, n |-> n, from |-> left, to |-> i]
        ELSE [acc EXCEPT !.left = left]
Sweep(rows, field) ==
    FoldLeft(LAMBDA acc, i : SweepStep(acc, i, rows, field),
             [left |-> 1, n |-> 0, from |-> 1, to |-> 0], [i \in 1..Len(rows) |-> i])
Earlier(c, d) == c.ts < d.ts \/ (c.ts = d.ts /\ c.id < d.id)
ByTime(S) ==
    [k \in 1..Cardinality(S) |-> CHOOSE c \in S : Cardinality({d \in S : Earlier(d, c)}) = k - 1]
Winning(S, field) == LET rows == ByTime(S)
                         best == Sweep(rows, field)
                     IN  {rows[k] : k \in best.from..best.to}

(* Only pairs with enough ports over all time are swept. *)
Verticals(S) ==
    {Result("vertical", p[1], p[2], NoPort, Winning({c \in S : <<c.src, c.dst>> = p}, "port")) :
        p \in {q \in {<<c.src, c.dst>> : c \in S} :
            /\ Cardinality(Ports({c \in S : <<c.src, c.dst>> = q})) >= VerticalThreshold
            /\ Cardinality(Ports(Winning({c \in S : <<c.src, c.dst>> = q}, "port")))
                  >= VerticalThreshold}}
Horizontals(S) ==
    {Result("horizontal", p[1], "*", p[2], Winning({c \in S : <<c.src, c.port>> = p}, "dst")) :
        p \in {q \in {<<c.src, c.port>> : c \in S} :
            /\ Cardinality(Targets({c \in S : <<c.src, c.port>> = q})) >= HorizontalThreshold
            /\ Cardinality(Targets(Winning({c \in S : <<c.src, c.port>> = q}, "dst")))
                  >= HorizontalThreshold}}

Bucket(c) == c.ts \div WindowSecs
Buckets(S) == {{c \in S : Bucket(c) = b} : b \in {Bucket(c) : c \in S}}
Blocky(S) == /\ Cardinality(Ports(S)) >= BlockPorts /\ Cardinality(Targets(S)) >= BlockHosts
             /\ Share(S, BlockStateMin)
Breadth(S) == Cardinality(Ports(S)) * Cardinality(Targets(S))
Blocks(S) ==
    {LET wide == {b \in Buckets(Of(S, src)) : Blocky(b)}
     IN  Result("block", src, "*", NoPort,
                CHOOSE b \in wide : \A o \in wide : Breadth(b) >= Breadth(o)) :
        src \in {s \in Sources(S) : Blocky(Of(S, s)) /\ \E b \in Buckets(Of(S, s)) : Blocky(b)}}

TopPorts(S) == LET uses(p) == Cardinality({c \in S : c.port = p})
                       over(p) == {q \in Ports(S) : uses(q) > uses(p) \/ (uses(q) = uses(p) /\ q < p)}
               IN  {p \in Ports(S) : Cardinality(over(p)) < 3}
AtHome(S) == 10 * Cardinality({c \in S : ~ c.home}) < Cardinality(S)
SlowTag(S) == IF TopPorts(S) \subseteq Discovery \cup {53, 443, 80} /\ AtHome(S)
              THEN "iot_discovery"
              ELSE IF Share(S, 60) THEN "slow_scan" ELSE "slow_scan_candidate"
Slow(S) ==
    {[Result("slow", src, "*", NoPort, Of(S, src)) EXCEPT !.tag = SlowTag(Of(S, src))] :
        src \in {s \in Sources(S) :
            /\ Cardinality(Buckets(Of(S, s))) >= SlowMinBuckets
            /\ Cardinality(Ports(Of(S, s))) >= SlowMinPorts
            /\ \A b \in Buckets(Of(S, s)) : Cardinality(Ports(b)) < VerticalThreshold
            /\ Share(Of(S, s), SlowStateMin)}}

-----------------------------------------------------------------------------
(* _classify: the first rule that fits names the pattern. *)
Rule(ports, low, high, hosts, tag) ==
    [ports |-> ports, low |-> low, high |-> high, hosts |-> hosts, tag |-> tag]
PatternRules == <<
    Rule(Discovery, 0, 40, 0, "iot_discovery"), Rule(Peers, 50, 101, 0, "bittorrent"),
    Rule(Trackers, 15, 101, 0, "bittorrent"), Rule({53}, 0, 5, ManyHosts, "dns_resolver"),
    Rule({443}, 0, 10, ManyHosts, "https_browsing"), Rule({80}, 0, 10, ManyHosts, "http_browsing"),
    Rule({443}, 10, 50, MoreHosts, "streaming_blocked"), Rule(Dark, 90, 101, 0, "dark_traffic")>>
Matches(rule, r) == /\ r.port \in rule.ports /\ r.hosts >= rule.hosts
                    /\ Share(r.rows, rule.low) /\ ~ Share(r.rows, rule.high)
Tag(r) ==
    LET fits == {k \in DOMAIN PatternRules : Matches(PatternRules[k], r)}
    IN  IF r.type = "slow" THEN r.tag
        ELSE IF fits # {} THEN PatternRules[Min(fits)].tag
        ELSE IF Share(r.rows, 60) THEN "confirmed_scan" ELSE "unknown"

SeverityRank(r) ==      \* HIGH 0, MEDIUM 1, LOW 2
    LET breadth == Max({r.ports, r.hosts})
    IN  IF r.tag \in {"dns_resolver", "https_browsing", "http_browsing", "iot_discovery",
                      "dark_traffic"} THEN 2
        ELSE IF r.type = "slow" THEN IF r.tag # "slow_scan" THEN 2
                                     ELSE IF Share(r.rows, 60) THEN 0 ELSE 1
        ELSE IF Share(r.rows, 60) \/ (Share(r.rows, 30) /\ breadth >= Broader) THEN 0
        ELSE IF Share(r.rows, 20) \/ (Share(r.rows, 10) /\ breadth >= Broad) THEN 1 ELSE 2

Before(r, s) ==
    \/ r.rank < s.rank
    \/ r.rank = s.rank /\ Hits(r.rows) * Cardinality(s.rows) > Hits(s.rows) * Cardinality(r.rows)
Placed(seq, r) ==
    InsertAt(seq, 1 + Cardinality({k \in DOMAIN seq : ~ Before(r, seq[k])}), r)

(* _fold_findings: FoldCount results of one type and source are one        *)
(* finding, in the place of the first. *)
Kin(r) == <<r.type, r.src>>
Group(seq, r) == {k \in DOMAIN seq : Kin(seq[k]) = Kin(r)}
Single(r) == [type |-> r.type, src |-> r.src, rank |-> r.rank, members |-> {r}, rollup |-> FALSE]
Folded(seq, k) ==
    LET group == Group(seq, seq[k])
    IN  IF Cardinality(group) < FoldCount THEN <<Single(seq[k])>>
        ELSE IF k # Min(group) THEN <<>>
        ELSE <<[Single(seq[k]) EXCEPT !.members = {seq[j] : j \in group}, !.rollup = TRUE,
                   !.rank = Min({seq[j].rank : j \in group})]>>

-----------------------------------------------------------------------------
Prefilter ==
    /\ scanStep = "filter" /\ scanStep' = "measure"
    /\ conns' = Usable(conns)
    /\ UNCHANGED <<measured, ranked, told>>
Measure ==
    /\ scanStep = "measure" /\ scanStep' = "rank"
    /\ measured' = Verticals(conns) \cup Horizontals(conns) \cup Blocks(conns) \cup Slow(conns)
    /\ UNCHANGED <<conns, ranked, told>>
RankResults ==
    /\ scanStep = "rank" /\ scanStep' = "fold"
    /\ LET tagged == {[r EXCEPT !.tag = Tag(r)] : r \in measured}
           rows == {[tag |-> r.tag, type |-> r.type, src |-> r.src, dst |-> r.dst, port |-> r.port,
                     rows |-> r.rows, rank |-> SeverityRank(r)] : r \in tagged}
       IN  ranked' = FoldSet(LAMBDA r, seq : Placed(seq, r), <<>>, rows)
    /\ UNCHANGED <<conns, measured, told>>
Fold ==
    /\ scanStep = "fold" /\ scanStep' = "done"
    /\ told' = FlattenSeq([k \in DOMAIN ranked |-> Folded(ranked, k)])
    /\ UNCHANGED <<conns, measured, ranked>>

ScanInit == conns \in ConnSets /\ measured = {} /\ ranked = <<>> /\ told = <<>>
            /\ scanStep = "filter"
ScanNext == Prefilter \/ Measure \/ RankResults \/ Fold
ScanSpec == ScanInit /\ [][ScanNext]_scanVars

-----------------------------------------------------------------------------
(* The two pointers find what all windows would: a pair is reported        *)
(* exactly if some WindowSecs hold VerticalThreshold of its ports, with    *)
(* the most that any window holds, and from the connections of one such    *)
(* window; likewise a source and a port.                                   *)
MostIn(S, field) ==
    Max({Cardinality({d[field] : d \in {e \in S : c.ts <= e.ts /\ e.ts <= c.ts + WindowSecs}}) :
            c \in S})
Exact(S, type, threshold, field) ==
    LET found == {r \in measured : r.type = type /\ r.rows \cap S # {}}
    IN  IF MostIn(S, field) < threshold THEN found = {}
        ELSE /\ Cardinality(found) = 1
             /\ \A r \in found :
                   /\ r.rows \subseteq S
                   /\ (IF type = "vertical" THEN r.ports ELSE r.hosts) = MostIn(S, field)
                   /\ Cardinality({c[field] : c \in r.rows}) = MostIn(S, field)
                   /\ Max({c.ts : c \in r.rows}) - Min({c.ts : c \in r.rows}) <= WindowSecs
SweepIsExact ==
    scanStep = "rank" =>
        /\ \A p \in {<<c.src, c.dst>> : c \in conns} :
              Exact({c \in conns : <<c.src, c.dst>> = p}, "vertical", VerticalThreshold, "port")
        /\ \A p \in {<<c.src, c.port>> : c \in conns} :
              Exact({c \in conns : <<c.src, c.port>> = p}, "horizontal", HorizontalThreshold, "dst")

(* Folding and ranking lose nothing: every result is told once, a fold has *)
(* FoldCount members of one type and source and the severity of its worst, *)
(* and the findings are still in the order of their severities.            *)
ScansAreTold ==
    scanStep = "done" =>
        /\ \A r \in measured : Cardinality({k \in DOMAIN told : \E m \in told[k].members :
                m.rows = r.rows /\ m.type = r.type /\ m.dst = r.dst /\ m.port = r.port}) = 1
        /\ \A k \in DOMAIN told :
              /\ told[k].rank = Min({m.rank : m \in told[k].members})
              /\ told[k].rollup <=> Cardinality(told[k].members) >= FoldCount
              /\ told[k].rollup => told[k].type \in {"vertical", "horizontal"}
              /\ \A m \in told[k].members : Kin(m) = Kin(told[k])
        /\ \A j, k \in DOMAIN told : j < k => told[j].rank <= told[k].rank

(* scan.py: what is called a scan is one by a definition over the whole
   log, and each scan is told once. *)
ScansAreExact == SweepIsExact /\ ScansAreTold
=============================================================================
