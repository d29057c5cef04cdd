---------------------------- MODULE GraphPayload ----------------------------
(***************************************************************************)
(* One graph (_runner/graph.py, graph/): the rows of one kind are loaded,  *)
(* prepared, cut of their sparse ends, put into bins and flows, made       *)
(* coarser until the page can draw them, and written with what was lost.   *)
(*                                                                         *)
(* Labels are numbers in the order of their names; Other stands for what   *)
(* is folded.  A mass is in units: a byte, a connection or a query is Unit *)
(* of them, so that the shares of a row are whole.  Colours, the order of  *)
(* the columns, the shares of responses and the wording are left out.      *)
(***************************************************************************)
EXTENDS Integers, FiniteSets, SequencesExt

CONSTANTS
    Graphs,             \* [kind, rows, hosts, services, target, mode, from, to, denied]
    Unit, Ceiling,      \* units of a byte, and the bytes a bin can draw
    Widths,             \* the nice bin widths, rising
    MinDense, TailBins, DensityDen, MassDen,    \* of the trim
    MaxFragments, MaxFlows, MaxPairs, MaxSmooth, LeastRadius, RadiusDen

ASSUME GraphAssumption ==
    /\ {Unit, Ceiling, MinDense, TailBins, DensityDen, MassDen, MaxFragments, MaxFlows, MaxPairs,
        MaxSmooth, LeastRadius, RadiusDen} \subseteq Nat \ {0}
    \* eight flows of one bin always fit
    /\ MaxFlows >= 8 /\ MaxPairs >= 16 /\ MaxSmooth >= 2 * MaxFlows * (2 * LeastRadius + 1)

VARIABLES
    graph,      \* what is asked, and the rows there are
    loaded,     \* the rows that were read
    widened,    \* the day held none, so everything was read
    draft,      \* the picture in the making
    cut,        \* what the trim did
    payload,
    graphStep   \* "load", "retry", "build", "fold", "fit", "draw", "done", "empty", "unreadable"

graphVars == <<graph, loaded, widened, draft, cut, payload, graphStep>>

Never == -1
Unnamed == -1
Other == 0
Unattributed == 9
Dispositions == 1..3        \* "query" is the event 0, others are not counted
Rolled(name) == name \div 10
Clean(x) == IF x < 0 THEN 0 ELSE x
Clip(x, top) == IF x < 0 THEN 0 ELSE IF x > top THEN top ELSE x
Larger(x, y) == Max({x, y})
Smaller(x, y) == Min({x, y})
-----------------------------------------------------------------------------
(* The three builders. *)
Prepared(r, id, to, via, mass, altered, dur) ==
    [id |-> id, ts |-> r.ts, src |-> r.src, dst |-> to, svc |-> via,
     mass |-> mass, altered |-> altered, dur |-> dur]
NoBytes(rows) == \A i \in DOMAIN rows : rows[i].bytes <= 0
ConnRows(rows) ==
    {LET r == rows[i] IN
     IF NoBytes(rows) THEN Prepared(r, <<i>>, r.dst, r.svc, Unit, FALSE, 0)
     ELSE Prepared(r, <<i>>, r.dst, r.svc, Unit * Smaller(Clean(r.bytes), Ceiling),
                   r.bytes > Ceiling, Clean(r.dur)) : i \in DOMAIN rows}
DnsRows(rows) ==
    {Prepared(rows[i], <<i>>, rows[i].dst, rows[i].svc, Unit, FALSE, 0) :
        i \in {j \in DOMAIN rows : rows[j].dst # Unnamed}}
Accepted(rows) == {i \in DOMAIN rows : rows[i].ts # Never /\ rows[i].dst # Unnamed}
(* A disposition of one name in one second is told by several lines. *)
Disposed(rows, domain) ==
    {<<rows[i].dst, rows[i].svc, rows[i].ts>> :
        i \in {j \in Accepted(rows) : rows[j].svc \in Dispositions /\ Rolled(rows[j].dst) = domain}}
PiholeRows(rows) ==
    UNION {LET r == rows[i]
               domain == Rolled(r.dst)
               told == Disposed(rows, domain)
               of(v) == {x \in told : x[2] = v}
           IN  IF told = {} THEN {Prepared(r, <<i>>, domain, Unattributed, Unit, FALSE, 0)}
               ELSE {Prepared(r, <<i, v>>, domain, v,
                              (Unit * Cardinality(of(v))) \div Cardinality(told), FALSE, 0) :
                        v \in {x[2] : x \in told}} :
              i \in {j \in Accepted(rows) : rows[j].svc = 0}}
Build(kind, rows) ==
    CASE kind = "conn" -> ConnRows(rows) [] kind = "dns" -> DnsRows(rows) [] OTHER -> PiholeRows(rows)
HasBands(kind, rows) == kind = "conn" /\ \E i \in DOMAIN rows : rows[i].bytes > 0 /\ rows[i].dur > 0
-----------------------------------------------------------------------------
(* Bins. *)
PickWidth(seconds, target) ==
    LET span == Larger(seconds, 1)
        steps == Larger(target - 1, 1)
        last == Widths[Len(Widths)]
        fit == {w \in ToSet(Widths) : IF target = 1 THEN w > span ELSE w * steps >= span}
    IN  CASE fit # {} -> Min(fit)
          [] target = 1 -> (span \div last + 1) * last
          [] OTHER -> ((span + steps * last - 1) \div (steps * last)) * last
NextWidth(width, seconds) ==       \* 0 when there is none
    LET end == PickWidth(seconds, 1)
        coarser == {w \in ToSet(Widths) : width < w /\ w <= end}
    IN  CASE coarser # {} -> Min(coarser) [] width < end -> end [] OTHER -> 0
SpanOf(d) == d.t1 - d.t0
Bins(d) == Max({0, SpanOf(d) \div d.width} \cup {(r.ts - d.t0) \div d.width : r \in d.frame}) + 1
AtWidth(d, w) == LET e == [d EXCEPT !.width = w] IN [e EXCEPT !.bins = Bins(e)]
Start(d, r) == Clip((r.ts - d.t0) \div d.width, d.bins - 1)
RenderEnd(d) == d.t0 + d.bins * d.width
Touched(d, r) ==
    LET from == Larger(r.ts, d.t0)
        to == Smaller(r.ts + r.dur, RenderEnd(d))
        bin(t) == Clip((t - d.t0) \div d.width, d.bins - 1)
    IN  IF r.dur > 0 /\ to > from THEN bin(from)..bin(to - 1) ELSE {}
(* Bytes are drawn at a constant rate over the connection's duration. *)
BytesAt(d, r, k) ==
    IF d.bands /\ r.dur > 0
    THEN IF k \notin Touched(d, r) THEN 0
         ELSE (r.mass * (Smaller(r.ts + r.dur, d.t0 + (k + 1) * d.width)
                         - Larger(r.ts, d.t0 + k * d.width))) \div r.dur
    ELSE IF k = Start(d, r) THEN r.mass ELSE 0
Fragments(d) ==
    MapThenSumSet(LAMBDA r : Cardinality(Touched(d, r)),
                  {r \in d.frame : r.mass > 0 /\ Cardinality(Touched(d, r)) > 1})
-----------------------------------------------------------------------------
(* The trim: outer runs of sparse bins, far from the dense body and light. *)
Uncut == [before |-> 0, after |-> 0, straddlers |-> 0]
Quartile(counts) ==     \* four times the third quartile of a bag of numbers
    LET s == SortSeq(counts, <)
        at == 3 * (Len(s) - 1)
        low == at \div 4 + 1
    IN  4 * s[low] + (IF low = Len(s) THEN 0 ELSE (at % 4) * (s[low + 1] - s[low]))
Sparse(d) ==
    LET bin(r) == (r.ts - d.t0) \div d.width
        last == Max({bin(r) : r \in d.frame})
        count(k) == Cardinality({r \in d.frame : bin(r) = k})
        full == {k \in 0..last : count(k) > 0}
        some == [j \in 1..Cardinality(full) |-> CHOOSE k \in full :
                    Cardinality({m \in full : m < k}) = j - 1]
        dense == {k \in 0..last : 4 * DensityDen * count(k) >= Quartile([j \in DOMAIN some |-> count(some[j])])}
        low == IF Min(dense) < TailBins THEN 0 ELSE Min(dense)
        high == IF last - Max(dense) < TailBins THEN last ELSE Max(dense)
        out == {r \in d.frame : bin(r) < low \/ bin(r) > high}
    IN  IF Cardinality(full) < MinDense \/ Cardinality(out) * MassDen > Cardinality(d.frame)
        THEN [low |-> 0, high |-> last] ELSE [low |-> low, high |-> high]
(* A mutant: what straddles the edge is kept and counted as trimmed. *)
CutTwice(d) ==
    LET bin(r) == (r.ts - d.t0) \div d.width
        s == Sparse(d)
        edge == d.t0 + s.low * d.width
        straddle == {r \in d.frame : d.bands /\ s.low > 0 /\ r.ts < edge /\ r.ts + r.dur > edge}
        kept == {r \in d.frame : s.low <= bin(r) /\ bin(r) <= s.high} \cup straddle
    IN  [frame |-> kept, t0 |-> Min({Larger(r.ts, edge) : r \in kept}), t1 |-> Max({r.ts : r \in kept}),
         cut |-> [before |-> Cardinality({r \in d.frame : bin(r) < s.low}),
                  after |-> Cardinality({r \in d.frame \ kept : bin(r) > s.high}),
                  straddlers |-> Cardinality(straddle)]]
CutEnds(d) ==
    LET bin(r) == (r.ts - d.t0) \div d.width
        s == Sparse(d)
        twice == CutTwice(d)
    IN  [twice EXCEPT !.cut.before = Cardinality({r \in d.frame \ twice.frame : bin(r) < s.low})]
-----------------------------------------------------------------------------
(* Flows: of each column only the heaviest labels are kept. *)
LabelOf(r, column) == CASE column = "src" -> r.src [] column = "dst" -> r.dst [] OTHER -> r.svc
Score(frame, column, x) ==
    MapThenSumSet(LAMBDA r : r.mass + Unit, {r \in frame : LabelOf(r, column) = x})
Top(frame, column, limit) ==
    LET labels == {LabelOf(r, column) : r \in frame} \ {Other}
        score == [x \in labels |-> Score(frame, column, x)]
        ahead(y, x) == score[y] > score[x] \/ (score[y] = score[x] /\ y < x)
    IN  {x \in labels : Cardinality({y \in labels : ahead(y, x)}) < limit}
Folded(x, kept) == IF x \in kept THEN x ELSE Other
Labelled(d, hosts, services) ==
    UNION {{[row |-> r, flow |-> <<Folded(r.src, from), Folded(r.dst, to), Folded(r.svc, via)>>] :
              r \in d.frame} :
             from \in {Top(d.frame, "src", hosts)}, to \in {Top(d.frame, "dst", hosts)},
             via \in {Top(d.frame, "svc", services)}}
BinsOf(d, r) == {Start(d, r)} \cup (IF d.bands THEN Touched(d, r) ELSE {})
CellOf(d, flow, k, rows) ==
    [flow |-> flow, bin |-> k,
     b |-> MapThenSumSet(LAMBDA r : BytesAt(d, r, k), rows),
     c |-> MapThenSumSet(LAMBDA r : IF d.weighted THEN r.mass ELSE 1,
                         {r \in rows : Start(d, r) = k}),
     altered |-> \E r \in rows : r.altered /\ BytesAt(d, r, k) > 0]
Cells(d, hosts, services) ==
    LET of(flow, rows) == {CellOf(d, flow, k, rows) : k \in UNION {BinsOf(d, r) : r \in rows}}
        drawn(labelled) == UNION {of(flow, {l.row : l \in {m \in labelled : m.flow = flow}}) :
                                    flow \in {l.flow : l \in labelled}}
    IN  UNION {drawn(labelled) : labelled \in {Labelled(d, hosts, services)}}
(* A cell with no start whose bytes round to nothing is not drawn. *)
Dead(cell) == cell.c = 0 /\ 2 * cell.b <= Unit
Live(d, hosts, services) == {cell \in Cells(d, hosts, services) : ~ (d.bands /\ Dead(cell))}
FlowCount(d, hosts, services) == Cardinality({cell.flow : cell \in Live(d, hosts, services)})
Pairs(d, hosts, services) == 2 * Cardinality(Live(d, hosts, services))

(* A binary search for the largest limit that fits; 0 when none does. *)
LargestLimit(upper, fits) ==
    LET search[low \in 1..(upper + 1), high \in 0..upper, best \in 1..upper] ==
            LET middle == (low + high) \div 2 IN
            IF low > high THEN best
            ELSE IF middle \in fits THEN search[middle + 1, high, middle]
            ELSE search[low, middle - 1, best]
    IN  CASE upper \in fits -> upper [] 1 \notin fits -> 0 [] OTHER -> search[2, upper - 1, 1]
(* Fewer services, and if one is too many, fewer hosts: the one draft that *)
(* the limits that fit leave.                                              *)
Fit(d, services, hosts) ==
    LET s == LargestLimit(d.services, services)
    IN  IF s > 0 THEN [d EXCEPT !.services = s]
        ELSE [d EXCEPT !.services = 1, !.hosts = Larger(LargestLimit(d.hosts, hosts), 1)]
FitFlows(d) ==
    {Fit(d, services, hosts) :
        services \in {{s \in 1..d.services : FlowCount(d, d.hosts, s) <= MaxFlows}},
        hosts \in {{h \in 1..d.hosts : FlowCount(d, h, 1) <= MaxFlows}}}
FitPairs(d) ==
    {Fit(d, services, hosts) :
        services \in {{s \in 1..d.services : Pairs(d, d.hosts, s) <= MaxPairs}},
        hosts \in {{h \in 1..d.hosts : Pairs(d, h, 1) <= MaxPairs}}}
RadiusFit(d) == LET den == 2 * FlowCount(d, d.hosts, d.services) * d.bins
                IN  (MaxSmooth - den) \div (2 * den)
Natural(d) == Larger(LeastRadius, (2 * d.bins + RadiusDen) \div (2 * RadiusDen))

(* A bin that is more than can be drawn is scaled to half of it. *)
Saturated(cells) ==
    LET top == Unit * Ceiling
        within(cell) == Smaller(cell.b, top)
        mass(k) == MapThenSumSet(within, {cell \in cells : cell.bin = k})
        safe(cell) == IF mass(cell.bin) > top THEN (within(cell) * (top \div 2)) \div mass(cell.bin)
                      ELSE within(cell)
    IN  {[cell EXCEPT !.b = safe(cell),
                      !.altered = @ \/ cell.b > top \/ (mass(cell.bin) > top /\ cell.b > 0)] :
            cell \in cells}
(* What of the bands lies outside of the picture. *)
Loss(d) ==
    LET far == {r \in d.frame : d.bands /\ r.dur > 0 /\ r.mass > 0}
        lead(r) == (r.mass * Clip(Smaller(r.ts + r.dur, d.t0) - r.ts, r.dur)) \div r.dur
        trail(r) == (r.mass * Clip(r.ts + r.dur - RenderEnd(d), r.dur)) \div r.dur
    IN  [before |-> MapThenSumSet(lead, far), after |-> MapThenSumSet(trail, far)]
HostsSeen(d) ==
    LET hosts == {r.src : r \in d.frame} \cup {r.dst : r \in d.frame}
        first(h) == Min({Start(d, r) : r \in {x \in d.frame : h \in {x.src, x.dst}}})
    IN  [k \in 0..(d.bins - 1) |-> Cardinality({h \in hosts : first(h) <= k})]
-----------------------------------------------------------------------------
(* The run. *)
InWindow(r) == r.ts # Never /\ graph.from <= r.ts /\ r.ts < graph.to
Pick(rows, windowed) == SelectSeq(rows, LAMBDA r : ~ windowed \/ InWindow(r))
LoadGraph ==
    /\ graphStep = "load"
    /\ loaded' = Pick(graph.rows, graph.mode \in {"asked", "default", "dated"})
    /\ graphStep' = CASE graph.denied -> "unreadable"
                      [] loaded' # <<>> -> "build"
                      [] graph.mode = "dated" -> "retry"
                      [] OTHER -> "empty"
    /\ UNCHANGED <<graph, widened, draft, cut, payload>>
(* A date-named directory whose rows started on no moment of its day. *)
RetryAll ==
    /\ graphStep = "retry"
    /\ loaded' = graph.rows /\ widened' = (graph.rows # <<>>)
    /\ graphStep' = IF graph.rows = <<>> THEN "empty" ELSE "build"
    /\ UNCHANGED <<graph, draft, cut, payload>>
WithWidth(d) ==
    LET asked == PickWidth(SpanOf(d), d.target) IN [AtWidth(d, asked) EXCEPT !.requested = asked]
Prepare ==
    /\ graphStep = "build"
    /\ LET frame == {r \in Build(graph.kind, loaded) : r.ts # Never}
           seen == {r.ts : r \in frame} \cup (IF graph.kind = "pihole"
                                              THEN {loaded[i].ts : i \in Accepted(loaded)} ELSE {})
       IN  IF frame = {} THEN graphStep' = "empty" /\ UNCHANGED <<draft, cut>>
           ELSE /\ graphStep' = "trim"
                /\ cut' = Uncut
                /\ draft' = WithWidth([frame |-> frame, bands |-> HasBands(graph.kind, loaded),
                                       weighted |-> graph.kind = "pihole", t0 |-> Min(seen), t1 |-> Max(seen),
                                       width |-> 1, requested |-> 1, bins |-> 1, target |-> graph.target,
                                       hosts |-> graph.hosts, services |-> graph.services, radius |-> 0])
    /\ UNCHANGED <<graph, loaded, widened, payload>>
(* A picture of everything that was not asked for is cut of its sparse ends. *)
TrimEnds ==
    /\ graphStep = "trim" /\ graphStep' = "fold"
    /\ \E s \in {Sparse(draft)} :
          IF /\ graph.mode = "none" /\ graph.kind # "pihole"
             /\ s.low > 0 \/ \E r \in draft.frame : (r.ts - draft.t0) \div draft.width > s.high
          THEN \E trim \in {CutEnds(draft)} :
                  /\ cut' = trim.cut
                  /\ draft' = WithWidth([draft EXCEPT !.frame = trim.frame, !.t0 = trim.t0,
                                                      !.t1 = trim.t1])
          ELSE UNCHANGED <<draft, cut>>
    /\ UNCHANGED <<graph, loaded, widened, payload>>
(* Bands that would fall apart into too many pieces are put in wider bins. *)
FoldFlows ==
    /\ graphStep = "fold"
    /\ LET next == NextWidth(draft.width, SpanOf(draft)) IN
       IF draft.bands /\ Fragments(draft) > MaxFragments /\ next > 0
       THEN draft' = AtWidth(draft, next) /\ UNCHANGED graphStep
       ELSE /\ graphStep' = "fit"
            /\ draft' \in IF FlowCount(draft, draft.hosts, draft.services) > MaxFlows
                          THEN FitFlows(draft) ELSE {draft}
    /\ UNCHANGED <<graph, loaded, widened, cut, payload>>
Coarser(next) == draft' = AtWidth(draft, next) /\ UNCHANGED graphStep
Settled(d, radius) == draft' = [d EXCEPT !.radius = radius] /\ graphStep' = "draw"
(* Wider bins until the pairs fit, folding farther at the last width, then *)
(* wider bins until the page can smooth them.                              *)
FitBudgets ==
    /\ graphStep = "fit"
    /\ \E next \in {NextWidth(draft.width, SpanOf(draft))},
         over \in {Pairs(draft, draft.hosts, draft.services) > MaxPairs} :
          \E d \in IF over THEN FitPairs(draft) ELSE {draft} :
             \E radius \in {RadiusFit(d)} :
                LET drawn == radius >= LeastRadius
                    more == next > 0 /\ (over \/ ~ drawn)
                IN  \/ more /\ Coarser(next)
                    \/ ~ more /\ Settled(d, IF drawn THEN Smaller(Natural(d), radius) ELSE Natural(d))
    /\ UNCHANGED <<graph, loaded, widened, cut, payload>>
Nodes(column, limit) ==
    LET kept == Top(draft.frame, column, limit) IN
    kept \cup (IF \E r \in draft.frame : LabelOf(r, column) \notin kept THEN {Other} ELSE {})
Notes(d, loss, altered) ==
    {n \in {"smoothing", "binned", "folded", "before", "after", "scaled", "widened", "no bytes",
            "straddlers", "lost", "windowed"} :
        CASE n = "smoothing" -> d.radius < Natural(d)
          [] n = "binned" -> d.width > d.requested
          [] n = "folded" -> d.services < graph.services \/ d.hosts < graph.hosts
          [] n = "before" -> cut.before > 0
          [] n = "after" -> cut.after > 0
          [] n = "scaled" -> altered > 0
          [] n = "widened" -> widened
          [] n = "no bytes" -> graph.kind = "conn" /\ NoBytes(loaded)
          [] n = "straddlers" -> cut.straddlers > 0
          [] n = "lost" -> 2 * loss.before > Unit \/ 2 * loss.after > Unit
          [] OTHER -> graph.mode \in {"default", "dated"} /\ ~ widened}
Draw ==
    /\ graphStep = "draw" /\ graphStep' = "done"
    /\ \E cells \in {Saturated(Live(draft, draft.hosts, draft.services))}, loss \in {Loss(draft)} :
          LET altered == Cardinality({cell \in cells : cell.altered})
              final == {[cell EXCEPT !.c = IF draft.weighted THEN cell.b ELSE @] : cell \in cells}
          IN  payload' = [cells |-> final, altered |-> altered, bins |-> draft.bins, loss |-> loss,
                          rows |-> Cardinality({r.id[1] : r \in draft.frame}),
                          srcs |-> Nodes("src", draft.hosts), dsts |-> Nodes("dst", draft.hosts),
                          svcs |-> Nodes("svc", draft.services), seen |-> HostsSeen(draft),
                          notes |-> Notes(draft, loss, altered)]
    /\ UNCHANGED <<graph, loaded, widened, draft, cut>>
Drawn == graphStep \in {"done", "empty", "unreadable"} /\ UNCHANGED graphVars

GraphInit ==
    /\ graph \in Graphs /\ loaded = <<>> /\ widened = FALSE /\ draft = <<>> /\ cut = Uncut
    /\ payload = <<>> /\ graphStep = "load"
GraphNext == LoadGraph \/ RetryAll \/ Prepare \/ TrimEnds \/ FoldFlows \/ FitBudgets \/ Draw \/ Drawn
GraphSpec == GraphInit /\ [][GraphNext]_graphVars
-----------------------------------------------------------------------------
(* The picture is the traffic (graph/_core.py): every connection, query or *)
(* share of one that was loaded is drawn once or counted as trimmed, every *)
(* byte is drawn, told as lost outside of the window, or rounds to         *)
(* nothing, unless a bin had to be scaled, which is told.  What the trim   *)
(* takes is light.  A flow joins nodes that are there, the hosts seen end  *)
(* at all hosts, the page can be drawn and smoothed, and no host or        *)
(* service is folded that would have fitted (once hosts are folded, only   *)
(* one service is kept, although more might fit again).  A picture of a window holds  *)
(* nothing else, and one that was widened has nothing of its day.          *)
GraphIsTheTraffic ==
    graphStep = "done" =>
        LET rows == {i \in DOMAIN loaded : /\ loaded[i].ts # Never
                                           /\ graph.kind # "conn" => loaded[i].dst # Unnamed
                                           /\ graph.kind = "pihole" => loaded[i].svc = 0}
            trimmed == cut.before + cut.after
            starts == MapThenSumSet(LAMBDA cell : cell.c, payload.cells)
            bytes == MapThenSumSet(LAMBDA cell : cell.b, payload.cells)
            dust == {cell \in Cells(draft, draft.hosts, draft.services) : draft.bands /\ Dead(cell)}
            mass == MapThenSumSet(LAMBDA r : r.mass, draft.frame)
            all == MapThenSumSet(LAMBDA i : Unit * (IF graph.kind # "conn" \/ NoBytes(loaded) THEN 1
                                                    ELSE Clean(loaded[i].bytes)), rows)
            flows == {cell.flow : cell \in payload.cells}
            fits(h, s) == FlowCount(draft, h, s) <= MaxFlows /\ Pairs(draft, h, s) <= MaxPairs
            hosts == {loaded[i].src : i \in rows}
                     \cup {IF graph.kind = "pihole" THEN Rolled(loaded[i].dst) ELSE loaded[i].dst : i \in rows}
        IN  /\ payload.rows + trimmed = Cardinality(rows)
            /\ graph.kind # "pihole" => starts = payload.rows
            /\ payload.altered = 0 =>
                  /\ graph.kind = "pihole" => starts = Unit * Cardinality(rows)
                  /\ bytes + payload.loss.before + payload.loss.after
                       + MapThenSumSet(LAMBDA cell : cell.b, dust) = mass
                  /\ trimmed = 0 => mass = all
            /\ payload.altered > 0 => "scaled" \in payload.notes
            /\ "lost" \notin payload.notes =>
                  2 * payload.loss.before <= Unit /\ 2 * payload.loss.after <= Unit
            /\ trimmed > 0 => /\ trimmed * MassDen <= Cardinality(rows)
                              /\ {"before", "after"} \cap payload.notes # {}
                              /\ graph.mode = "none"
            /\ \A cell \in payload.cells :
                  /\ cell.flow[1] \in payload.srcs /\ cell.flow[2] \in payload.dsts
                  /\ cell.flow[3] \in payload.svcs /\ cell.bin \in DOMAIN payload.seen
            /\ \A k \in DOMAIN payload.seen :
                  /\ k > 0 => payload.seen[k - 1] <= payload.seen[k]
                  /\ MapThenSumSet(LAMBDA cell : cell.b, {x \in payload.cells : x.bin = k}) <= Unit * Ceiling
            /\ trimmed = 0 => payload.seen[payload.bins - 1] = Cardinality(hosts)
            /\ Cardinality(flows) <= MaxFlows /\ 2 * Cardinality(payload.cells) <= MaxPairs
            /\ draft.radius >= LeastRadius
            /\ 2 * Cardinality(flows) * payload.bins * (2 * draft.radius + 1) <= MaxSmooth
            /\ draft.services < graph.services /\ draft.hosts = graph.hosts =>
                  ~ fits(draft.hosts, draft.services + 1)
            /\ draft.hosts < graph.hosts => draft.services = 1 /\ ~ fits(draft.hosts + 1, 1)
            /\ "windowed" \in payload.notes => \A i \in rows : InWindow(loaded[i])
            /\ widened => \A i \in DOMAIN graph.rows : ~ InWindow(graph.rows[i])
=============================================================================
