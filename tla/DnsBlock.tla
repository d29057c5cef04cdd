------------------------------ MODULE DnsBlock ------------------------------
(***************************************************************************)
(* The prepared detector over blocked DNS names (detectors/dnsblock.py,    *)
(* with the interval and the coverage lane the runner gives it).           *)
(* One source is folded file by file, newest file first, in up to three    *)
(* passes over one snapshot: block cells, population, and the cadence of   *)
(* what surfaced.  Time is in ticks, Day of them to a day, midnight at the *)
(* multiples of Day; a row whose timestamp, name or address does not parse *)
(* is dropped by every pass alike and is no row here.                      *)
(***************************************************************************)
EXTENDS Integers, Sequences, FiniteSets, SequencesExt, FiniteSetsExt

CONSTANTS
    Populations,    \* [files : newest first, a file is a sequence of chunks, a
                    \*  chunk a set of rows; request; facts]
    FamilyOf,       \* the family of every name
    Day, MaxGap,    \* a day, and the gaps cadence keeps (six hours)
    Span,           \* the default window
    ArrivalDays, ArrivalHistory, SyncAddresses, FoldMinMembers, FoldMembers,
    BurstAbs, BurstMult, BurstActive, RecurringPeriods,
    GapLimit, FindingLimit

(* A gap kept by cadence cannot cross a day without activity. *)
ASSUME GapAssumption == MaxGap \in Nat /\ Day \in Nat /\ 0 < MaxGap /\ MaxGap <= Day

VARIABLES
    population, \* what is on disk and what was asked
    phase,      \* "blocks", "population", "coverage", "analysis", "cadence", "done", "told"
    cursor,     \* files folded in this pass
    anchor,     \* first and last timestamp of any event
    cells,      \* block cells by name and day
    inventory,  \* the blocked <<name, day>> of the report
    pop,        \* PopulationState
    lane,       \* CoverageDecision: [strong, covered : periods]
    analysis,   \* AnalysisFacts
    batches,    \* the cadence batches still to fold, the first one under way
    reducers,   \* the reducers of that batch, by pair
    cadence,    \* the gaps of every finished pair
    status,     \* "READY", "ABSTAINED" or "FAILED"
    findings    \* what run returns

dnsVars == <<population, phase, cursor, anchor, cells, inventory, pop, lane, analysis,
          batches, reducers, cadence, status, findings>>

None == -1
Disorder == -2
Objects == population.files
Earliest(a, b) == IF a < b THEN a ELSE b
Latest(a, b) == IF a < b THEN b ELSE a
FirstTs(rows) == Min({r.ts : r \in rows})
LastTs(rows) == Max({r.ts : r \in rows})
UtcDate(ts) == ts \div Day

Merge(Op(_, _), f, g) ==
    [k \in DOMAIN f \cup DOMAIN g |->
        IF k \notin DOMAIN g THEN f[k] ELSE IF k \notin DOMAIN f THEN g[k] ELSE Op(f[k], g[k])]
AddCell(a, b) == [count |-> a.count + b.count, first |-> Earliest(a.first, b.first),
                  last |-> Latest(a.last, b.last)]
Grouped(Of(_), rows) == [k \in {Of(r) : r \in rows} |-> {r \in rows : Of(r) = k}]
CellsBy(Of(_), rows) ==
    LET groups == Grouped(Of, rows)
    IN  [k \in DOMAIN groups |-> [count |-> Cardinality(groups[k]),
                                  first |-> FirstTs(groups[k]), last |-> LastTs(groups[k])]]
FirstBy(Of(_), rows) == LET groups == Grouped(Of, rows)
                        IN  [k \in DOMAIN groups |-> FirstTs(groups[k])]

-----------------------------------------------------------------------------
(* The interval of the report, from the request and the anchor, and the    *)
(* history in front of it: only a default window over directories has any. *)
Request == population.request
ReportStart ==
    CASE Request.mode = "default" -> anchor.last - Span
      [] Request.mode = "all"     -> anchor.first
      [] Request.mode = "since"   -> Request.start
      [] Request.mode = "until"   -> Earliest(anchor.first, Request.end)
      [] OTHER                    -> Request.start
ReportEnd ==
    CASE Request.mode \in {"default", "all"} -> anchor.last
      [] Request.mode = "since"              -> Latest(Request.start, anchor.last)
      [] OTHER                               -> Request.end
HasContext == Request.mode = "default" /\ ~ Request.file /\ anchor.first < ReportStart
HistoryStart == IF HasContext THEN anchor.first ELSE ReportStart
InReport(r) == ReportStart <= r.ts /\ r.ts <= ReportEnd
InContext(r) == HasContext /\ anchor.first <= r.ts /\ r.ts < ReportStart
InSpan(r) == InReport(r) \/ InContext(r)

(* Periods of a day counted back from the end of the report. *)
Period(ts) == (ReportEnd - ts) \div Day
PeriodStart(p) == ReportEnd - (p + 1) * Day
PeriodValid(ts) == /\ ts <= ReportEnd /\ ts > HistoryStart /\ ts # ReportStart
                   /\ PeriodStart(Period(ts)) >= HistoryStart
FullReport == (ReportEnd - ReportStart) \div Day

(* _select_coverage_lane over the facts of the export: intervals, or       *)
(* "unknown" for an object without a trusted one.                          *)
Known == {f \in population.facts : f # <<>>}
Touching(f, span) == f[1] <= span[2] /\ span[1] <= f[2]
Trusted ==
    LET grow[n \in 0..Cardinality(Known)] ==
            IF n = 0 THEN Known
            ELSE {<<Min({g[1] : g \in {h \in grow[n-1] : Touching(h, f)}}),
                    Max({g[2] : g \in {h \in grow[n-1] : Touching(h, f)}})>> : f \in grow[n-1]}
    IN  grow[Cardinality(Known)]
Strong == /\ ReportStart < ReportEnd /\ population.facts # {} /\ Known = population.facts
          /\ \E span \in Trusted : span[1] <= ReportStart /\ ReportEnd <= span[2]

CoveredPeriods ==
    IF ~ Strong THEN pop.queryPeriods
    ELSE {p \in 0..((ReportEnd - HistoryStart) \div Day) :
            /\ PeriodStart(p) >= HistoryStart
            /\ \E span \in Trusted : span[1] <= PeriodStart(p) /\ PeriodStart(p) + Day <= span[2]}
EligibleReport == {p \in lane.covered : p < FullReport}

-----------------------------------------------------------------------------
(* First pass: the anchor over every row, and the cells of blocked names.  *)
BlockFacts(rows) == CellsBy(LAMBDA r : <<r.name, UtcDate(r.ts)>>,
                            {r \in rows : r.kept /\ r.kind = "block"})
Whole(file) == UNION Range(file)

FoldBlocks ==
    /\ phase = "blocks" /\ cursor < Len(Objects)
    /\ LET rows == Whole(Objects[cursor + 1])
       IN  /\ anchor' = IF rows = {} THEN anchor
                        ELSE IF anchor.first = None
                        THEN [first |-> FirstTs(rows), last |-> LastTs(rows)]
                        ELSE [first |-> Earliest(anchor.first, FirstTs(rows)),
                              last |-> Latest(anchor.last, LastTs(rows))]
           /\ cells' = Merge(AddCell, cells, BlockFacts(rows))
    /\ cursor' = cursor + 1
    /\ UNCHANGED <<population, phase, inventory, pop, lane, analysis,
                   batches, reducers, cadence, status, findings>>

(* finalize_block_inventory: a cell that reaches into the report. *)
FinalizeBlocks ==
    /\ phase = "blocks" /\ cursor = Len(Objects)
    /\ inventory' = {k \in DOMAIN cells : /\ cells[k].last >= ReportStart
                                       /\ cells[k].first <= ReportEnd}
    /\ phase' = "population" /\ cursor' = 0
    /\ UNCHANGED <<population, anchor, cells, pop, lane, analysis,
                   batches, reducers, cadence, status, findings>>

-----------------------------------------------------------------------------
(* Second pass: the population. *)
BlockNames == {b[1] : b \in inventory}
Member(r) == <<r.name, UtcDate(r.ts)>> \in inventory
Facts(rows) ==
    LET inWindow == {r \in rows : r.kept /\ InSpan(r)}
        queries == {r \in inWindow : r.kind = "query"}
        blocked == {r \in queries : r.name \in BlockNames}
        report == {r \in blocked : InReport(r)}
        a1 == {r \in report : Member(r)}
    IN  [queryPeriods |-> {Period(r.ts) : r \in {q \in queries : PeriodValid(q.ts)}},
         addressFirst |-> FirstBy(LAMBDA r : r.address, queries),
         asked        |-> CellsBy(LAMBDA r : r.address, {q \in queries : InReport(q)}),
         pairFirst    |-> FirstBy(LAMBDA r : <<r.address, r.name>>, blocked),
         reportPairs  |-> {<<r.address, r.name>> : r \in report},
         association  |-> CellsBy(LAMBDA r : <<r.address, r.name, UtcDate(r.ts)>>, report),
         a1Pair       |-> CellsBy(LAMBDA r : <<r.address, r.name>>, a1),
         pairPeriod   |-> CellsBy(LAMBDA r : <<r.address, r.name, Period(r.ts)>>,
                                  {r \in a1 : PeriodValid(r.ts)}),
         blockFirst   |-> [n \in {r.name : r \in blocked} |->
                              Min({b[2] : b \in {c \in inventory : c[1] = n}})],
         handling     |-> {<<r.name, UtcDate(r.ts)>> :
                              r \in {h \in inWindow : h.kind = "handled" /\ h.name \in BlockNames}}]

(* A mutant: the first sighting that was committed is kept. *)
CommitKeepsFirst(run, part) ==
    [queryPeriods |-> run.queryPeriods \cup part.queryPeriods,
     addressFirst |-> Merge(LAMBDA a, b : a, run.addressFirst, part.addressFirst),
     asked        |-> Merge(AddCell, run.asked, part.asked),
     pairFirst    |-> Merge(LAMBDA a, b : a, run.pairFirst, part.pairFirst),
     reportPairs  |-> run.reportPairs \cup part.reportPairs,
     association  |-> Merge(AddCell, run.association, part.association),
     a1Pair       |-> Merge(AddCell, run.a1Pair, part.a1Pair),
     pairPeriod   |-> Merge(AddCell, run.pairPeriod, part.pairPeriod),
     blockFirst   |-> Merge(Earliest, run.blockFirst, part.blockFirst),
     handling     |-> run.handling \cup part.handling]

(* Both the chunks of a file and the files of the source add up this way. *)
Commit(run, part) ==
    [queryPeriods |-> run.queryPeriods \cup part.queryPeriods,
     addressFirst |-> Merge(Earliest, run.addressFirst, part.addressFirst),
     asked        |-> Merge(AddCell, run.asked, part.asked),
     pairFirst    |-> Merge(Earliest, run.pairFirst, part.pairFirst),
     reportPairs  |-> run.reportPairs \cup part.reportPairs,
     association  |-> Merge(AddCell, run.association, part.association),
     a1Pair       |-> Merge(AddCell, run.a1Pair, part.a1Pair),
     pairPeriod   |-> Merge(AddCell, run.pairPeriod, part.pairPeriod),
     blockFirst   |-> Merge(Earliest, run.blockFirst, part.blockFirst),
     handling     |-> run.handling \cup part.handling]

FoldPopulation ==
    /\ phase = "population" /\ cursor < Len(Objects)
    /\ pop' = Commit(pop, FoldLeft(LAMBDA delta, chunk : Commit(delta, Facts(chunk)),
                                   Facts({}), Objects[cursor + 1]))
    /\ cursor' = cursor + 1
    /\ phase' = IF cursor' = Len(Objects) THEN "coverage" ELSE phase
    /\ UNCHANGED <<population, anchor, cells, inventory, lane, analysis,
                   batches, reducers, cadence, status, findings>>

(* _select_coverage_lane, and the periods that count as covered. *)
SelectLane ==
    /\ phase = "coverage"
    /\ lane' = [strong |-> Strong, covered |-> CoveredPeriods]
    /\ phase' = "analysis"
    /\ UNCHANGED <<population, cursor, anchor, cells, inventory, pop, analysis,
                   batches, reducers, cadence, status, findings>>

-----------------------------------------------------------------------------
(* Arrivals.  A pair is an address and a family. *)
PairOf(key) == <<key[1], FamilyOf[key[2]]>>
Pairs == {PairOf(k) : k \in pop.reportPairs}
NamesOf(pair) == {k[2] : k \in {q \in pop.reportPairs : PairOf(q) = pair}}
PeriodsOf(address, name) == {k[3] : k \in {q \in DOMAIN pop.pairPeriod :
                                             q[1] = address /\ q[2] = name}}
ReportPeriods(address, name) == {p \in PeriodsOf(address, name) : p < FullReport}
Candidate(address, name) == Max(ReportPeriods(address, name))

NameRoute(address, name) ==
    LET candidate == Candidate(address, name)
        first == pop.pairPeriod[<<address, name, candidate>>].first
        day == IF name \in DOMAIN pop.blockFirst THEN pop.blockFirst[name] ELSE UtcDate(first)
        handled == {h[2] : h \in {g \in pop.handling : g[1] = name}}
    IN  IF ReportPeriods(address, name) = {} THEN "ineligible_name"
        ELSE IF \E d \in handled : d < day THEN "prior_handling"
        ELSE IF day \in handled THEN "same_day_ambiguous"
        ELSE IF pop.pairFirst[<<address, name>>] < first THEN "prior_address_query"
        ELSE "qualifying"

Qualifying(pair) == {n \in NamesOf(pair) : NameRoute(pair[1], n) = "qualifying"}
OldestPeriod(pair) == Max({Candidate(pair[1], n) : n \in Qualifying(pair)})
ActivePeriods(pair) ==
    EligibleReport \cap UNION {PeriodsOf(pair[1], n) : n \in Qualifying(pair)}

ProvisionalRoute(pair) ==
    IF Qualifying(pair) = {} THEN "no_qualifying_name"
    ELSE IF Cardinality({p \in lane.covered : p > OldestPeriod(pair)}) < ArrivalHistory
    THEN "insufficient_history"
    ELSE IF pop.addressFirst[pair[1]] >= PeriodStart(OldestPeriod(pair))
    THEN "no_prior_address_activity"
    ELSE IF Cardinality(ActivePeriods(pair)) < ArrivalDays THEN "insufficient_active_periods"
    ELSE "provisional"

Provisional == {pair \in Pairs : ProvisionalRoute(pair) = "provisional"}
Synchronized(provisional) == {pair \in provisional :
    Cardinality({q \in provisional : q[2] = pair[2] /\ OldestPeriod(q) = OldestPeriod(pair)})
        >= SyncAddresses}
Arrivals == LET provisional == Provisional IN provisional \ Synchronized(provisional)

(* Bursts. *)
CountIn(pair, p) ==
    FoldSet(LAMBDA k, sum : sum + pop.pairPeriod[k].count, 0,
            {k \in DOMAIN pop.pairPeriod : PairOf(k) = pair /\ k[3] = p})
MedianTwice(values) ==
    LET ordered == SortSeq(values, <)
        middle == Len(ordered) \div 2
    IN  IF Len(ordered) % 2 = 1 THEN 2 * ordered[middle + 1]
        ELSE ordered[middle] + ordered[middle + 1]
Busy(pair) == {p \in EligibleReport : CountIn(pair, p) > 0}
Peak(pair) == Max({CountIn(pair, p) : p \in Busy(pair)})
PeakPeriod(pair) == Max({p \in Busy(pair) : CountIn(pair, p) = Peak(pair)})
IsBurst(pair) ==
    LET active == Busy(pair)
        peak == Peak(pair)
        others == SetToSeq(active \ {PeakPeriod(pair)})
    IN  /\ lane.strong /\ Cardinality(EligibleReport) >= BurstActive
        /\ Cardinality(active) >= BurstActive
        /\ peak >= BurstAbs
        /\ 2 * peak >= BurstMult * MedianTwice([i \in 1..Len(others) |-> CountIn(pair, others[i])])
Bursts == {pair \in Pairs : IsBurst(pair)}

(* Recurring activity that nothing else surfaced. *)
ActiveIn(pair) == {k[3] : k \in {q \in DOMAIN pop.pairPeriod :
                                   PairOf(q) = pair /\ q[3] < FullReport}}

RecurringMeasured ==
    lane.strong /\ FullReport >= RecurringPeriods /\ EligibleReport = 0..(FullReport - 1)

Recurring(surfaced) ==
    {pair \in Pairs : /\ RecurringMeasured /\ pair \notin surfaced
                      /\ Cardinality(ActiveIn(pair)) >= RecurringPeriods}

(* The rows of the report: a burst wins over an arrival of its pair, and   *)
(* FoldMinMembers arrivals of one address are one row.                     *)
ArrivalRows(arrivals, address) ==
    LET mine == {pair \in arrivals : pair[1] = address}
    IN  IF Cardinality(mine) >= FoldMinMembers THEN {[kind |-> "arrival_fold", pairs |-> mine]}
        ELSE {[kind |-> "arrival", pairs |-> {pair}] : pair \in mine}
PriorHandled == {k \in pop.reportPairs : NameRoute(k[1], k[2]) = "prior_handling"}
Rows(bursts, arrivals, recurring) ==
    {[kind |-> "burst", pairs |-> {pair}] : pair \in bursts}
    \cup UNION {ArrivalRows(arrivals \ bursts, address) : address \in {pair[1] : pair \in arrivals}}
    \cup (IF PriorHandled = {} THEN {} ELSE {[kind |-> "prior_handling", pairs |-> {}]})
    \cup (IF recurring = {} THEN {} ELSE {[kind |-> "recurring", pairs |-> recurring]})

NoAnalysis == [made |-> FALSE, rows |-> {}, bursts |-> {}, surfaced |-> {}]

-----------------------------------------------------------------------------
(* The bound on the gaps a pair can keep, and the batches it packs into. *)
DailyCount(pair, day) ==
    FoldSet(LAMBDA k, sum : sum + pop.association[k].count, 0,
            {k \in DOMAIN pop.association :
                PairOf(k) = pair /\ k[3] = day /\ <<k[2], day>> \in inventory})
BusyDays(pair) == {k[3] : k \in {q \in DOMAIN pop.association :
                                   PairOf(q) = pair /\ <<q[2], q[3]>> \in inventory}}
GapBound(pair) ==
    FoldSet(LAMBDA d, sum : sum + DailyCount(pair, d), 0, BusyDays(pair))
    - Cardinality({d \in BusyDays(pair) : d - 1 \notin BusyDays(pair)})

PackBatches(worklist) ==
    LET step(acc, pair) ==
            LET bound == GapBound(pair)
                closed == IF acc.open = <<>> THEN acc.done ELSE Append(acc.done, acc.open)
            IN  IF bound > GapLimit
                THEN [done |-> Append(closed, <<pair>>), open |-> <<>>, total |-> 0]
                ELSE IF acc.open # <<>> /\ acc.total + bound > GapLimit
                THEN [done |-> closed, open |-> <<pair>>, total |-> bound]
                ELSE [acc EXCEPT !.open = Append(@, pair), !.total = @ + bound]
        packed == FoldLeft(step, [done |-> <<>>, open |-> <<>>, total |-> 0], worklist)
    IN  IF packed.open = <<>> THEN packed.done ELSE Append(packed.done, packed.open)

NewReducers(batch) ==
    [pair \in Range(batch) |-> [first |-> None, last |-> None, gaps |-> <<>>]]

Analyse ==
    /\ phase = "analysis"
    /\ LET bursts == Bursts
           surfaced == bursts \cup Arrivals
           rows == Rows(bursts, surfaced \ bursts, Recurring(surfaced))
           packed == PackBatches(SetToSeq(surfaced))
       IN  IF Cardinality(rows) > FindingLimit
           THEN /\ status' = "ABSTAINED" /\ phase' = "done"
                /\ UNCHANGED <<analysis, batches, reducers>>
           ELSE /\ analysis' = [made |-> TRUE, rows |-> rows, bursts |-> bursts,
                                surfaced |-> surfaced]
                /\ batches' = packed
                /\ reducers' = IF packed = <<>> THEN <<>> ELSE NewReducers(packed[1])
                /\ phase' = IF packed = <<>> THEN "done" ELSE "cadence"
                /\ UNCHANGED status
    /\ cursor' = 0
    /\ UNCHANGED <<population, anchor, cells, inventory, pop, lane, cadence, findings>>

-----------------------------------------------------------------------------
(* Third pass: the cadence of each surfaced pair.  A reducer that meets    *)
(* rows out of time order fails, in a file or between two files.           *)
Ordered(times, ts) ==
    SelectSeq(times, LAMBDA t : t <= ts) \o <<ts>> \o SelectSeq(times, LAMBDA t : t > ts)
Times(pair, rows) ==
    FoldSet(LAMBDA r, times : Ordered(times, r.ts), <<>>,
            {r \in rows : /\ r.kept /\ r.kind = "query" /\ InReport(r) /\ Member(r)
                          /\ <<r.address, FamilyOf[r.name]>> = pair})
KeptGaps(times) ==
    SelectSeq([i \in 1..(Len(times) - 1) |-> times[i + 1] - times[i]], LAMBDA g : g < MaxGap)

ReadChunk(reducer, times) ==
    IF times = <<>> \/ reducer.first = Disorder THEN reducer
    ELSE IF reducer.first = None
    THEN [first |-> times[1], last |-> times[Len(times)], gaps |-> KeptGaps(times)]
    ELSE IF times[1] < reducer.last THEN [reducer EXCEPT !.first = Disorder]
    ELSE [reducer EXCEPT !.last = times[Len(times)],
                         !.gaps = @ \o KeptGaps(<<reducer.last>> \o times)]

(* An older file goes in front of what is committed. *)
Precede(run, part) ==
    IF part.first = None THEN run
    ELSE IF part.first = Disorder \/ run.first = None THEN part
    ELSE IF part.last > run.first THEN [run EXCEPT !.first = Disorder]
    ELSE [first |-> part.first, last |-> run.last,
          gaps |-> part.gaps \o KeptGaps(<<part.last, run.first>>) \o run.gaps]

Held(folded) == FoldSet(LAMBDA p, sum : sum + Len(folded[p].gaps), 0, DOMAIN folded)

FoldCadence ==
    /\ phase = "cadence" /\ cursor < Len(Objects)
    /\ LET part == [pair \in DOMAIN reducers |->
                       FoldLeft(LAMBDA r, chunk : ReadChunk(r, Times(pair, chunk)),
                                [first |-> None, last |-> None, gaps |-> <<>>],
                                Objects[cursor + 1])]
           run == [pair \in DOMAIN reducers |-> Precede(reducers[pair], part[pair])]
       IN  /\ reducers' = run
           /\ CASE \E pair \in DOMAIN run : run[pair].first = Disorder ->
                     status' = "FAILED" /\ phase' = "done" /\ UNCHANGED cursor
                [] (\A pair \in DOMAIN run : run[pair].first # Disorder) /\ Held(run) > GapLimit ->
                     status' = "ABSTAINED" /\ phase' = "done" /\ UNCHANGED cursor
                [] OTHER -> cursor' = cursor + 1 /\ UNCHANGED <<status, phase>>
    /\ UNCHANGED <<population, anchor, cells, inventory, pop, lane, analysis, batches, cadence,
                   findings>>

FinishBatch ==
    /\ phase = "cadence" /\ cursor = Len(Objects)
    /\ cadence' = [pair \in DOMAIN cadence \cup DOMAIN reducers |->
                      IF pair \in DOMAIN reducers THEN reducers[pair].gaps ELSE cadence[pair]]
    /\ batches' = Tail(batches)
    /\ reducers' = IF batches' = <<>> THEN <<>> ELSE NewReducers(batches'[1])
    /\ phase' = IF batches' = <<>> THEN "done" ELSE phase
    /\ cursor' = 0
    /\ UNCHANGED <<population, anchor, cells, inventory, pop, lane, analysis, status, findings>>

-----------------------------------------------------------------------------
(* run: the findings of what was prepared.  Bursts come first, the highest *)
(* peak first; then arrivals and folds by the time they began; the notes   *)
(* on what was withheld and what recurs come last.                         *)
FirstAssociated(pair) == Min({pop.a1Pair[<<pair[1], n>>].first : n \in Qualifying(pair)})
Attributed(keys) == FoldSet(LAMBDA k, sum : sum + pop.a1Pair[k].count, 0, keys)
AttributedTo(address) == Attributed({k \in DOMAIN pop.a1Pair : k[1] = address})
AskedBy(addresses) == FoldSet(LAMBDA a, sum : sum + pop.asked[a].count, 0, addresses)

(* Addresses and families sort by spelling, which is any fixed order. *)
Spellings == SetToSeq({pair[1] : pair \in Pairs} \cup Range(FamilyOf))
SpellingRank(name) == CHOOSE i \in DOMAIN Spellings : Spellings[i] = name
Lower(a, b) == \E i \in DOMAIN a : a[i] < b[i] /\ \A j \in 1..(i - 1) : a[j] = b[j]
InOrderOf(rows) == SetToSortSeq(rows, LAMBDA a, b : Lower(a.key, b.key))

Shares(address) ==
    IF Cardinality(DOMAIN pop.asked) < 2 \/ DOMAIN pop.a1Pair = {} THEN <<>>
    ELSE [attributed |-> AttributedTo(address), ofAttributed |-> Attributed(DOMAIN pop.a1Pair),
          asked |-> AskedBy({address}), ofAsked |-> AskedBy(DOMAIN pop.asked)]

BurstOf(pair) ==
    [kind |-> "burst", members |-> <<pair>>, omitted |-> 0, shares |-> <<>>,
     key |-> <<-Peak(pair), PeriodStart(PeakPeriod(pair)), SpellingRank(pair[1]), SpellingRank(pair[2])>>]
ArrivalOf(pair) ==
    [kind |-> "arrival", members |-> <<pair>>, omitted |-> 0, shares |-> <<>>,
     key |-> <<FirstAssociated(pair), SpellingRank(pair[1]), SpellingRank(pair[2])>>]
Eldest(pairs) ==
    SetToSortSeq(pairs, LAMBDA p, q : Lower(<<FirstAssociated(p), SpellingRank(p[2])>>,
                                            <<FirstAssociated(q), SpellingRank(q[2])>>))

FoldOf(address, pairs) ==
    LET candidates == Eldest(pairs)
        told == SubSeq(candidates, 1, Earliest(FoldMembers, Len(candidates)))
    IN  [kind |-> "arrival_fold", members |-> told,
         omitted |-> Len(candidates) - Len(told), shares |-> Shares(address),
         key |-> <<FirstAssociated(candidates[1]), SpellingRank(address), 0>>]

ArrivalFindings(address, pairs) ==
    IF Cardinality(pairs) >= FoldMinMembers THEN {FoldOf(address, pairs)}
    ELSE {ArrivalOf(pair) : pair \in pairs}
Context(kind, subject) ==
    IF subject = {} THEN <<>>
    ELSE <<[kind |-> kind, members |-> <<>>, omitted |-> Cardinality(subject), shares |-> <<>>,
            key |-> <<>>]>>
Findings ==
    LET arrivals == analysis.surfaced \ analysis.bursts
    IN  InOrderOf({BurstOf(pair) : pair \in analysis.bursts})
        \o InOrderOf(UNION {ArrivalFindings(a, {pair \in arrivals : pair[1] = a}) :
                               a \in {pair[1] : pair \in arrivals}})
        \o Context("prior_handling", PriorHandled)
        \o Context("recurring", UNION {row.pairs : row \in {w \in analysis.rows :
                                                            w.kind = "recurring"}})

(* A told pair without its cadence fails the detector. *)
TellFindings ==
    /\ phase = "done"
    /\ LET told == IF status = "READY" /\ analysis.made THEN Findings ELSE <<>>
           lacking == UNION {Range(told[i].members) : i \in DOMAIN told} \ DOMAIN cadence
       IN  /\ findings' = IF lacking = {} THEN told ELSE <<>>
           /\ status' = IF lacking = {} THEN status ELSE "FAILED"
    /\ phase' = "told"
    /\ UNCHANGED <<population, cursor, anchor, cells, inventory, pop, lane, analysis,
                   batches, reducers, cadence>>

-----------------------------------------------------------------------------
DnsInit ==
    /\ population \in Populations
    /\ phase = "blocks" /\ cursor = 0 /\ anchor = [first |-> None, last |-> None]
    /\ cells = <<>> /\ inventory = {} /\ pop = Facts({})
    /\ lane = [strong |-> FALSE, covered |-> {}] /\ analysis = NoAnalysis
    /\ batches = <<>> /\ reducers = <<>> /\ cadence = <<>>
    /\ status = "READY" /\ findings = <<>>
DnsNext == \/ FoldBlocks \/ FinalizeBlocks \/ FoldPopulation \/ SelectLane
           \/ Analyse \/ FoldCadence \/ FinishBatch \/ TellFindings
DnsSpec == DnsInit /\ [][DnsNext]_dnsVars

-----------------------------------------------------------------------------
AllRows == UNION {Whole(Objects[i]) : i \in DOMAIN Objects}
KeptRows == {r \in AllRows : r.kept}

(* However the rows are split into chunks and files, the committed         *)
(* population is the one of all rows at once, and the block inventory is   *)
(* exactly the blocked names and days of the report as soon as the report  *)
(* holds a full period.                                                    *)
FoldMatchesRows ==
    phase = "analysis" =>
        /\ pop = Facts(AllRows)
        /\ FullReport > 0 =>
              inventory = {<<r.name, UtcDate(r.ts)>> :
                              r \in {b \in KeptRows : b.kind = "block" /\ InReport(b)}}

(* What is reported is earned by the rows, and what persists is reported.  *)
(* An arrival's address asked for the qualifying names in no earlier row   *)
(* that was consulted, while it was active before, and the resolver served *)
(* none of those names on or before the first day it blocked it.  Every    *)
(* surfaced pair has one row, a burst or an arrival.  Under full trusted   *)
(* coverage a pair whose attributed queries fill RecurringPeriods periods  *)
(* is in some row.                                                         *)
ArrivalIsNovel(pair) ==
    \A n \in Qualifying(pair) :
        LET asked == {r \in KeptRows : r.kind = "query" /\ InSpan(r) /\ r.address = pair[1]}
            blockDays == {UtcDate(r.ts) : r \in {b \in KeptRows : /\ b.kind = "block" /\ b.name = n
                                                             /\ InReport(b)}}
        IN  /\ \A r \in asked : r.name = n => r.ts >= PeriodStart(OldestPeriod(pair))
            /\ \E r \in asked : r.ts < PeriodStart(OldestPeriod(pair))
            /\ \A h \in KeptRows : h.kind = "handled" /\ h.name = n /\ InSpan(h) =>
                   \E d \in blockDays : d < UtcDate(h.ts)
PeriodsFilled(pair) ==
    {Period(r.ts) : r \in {q \in KeptRows : /\ q.kind = "query" /\ InReport(q) /\ PeriodValid(q.ts)
                                        /\ <<q.address, FamilyOf[q.name]>> = pair
                                        /\ Member(q) /\ Period(q.ts) < FullReport}}
FindingsAreEarned ==
    (phase = "done" /\ analysis.made) =>
        /\ \A pair \in analysis.surfaced :
              /\ pair \notin analysis.bursts => ArrivalIsNovel(pair)
              /\ Cardinality({row \in analysis.rows : pair \in row.pairs}) = 1
        /\ (Strong /\ FullReport >= RecurringPeriods) =>
              \A pair \in Pairs : Cardinality(PeriodsFilled(pair)) >= RecurringPeriods =>
                  \E row \in analysis.rows : pair \in row.pairs

(* The cadence of every reported pair is that of its rows in time order,   *)
(* across chunks and files; the detector abstains over gaps only when one  *)
(* pair alone has more than the limit, because batches are packed under a  *)
(* bound that no pair exceeds; and it fails only over rows out of order.   *)
TrueGaps(pair) == KeptGaps(Times(pair, AllRows))
InOrder == \A i, j \in DOMAIN Objects :
               \A r \in Whole(Objects[i]), s \in Whole(Objects[j]) : i < j => s.ts <= r.ts
CadenceIsExact ==
    /\ phase = "done" => \A pair \in DOMAIN cadence : cadence[pair] = TrueGaps(pair)
    /\ (phase = "done" /\ status = "READY") => DOMAIN cadence = analysis.surfaced
    /\ (status = "ABSTAINED" /\ analysis.made) =>
          \E pair \in DOMAIN reducers : Len(TrueGaps(pair)) > GapLimit
    /\ (phase = "done" /\ status # "FAILED" /\ analysis.made) =>
          \A pair \in analysis.surfaced : Len(TrueGaps(pair)) <= GapBound(pair)
    /\ status = "FAILED" =>
          ~ InOrder \/ \E i \in DOMAIN Objects : \E j, k \in DOMAIN Objects[i] :
              j < k /\ \E r \in Objects[i][j], s \in Objects[i][k] : s.ts < r.ts

(* The findings tell the rows.  Every surfaced pair is named once or is    *)
(* counted among what the fold of its address leaves out, and nothing left *)
(* out began before what is named; an arrival or fold is told no later     *)
(* than one that began after it, every burst before them; the shares of a  *)
(* fold are those of its address among all rows of the report, of at least *)
(* two addresses, and hold the folded pairs'; a failed or abstained        *)
(* detector tells nothing.                                                 *)
ReportQueries == {r \in KeptRows : r.kind = "query" /\ InReport(r)}
RowsOf(pair) == {r \in ReportQueries : Member(r) /\ r.address = pair[1]
                                                 /\ r.name \in Qualifying(pair)}
Named(finding) == Range(finding.members)
SharesAreTrue(shares, address, pairs) ==
    LET among == {r \in ReportQueries : r.address = address}
        blocked == {r \in among : Member(r)}
    IN  /\ shares.asked = Cardinality(among) /\ shares.ofAsked = Cardinality(ReportQueries)
        /\ shares.attributed = Cardinality(blocked)
        /\ shares.ofAttributed = Cardinality({r \in ReportQueries : Member(r)})
        /\ UNION {RowsOf(pair) : pair \in pairs} \subseteq blocked
        /\ shares.asked < shares.ofAsked
FindingsTellTheRows ==
    (phase = "told" /\ status = "READY" /\ analysis.made) =>
        LET arrivals == analysis.surfaced \ analysis.bursts
            earned == {i \in DOMAIN findings : findings[i].members # <<>>}
            began(i) == FirstTs(UNION {RowsOf(pair) : pair \in Named(findings[i])})
            folded(i) == {pair \in arrivals : pair[1] = findings[i].members[1][1]}
        IN  /\ analysis.surfaced \subseteq UNION {IF findings[i].kind = "arrival_fold"
                                                 THEN folded(i) ELSE Named(findings[i]) : i \in earned}
            /\ \A i, j \in earned : i < j =>
                   /\ Named(findings[i]) \cap Named(findings[j]) = {}
                   /\ findings[j].kind = "burst" =>
                          /\ findings[i].kind = "burst"
                          /\ Peak(findings[j].members[1]) <= Peak(findings[i].members[1])
                   /\ findings[i].kind # "burst" => began(i) <= began(j)
            /\ earned = 1..Cardinality(earned)
            /\ \A i \in earned : findings[i].kind = "arrival_fold" =>
                   /\ findings[i].omitted = Cardinality(folded(i) \ Named(findings[i]))
                   /\ \A pair \in folded(i) \ Named(findings[i]), told \in Named(findings[i]) :
                          FirstTs(RowsOf(told)) <= FirstTs(RowsOf(pair))
                   /\ (findings[i].shares # <<>>) <=>
                          (Cardinality({r.address : r \in ReportQueries}) >= 2)
                   /\ findings[i].shares # <<>> =>
                          SharesAreTrue(findings[i].shares, findings[i].members[1][1], folded(i))
SilentUnlessReady == (phase = "told" /\ status # "READY") => findings = <<>>

(* dnsblock.py: the report is what one pass over all rows would say: the
   folded cells are the rows', every finding meets its gate, every cadence
   is its rows', and what is told is all of it, in order. *)
ReportIsExact ==
    FoldMatchesRows /\ FindingsAreEarned /\ CadenceIsExact /\ FindingsTellTheRows /\ SilentUnlessReady
=============================================================================
