--------------------------- MODULE AwsPrincipals ---------------------------
(***************************************************************************)
(* Principals of CloudTrail (detectors/aws.py, with the run's notes on     *)
(* them).  Of the interactive events, those that are a principal's first   *)
(* of their action are gathered into sweeps, and the principals with       *)
(* enough events are compared with each other.                             *)
(*                                                                         *)
(* An event is [who, name, ts, failed, service, lane].  The sum of four    *)
(* z-scores is left open but for its mean: it is zero, so not every        *)
(* principal can be above a positive threshold.                            *)
(***************************************************************************)
EXTENDS Integers, FiniteSets, SequencesExt, FiniteSetsExt

CONSTANTS
    Trails,                 \* the frames a run may load, in load order
    MinEvents, MinScorable, SweepGap, BurstMinFirsts,
    BurstHighErrors         \* in hundredths

ASSUME AwsAssumption == {MinEvents, MinScorable, SweepGap} \subseteq Nat \ {0} /\ BurstMinFirsts > 1

VARIABLES
    trail,      \* the frame
    remarks,    \* the notes of the run on it
    sweeps,     \* burst_dicts, in order
    verdicts,   \* ranked_findings
    awsStep     \* "notes", "sweep", "rank", "done"

awsVars == <<trail, remarks, sweeps, verdicts, awsStep>>

-----------------------------------------------------------------------------
Interactive == {i \in DOMAIN trail : trail[i].lane = "interactive"}
Principals == {trail[i].who : i \in Interactive}
EventsOf(p) == {i \in Interactive : trail[i].who = p}
BelowFloor == {p \in Principals : Cardinality(EventsOf(p)) < MinEvents}
Scorable == Principals \ BelowFloor

(* The stable sort by time; rows without a time or an action are skipped.  *)
NoTimestamp == -1
Dated == {i \in Interactive : trail[i].ts # NoTimestamp /\ trail[i].name # "none"}
Precedes(i, j) == trail[i].ts < trail[j].ts \/ (trail[i].ts = trail[j].ts /\ i < j)
ByStamp(S) == [k \in 1..Cardinality(S) |->
                 CHOOSE i \in S : Cardinality({j \in S : Precedes(j, i)}) = k - 1]

Notice(acc, i) ==
    LET e == trail[i]
    IN  IF e.name \in acc.seen[e.who] THEN acc
        ELSE [seen |-> [acc.seen EXCEPT ![e.who] = @ \cup {e.name}],
              firsts |-> IF acc.seen[e.who] = {} THEN acc.firsts
                         ELSE [acc.firsts EXCEPT ![e.who] = Append(@, i)]]
FirstSeen ==
    FoldLeft(Notice, [seen |-> [p \in Principals |-> {}], firsts |-> [p \in Principals |-> <<>>]],
             ByStamp(Dated)).firsts

(* Less than SweepGap after the last one, a record goes on with the sweep. *)
Closed(acc) == IF Len(acc.current) >= BurstMinFirsts THEN Append(acc.bursts, acc.current)
               ELSE acc.bursts
(* A mutant: the gap is taken from the start of the sweep. *)
ExtendFromStart(acc, i) ==
    IF acc.current = <<>> \/ trail[i].ts - trail[Head(acc.current)].ts < SweepGap
    THEN [acc EXCEPT !.current = Append(@, i)]
    ELSE [current |-> <<i>>, bursts |-> Closed(acc)]
Extend(acc, i) ==
    IF acc.current = <<>> \/ trail[i].ts - trail[Last(acc.current)].ts < SweepGap
    THEN [acc EXCEPT !.current = Append(@, i)]
    ELSE [current |-> <<i>>, bursts |-> Closed(acc)]
BurstsIn(firsts) == Closed(FoldLeft(Extend, [current |-> <<>>, bursts |-> <<>>], firsts))

Services(records) == {trail[i].service : i \in records}
Summary(records) ==
    [who |-> trail[records[1]].who, records |-> ToSet(records),
     failures |-> Cardinality({i \in ToSet(records) : trail[i].failed}),
     severity |-> IF 100 * Cardinality({i \in ToSet(records) : trail[i].failed})
                        >= BurstHighErrors * Len(records) THEN "HIGH" ELSE "MEDIUM"]
Wider(s, t) ==       \* by services, then by actions
    LET wide(b) == Cardinality(Services(b.records))
    IN  wide(s) > wide(t) \/ (wide(s) = wide(t) /\ Cardinality(s.records) > Cardinality(t.records))
Inserted(seq, s) == 
    InsertAt(seq, 1 + Cardinality({k \in DOMAIN seq : ~ Wider(s, seq[k])}), s)

Bands == {"MEDIUM", "LOW", "quiet"}
Ranked(band) == {[tier |-> "ranked", who |-> {p}, severity |-> band[p]] :
                    p \in {q \in Scorable : band[q] # "quiet"}}
TooFew == {[tier |-> "too few", who |-> Scorable, severity |-> "INFO"]}
NoneCleared == {[tier |-> "none cleared", who |-> Scorable, severity |-> "INFO"]}
Verdicts(band) ==
    IF Scorable = {} THEN {}
    ELSE IF Cardinality(Scorable) < MinScorable THEN TooFew
    ELSE IF Ranked(band) = {} THEN NoneCleared ELSE Ranked(band)

-----------------------------------------------------------------------------
(* The notes are made before the detector runs. *)
Remark ==
    /\ awsStep = "notes" /\ awsStep' = "sweep"
    /\ remarks' = [below |-> Cardinality(BelowFloor),
                   blank |-> trail # <<>> /\ Interactive = {}]
    /\ UNCHANGED <<trail, sweeps, verdicts>>
Sweeps ==
    /\ awsStep = "sweep" /\ awsStep' = "rank"
    /\ LET firsts == FirstSeen
           found == FoldSet(LAMBDA p, all : all \o BurstsIn(firsts[p]), <<>>, Principals)
       IN  sweeps' = FoldLeft(Inserted, <<>>, [k \in DOMAIN found |-> Summary(found[k])])
    /\ UNCHANGED <<trail, remarks, verdicts>>
Compare ==
    /\ awsStep = "rank" /\ awsStep' = "done"
    /\ \E band \in [Scorable -> Bands] :
          /\ Scorable # {} => \E p \in Scorable : band[p] = "quiet"
          /\ verdicts' = Verdicts(band)
    /\ UNCHANGED <<trail, remarks, sweeps>>

AwsInit == /\ trail \in Trails /\ remarks = [below |-> 0, blank |-> FALSE] /\ sweeps = <<>>
           /\ verdicts = {} /\ awsStep = "notes"
AwsNext == Remark \/ Sweeps \/ Compare
AwsSpec == AwsInit /\ [][AwsNext]_awsVars

-----------------------------------------------------------------------------
(* A sweep is a principal's longest chain of new actions, each less than   *)
(* SweepGap after the one before: every such chain of BurstMinFirsts is    *)
(* one finding and nothing else is, no event is in two, and an event that  *)
(* opens a principal's history is in none.                                 *)
IsNew(i) == /\ i \in Dated
            /\ \E j \in Dated : Precedes(j, i) /\ trail[j].who = trail[i].who
            /\ \A j \in Dated : Precedes(j, i) /\ trail[j].who = trail[i].who
                                => trail[j].name # trail[i].name
Chained(i, j) ==        \* no hole between them
    /\ trail[i].who = trail[j].who
    /\ \A cut \in {k \in Dated : IsNew(k) /\ trail[k].who = trail[i].who} :
          (trail[i].ts <= trail[cut].ts /\ trail[cut].ts < trail[j].ts) =>
             \E k \in Dated : /\ IsNew(k) /\ trail[k].who = trail[i].who
                              /\ trail[cut].ts < trail[k].ts
                              /\ trail[k].ts - trail[cut].ts < SweepGap
Chain(i) == {j \in {k \in Dated : IsNew(k)} : Chained(i, j) /\ Chained(j, i)}
SweepsAreChains ==
    awsStep \in {"rank", "done"} =>
        /\ {sweeps[k].records : k \in DOMAIN sweeps}
              = {c \in {Chain(i) : i \in {k \in Dated : IsNew(k)}} : Cardinality(c) >= BurstMinFirsts}
        /\ \A j, k \in DOMAIN sweeps : j < k =>
              sweeps[j].records \cap sweeps[k].records = {} /\ ~ Wider(sweeps[k], sweeps[j])

(* What was not compared is disclosed: a run with events and no finding    *)
(* says that none was interactive or that every principal had too few, the *)
(* note counts exactly the principals no score stands for, and nobody is   *)
(* ranked in a population of fewer than MinScorable.                       *)
SilenceIsExplained ==
    awsStep = "done" =>
        /\ (trail # <<>> /\ sweeps = <<>> /\ verdicts = {}) =>
              remarks.blank \/ remarks.below = Cardinality(Principals)
        /\ remarks.below + Cardinality(Scorable) = Cardinality(Principals)
        /\ (\E v \in verdicts : v.tier = "ranked") => Cardinality(Scorable) >= MinScorable
        /\ remarks.blank => sweeps = <<>> /\ verdicts = {}

(* aws.py: every sweep is a maximal chain of new actions, and every
   principal left out is counted. *)
PrincipalsAreAccounted == SweepsAreChains /\ SilenceIsExplained
=============================================================================
