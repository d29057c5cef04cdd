---------------------------- MODULE FlowSignals ----------------------------
(***************************************************************************)
(* Connections that carry data out (detectors/exfil.py) or keep a rhythm   *)
(* (detectors/beacon.py), and the run's notes on what neither could        *)
(* measure (_runner/notes.py).                                             *)
(*                                                                         *)
(* A row is [src, dst, service, ts, est, local, out, back]: two spelled    *)
(* addresses, whether its state is SF or S1, the sensor's local_orig, and  *)
(* the bytes of either side.  An address may have two spellings; exfil     *)
(* reads the address, beacon the spelling.  The FFT score of a flow is     *)
(* left open.                                                              *)
(***************************************************************************)
EXTENDS Integers, FiniteSets, SequencesExt, FiniteSetsExt

CONSTANTS
    FlowLogs,           \* the frames a run may load: [rows, lacks, bounded]
    AddressOf,          \* what a spelling reads as
    Unparsable, HomeAddresses, NonRoutable,    \* addresses
    Mapped, NonUnicast, \* spellings: of IPv4 in IPv6, and that beacon takes for a group
    PoolOf,             \* the network of an address, for folding
    Lexicon,            \* the spellings, in lexical order
    MinOut, MinShare, PoolFold,             \* MinShare in hundredths
    MinConnections, MinSamples, RhythmThreshold,  \* of rhythms
    EstNoteRows, EstNoteShare, ReliableSpan

ASSUME FlowAssumption ==
    /\ {MinOut, PoolFold, MinConnections, MinSamples, EstNoteRows} \subseteq Nat \ {0}
    /\ MinShare \in 1..100 /\ RhythmThreshold \in 1..100

VARIABLES
    flows,      \* the frame
    asides,     \* the notes of the run on it
    transfers,  \* exfil's findings, in order
    rhythms,    \* beacon's findings, in order
    flowStep    \* "notes", "mass", "rhythm", "done", or "failed": beacon raised

flowVars == <<flows, asides, transfers, rhythms, flowStep>>

-----------------------------------------------------------------------------
NoBytes == -1
NoStamp == -2
FlowRows == DOMAIN flows.rows
Flown(i) == flows.rows[i]
Source(i) == AddressOf[Flown(i).src]
Target(i) == AddressOf[Flown(i).dst]

(* The sensor decides where it speaks, and home_net where it does not. *)
Leaves(i, home) == IF Flown(i).local = "unset" THEN home ELSE Flown(i).local = "yes"

(* exfil's gates, in their order. *)
Readable == {i \in FlowRows : {Source(i), Target(i)} \cap Unparsable = {}}
Outbound == {i \in Readable : Leaves(i, Source(i) \in HomeAddresses)}
External == {i \in Outbound : Target(i) \notin HomeAddresses \cup NonRoutable}
Complete == {i \in External : Flown(i).out # NoBytes /\ Flown(i).back # NoBytes}
HalfMeasured == {i \in External : Flown(i).out # NoBytes /\ Flown(i).back = NoBytes}

Pair(i) == <<Source(i), Target(i)>>
Out(S) == FoldSet(LAMBDA i, n : n + Flown(i).out, 0, S)
Back(S) == FoldSet(LAMBDA i, n : n + Flown(i).back, 0, S)
OfPair(S, p) == {i \in S : Pair(i) = p}
Gates(out, back) == out >= MinOut /\ 100 * out >= MinShare * (out + back)
Surfaces(p) == Gates(Out(OfPair(Complete, p)), Back(OfPair(Complete, p)))

(* Pairs in the order their first complete row was loaded. *)
FirstOf(p) == Min(OfPair(Complete, p))
Surfaced == {p \in {Pair(i) : i \in Complete} : Surfaces(p)}
Summaries == [k \in 1..Cardinality(Surfaced) |->
    CHOOSE p \in Surfaced : Cardinality({q \in Surfaced : FirstOf(q) < FirstOf(p)}) = k - 1]

(* A mutant: a pool is a network, whoever sends to it. *)
PoolByNetwork(p) == PoolOf[p[2]]
Pool(p) == <<p[1], PoolOf[p[2]]>>
PoolMembers(pool) == {p \in Surfaced : Pool(p) = pool}
FoldedPools == {pool \in {Pool(p) : p \in Surfaced} : Cardinality(PoolMembers(pool)) >= PoolFold}
PoolStart(pool) == Min({FirstOf(p) : p \in PoolMembers(pool)})
Reported(kind, pairs) ==
    LET mass == UNION {OfPair(Complete, p) : p \in pairs}
    IN  [kind |-> kind, pairs |-> pairs, out |-> Out(mass), back |-> Back(mass),
         count |-> Cardinality(mass)]
Transfers ==
    LET lone == SelectSeq(Summaries, LAMBDA p : Pool(p) \notin FoldedPools)
    IN  [k \in 1..Cardinality(FoldedPools) |->
            Reported("pool", PoolMembers(CHOOSE pool \in FoldedPools :
                Cardinality({q \in FoldedPools : PoolStart(q) < PoolStart(pool)}) = k - 1))]
        \o [k \in DOMAIN lone |-> Reported("pair", {lone[k]})]
HeavierFirst(found) ==        \* a stable sort
    [n \in DOMAIN found |-> found[CHOOSE k \in DOMAIN found :
        Cardinality({j \in DOMAIN found : \/ found[j].out > found[k].out
                                          \/ found[j].out = found[k].out /\ j < k}) = n - 1]]

(* Pairs whose half-measured rows would have carried them over the gates,  *)
(* had nothing come back. *)
MaterialPairs ==
    {p \in {Pair(i) : i \in HalfMeasured} :
        /\ ~ Surfaces(p)
        /\ Gates(Out(OfPair(Complete \cup HalfMeasured, p)), Back(OfPair(Complete, p)))}

-----------------------------------------------------------------------------
(* beacon's gates. *)
Established == {i \in FlowRows : Flown(i).est}
Unicast == {i \in Established : {Flown(i).src, Flown(i).dst} \cap NonUnicast = {}}
InHome(i) == Source(i) \in HomeAddresses /\ Flown(i).src \notin Mapped
BeforeBytes == {i \in Unicast : Leaves(i, InHome(i))}
WithBytes == {i \in BeforeBytes : Flown(i).out # NoBytes}
Keyed == {i \in WithBytes : Flown(i).service # "none"}
FlowKey(i) == <<Flown(i).src, Flown(i).dst, Flown(i).service>>
Flow(k) == {i \in Keyed : FlowKey(i) = k}
Scored == {k \in {FlowKey(i) : i \in Keyed} :
              Cardinality(Flow(k)) >= MinConnections /\ Cardinality(Flow(k)) >= MinSamples}
LexRank(word) == CHOOSE n \in DOMAIN Lexicon : Lexicon[n] = word
KeyBefore(j, k) ==
    \E n \in 1..3 : (\A m \in 1..(n - 1) : j[m] = k[m]) /\ LexRank(j[n]) < LexRank(k[n])
Rhythm(k, score) == [key |-> k, rows |-> Flow(k), score |-> score,
                     severity |-> IF score >= 50 THEN "MEDIUM" ELSE "LOW"]

(* The notes. *)
Lacking(columns) == flows.lacks \cap columns
ExfilColumns == {"src", "dst", "bytes", "resp_bytes"}
BeaconColumns == {"conn_state", "bytes", "src", "dst", "port", "proto", "ts"}
Stamps == {Flown(i).ts : i \in FlowRows} \ {NoStamp}
FlowSpan == IF "ts" \in flows.lacks \/ Stamps = {} THEN 0 ELSE Max(Stamps) - Min(Stamps)
ExfilAsides ==
    IF Lacking(ExfilColumns) # {} THEN [said |-> {"columns"}, pairs |-> 0, mass |-> 0]
    ELSE [said |-> IF External # {} /\ Complete = {} THEN {"no byte pairs"} ELSE {},
          pairs |-> Cardinality(MaterialPairs),
          mass |-> Out({i \in HalfMeasured : Pair(i) \in MaterialPairs})]
BeaconAsides ==
    (IF Lacking(BeaconColumns) # {} THEN {"columns"}
     ELSE (IF BeforeBytes # {} /\ WithBytes = {} THEN {"no bytes"} ELSE {})
          \cup (IF Keyed # WithBytes THEN {"keys"} ELSE {}))
    \cup (IF MinConnections < MinSamples THEN {"floor"} ELSE {})
    \cup (IF /\ "conn_state" \notin flows.lacks
             /\ Cardinality(FlowRows) >= EstNoteRows
             /\ 100 * Cardinality(FlowRows \ Established) >= EstNoteShare * Cardinality(FlowRows)
          THEN {"states"} ELSE {})
    \cup (IF FlowSpan > 0 /\ FlowSpan < ReliableSpan
          THEN {IF flows.bounded THEN "widen" ELSE "short"} ELSE {})

-----------------------------------------------------------------------------
(* The notes are made before the detectors run. *)
Aside ==
    /\ flowStep = "notes" /\ flowStep' = "mass"
    /\ asides' = [exfil |-> IF FlowRows = {} THEN [said |-> {}, pairs |-> 0,
                                                   mass |-> 0] ELSE ExfilAsides,
                  beacon |-> BeaconAsides]
    /\ UNCHANGED <<flows, transfers, rhythms>>
MeasureMass ==
    /\ flowStep = "mass" /\ flowStep' = "rhythm"
    /\ transfers' = IF FlowRows = {} \/ Lacking(ExfilColumns) # {} THEN <<>> ELSE HeavierFirst(Transfers)
    /\ UNCHANGED <<flows, asides, rhythms>>
(* A row without a time reaches a run that asked for no window; the score  *)
(* of its flow cannot be computed and the detector fails as a whole.       *)
Unscorable == \E k \in Scored : \E i \in Flow(k) : Flown(i).ts = NoStamp
ScoreFlows ==
    /\ flowStep = "rhythm" /\ flowStep' = "done"
    /\ Lacking(BeaconColumns) = {} => ~ Unscorable
    /\ \E score \in [IF Lacking(BeaconColumns) = {} THEN Scored ELSE {} -> {0, 40, 60}] :
          LET told == {j \in DOMAIN score : score[j] >= RhythmThreshold}
              ahead(j, k) == score[j] > score[k] \/ (score[j] = score[k] /\ KeyBefore(j, k))
              nth(n) == CHOOSE k \in told : Cardinality({j \in told : ahead(j, k)}) = n - 1
          IN  rhythms' = [n \in 1..Cardinality(told) |-> Rhythm(nth(n), score[nth(n)])]
    /\ UNCHANGED <<flows, asides, transfers>>
ScoreRaises ==
    /\ flowStep = "rhythm" /\ flowStep' = "failed"
    /\ Lacking(BeaconColumns) = {} /\ Unscorable
    /\ UNCHANGED <<flows, asides, transfers, rhythms>>

FlowInit == /\ flows \in FlowLogs /\ asides = <<>> /\ transfers = <<>> /\ rhythms = <<>>
            /\ flowStep = "notes"
FlowNext == Aside \/ MeasureMass \/ ScoreFlows \/ ScoreRaises
FlowSpec == FlowInit /\ [][FlowNext]_flowVars

-----------------------------------------------------------------------------
(* Mass is told once: a pair of addresses that clears both gates, however  *)
(* its addresses are spelled, is in exactly one finding, alone or in the   *)
(* pool of its own sender, with every complete row and no other.  A pair   *)
(* left out by unmeasured answers alone is in the note, and in no finding. *)
MassIsToldOnce ==
    (flowStep \in {"done", "failed"} /\ flows.lacks = {}) =>
        LET pairs == {Pair(i) : i \in External}
            half == {p \in pairs : ~ Surfaces(p) /\ OfPair(HalfMeasured, p) # {}}
        IN  /\ \A p \in pairs : Cardinality({k \in DOMAIN transfers : p \in transfers[k].pairs})
                                   = IF Surfaces(p) THEN 1 ELSE 0
            /\ \A k \in DOMAIN transfers :
                  LET t == transfers[k]
                      rows == {i \in Complete : Pair(i) \in t.pairs}
                  IN  /\ t.out = Out(rows) /\ t.back = Back(rows) /\ Gates(t.out, t.back)
                      /\ \A p, q \in t.pairs : p[1] = q[1]
                      /\ t.kind = "pool" <=> Cardinality(t.pairs) >= PoolFold
                      /\ k > 1 => transfers[k - 1].out >= t.out
            /\ asides.exfil.pairs = Cardinality({p \in half : \E given \in 0..MinOut :
                  Gates(Out(OfPair(Complete \cup HalfMeasured, p)),
                        Back(OfPair(Complete, p)) + given)})
            /\ asides.exfil.pairs > 0 => asides.exfil.mass > 0

(* A note never contradicts a finding, and a run that could not measure    *)
(* says so: told rhythms keep the scorer's floor and the same rows, and    *)
(* nothing is found where a note says that nothing was scored. *)
NotesFitTheFindings ==
    flowStep = "done" =>
        /\ asides.exfil.said # {} => transfers = <<>>
        /\ (asides.beacon \cap {"columns", "no bytes"} # {}) => rhythms = <<>>
        /\ (External # {} /\ Complete = {}) => asides.exfil.said # {} 
        /\ \A k \in DOMAIN rhythms :
              /\ Cardinality(rhythms[k].rows) >= MinSamples
              /\ \A i \in rhythms[k].rows : Flown(i).est /\ Flown(i).out # NoBytes
              /\ \A j \in DOMAIN rhythms : j # k => rhythms[j].rows \cap rhythms[k].rows = {}
              /\ k > 1 => rhythms[k - 1].score >= rhythms[k].score

(* exfil.py, beacon.py: every byte that surfaces is told once, and no note
   contradicts a finding. *)
FlowsAreAccounted == MassIsToldOnce /\ NotesFitTheFindings
=============================================================================
