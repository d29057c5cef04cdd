-------------------------- MODULE PortExpectations --------------------------
(***************************************************************************)
(* Services on ports they are not expected on, and traffic Zeek could not  *)
(* label on ports where it always could (detectors/protocol.py).           *)
(*                                                                         *)
(* A row is [src, dst, port, origPort, labels, removed, inverted, ts,      *)
(* clean, known, labelled, measured]: `known' is that its identity and its *)
(* time can be read, `labelled' and `measured' that the source supplied    *)
(* the service and the columns of the quality test.  One transport is      *)
(* modelled.  The service table is given.                                  *)
(***************************************************************************)
EXTENDS Integers, FiniteSets, SequencesExt, FiniteSetsExt

CONSTANTS
    PortLogs,                   \* the frames a run may load
    Registered, Conventional,   \* ports of each label
    Carriers, Elastic,          \* labels a label depends on; negotiated or encapsulated ones
    MinPairs, RareShare, RareDays, DayLength,   \* RareShare in hundredths
    ReferenceFloor, ReferenceShare,             \* ReferenceShare in hundredths
    EntityFold

ASSUME PortAssumption ==
    {MinPairs, RareDays, DayLength, ReferenceFloor, EntityFold} \subseteq Nat \ {0}

VARIABLES
    ports,      \* the frame
    legs,       \* the findings of both legs before the fold
    context,    \* the closing finding's counts
    entities,   \* what is told beside it
    portStep    \* "classify", "unlabeled", "fold", "done"

portVars == <<ports, legs, context, entities, portStep>>

-----------------------------------------------------------------------------
Conn(i) == ports[i]
Evaluable == {i \in DOMAIN ports : Conn(i).labelled /\ Conn(i).known}
Labeled == {i \in Evaluable : Conn(i).labels # {}}
Expected(label) == Registered[label] \cup Conventional[label]

(* classify_labels: a row whose roles may be swapped is not classified.    *)
Inverted(i) ==
    /\ Conn(i).inverted
    /\ \E l \in Conn(i).labels : Conn(i).origPort \in Expected(l) /\ Conn(i).port \notin Expected(l)
NoOriginator(i) == Conn(i).inverted /\ Conn(i).origPort = 0
Structural == {i \in Labeled : NoOriginator(i) \/ Inverted(i)}
Outcome(i, l) ==
    LET port == Conn(i).port
        here == Carriers[l] \cap Conn(i).labels
        carried == UNION {Expected(c) : c \in Carriers[l]}
    IN  CASE port \in Registered[l] -> "registered"
          [] port \in Conventional[l] \ Registered[l] -> "conventional-only"
          [] port \notin Expected(l) /\ (\E c \in here : port \in Expected(c)) -> "dependent-exempt"
          [] OTHER -> IF Expected(l) = {} \/ l \in Elastic THEN "unavailable"
                      ELSE IF here = {} /\ port \in carried THEN "ambiguous"
                      ELSE "off-expectation"
With(i, outcome) == {l \in Conn(i).labels : Outcome(i, l) = outcome}
Mismatched(i) == IF With(i, "off-expectation") # {} THEN With(i, "off-expectation")
                 ELSE With(i, "conventional-only")

(* A service set's own traffic is its norm. *)
Classified == Labeled \ Structural
Alike(i) == {j \in Classified : Conn(j).labels = Conn(i).labels}
AlikeHere(i) == {j \in Alike(i) : Conn(j).port = Conn(i).port}
RareHere(i) == /\ 100 * Cardinality(AlikeHere(i)) < RareShare * Cardinality(Alike(i))
           /\ Cardinality({Conn(j).ts \div DayLength : j \in AlikeHere(i)}) < RareDays
Shape(i) == <<Conn(i).src, Conn(i).dst, Conn(i).port, Conn(i).labels, Conn(i).removed>>
Shapes == {{j \in Classified : Shape(j) = Shape(i)} : i \in {k \in Classified : Mismatched(k) # {}}}
Mismatch(rows) ==
    LET i == Min(rows)
    IN  [basis |-> "port-mismatch", port |-> Conn(i).port, services |-> Mismatched(i),
         rows |-> rows,
         severity |-> IF RareHere(i) /\ With(i, "off-expectation") # {} THEN "MEDIUM" ELSE "LOW"]

(* The second leg goes through the rows by time, all of one instant at     *)
(* once; what it knows of ports and pairs is of earlier instants.          *)
DatedConns == {i \in DOMAIN ports : Conn(i).known}
CleanConn(i) == Conn(i).clean /\ Conn(i).measured /\ Conn(i).removed = {}
LabelsOf(i) == IF Conn(i).labelled THEN Conn(i).labels ELSE {}
Unlabeled(i) == CleanConn(i) /\ LabelsOf(i) = {} /\ ~ Conn(i).inverted
PortPair(i) == <<Conn(i).src, Conn(i).dst, Conn(i).port>>
LabeledCount(S) == Cardinality({i \in S : LabelsOf(i) # {}})
TrustedReference(S) == /\ Cardinality(S) >= ReferenceFloor
              /\ 100 * LabeledCount(S) >= ReferenceShare * Cardinality(S)
Started(rows) == [basis |-> "unlabeled-payload", port |-> Conn(Min(rows)).port, services |-> {},
                  rows |-> rows, severity |-> "MEDIUM"]
Fresh(pairs, reference, batch) ==
    {Started({i \in batch : Unlabeled(i) /\ PortPair(i) = p}) :
        p \in {q \in {PortPair(i) : i \in {j \in batch : Unlabeled(j)}} :
                  q \notin pairs /\ TrustedReference({i \in reference : Conn(i).port = q[3]})}}
(* A mutant: an instant is its own reference. *)
InstantLate(acc, ts) ==
    LET batch == {i \in DatedConns : Conn(i).ts = ts}
        reference == acc.reference \cup {i \in batch : CleanConn(i)}
    IN  [pairs |-> acc.pairs \cup {PortPair(i) : i \in batch}, reference |-> reference,
         found |-> acc.found \cup Fresh(acc.pairs, reference, batch)]
Instant(acc, ts) ==
    LET batch == {i \in DatedConns : Conn(i).ts = ts}
    IN  [pairs |-> acc.pairs \cup {PortPair(i) : i \in batch},
         reference |-> acc.reference \cup {i \in batch : CleanConn(i)},
         found |-> acc.found \cup Fresh(acc.pairs, acc.reference, batch)]
Occasions == {Conn(i).ts : i \in DatedConns}
Instants == [k \in 1..Cardinality(Occasions) |->
               CHOOSE t \in Occasions : Cardinality({u \in Occasions : u < t}) = k - 1]
LegState == IF ~ \E i \in DOMAIN ports : Conn(i).labelled THEN "service-not-supplied"
            ELSE IF ~ \E i \in DOMAIN ports : Conn(i).measured THEN "quality-not-supplied"
            ELSE "evaluated"

Akin(f) == {g \in legs : g.services = f.services /\ g.port = f.port /\ g.basis = f.basis
                         /\ g.severity = f.severity}
Entities == {IF Cardinality(Akin(f)) >= EntityFold THEN Akin(f) ELSE {f} : f \in legs}

-----------------------------------------------------------------------------
Classify ==
    /\ portStep = "classify" /\ portStep' = "unlabeled"
    /\ legs' = {Mismatch(rows) : rows \in {s \in Shapes : Cardinality(s) >= MinPairs}}
    /\ context' = [below |-> Cardinality({s \in Shapes : Cardinality(s) < MinPairs}),
                   labeled |-> Cardinality(Labeled),
                   unlabeled |-> Cardinality(Evaluable \ Labeled),
                   unsupplied |-> Cardinality({i \in DOMAIN ports : ~ Conn(i).labelled}),
                   invalid |-> Cardinality({i \in DOMAIN ports : Conn(i).labelled /\ ~ Conn(i).known}),
                   affected |-> Cardinality(DOMAIN ports \ {i \in Evaluable \ Structural : Conn(i).measured}),
                   leg |-> LegState]
    /\ UNCHANGED <<ports, entities>>
FindUnlabeled ==
    /\ portStep = "unlabeled" /\ portStep' = "fold"
    /\ legs' = legs \cup IF LegState # "evaluated" THEN {}
                         ELSE FoldLeft(Instant, [pairs |-> {}, reference |-> {}, found |-> {}],
                                       Instants).found
    /\ UNCHANGED <<ports, context, entities>>
FoldEntities ==
    /\ portStep = "fold" /\ portStep' = "done" /\ entities' = Entities
    /\ UNCHANGED <<ports, legs, context>>

PortInit == /\ ports \in PortLogs /\ legs = {} /\ context = <<>> /\ entities = {}
            /\ portStep = "classify"
PortNext == Classify \/ FindUnlabeled \/ FoldEntities
PortSpec == PortInit /\ [][PortNext]_portVars

-----------------------------------------------------------------------------
(* Traffic without a label is told exactly where it is new: at the first   *)
(* instant of its pair in the window, on a port whose clean connections of *)
(* strictly earlier instants, in whatever order they were loaded, were     *)
(* enough and labeled; so no connection is its own reference.              *)
UnlabeledIsNew ==
    portStep \in {"fold", "done"} =>
        {f.rows : f \in {g \in legs : g.basis = "unlabeled-payload"}} =
            IF LegState # "evaluated" THEN {}
            ELSE {{j \in DatedConns : Unlabeled(j) /\ PortPair(j) = PortPair(i) /\ Conn(j).ts = Conn(i).ts} :
                    i \in {k \in DatedConns :
                        /\ Unlabeled(k)
                        /\ \A j \in DatedConns : PortPair(j) = PortPair(k) => Conn(j).ts >= Conn(k).ts
                        /\ TrustedReference({j \in DatedConns : /\ CleanConn(j) /\ Conn(j).port = Conn(k).port
                                                  /\ Conn(j).ts < Conn(k).ts})}}

(* Every row and every finding is accounted for: each row is labeled, not  *)
(* labeled, or counted as not evaluable; each odd shape is told or counted *)
(* as below the floor; the fold loses nothing and repeats nothing; a       *)
(* connection is evidence of one entity for each leg.                      *)
PortsAreAccounted ==
    portStep = "done" =>
        /\ context.labeled + context.unlabeled + context.unsupplied + context.invalid = Len(ports)
        /\ UNION entities = legs
        /\ \A e, f \in entities : e = f \/ e \cap f = {}
        /\ \A e \in entities : Cardinality(e) = 1 \/ Cardinality(e) >= EntityFold
        /\ \A e, f \in entities, g \in legs, h \in legs :
              (g \in e /\ h \in f /\ g # h /\ g.basis = h.basis) => g.rows \cap h.rows = {}
        /\ context.below + Cardinality({f \in legs : f.basis = "port-mismatch"})
              = Cardinality({Shape(i) : i \in {j \in Classified : Mismatched(j) # {}}})
        /\ \A f \in legs : f.severity = "MEDIUM" /\ f.basis = "port-mismatch" =>
              \A i \in f.rows : With(i, "off-expectation") # {} /\ i \notin Structural
        /\ UnlabeledIsNew
=============================================================================
