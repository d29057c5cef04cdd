-------------------------- MODULE Detectors_proofs --------------------------
(***************************************************************************)
(* Proofs about the detectors' control, for any feeds.                     *)
(***************************************************************************)
EXTENDS SyslogPreparation, WellFoundedInduction, TLAPS

-----------------------------------------------------------------------------
(* Arbitration *)

(* A nonempty set of numbers has a least one.                              *)
LEMMA LeastNumber ==
    ASSUME NEW T, T \subseteq Nat, T # {}
    PROVE  \E x \in T : \A y \in T : x <= y
<1>1. PICK x \in T : \A y \in T : ~ (<<y, x>> \in OpToRel(<, Nat))
  BY NatLessThanWellFounded, WFMin, Zenon
<1>2. \A y \in T : ~ (y < x)
  BY <1>1 DEF OpToRel
<1> QED
  BY <1>2

(* What holds at zero and goes on holding holds throughout.                *)
LEMMA Induction ==
    ASSUME NEW N \in Nat, NEW S, 0 \in S, \A m \in 1..N : m - 1 \in S => m \in S
    PROVE  \A m \in 0..N : m \in S
<1> DEFINE T == {m \in 0..N : m \notin S}
<1>1. T \subseteq Nat
  OBVIOUS
<1>2. SUFFICES ASSUME T # {} PROVE FALSE
  OBVIOUS
<1>3. PICK x \in T : \A y \in T : x <= y
  <2> HIDE DEF T
  <2> QED
    BY <1>1, <1>2, LeastNumber
<1>4. x \in 1..N /\ x - 1 \in 0..N /\ x \notin S
  BY <1>3
<1>5. x - 1 \in S
  BY <1>3, <1>4
<1> QED
  BY <1>4, <1>5

(* What is left of a feed holds no row of the local feed's hosts.          *)
LEMMA ArbitratedRows ==
    ASSUME NEW rows \in Seq(Row), NEW mine
    PROVE  Arbitrated(rows, mine) \in Seq({row \in Row : row.host \notin mine \ {Unknown}})
<1> DEFINE Fit == {row \in Row : row.host \notin mine \ {Unknown}}
           Body(n, g) == IF n = 0 THEN <<>>
                         ELSE IF rows[n].host \in mine \ {Unknown} THEN g[n - 1]
                         ELSE Append(g[n - 1], rows[n])
           Is(g, m) == g = [n \in 0..m |-> Body(n, g)]
           upTo == CHOOSE g : Is(g, Len(rows))
<1>0. Len(rows) \in Nat /\ \A n \in 1..Len(rows) : rows[n] \in Row
  OBVIOUS
<1>1. \A m \in 0..Len(rows) : \E g : Is(g, m)
  <2> DEFINE S == {m \in 0..Len(rows) : \E g : Is(g, m)}
  <2>1. 0 \in S
    <3>1. Is([n \in 0..0 |-> <<>>], 0)
      OBVIOUS
    <3>2. 0 \in 0..Len(rows)
      BY <1>0
    <3> HIDE DEF Is
    <3> QED
      BY <3>1, <3>2
  <2>2. ASSUME NEW m \in 1..Len(rows), m - 1 \in S
        PROVE  m \in S
    <3>1. m \in Nat /\ m - 1 \in Nat /\ m \in 0..Len(rows) /\ 0..m = 0..(m - 1) \cup {m}
      BY <1>0
    <3>2. PICK g : Is(g, m - 1)
      BY <2>2
    <3> DEFINE h == [n \in 0..m |-> IF n = m THEN Body(m, g) ELSE g[n]]
    <3>3. \A n \in 0..(m - 1) : g[n] = Body(n, g)
      BY <3>2
    <3>4. /\ \A n \in 0..(m - 1) : h[n] = g[n]
          /\ h[m] = Body(m, g) /\ h = [n \in 0..m |-> h[n]]
      BY <3>1
    <3> HIDE DEF h
    <3>5. \A n \in 0..m : h[n] = Body(n, h)
      <4> SUFFICES ASSUME NEW n \in 0..m PROVE h[n] = Body(n, h)
        OBVIOUS
      <4>1. n = m \/ n \in 0..(m - 1)
        BY <3>1
      <4>2. n # 0 => h[n - 1] = g[n - 1]
        <5>1. n # 0 => n - 1 \in 0..(m - 1)
          BY <3>1, <4>1
        <5> HIDE DEF Body
        <5> QED
          BY <3>4, <5>1
      <4>3. Body(n, h) = Body(n, g)
        BY <4>2
      <4> HIDE DEF Body
      <4> QED
        BY <3>3, <3>4, <4>1, <4>3
    <3>6. Is(h, m)
      BY <3>4, <3>5
    <3> QED
      BY <3>1, <3>6
  <2> HIDE DEF S
  <2>3. \A m \in 0..Len(rows) : m \in S
    BY <1>0, <2>1, <2>2, Induction
  <2> QED
    BY <2>3 DEF S
<1>2. Is(upTo, Len(rows))
  <2>1. Len(rows) \in 0..Len(rows)
    BY <1>0
  <2>2. \E g : Is(g, Len(rows))
    BY <1>1, <2>1
  <2> QED
    BY <2>2, Zenon
<1> HIDE DEF upTo
<1>3. \A n \in 0..Len(rows) : upTo[n] = Body(n, upTo)
  BY <1>2
<1>4. \A m \in 0..Len(rows) : upTo[m] \in Seq(Fit)
  <2> DEFINE S == {m \in 0..Len(rows) : upTo[m] \in Seq(Fit)}
  <2>1. 0 \in S
    <3>1. 0 \in 0..Len(rows)
      BY <1>0
    <3>2. upTo[0] = <<>>
      BY <1>3, <3>1
    <3>3. <<>> \in Seq(Fit)
      OBVIOUS
    <3> HIDE DEF Fit
    <3>4. upTo[0] \in Seq(Fit)
      BY <3>2, <3>3
    <3> QED
      BY <3>1, <3>4
  <2>2. ASSUME NEW m \in 1..Len(rows), m - 1 \in S
        PROVE  m \in S
    <3>1. m \in 0..Len(rows) /\ m # 0 /\ upTo[m - 1] \in Seq(Fit)
      BY <1>0, <2>2
    <3>2. upTo[m] = IF rows[m].host \in mine \ {Unknown} THEN upTo[m - 1]
                    ELSE Append(upTo[m - 1], rows[m])
      BY <1>3, <3>1
    <3>3. rows[m].host \notin mine \ {Unknown} => rows[m] \in Fit
      BY <1>0
    <3> HIDE DEF Fit
    <3>4. upTo[m] \in Seq(Fit)
      BY <3>1, <3>2, <3>3
    <3> QED
      BY <3>1, <3>4
  <2> HIDE DEF S
  <2>3. \A m \in 0..Len(rows) : m \in S
    BY <1>0, <2>1, <2>2, Induction
  <2> QED
    BY <2>3 DEF S
<1>5. Arbitrated(rows, mine) = upTo[Len(rows)]
  BY DEF Arbitrated, upTo
<1>6. Len(rows) \in 0..Len(rows)
  BY <1>0
<1> QED
  BY <1>4, <1>5, <1>6

-----------------------------------------------------------------------------
(***************************************************************************)
(* The prepared population.  Whatever aborts, raises or changes, there is  *)
(* one disposition at most, and it is where the run has got to             *)
(* (DispositionFits); the facts of pass one are those of the files it      *)
(* committed (FactsFit); and of what the load warned of, only this         *)
(* pattern's part can be given up (WarningsFit).                           *)
(***************************************************************************)
Indexing == {"prepare", "index", "consume", "indexed"}
Admitting == {"admit", "loaded"}
Scoring == {"arbitrate", "finish", "detect", "done"}

PlaceFits ==
    /\ pc \in Indexing \cup Admitting \cup Scoring \cup {"load", "raised"}
    /\ pc \in Indexing \cup {"load", "detect"} => mode = "ordinary"
    /\ pc \in Admitting \cup {"finish"} => mode = "prepared"
    /\ current \in Nat \ {0} /\ mode \in {"ordinary", "prepared"}
    /\ pc \in {"prepare", "index", "consume"} => current \in 1..(NFiles + 1)
    /\ pc = "consume" => current \in Files
    /\ pc \in Indexing \cup {"load"} => admission = "ready"
    /\ pc \in {"prepare", "index", "consume"} => index = "ready"
    /\ admission \in {"ready", "failed"} /\ index \in {"ready", "abstained", "failed"}
    /\ indexed \subseteq Files /\ committed \subseteq Files /\ DOMAIN arrays = Files

DispositionFits ==
    /\ declined \in {"no", "ineligible", "abstained", "failed"} /\ failed \in BOOLEAN
    /\ pc \in Indexing \cup Admitting => declined = "no"
    /\ pc = "load" => declined # "no"
    /\ mode = "prepared" /\ pc \in {"arbitrate", "finish"} => declined = "no" /\ ~ failed
    /\ mode = "ordinary" /\ pc \in Scoring => declined # "no"
    /\ pc \in {"finish", "detect"} => ~ failed
    /\ declined = "ineligible" =>
          index = "ready" /\ admission = "ready" /\ pc \in {"load"} \cup Scoring
    /\ notes = IF declined \in {"no", "ineligible"} \/ failed THEN <<>> ELSE <<declined>>
    /\ failed => declined = "failed"
    /\ report.made <=> pc = "done" /\ ~ failed

FactsFit ==
    /\ \A f \in indexed : Len(arrays[f]) = Len(archive[f])
    /\ hosts = UNION {HostsOf(InWindow(archive[f])) : f \in indexed}
    /\ mode = "prepared" /\ pc \in Scoring => committed = indexed /\ admission = "ready"

WarningsFit == \A w \in warnings : w[1] = "local" \/ w \in ZeekWarnings

PrepInv ==
    /\ zeek \in Seq(Row) /\ PlaceFits /\ DispositionFits /\ FactsFit /\ WarningsFit
    /\ FeedsDoNotOverlap

(* The initial states.                                                     *)
LEMMA PrepStart == Init => PrepInv
<1> SUFFICES ASSUME Init PROVE PrepInv
  OBVIOUS
<1> USE DEF Init, Indexing, Admitting, Scoring
<1>1. zeek \in Seq(Row)
  BY PreparationAssumption
<1>2. PlaceFits
  <2>1. NFiles \in Nat /\ 1 \in 1..(NFiles + 1)
    BY PreparationAssumption
  <2> QED
    BY <2>1 DEF PlaceFits
<1>3. DispositionFits
  BY DEF DispositionFits
<1>4. FactsFit
  <2>1. {HostsOf(InWindow(archive[f])) : f \in indexed} = {}
    OBVIOUS
  <2> QED
    BY <2>1 DEF FactsFit
<1>5. WarningsFit /\ FeedsDoNotOverlap
  BY DEF WarningsFit, FeedsDoNotOverlap
<1> QED
  BY <1>1, <1>2, <1>3, <1>4, <1>5 DEF PrepInv

(* Every action.                                                           *)
LEMMA PrepKeeps == PrepInv /\ [Next]_vars => PrepInv'
<1> SUFFICES ASSUME PrepInv, [Next]_vars PROVE PrepInv'
  OBVIOUS
<1> USE PreparationAssumption
    DEF PrepInv, PlaceFits, DispositionFits, FactsFit, WarningsFit, FeedsDoNotOverlap,
        Indexing, Admitting, Scoring, Files, inputVars, factVars, planVars, loadVars, tellVars
<1>1. CASE ConfigInvalid
  BY <1>1 DEF ConfigInvalid, Disposition
<1>2. CASE Ineligible
  BY <1>2 DEF Ineligible, Disposition
<1>3. CASE PrepareRaises
  BY <1>3 DEF PrepareRaises, Disposition
<1>4. CASE BeginIndex
  <2>1. current' \in Nat \ {0} /\ pc' = "index" /\ UNCHANGED <<index, admission>>
    BY <1>4 DEF BeginIndex
  <2> QED
    BY <1>4, <2>1 DEF BeginIndex
<1>5. CASE SeedFile
  BY <1>5 DEF SeedFile
<1>6. CASE Consume
  BY <1>6 DEF Consume
<1>7. CASE CommitFile
  BY <1>7 DEF CommitFile
<1>8. CASE AbortFile
  BY <1>8 DEF AbortFile
<1>9. CASE IndexOut
  BY <1>9 DEF IndexOut
<1>10. CASE IndexDone
  BY <1>10 DEF IndexDone
<1>11. CASE IndexUnusable
  BY <1>11 DEF IndexUnusable, Disposition
<1>12. CASE Register
  BY <1>12 DEF Register
<1>13. CASE AdmitFile
  BY <1>13 DEF AdmitFile
<1>14. CASE AdmitAborts
  BY <1>14 DEF AdmitAborts
<1>15. CASE AdmissionFails
  BY <1>15 DEF AdmissionFails
<1>16. CASE SnapshotChanged
  BY <1>16 DEF SnapshotChanged
<1>17. CASE CoverageOut
  BY <1>17 DEF CoverageOut
<1>18. CASE AdmitDone
  BY <1>18 DEF AdmitDone
<1>19. CASE OrdinaryLoad
  BY <1>19 DEF OrdinaryLoad, Unread, ZeekWarnings
<1>20. CASE KeepPopulation
  BY <1>20 DEF KeepPopulation, Spoilt
<1>21. CASE Recover
  BY <1>21 DEF Recover, Disposition, Replaced, Unread, Spoilt
<1>22. CASE ReloadRaises
  BY <1>22 DEF ReloadRaises
<1>23. CASE Arbitrate
  <2>1. zeek' \in Seq({row \in Row : row.host \notin LocalHosts \ {Unknown}})
    BY <1>23, ArbitratedRows DEF Arbitrate
  <2>2. zeek' \in Seq(Row) /\ \A k \in DOMAIN zeek' : zeek'[k].host \notin LocalHosts \ {Unknown}
    BY <2>1
  <2>3. mode = "prepared" => \A f \in indexed : HostsOf(InWindow(archive[f])) \subseteq LocalHosts
    BY DEF LocalHosts
  <2>4. FeedsDoNotOverlap'
    BY <1>23, <2>2, <2>3 DEF Arbitrate
  <2>5. FactsFit' /\ WarningsFit'
    BY <1>23 DEF Arbitrate
  <2>6. PlaceFits'
    BY <1>23 DEF Arbitrate
  <2>7. DispositionFits'
    BY <1>23 DEF Arbitrate
  <2> HIDE DEF PlaceFits, DispositionFits, FactsFit, WarningsFit, FeedsDoNotOverlap
  <2> QED
    BY <2>2, <2>4, <2>5, <2>6, <2>7
<1>24. CASE FinishRaises
  BY <1>24 DEF FinishRaises, Disposition
<1>25. CASE Finish
  BY <1>25 DEF Finish
<1>26. CASE Detect
  BY <1>26 DEF Detect
<1>27. CASE Over
  BY <1>27 DEF Over, vars
<1>28. CASE UNCHANGED vars
  BY <1>28 DEF vars
<1> QED
  BY <1>1, <1>2, <1>3, <1>4, <1>5, <1>6, <1>7, <1>8, <1>9, <1>10, <1>11, <1>12, <1>13, <1>14, <1>15, <1>16, <1>17, <1>18, <1>19, <1>20, <1>21, <1>22, <1>23, <1>24, <1>25, <1>26, <1>27, <1>28 DEF Next

(* PrepInv is an invariant of every preparation.                           *)
THEOREM PreparationInvariant == Spec => []PrepInv
<1> QED
  BY PrepStart, PrepKeeps, PTL DEF Spec

(* syslog_preparation.py: when the population is given to the detector     *)
(* both passes had the same files, with an assignment for every row; the   *)
(* Zeek rows are of hosts none of those files has, although they were      *)
(* never loaded in full; and a detector that does not get its population   *)
(* says so exactly once.                                                   *)
THEOREM PreparedPopulationIsWhole == Spec => []PopulationIsWhole
<1>1. PrepInv => PassesAgree
  BY DEF PrepInv, PlaceFits, FactsFit, PassesAgree, Scoring
<1>2. PrepInv => OneDisposition
  <2> SUFFICES ASSUME PrepInv PROVE OneDisposition
    OBVIOUS
  <2>1. Len(notes) + (IF failed THEN 1 ELSE 0) =
            IF declined \in {"no", "ineligible"} THEN 0 ELSE 1
    <3>1. notes = <<>> \/ notes = <<declined>>
      BY DEF PrepInv, DispositionFits
    <3>2. Len(<<>>) = 0 /\ Len(<<declined>>) = 1
      OBVIOUS
    <3> QED
      BY <3>1, <3>2 DEF PrepInv, DispositionFits
  <2>2. pc = "done" => /\ failed <=> ~ report.made
                       /\ mode = "ordinary" => declined # "no"
                       /\ declined = "ineligible" => index = "ready" /\ admission = "ready"
    BY DEF PrepInv, DispositionFits, Scoring
  <2> QED
    BY <2>1, <2>2 DEF OneDisposition
<1>3. PrepInv => PopulationIsWhole
  BY <1>1, <1>2 DEF PrepInv, PopulationIsWhole, FeedsAgree
<1> QED
  BY <1>3, PreparationInvariant, PTL

(* _recover_populations: giving the population up after the final load     *)
(* leaves nothing of the prepared pass in the load, and takes nothing of   *)
(* what the other pattern warned of.                                       *)
THEOREM RecoveryIsOfOnePattern == Spec => RecoveryReplacesOnePattern
<1> DEFINE Step == mode = "prepared" /\ mode' = "ordinary" =>
                     /\ frame' = <<>> /\ channels' = {} /\ committed' = {}
                     /\ \A w \in warnings' : w[2] # "admit"
                     /\ {w \in warnings' : w[1] = "zeek"} = {w \in warnings : w[1] = "zeek"}
<1>1. PrepInv /\ [Next]_vars => [Step]_vars
  <2> SUFFICES ASSUME PrepInv, Next, mode = "prepared", mode' = "ordinary" PROVE Step
    BY DEF vars
  <2>1. Recover
    BY DEF Next, ConfigInvalid, Ineligible, PrepareRaises, BeginIndex, SeedFile, Consume, CommitFile,
           AbortFile, IndexOut, IndexDone, IndexUnusable, Register, AdmitFile, AdmitAborts,
           AdmissionFails, SnapshotChanged, CoverageOut, AdmitDone, OrdinaryLoad, KeepPopulation,
           ReloadRaises, Arbitrate, FinishRaises, Finish, Detect, Over, vars, planVars
  <2>2. PICK bad \in SUBSET Files : Replaced(bad)
    BY <2>1 DEF Recover
  <2>3. \A w \in Unread(bad, "reload") : w[1] = "local" /\ w[2] = "reload"
    BY DEF Unread
  <2>4. \A w \in warnings : w[1] # "local" => w[2] = "load"
    BY DEF PrepInv, WarningsFit, ZeekWarnings
  <2>5. warnings' = {w \in warnings : w[1] # "local"} \cup Unread(bad, "reload")
    BY <2>2 DEF Replaced
  <2> QED
    BY <2>2, <2>3, <2>4, <2>5 DEF Replaced
<1> QED
  BY <1>1, PreparationInvariant, PTL DEF Spec, RecoveryReplacesOnePattern
=============================================================================
