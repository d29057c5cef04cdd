---------------------- MODULE RecursivePartition_proofs ----------------------
(***************************************************************************)
(* That a file has one owner, whatever the tree, its links, the contents   *)
(* and the inputs.  The index holds no more than its walks have met        *)
(* (IndexInv); the best-ranked admission of a file is one, so the names of *)
(* a file agree on the winner (FinalOutcomes); and a directory that a      *)
(* dated root owns is either read by it or stated (DatedRootsAreOutermost, *)
(* ZeekFilesAreReadOrStated).                                              *)
(***************************************************************************)
EXTENDS RecursivePartition, WellFoundedInduction, TLAPS

-----------------------------------------------------------------------------
(* Numbers and recursion *)

(* A nonempty set of numbers has a least one.                              *)
LEMMA LeastNumber ==
    ASSUME NEW T, T \subseteq Nat, T # {}
    PROVE  \E x \in T : \A y \in T : x <= y
<1>1. PICK x \in T : \A y \in T : ~ (<<y, x>> \in OpToRel(<, Nat))
  BY NatLessThanWellFounded, WFMin, Zenon
<1>2. \A y \in T : ~ (y < x)
  BY <1>1 DEF OpToRel
<1> QED
  BY <1>2

(* What holds at zero and goes on holding holds throughout.                *)
LEMMA Induction ==
    ASSUME NEW N \in Nat, NEW S, 0 \in S, \A m \in 1..N : m - 1 \in S => m \in S
    PROVE  \A m \in 0..N : m \in S
<1> DEFINE T == {m \in 0..N : m \notin S}
<1>1. T \subseteq Nat
  OBVIOUS
<1>2. SUFFICES ASSUME T # {} PROVE FALSE
  OBVIOUS
<1>3. PICK x \in T : \A y \in T : x <= y
  <2> HIDE DEF T
  <2> QED
    BY <1>1, <1>2, LeastNumber
<1>4. x \in 1..N /\ x - 1 \in 0..N /\ x \notin S
  BY <1>3
<1>5. x - 1 \in S
  BY <1>3, <1>4
<1> QED
  BY <1>4, <1>5

(* A function that calls itself on smaller numbers only is defined.        *)
CallsSmaller(F, D, V) ==
    \A d \in D : \A g \in [D -> V] :
        /\ F[d][g] \in V
        /\ \A h \in [D -> V] : (\A e \in D : e < d => g[e] = h[e]) => F[d][g] = F[d][h]

Solves(g, F, D) == \A d \in D : g[d] = F[d][g]

LEMMA Recursion ==
    ASSUME NEW N \in Nat, NEW D, D \subseteq 0..N, NEW V, NEW F, V # {}, CallsSmaller(F, D, V)
    PROVE  \E g \in [D -> V] : Solves(g, F, D)
<1> USE DEF CallsSmaller, Solves
<1> DEFINE UpTo(m, g) == \A d \in D : d < m => g[d] = F[d][g]
           S == {m \in 0..(N + 1) : \E g \in [D -> V] : UpTo(m, g)}
<1>1. 0 \in S
  <2>1. PICK v \in V : TRUE
    OBVIOUS
  <2>2. [d \in D |-> v] \in [D -> V] /\ UpTo(0, [d \in D |-> v])
    OBVIOUS
  <2> HIDE DEF UpTo
  <2>3. 0 \in 0..(N + 1)
    OBVIOUS
  <2> QED
    BY <2>2, <2>3
<1>2. ASSUME NEW m \in 1..(N + 1), m - 1 \in S
      PROVE  m \in S
  <2>1. PICK g \in [D -> V] : UpTo(m - 1, g)
    BY <1>2
  <2> DEFINE h == [d \in D |-> IF d = m - 1 THEN F[d][g] ELSE g[d]]
  <2>2. h \in [D -> V]
    OBVIOUS
  <2>3. \A d \in D : h[d] = IF d = m - 1 THEN F[d][g] ELSE g[d]
    OBVIOUS
  <2> HIDE DEF h
  <2>4. ASSUME NEW d \in D, d < m
        PROVE  h[d] = F[d][h]
    <3>1. \A e \in D : e < d => g[e] = h[e]
      BY <2>3, <2>4
    <3>2. F[d][g] = F[d][h]
      BY <2>2, <3>1
    <3>3. h[d] = F[d][g]
      BY <2>1, <2>3, <2>4
    <3> QED
      BY <3>2, <3>3
  <2>5. UpTo(m, h)
    BY <2>4
  <2> HIDE DEF UpTo
  <2> QED
    BY <2>2, <2>5
<1> HIDE DEF S
<1>3. \A m \in 0..(N + 1) : m \in S
  <2>1. N + 1 \in Nat
    OBVIOUS
  <2> QED
    BY <1>1, <1>2, <2>1, Induction
<1>4. N + 1 \in S
  BY <1>3
<1>5. PICK g \in [D -> V] : UpTo(N + 1, g)
  BY <1>4 DEF S
<1>6. \A d \in 0..N : d < N + 1
  OBVIOUS
<1> QED
  BY <1>5, <1>6

-----------------------------------------------------------------------------
(* The tree *)

LEMMA TreeOfScene ==
    ASSUME scene \in Scenes
    PROVE  /\ Len(scene.parent) \in Nat /\ Dirs = 1..Len(scene.parent)
           /\ \A d \in Dirs : scene.parent[d] \in 1..d /\ scene.parent[d] \in Dirs
<1>1. scene.parent \in Seq(Nat) /\ \A d \in DOMAIN scene.parent : scene.parent[d] \in 1..d
  BY PartitionAssumption
<1> QED
  BY <1>1 DEF Dirs

(* A directory's lineage starts with itself.                               *)
LEMMA LineageOf ==
    ASSUME scene \in Scenes
    PROVE  \A d \in Dirs : Lineage[d] \subseteq Dirs /\ d \in Lineage[d]
<1> DEFINE P == scene.parent
           V == SUBSET Dirs
           Body(d, g) == IF P[d] = d THEN {d} ELSE {d} \cup g[P[d]]
           F == [d \in Dirs |-> [g \in [Dirs -> V] |-> Body(d, g)]]
           N == Len(P)
<1>1. N \in Nat /\ Dirs = 1..N /\ \A d \in Dirs : P[d] \in 1..d /\ P[d] \in Dirs
  BY TreeOfScene
<1>2. \A d \in Dirs : \A g \in [Dirs -> V] : F[d][g] = Body(d, g)
  OBVIOUS
<1>3. \A d \in Dirs : \A g \in [Dirs -> V] : Body(d, g) \in V
  BY <1>1
<1>4. \A d \in Dirs : \A g, h \in [Dirs -> V] :
          (\A e \in Dirs : e < d => g[e] = h[e]) => Body(d, g) = Body(d, h)
  <2> SUFFICES ASSUME NEW d \in Dirs, NEW g \in [Dirs -> V], NEW h \in [Dirs -> V],
                      \A e \in Dirs : e < d => g[e] = h[e], P[d] # d
               PROVE  g[P[d]] = h[P[d]]
    OBVIOUS
  <2>1. P[d] < d
    BY <1>1
  <2> QED
    BY <1>1, <2>1
<1>5. V # {} /\ Dirs \subseteq 0..N
  <2>1. {} \in V
    OBVIOUS
  <2>2. Dirs \subseteq 0..N
    BY <1>1
  <2> QED
    BY <2>1, <2>2
<1>6. PICK g \in [Dirs -> V] : \A d \in Dirs : g[d] = Body(d, g)
  <2> HIDE DEF F, V, N, Body
  <2>1. CallsSmaller(F, Dirs, V)
    BY <1>2, <1>3, <1>4 DEF CallsSmaller
  <2>2. \E g \in [Dirs -> V] : Solves(g, F, Dirs)
    BY <1>1, <1>5, <2>1, Recursion
  <2> QED
    BY <1>2, <2>2 DEF Solves
<1> DEFINE Is(x) == x = [d \in Dirs |-> Body(d, x)]
<1>7. Is(g)
  BY <1>6
<1>8. Is(Lineage)
  <2>1. Lineage = CHOOSE x : Is(x)
    BY DEF Lineage
  <2> HIDE DEF Is
  <2> QED
    BY <1>7, <2>1
<1>9. \A d \in Dirs : Lineage[d] = Body(d, Lineage)
  BY <1>8
<1> DEFINE S == {m \in 0..N : \A d \in Dirs : d <= m => Lineage[d] \subseteq Dirs /\ d \in Lineage[d]}
<1>10. 0 \in S
  BY <1>1
<1>11. ASSUME NEW m \in 1..N, m - 1 \in S
       PROVE  m \in S
  <2>1. m \in Dirs /\ Lineage[m] = Body(m, Lineage)
    BY <1>1, <1>9
  <2>2. P[m] # m => P[m] <= m - 1 /\ P[m] \in Dirs
    BY <1>1, <2>1
  <2>3. P[m] # m => Lineage[P[m]] \subseteq Dirs
    BY <1>11, <2>2
  <2>4. Lineage[m] \subseteq Dirs /\ m \in Lineage[m]
    BY <2>1, <2>3
  <2> QED
    BY <1>1, <1>11, <2>4
<1>12. \A m \in 0..N : m \in S
  <2> HIDE DEF S, N
  <2> QED
    BY <1>1, <1>10, <1>11, Induction
<1>13. N \in S
  BY <1>1, <1>12
<1> QED
  BY <1>1, <1>13

(* A walk lists its root, or nothing.                                      *)
LEMMA WalkListsItsRoot ==
    ASSUME scene \in Scenes, NEW r, NEW d \in Walk(r)
    PROVE  d \in Dirs /\ r.dir \notin scene.unlisted
<1>1. d \in Dirs /\ r.dir \in Lineage[d]
         /\ \A e \in Lineage[d] : r.dir \in Lineage[e] => e \notin scene.unlisted
  BY DEF Walk, Listed, Within
<1>2. r.dir \in Dirs /\ r.dir \in Lineage[r.dir]
  BY <1>1, LineageOf
<1> QED
  BY <1>1, <1>2

(* The dated roots are walked, and none is inside what one before it owns. *)
LEMMA DatedRootsAreOutermost ==
    ASSUME scene \in Scenes
    PROVE  /\ DatedRoots \subseteq Walked
           /\ \A d \in DatedRoots : ~ OwnedBy(d, {e \in DatedRoots : e < d})
<1> DEFINE N == Len(scene.parent)
           V == SUBSET Walked
           Next1(d, s) == d \in Walked /\ HasDateChild(d) /\ ~ OwnedBy(d, s)
           Body(d, g) == IF d = 0 THEN {} ELSE g[d - 1] \cup IF Next1(d, g[d - 1]) THEN {d} ELSE {}
           D == 0..N
           F == [d \in D |-> [g \in [D -> V] |-> Body(d, g)]]
           Is(x) == x = [d \in D |-> Body(d, x)]
<1>1. N \in Nat /\ Dirs = 1..N
  BY TreeOfScene
<1>2. \A d \in D : \A g \in [D -> V] : F[d][g] = Body(d, g)
  OBVIOUS
<1>3. \A d \in D : \A g \in [D -> V] : Body(d, g) \in V
  <2> SUFFICES ASSUME NEW d \in D, NEW g \in [D -> V] PROVE Body(d, g) \in V
    OBVIOUS
  <2>1. CASE d = 0
    BY <2>1
  <2>2. CASE d # 0
    <3>1. d - 1 \in D
      BY <1>1, <2>2
    <3>2. g[d - 1] \subseteq Walked
      BY <3>1
    <3>3. (IF Next1(d, g[d - 1]) THEN {d} ELSE {}) \subseteq Walked
      OBVIOUS
    <3> HIDE DEF Next1
    <3> QED
      BY <2>2, <3>2, <3>3
  <2> QED
    BY <2>1, <2>2
<1>4. \A d \in D : \A g, h \in [D -> V] :
          (\A e \in D : e < d => g[e] = h[e]) => Body(d, g) = Body(d, h)
  <2> SUFFICES ASSUME NEW d \in D, NEW g \in [D -> V], NEW h \in [D -> V],
                      \A e \in D : e < d => g[e] = h[e]
               PROVE  Body(d, g) = Body(d, h)
    OBVIOUS
  <2>1. d # 0 => d - 1 \in D /\ d - 1 < d
    BY <1>1
  <2>2. d # 0 => g[d - 1] = h[d - 1]
    BY <2>1
  <2> HIDE DEF Next1
  <2> QED
    BY <2>2
<1>5. V # {} /\ D \subseteq 0..N
  BY <1>1
<1>6. PICK g \in [D -> V] : \A d \in D : g[d] = Body(d, g)
  <2> HIDE DEF F, V, D, N, Body
  <2>1. CallsSmaller(F, D, V)
    BY <1>2, <1>3, <1>4 DEF CallsSmaller
  <2>2. \E g \in [D -> V] : Solves(g, F, D)
    BY <1>1, <1>5, <2>1, Recursion
  <2> QED
    BY <1>2, <2>2 DEF Solves
<1>7. Is(g)
  BY <1>6
<1>8. Is(DatedUpTo)
  <2>1. DatedUpTo = CHOOSE x : Is(x)
    BY DEF DatedUpTo
  <2> HIDE DEF Is
  <2> QED
    BY <1>7, <2>1
<1> HIDE DEF Next1
<1>9. \A d \in D : DatedUpTo[d] = Body(d, DatedUpTo)
  BY <1>8
<1> DEFINE Outermost(s) == \A d \in s : ~ OwnedBy(d, {e \in s : e < d})
           S == {m \in D : DatedUpTo[m] \subseteq Walked \cap 1..m /\ Outermost(DatedUpTo[m])}
<1>10. 0 \in S
  <2>1. 0 \in D
    BY <1>1
  <2>2. DatedUpTo[0] = {}
    BY <1>9, <2>1
  <2> QED
    BY <2>1, <2>2
<1>11. ASSUME NEW m \in 1..N, m - 1 \in S
       PROVE  m \in S
  <2> DEFINE before == DatedUpTo[m - 1]
  <2>1. m \in D /\ m \in Nat /\ m # 0
    BY <1>1
  <2>2. DatedUpTo[m] = before \cup IF Next1(m, before) THEN {m} ELSE {}
    BY <1>9, <2>1
  <2>3. before \subseteq Walked \cap 1..(m - 1) /\ Outermost(before)
    BY <1>11
  <2> HIDE DEF before
  <2>4. CASE ~ Next1(m, before)
    <3>1. DatedUpTo[m] = before
      BY <2>2, <2>4
    <3> HIDE DEF Outermost
    <3> QED
      BY <2>1, <2>3, <3>1
  <2>5. CASE Next1(m, before)
    <3>1. DatedUpTo[m] = before \cup {m} /\ m \in Walked /\ ~ OwnedBy(m, before)
      BY <2>2, <2>5 DEF Next1
    <3>2. \A d \in before : {e \in before \cup {m} : e < d} = {e \in before : e < d}
      BY <2>1, <2>3
    <3>3. {e \in before \cup {m} : e < m} = before
      BY <2>1, <2>3
    <3>4. \A d \in before : ~ OwnedBy(d, {e \in before : e < d})
      BY <2>3
    <3>5. Outermost(DatedUpTo[m])
      BY <3>1, <3>2, <3>3, <3>4
    <3>6. before \cup {m} \subseteq Walked \cap 1..m
      BY <2>1, <2>3, <3>1
    <3> HIDE DEF Outermost
    <3> QED
      BY <2>1, <3>1, <3>5, <3>6
  <2> QED
    BY <2>4, <2>5
<1>12. \A m \in 0..N : m \in S
  <2> HIDE DEF S, N
  <2> QED
    BY <1>1, <1>10, <1>11, Induction
<1>13. N \in S
  BY <1>1, <1>12
<1> QED
  BY <1>13 DEF DatedRoots

-----------------------------------------------------------------------------
(* The gates *)
FamilyNames == {"zeek_dir", "syslog_dir", "pihole_dir", "cloudtrail_dir"}

(* A gate admits for a family the run reads, and for Zeek by the name.     *)
LEMMA AdmissionFits ==
    ASSUME NEW f
    PROVE  LET a == Admission(f)
           IN  /\ a.kind # "supplied"
               /\ a.kind = "admitted" =>
                     /\ a.family \in FamilyNames \cap Permitted /\ a.stage \in 0..2
                     /\ a = [kind |-> "admitted", family |-> a.family, stage |-> a.stage]
                     /\ a.family = "zeek_dir" => Gate("zeek_dir", f, FALSE) = "admit"
<1>1. {Families[i] : i \in 1..4} = FamilyNames
  BY DEF Families, FamilyNames
<1>2. Gate("zeek_dir", f, TRUE) = "admit" => Gate("zeek_dir", f, FALSE) = "admit"
  BY DEF Gate
<1> DEFINE a == Admission(f)
           origin == ContentOf(f).sniff
           Fits == /\ a.family \in FamilyNames \cap Permitted /\ a.stage \in 0..2
                   /\ a = [kind |-> "admitted", family |-> a.family, stage |-> a.stage]
                   /\ a.family = "zeek_dir" => Gate("zeek_dir", f, FALSE) = "admit"
<1>3. \/ a.kind \notin {"admitted", "supplied"}
      \/ /\ a = Outcome("admitted", origin, 0) /\ origin \in FamilyNames \cap Permitted
         /\ Gate(origin, f, TRUE) = "admit"
      \/ /\ a = Outcome("admitted", "zeek_dir", 1) /\ "zeek_dir" \in Permitted
         /\ Gate("zeek_dir", f, FALSE) = "admit"
      \/ a = Outcome("admitted", "syslog_dir", 2) /\ "syslog_dir" \in Permitted
  BY <1>1 DEF Admission, Outcome
<1> HIDE DEF a, origin
<1>4. ASSUME NEW family, NEW stage \in 0..2, a = Outcome("admitted", family, stage),
             family \in FamilyNames \cap Permitted,
             family = "zeek_dir" => Gate("zeek_dir", f, FALSE) = "admit"
      PROVE  a.kind # "supplied" /\ Fits
  BY <1>4 DEF Outcome
<1> HIDE DEF Fits
<1>5. a.kind # "supplied" /\ (a.kind = "admitted" => Fits)
  <2>1. CASE a.kind \notin {"admitted", "supplied"}
    BY <2>1
  <2>2. CASE /\ a = Outcome("admitted", origin, 0) /\ origin \in FamilyNames \cap Permitted
             /\ Gate(origin, f, TRUE) = "admit"
    <3>1. 0 \in 0..2
      OBVIOUS
    <3> QED
      BY <1>2, <1>4, <2>2, <3>1
  <2>3. CASE /\ a = Outcome("admitted", "zeek_dir", 1) /\ "zeek_dir" \in Permitted
             /\ Gate("zeek_dir", f, FALSE) = "admit"
    <3>1. 1 \in 0..2
      OBVIOUS
    <3> QED
      BY <1>4, <2>3, <3>1 DEF FamilyNames
  <2>4. CASE a = Outcome("admitted", "syslog_dir", 2) /\ "syslog_dir" \in Permitted
    <3>1. 2 \in 0..2 /\ "syslog_dir" # "zeek_dir"
      OBVIOUS
    <3>2. "syslog_dir" \in FamilyNames \cap Permitted
      BY <2>4 DEF FamilyNames
    <3> QED
      BY <1>4, <2>4, <3>1, <3>2, Zenon
  <2> QED
    BY <1>3, <2>1, <2>2, <2>3, <2>4
<1> QED
  BY <1>5 DEF a, Fits

(* An admission has a rank, and admissions of one rank are of one family.  *)
LEMMA RankOfAdmission ==
    ASSUME NEW n, Eligible(n)
    PROVE  Rank(n) \in Nat
<1>1. /\ Admission(n.file).family \in FamilyNames /\ Admission(n.file).stage \in 0..2
  BY AdmissionFits DEF Eligible
<1>2. \E i \in 1..4 : Families[i] = Admission(n.file).family
  BY <1>1 DEF Families, FamilyNames
<1>3. Place(Admission(n.file).family) \in 1..4
  BY <1>2 DEF Place
<1> QED
  BY <1>1, <1>3 DEF Rank

(* The best-ranked admission is one of those of the file.                  *)
LEMMA BestIsOneOfThem ==
    ASSUME NEW same, same # {}, \A m \in same : Eligible(m)
    PROVE  Best(same) \in same
<1> DEFINE T == {Rank(m) : m \in same}
<1>1. T \subseteq Nat /\ T # {}
  BY RankOfAdmission
<1>2. PICK x \in T : \A y \in T : x <= y
  <2> HIDE DEF T
  <2> QED
    BY <1>1, LeastNumber
<1>3. PICK m \in same : x = Rank(m)
  BY <1>2
<1>4. \A o \in same : Rank(m) <= Rank(o)
  BY <1>2, <1>3
<1> QED
  BY <1>3, <1>4 DEF Best

(* What the index says of a name in the end.                               *)
LEMMA FinalOutcomes ==
    ASSUME NEW all, final = Finalize(all)
    PROVE  /\ DOMAIN final = all
           /\ \A n \in all :
                 /\ final[n].kind = "admitted" =>
                       /\ final[n] = Admission(n.file)
                       /\ SameFile(n, all) # {} => Eligible(n) /\ final[n].family = Winner(SameFile(n, all))
                 /\ final[n].kind = "supplied" =>
                       SameFile(n, all) # {} \/ n.file.phys \in supplied
                 /\ SameFile(n, all) # {} =>
                       \E o \in all : /\ o.file.phys = n.file.phys /\ Eligible(o)
                                      /\ final[o] = Admission(o.file)
<1>1. DOMAIN final = all
  BY DEF Finalize
<1>2. \A n \in all :
          final[n] = IF SameFile(n, all) # {}
                     THEN IF Eligible(n) /\ Admission(n.file).family = Winner(SameFile(n, all))
                          THEN Admission(n.file)
                          ELSE Outcome("supplied", Winner(SameFile(n, all)), 9)
                     ELSE IF n.file.phys \in supplied THEN Outcome("supplied", "none", 9)
                     ELSE Admission(n.file)
  BY DEF Finalize
<1>3. ASSUME NEW n \in all
      PROVE  /\ final[n].kind = "admitted" =>
                   /\ final[n] = Admission(n.file)
                   /\ SameFile(n, all) # {} => Eligible(n) /\ final[n].family = Winner(SameFile(n, all))
             /\ final[n].kind = "supplied" =>
                   SameFile(n, all) # {} \/ n.file.phys \in supplied
  <2>1. \A w : Outcome("supplied", w, 9).kind = "supplied"
    BY DEF Outcome
  <2>2. Admission(n.file).kind # "supplied"
    BY AdmissionFits
  <2> QED
    BY <1>2, <2>1, <2>2
<1>4. ASSUME NEW n \in all, SameFile(n, all) # {}
      PROVE  \E o \in all : /\ o.file.phys = n.file.phys /\ Eligible(o)
                            /\ final[o] = Admission(o.file)
  <2>1. \A m \in SameFile(n, all) : Eligible(m) /\ m \in all /\ m.file.phys = n.file.phys
    BY DEF SameFile
  <2>2. Best(SameFile(n, all)) \in SameFile(n, all)
    BY <1>4, <2>1, BestIsOneOfThem
  <2> DEFINE o == Best(SameFile(n, all))
  <2>3. SameFile(o, all) = SameFile(n, all)
    BY <2>1, <2>2 DEF SameFile
  <2>4. Winner(SameFile(o, all)) = Admission(o.file).family
    BY <2>3 DEF Winner
  <2>5. final[o] = Admission(o.file)
    BY <1>2, <1>4, <2>1, <2>2, <2>3, <2>4
  <2> QED
    BY <2>1, <2>2, <2>5
<1> QED
  BY <1>1, <1>3, <1>4

-----------------------------------------------------------------------------
(***************************************************************************)
(* The index.  Its names are those its walks met, its supplies those of    *)
(* the inputs it has met, and once it is closed its outcomes and its       *)
(* layout are those of all of them.                                        *)
(***************************************************************************)
Registrable ==
    {r \in scene.inputs :
        r.mode = "partition" \/ (r.mode = "declared" /\ r.family \in Permitted)}
Met == UNION {{[file |-> f, linked |-> FALSE] : f \in FilesIn(Walk(r))} :
              r \in {q \in RootSet : q.mode = "partition"}}
ZeekIsRead == "zeek_dir" \in Permitted
AllNames == Met \cup IF ZeekIsRead THEN LinkedNames(DatedRoots) ELSE {}

NamesAreMet ==
    /\ scene \in Scenes /\ pending \subseteq scene.inputs /\ roots \in Seq(Registrable)
    /\ ~ closed => names = Met

SuppliesAreKnown ==
    \A p \in supplied :
        \/ \E r \in RootSet : r.mode = "declared" /\ \E f \in DeclaredFiles(r) : f.phys = p
        \/ \E i \in scene.inputs :
              i.mode = "file" /\ i.readable /\ i.family \in Permitted /\ i.phys = p

ClosedIsFinal ==
    closed =>
        /\ pending = {} /\ names = AllNames /\ final = Finalize(AllNames)
        /\ layout = IF ZeekIsRead THEN Layout(DatedRoots, final) ELSE NoLayout

IndexInv == closed \in BOOLEAN /\ NamesAreMet /\ SuppliesAreKnown /\ ClosedIsFinal

(* What is computed from the tree and the roots changes with them only.    *)
LEMMA SameTree ==
    ASSUME scene' = scene
    PROVE  /\ Dirs' = Dirs /\ Lineage' = Lineage /\ Permitted' = Permitted
           /\ \A r : Walk(r)' = Walk(r)
           /\ \A ds : FilesIn(ds)' = FilesIn(ds)
           /\ \A d : Children(d)' = Children(d) /\ (HasDateChild(d)' <=> HasDateChild(d))
           /\ \A d, owners : OwnedBy(d, owners)' <=> OwnedBy(d, owners)
           /\ \A k, f, sniffed : Gate(k, f, sniffed)' = Gate(k, f, sniffed)
<1>1. Dirs' = Dirs /\ Permitted' = Permitted
  BY DEF Dirs, Permitted
<1>2. Lineage' = Lineage
  BY DEF Lineage, Dirs
<1>3. \A r : Walk(r)' = Walk(r)
  BY <1>1, <1>2 DEF Walk, Listed, Within
<1>4. \A ds : FilesIn(ds)' = FilesIn(ds)
  BY DEF FilesIn
<1>5. \A d : Children(d)' = Children(d)
  BY <1>1 DEF Children
<1>6. \A d : HasDateChild(d)' <=> HasDateChild(d)
  BY DEF HasDateChild
<1>7. \A d, owners : OwnedBy(d, owners)' <=> OwnedBy(d, owners)
  BY <1>2, <1>5 DEF OwnedBy, Within
<1>8. \A k, f, sniffed : Gate(k, f, sniffed)' = Gate(k, f, sniffed)
  BY DEF Gate, ContentOf
<1> QED
  BY <1>1, <1>2, <1>3, <1>4, <1>5, <1>6, <1>7, <1>8

LEMMA SameAdmissions ==
    ASSUME scene' = scene
    PROVE  /\ \A f : Admission(f)' = Admission(f)
           /\ \A n : (Eligible(n)' <=> Eligible(n)) /\ Rank(n)' = Rank(n)
           /\ \A n, all : SameFile(n, all)' = SameFile(n, all)
           /\ \A same : Winner(same)' = Winner(same)
<1>1. \A f : Admission(f)' = Admission(f)
  BY DEF Admission, Gate, ContentOf, Permitted
<1>2. \A n : (Eligible(n)' <=> Eligible(n)) /\ Rank(n)' = Rank(n)
  BY <1>1 DEF Eligible, Rank
<1>3. \A n, all : SameFile(n, all)' = SameFile(n, all)
  BY <1>2 DEF SameFile
<1>4. \A same : Winner(same)' = Winner(same)
  <2>1. \A same : Best(same)' = Best(same)
    BY <1>2 DEF Best
  <2> QED
    BY <1>1, <2>1 DEF Winner
<1> QED
  BY <1>1, <1>2, <1>3, <1>4

LEMMA SameRoots ==
    ASSUME scene' = scene, roots' = roots
    PROVE  /\ RootSet' = RootSet /\ ZeekRoots' = ZeekRoots /\ Walked' = Walked
           /\ DatedRoots' = DatedRoots /\ Registrable' = Registrable
           /\ Met' = Met /\ AllNames' = AllNames /\ (ZeekIsRead' <=> ZeekIsRead)
<1>1. RootSet' = RootSet /\ ZeekRoots' = ZeekRoots
  BY DEF RootSet, ZeekRoots
<1>2. \A r : Walk(r)' = Walk(r)
  BY SameTree
<1>3. Walked' = Walked
  BY <1>1, <1>2 DEF Walked
<1>4. DatedRoots' = DatedRoots
  <2>1. DatedUpTo' = DatedUpTo
    BY <1>3, SameTree DEF DatedUpTo
  <2> QED
    BY <2>1 DEF DatedRoots
<1>5. (ZeekIsRead' <=> ZeekIsRead) /\ Registrable' = Registrable
  BY SameTree DEF ZeekIsRead, Registrable
<1>6. Met' = Met
  BY <1>1, <1>2, SameTree DEF Met
<1>7. LinkedNames(DatedRoots)' = LinkedNames(DatedRoots)
  BY <1>1, <1>3, <1>4, SameTree DEF LinkedNames, LinkedChildren
<1>8. AllNames' = AllNames
  BY <1>5, <1>6, <1>7 DEF AllNames
<1> QED
  BY <1>1, <1>3, <1>4, <1>5, <1>6, <1>8

(* The outcomes and the layout, in terms of the index as it is and of it   *)
(* as it will be.                                                          *)
LEMMA SameConclusions ==
    ASSUME scene' = scene, roots' = roots, supplied' = supplied
    PROVE  /\ Finalize(AllNames)' = Finalize(AllNames)
           /\ \A o : o = final' => Layout(DatedRoots, final)' = Layout(DatedRoots, o)
<1>1. AllNames' = AllNames /\ DatedRoots' = DatedRoots /\ Walked' = Walked /\ ZeekRoots' = ZeekRoots
  BY SameRoots
<1>2. Finalize(AllNames)' = Finalize(AllNames)
  BY <1>1, SameAdmissions DEF Finalize
<1>3. ASSUME NEW o, o = final' PROVE Layout(DatedRoots, final)' = Layout(DatedRoots, o)
  <2>1. \A f, k : GivenTo(f, k, final)' <=> GivenTo(f, k, o)
    BY <1>3 DEF GivenTo
  <2>2. \A f : ZeekAdmissible(f, final)' <=> ZeekAdmissible(f, o)
    BY <1>1, <2>1, SameTree DEF ZeekAdmissible
  <2>3. \A d : Held(d, final)' = Held(d, o)
    BY <2>2, SameTree DEF Held
  <2>4. Owned(DatedRoots)' = Owned(DatedRoots) /\ ReadBelow(DatedRoots)' = ReadBelow(DatedRoots)
    BY <1>1, SameTree DEF Owned, ReadBelow
  <2> DEFINE Outside == Walked \ (Owned(DatedRoots) \cup DatedRoots)
             Beneath == DatedRoots \cup (Owned(DatedRoots) \ ReadBelow(DatedRoots))
  <2>5. Outside' = Outside /\ Beneath' = Beneath
    BY <1>1, <2>4
  <2> HIDE DEF Outside, Beneath
  <2>6. {d \in Outside : Held(d, final) # {}}' = {d \in Outside : Held(d, o) # {}}
    BY <2>3, <2>5
  <2>7. (UNION {Held(d, final) : d \in Beneath})' = UNION {Held(d, o) : d \in Beneath}
    BY <2>3, <2>5
  <2> QED
    BY <1>1, <2>6, <2>7 DEF Layout, Outside, Beneath
<1> QED
  BY <1>2, <1>3

LEMMA IndexStarts == PartInit => IndexInv
<1> SUFFICES ASSUME PartInit PROVE IndexInv
  OBVIOUS
<1>1. RootSet = {}
  BY DEF PartInit, RootSet
<1>2. Met = {}
  BY <1>1 DEF Met
<1>3. NamesAreMet
  BY <1>2 DEF PartInit, NamesAreMet
<1>4. SuppliesAreKnown /\ ClosedIsFinal /\ closed \in BOOLEAN
  BY DEF PartInit, SuppliesAreKnown, ClosedIsFinal
<1> QED
  BY <1>3, <1>4 DEF IndexInv

(* One more root: its names are met, or its files supplied.                *)
LEMMA RegisterRootKeeps ==
    ASSUME IndexInv, NEW root \in pending, RegisterRoot(root)
    PROVE  IndexInv'
<1> USE DEF IndexInv
<1>1. scene' = scene /\ closed' = closed /\ ~ closed /\ root \in scene.inputs
         /\ pending' \subseteq scene.inputs /\ scene \in Scenes
  BY DEF RegisterRoot, ClosedIsFinal, NamesAreMet
<1>2. ClosedIsFinal'
  BY <1>1 DEF ClosedIsFinal
<1>3. Registrable' = Registrable
  BY <1>1, SameTree DEF Registrable
<1>4. \A r : Walk(r)' = Walk(r) /\ DeclaredFiles(r)' = DeclaredFiles(r)
  BY <1>1, SameTree DEF DeclaredFiles
<1>5. CASE root.mode = "declared" /\ root.family \notin Permitted
  <2>1. roots' = roots /\ names' = names /\ supplied' = supplied
    BY <1>5 DEF RegisterRoot
  <2>2. RootSet' = RootSet /\ Met' = Met
    BY <1>1, <2>1, SameRoots
  <2>3. NamesAreMet'
    BY <1>1, <1>3, <2>1, <2>2 DEF NamesAreMet
  <2>4. SuppliesAreKnown'
    BY <1>1, <1>4, <2>1, <2>2, SameTree DEF SuppliesAreKnown
  <2> QED
    BY <1>1, <1>2, <2>3, <2>4
<1>6. CASE ~ (root.mode = "declared" /\ root.family \notin Permitted)
  <2>0. root \in Registrable
    <3>1. root.mode \in {"partition", "declared"}
      BY DEF RegisterRoot
    <3>2. root.mode = "partition" \/ (root.mode = "declared" /\ root.family \in Permitted)
      BY <1>6, <3>1
    <3> QED
      BY <1>1, <3>2 DEF Registrable
  <2>1. /\ roots' = Append(roots, root)
        /\ names' = IF root.mode = "declared" THEN names
                    ELSE names \cup {[file |-> f, linked |-> FALSE] : f \in FilesIn(Walk(root))}
        /\ supplied' = IF root.mode = "partition" THEN supplied
                       ELSE supplied \cup {f.phys : f \in DeclaredFiles(root)}
    BY <1>6 DEF RegisterRoot
  <2>2. roots' \in Seq(Registrable)
    BY <2>0, <2>1 DEF NamesAreMet
  <2>3. RootSet' = RootSet \cup {root}
    <3>1. /\ Len(Append(roots, root)) = Len(roots) + 1
          /\ \A i \in 1..Len(roots) : Append(roots, root)[i] = roots[i]
          /\ Append(roots, root)[Len(roots) + 1] = root
          /\ Len(roots) \in Nat
      BY <2>1 DEF NamesAreMet
    <3> QED
      BY <2>1, <3>1 DEF RootSet
  <2>4. root.mode \in {"partition", "declared"}
    BY DEF RegisterRoot
  <2>5. Met' = names'
    <3> DEFINE NamesOf(r) == {[file |-> f, linked |-> FALSE] : f \in FilesIn(Walk(r))}
    <3>1. \A r : NamesOf(r)' = NamesOf(r)
      BY <1>1, <1>4, SameTree
    <3>2. names = UNION {NamesOf(r) : r \in {q \in RootSet : q.mode = "partition"}}
      BY <1>1 DEF NamesAreMet, Met
    <3>3. Met' = UNION {NamesOf(r) : r \in {q \in RootSet \cup {root} : q.mode = "partition"}}
      <4>1. Met' = UNION {NamesOf(r)' : r \in {q \in RootSet' : q.mode = "partition"}}
        BY DEF Met
      <4> HIDE DEF NamesOf
      <4> QED
        BY <2>3, <3>1, <4>1
    <3>4. names' = IF root.mode = "declared" THEN names ELSE names \cup NamesOf(root)
      BY <2>1
    <3> HIDE DEF NamesOf
    <3>5. {q \in RootSet \cup {root} : q.mode = "partition"} =
              {q \in RootSet : q.mode = "partition"} \cup
              IF root.mode = "declared" THEN {} ELSE {root}
      BY <2>4
    <3> QED
      BY <3>2, <3>3, <3>4, <3>5
  <2>6. NamesAreMet'
    BY <1>1, <1>3, <2>2, <2>5 DEF NamesAreMet
  <2>7. SuppliesAreKnown'
    <3> SUFFICES ASSUME NEW p \in supplied'
                 PROVE  \/ \E r \in RootSet' : r.mode = "declared" /\ \E f \in DeclaredFiles(r)' : f.phys = p
                        \/ \E i \in scene'.inputs :
                              i.mode = "file" /\ i.readable /\ i.family \in Permitted' /\ i.phys = p
      BY DEF SuppliesAreKnown
    <3>1. CASE p \in supplied
      BY <1>1, <1>4, <2>3, <3>1, SameTree DEF SuppliesAreKnown
    <3>2. CASE p \notin supplied
      BY <1>4, <2>1, <2>3, <2>4, <3>2
    <3> QED
      BY <3>1, <3>2
  <2> QED
    BY <1>1, <1>2, <2>6, <2>7
<1> QED
  BY <1>5, <1>6

LEMMA RegisterSuppliedKeeps ==
    ASSUME IndexInv, NEW input \in pending, RegisterSupplied(input)
    PROVE  IndexInv'
<1> USE DEF IndexInv
<1>1. scene' = scene /\ closed' = closed /\ ~ closed /\ roots' = roots /\ names' = names
         /\ input \in scene.inputs /\ input.mode = "file" /\ pending' \subseteq scene.inputs
         /\ supplied' = IF input.family \in Permitted /\ input.readable
                        THEN supplied \cup {input.phys} ELSE supplied
  BY DEF RegisterSupplied, ClosedIsFinal, NamesAreMet
<1>2. ClosedIsFinal'
  BY <1>1 DEF ClosedIsFinal
<1>3. RootSet' = RootSet /\ Met' = Met /\ Registrable' = Registrable
  BY <1>1, SameRoots
<1>4. NamesAreMet'
  BY <1>1, <1>3 DEF NamesAreMet
<1>5. SuppliesAreKnown'
  <2>1. \A r : DeclaredFiles(r)' = DeclaredFiles(r)
    BY <1>1, SameTree DEF DeclaredFiles
  <2> QED
    BY <1>1, <1>3, <2>1, SameTree DEF SuppliesAreKnown
<1> QED
  BY <1>1, <1>2, <1>4, <1>5

LEMMA CloseKeeps ==
    ASSUME IndexInv, Close
    PROVE  IndexInv'
<1> USE DEF IndexInv
<1>1. /\ scene' = scene /\ roots' = roots /\ supplied' = supplied /\ pending' = pending
      /\ pending = {} /\ ~ closed /\ closed' = TRUE
  BY DEF Close
<1>2. AllNames' = AllNames /\ (ZeekIsRead' <=> ZeekIsRead) /\ RootSet' = RootSet
         /\ Registrable' = Registrable
  BY <1>1, SameRoots
<1>3. names' = AllNames /\ final' = Finalize(AllNames)
  BY <1>1 DEF Close, AllNames, ZeekIsRead, NamesAreMet
<1>4. layout' = IF ZeekIsRead THEN Layout(DatedRoots, final') ELSE NoLayout
  BY <1>3 DEF Close, AllNames, ZeekIsRead
<1>5. layout' = IF ZeekIsRead' THEN Layout(DatedRoots, final)' ELSE NoLayout
  BY <1>1, <1>2, <1>4, SameConclusions
<1>6. final' = Finalize(AllNames)'
  BY <1>1, <1>3, SameConclusions
<1>7. ClosedIsFinal'
  BY <1>1, <1>2, <1>3, <1>5, <1>6 DEF ClosedIsFinal, NoLayout
<1>8. NamesAreMet'
  BY <1>1, <1>2 DEF NamesAreMet
<1>9. SuppliesAreKnown'
  <2>1. \A r : DeclaredFiles(r)' = DeclaredFiles(r)
    BY <1>1, SameTree DEF DeclaredFiles
  <2> QED
    BY <1>1, <1>2, <2>1, SameTree DEF SuppliesAreKnown
<1> QED
  BY <1>1, <1>7, <1>8, <1>9

LEMMA IndexStays ==
    ASSUME IndexInv, UNCHANGED partVars
    PROVE  IndexInv'
<1> USE DEF IndexInv
<1>1. scene' = scene /\ roots' = roots /\ supplied' = supplied /\ pending' = pending
         /\ closed' = closed /\ names' = names /\ final' = final /\ layout' = layout
  BY DEF partVars
<1>2. AllNames' = AllNames /\ (ZeekIsRead' <=> ZeekIsRead) /\ RootSet' = RootSet /\ Met' = Met
         /\ Registrable' = Registrable
  BY <1>1, SameRoots
<1>3. /\ Layout(DatedRoots, final)' = Layout(DatedRoots, final)
      /\ Finalize(AllNames)' = Finalize(AllNames)
  BY <1>1, SameConclusions
<1>4. ClosedIsFinal'
  BY <1>1, <1>2, <1>3 DEF ClosedIsFinal, NoLayout
<1>5. NamesAreMet'
  BY <1>1, <1>2 DEF NamesAreMet
<1>6. SuppliesAreKnown'
  <2>1. \A r : DeclaredFiles(r)' = DeclaredFiles(r)
    BY <1>1, SameTree DEF DeclaredFiles
  <2> QED
    BY <1>1, <1>2, <2>1, SameTree DEF SuppliesAreKnown
<1> QED
  BY <1>1, <1>4, <1>5, <1>6

(* IndexInv is an invariant of every discovery.                            *)
THEOREM IndexInvariant == PartSpec => []IndexInv
<1>1. IndexInv /\ [PartNext]_partVars => IndexInv'
  BY RegisterRootKeeps, RegisterSuppliedKeeps, CloseKeeps, IndexStays DEF PartNext, Routed
<1> QED
  BY <1>1, IndexStarts, PTL DEF PartSpec

-----------------------------------------------------------------------------
(* Once the index is closed *)

LEMMA ClosedIndex ==
    ASSUME IndexInv, closed
    PROVE  /\ scene \in Scenes /\ DOMAIN final = AllNames /\ final = Finalize(AllNames)
           /\ ZeekIsRead => /\ layout.walked = Walked /\ layout.dated = DatedRoots
                            /\ layout.flat = {d \in Walked \ (Owned(DatedRoots) \cup DatedRoots) :
                                                Held(d, final) # {}}
                            /\ layout.omitted = UNION {Held(d, final) :
                                   d \in DatedRoots \cup (Owned(DatedRoots) \ ReadBelow(DatedRoots))}
           /\ ~ ZeekIsRead => layout.omitted = {}
<1>1. final = Finalize(AllNames) /\ scene \in Scenes
  BY DEF IndexInv, ClosedIsFinal, NamesAreMet
<1>2. DOMAIN final = AllNames
  BY <1>1, FinalOutcomes
<1>3. layout = IF ZeekIsRead THEN Layout(DatedRoots, final) ELSE NoLayout
  BY DEF IndexInv, ClosedIsFinal
<1>4. ~ ZeekIsRead => layout.omitted = {}
  BY <1>3 DEF NoLayout
<1>5. ZeekIsRead => /\ layout.walked = Walked /\ layout.dated = DatedRoots
                    /\ layout.flat = {d \in Walked \ (Owned(DatedRoots) \cup DatedRoots) :
                                        Held(d, final) # {}}
                    /\ layout.omitted = UNION {Held(d, final) :
                           d \in DatedRoots \cup (Owned(DatedRoots) \ ReadBelow(DatedRoots))}
  BY <1>3 DEF Layout
<1> QED
  BY <1>1, <1>2, <1>4, <1>5

(* A name is met by a walk of a positional directory, or by a link.        *)
LEMMA NamesOfAll ==
    ASSUME scene \in Scenes, NEW n \in AllNames
    PROVE  \/ /\ n = [file |-> n.file, linked |-> FALSE] /\ n.file \in scene.files
              /\ \E r \in RootSet : /\ r.mode = "partition" /\ n.file.dir \in Walk(r)
                                    /\ r \in ZeekRoots
           \/ /\ n = [file |-> n.file, linked |-> TRUE] /\ n.file \in scene.files
              /\ ZeekIsRead /\ n.file.dir \in LinkedChildren(DatedRoots)
<1>1. CASE n \in Met
  <2>1. PICK r \in RootSet : /\ r.mode = "partition"
                             /\ \E f \in FilesIn(Walk(r)) : n = [file |-> f, linked |-> FALSE]
    BY <1>1 DEF Met
  <2>2. n = [file |-> n.file, linked |-> FALSE] /\ n.file \in FilesIn(Walk(r))
    BY <2>1
  <2>3. n.file \in scene.files /\ n.file.dir \in Walk(r)
    BY <2>2 DEF FilesIn
  <2>4. r \in ZeekRoots
    BY <2>1, <2>3, WalkListsItsRoot DEF ZeekRoots
  <2> QED
    BY <2>1, <2>2, <2>3, <2>4
<1>2. CASE n \notin Met
  <2>1. ZeekIsRead /\ n \in LinkedNames(DatedRoots)
    BY <1>2 DEF AllNames
  <2>2. \E f \in FilesIn(LinkedChildren(DatedRoots)) : n = [file |-> f, linked |-> TRUE]
    BY <2>1 DEF LinkedNames
  <2>3. n = [file |-> n.file, linked |-> TRUE] /\ n.file \in FilesIn(LinkedChildren(DatedRoots))
    BY <2>2
  <2> QED
    BY <2>1, <2>3 DEF FilesIn
<1> QED
  BY <1>1, <1>2

LEMMA FilesHaveOneOwner ==
    ASSUME IndexInv, closed
    PROVE  OneOwner
<1>1. \A n \in AllNames : Given(n) => Eligible(n) /\ final[n].family = Winner(SameFile(n, AllNames))
  <2> SUFFICES ASSUME NEW n \in AllNames, Given(n)
               PROVE  Eligible(n) /\ final[n].family = Winner(SameFile(n, AllNames))
    OBVIOUS
  <2>1. final[n] = Admission(n.file) /\ final[n].kind = "admitted"
    BY ClosedIndex, FinalOutcomes DEF Given
  <2>2. Eligible(n)
    BY <2>1 DEF Given, Eligible
  <2>3. SameFile(n, AllNames) # {}
    BY <2>2 DEF SameFile
  <2> QED
    BY <2>1, <2>2, <2>3, ClosedIndex, FinalOutcomes
<1>2. ASSUME NEW n \in AllNames, Eligible(n)
      PROVE  \E o \in AllNames : o.file.phys = n.file.phys /\ Given(o)
  <2>1. SameFile(n, AllNames) # {}
    BY <1>2 DEF SameFile
  <2>2. PICK o \in AllNames : o.file.phys = n.file.phys /\ Eligible(o) /\ final[o] = Admission(o.file)
    BY <2>1, ClosedIndex, FinalOutcomes
  <2> QED
    BY <2>2 DEF Eligible, Given
<1>3. ASSUME NEW m \in AllNames, NEW n \in AllNames, m.file.phys = n.file.phys
      PROVE  SameFile(m, AllNames) = SameFile(n, AllNames)
  BY <1>3 DEF SameFile
<1> QED
  BY <1>1, <1>2, <1>3, ClosedIndex DEF OneOwner

-----------------------------------------------------------------------------
(* Zeek's layout *)

(* A root may read a file: its gate admits the name, or the partition gave *)
(* the file to Zeek.                                                       *)
MayRead(r, f) == IF r.mode = "partition" THEN GivenTo(f, "zeek_dir", final)
                 ELSE Gate("zeek_dir", f, FALSE) = "admit"

LEMMA ReadByAFamily ==
    ASSUME NEW family \in Permitted, NEW f \in ReadAs(family)
    PROVE  f.phys \in Reads
<1>1. f.phys \in {g.phys : g \in ReadAs(family)}
  OBVIOUS
<1>2. f.phys \in UNION {{g.phys : g \in ReadAs(k)} : k \in Permitted}
  BY <1>1, Zenon
<1> QED
  BY <1>2 DEF Reads

LEMMA ReadThroughARoot ==
    ASSUME ZeekIsRead, NEW r \in ZeekRoots, NEW f \in scene.files,
           f.dir \in ZeekViewDirs(r), MayRead(r, f)
    PROVE  f.phys \in Reads
<1>1. f \in FilesIn(ZeekViewDirs(r))
  BY DEF FilesIn
<1> DEFINE ReadBy(q) == {g \in FilesIn(ZeekViewDirs(q)) :
                           IF q.mode = "partition" THEN GivenTo(g, "zeek_dir", final)
                           ELSE Gate("zeek_dir", g, FALSE) = "admit"}
<1>2. f \in ReadBy(r)
  BY <1>1 DEF MayRead
<1>3. ReadAs("zeek_dir") = UNION {ReadBy(q) : q \in ZeekRoots}
  BY DEF ReadAs
<1> HIDE DEF ReadBy
<1>4. f \in ReadAs("zeek_dir")
  BY <1>2, <1>3
<1> QED
  BY <1>4, ReadByAFamily DEF ZeekIsRead

LEMMA DatedIsWalked ==
    ASSUME scene \in Scenes, NEW e \in DatedRoots
    PROVE  \E q \in ZeekRoots : e \in Walk(q)
BY DatedRootsAreOutermost DEF Walked

(* What a walk meets, and Zeek may read, is read or stated, or lies in a   *)
(* day of a dated root the walk does not reach.                            *)
LEMMA ZeekFilesAreReadOrStated ==
    ASSUME IndexInv, closed, ZeekIsRead, NEW r \in ZeekRoots, NEW f \in scene.files,
           f.dir \in Walk(r), MayRead(r, f)
    PROVE  \/ f.phys \in Reads \/ f \in layout.omitted
           \/ \E e \in DatedRoots :
                 /\ f.dir \in Children(e)
                 /\ \A q \in ZeekRoots : e \in Walk(q) => ~ MayRead(q, f)
<1> DEFINE d == f.dir
<1>1. d \in Walked
  BY DEF Walked
<1>2. f \in Held(d, final)
  BY DEF Held, FilesIn, ZeekAdmissible, MayRead
<1>3. CASE d \in DatedRoots \cup (Owned(DatedRoots) \ ReadBelow(DatedRoots))
  <2>1. f \in layout.omitted
    BY <1>2, <1>3, ClosedIndex
  <2> QED
    BY <2>1
<1>4. CASE d \notin DatedRoots /\ d \in Owned(DatedRoots) /\ d \in ReadBelow(DatedRoots)
  <2>1. PICK e \in DatedRoots : d \in Children(e)
    BY <1>4 DEF ReadBelow
  <2>2. CASE \A q \in ZeekRoots : e \in Walk(q) => ~ MayRead(q, f)
    BY <2>1, <2>2
  <2>3. CASE \E q \in ZeekRoots : e \in Walk(q) /\ MayRead(q, f)
    <3>1. PICK q \in ZeekRoots : e \in Walk(q) /\ MayRead(q, f)
      BY <2>3
    <3>2. layout.walked = Walked /\ e \in layout.dated
      BY ClosedIndex
    <3>3. d \in ZeekViewDirs(q)
      BY <1>1, <2>1, <3>1, <3>2 DEF ZeekViewDirs
    <3> QED
      BY <3>1, <3>3, ReadThroughARoot
  <2> QED
    BY <2>2, <2>3
<1>5. CASE d \notin DatedRoots /\ d \notin Owned(DatedRoots)
  <2>1. d \in layout.flat
    BY <1>1, <1>2, <1>5, ClosedIndex
  <2>2. d \in ZeekViewDirs(r)
    BY <2>1 DEF ZeekViewDirs
  <2> QED
    BY <2>2, ReadThroughARoot
<1> QED
  BY <1>3, <1>4, <1>5

(* A name the partition gives to Zeek may be read through every root.      *)
LEMMA GivenToZeek ==
    ASSUME IndexInv, closed, NEW n \in AllNames, final[n].kind = "admitted",
           final[n].family = "zeek_dir", NEW q
    PROVE  ZeekIsRead /\ MayRead(q, n.file)
<1>1. final[n] = Admission(n.file) /\ DOMAIN final = AllNames
  BY ClosedIndex, FinalOutcomes
<1>2. "zeek_dir" \in Permitted /\ Gate("zeek_dir", n.file, FALSE) = "admit"
  BY <1>1, AdmissionFits
<1>3. GivenTo(n.file, "zeek_dir", final)
  BY <1>1 DEF GivenTo
<1> QED
  BY <1>2, <1>3 DEF ZeekIsRead, MayRead

(* A file of a dated root's link is read through that root.                *)
LEMMA LinkedIsRead ==
    ASSUME IndexInv, closed, ZeekIsRead, NEW f \in scene.files,
           f.dir \in LinkedChildren(DatedRoots), \A q : MayRead(q, f)
    PROVE  f.phys \in Reads
<1>1. PICK l \in scene.links : l.from \in DatedRoots /\ l.to = f.dir
  BY DEF LinkedChildren
<1>2. PICK q \in ZeekRoots : l.from \in Walk(q)
  BY <1>1, ClosedIndex, DatedIsWalked
<1>3. f.dir \in LinkedChildren({l.from})
  BY <1>1 DEF LinkedChildren
<1>4. f.dir \in Children(l.from)
  BY <1>1 DEF Children
<1>5. f.dir \in ZeekViewDirs(q)
  <2>1. l.from \in layout.dated \cap Walk(q)
    BY <1>1, <1>2, ClosedIndex
  <2> DEFINE Below(d) == Children(d) \cap (layout.walked \cup LinkedChildren({d}))
  <2>2. f.dir \in Below(l.from)
    BY <1>3, <1>4
  <2>3. ZeekViewDirs(q) = (layout.flat \cap Walk(q)) \cup UNION {Below(d) : d \in layout.dated \cap Walk(q)}
    BY DEF ZeekViewDirs
  <2> HIDE DEF Below
  <2> QED
    BY <2>1, <2>2, <2>3
<1> QED
  BY <1>5, ReadThroughARoot

-----------------------------------------------------------------------------
(* Nothing vanishes *)
ReadOrStated(p) == p \in Reads \cup {f.phys : f \in layout.omitted \cup LinkedNotRead}

(* What a family other than Zeek is given, it reads.                       *)
LEMMA ReadByAnotherFamily ==
    ASSUME NEW family \in Permitted, family # "zeek_dir", NEW r \in RootSet, NEW f \in FilesIn(Walk(r)),
           IF r.mode = "partition"
           THEN final[[file |-> f, linked |-> FALSE]]
                   \in [kind : {"admitted"}, family : {family}, stage : 0..2]
           ELSE r.family = family /\ Gate(family, f, FALSE) = "admit"
    PROVE  f.phys \in Reads
<1> DEFINE ReadBy(q) == {g \in FilesIn(Walk(q)) :
               IF q.mode = "partition"
               THEN final[[file |-> g, linked |-> FALSE]]
                       \in [kind : {"admitted"}, family : {family}, stage : 0..2]
               ELSE q.family = family /\ Gate(family, g, FALSE) = "admit"}
<1>1. f \in ReadBy(r)
  OBVIOUS
<1>2. ReadAs(family) = UNION {ReadBy(q) : q \in RootSet}
  BY DEF ReadAs
<1> HIDE DEF ReadBy
<1>3. f \in ReadAs(family)
  BY <1>1, <1>2
<1> QED
  BY <1>3, ReadByAFamily

LEMMA AdmittedIsReadOrStated ==
    ASSUME IndexInv, closed, NEW n \in AllNames, final[n].kind = "admitted", ~ SpokenFor(n)
    PROVE  ReadOrStated(n.file.phys)
<1> DEFINE f == n.file
<1>1. final[n] = Admission(f) /\ DOMAIN final = AllNames /\ scene \in Scenes
  BY ClosedIndex, FinalOutcomes
<1>2. \/ /\ n = [file |-> f, linked |-> FALSE] /\ f \in scene.files
         /\ \E r \in RootSet : r.mode = "partition" /\ f.dir \in Walk(r) /\ r \in ZeekRoots
      \/ /\ n = [file |-> f, linked |-> TRUE] /\ f \in scene.files
         /\ ZeekIsRead /\ f.dir \in LinkedChildren(DatedRoots)
  BY <1>1, NamesOfAll
<1>3. CASE final[n].family = "zeek_dir"
  <2>1. ZeekIsRead /\ \A q : MayRead(q, f)
    BY <1>3, GivenToZeek
  <2>2. CASE \E r \in RootSet : r.mode = "partition" /\ f.dir \in Walk(r) /\ r \in ZeekRoots
    <3>1. \A e \in DatedRoots : \E q \in ZeekRoots : e \in Walk(q)
      BY <1>1, DatedIsWalked
    <3>2. f.phys \in Reads \/ f \in layout.omitted
      BY <1>2, <2>1, <2>2, <3>1, ZeekFilesAreReadOrStated
    <3> QED
      BY <3>2 DEF ReadOrStated
  <2>3. CASE f.dir \in LinkedChildren(DatedRoots)
    <3>1. f.phys \in Reads
      BY <1>2, <2>1, <2>3, LinkedIsRead
    <3> QED
      BY <3>1 DEF ReadOrStated
  <2> QED
    BY <1>2, <2>2, <2>3
<1>4. CASE final[n].family # "zeek_dir"
  <2>1. /\ final[n].family \in Permitted
        /\ final[n] \in [kind : {"admitted"}, family : {final[n].family}, stage : 0..2]
    <3>1. /\ final[n].family \in Permitted /\ final[n].stage \in 0..2
          /\ final[n] = [kind |-> "admitted", family |-> final[n].family, stage |-> final[n].stage]
      BY <1>1, AdmissionFits
    <3> QED
      BY <3>1
  <2>2. CASE /\ n = [file |-> f, linked |-> FALSE] /\ f \in scene.files
             /\ \E r \in RootSet : r.mode = "partition" /\ f.dir \in Walk(r) /\ r \in ZeekRoots
    <3>1. PICK r \in RootSet : r.mode = "partition" /\ f \in FilesIn(Walk(r))
      BY <2>2 DEF FilesIn
    <3>2. final[[file |-> f, linked |-> FALSE]]
              \in [kind : {"admitted"}, family : {final[n].family}, stage : 0..2]
      BY <2>1, <2>2
    <3>3. f.phys \in Reads
      BY <1>4, <2>1, <3>1, <3>2, ReadByAnotherFamily
    <3> QED
      BY <3>3 DEF ReadOrStated
  <2>3. CASE n = [file |-> f, linked |-> TRUE]
    <3>1. n.linked /\ f.phys \notin {g.phys : g \in FilesIn(WalkedByAny)}
      BY <1>4, <2>3 DEF SpokenFor
    <3>2. f \in LinkedNotRead
      BY <1>1, <1>4, <3>1 DEF LinkedNotRead
    <3> QED
      BY <3>2 DEF ReadOrStated
  <2> QED
    BY <1>2, <2>2, <2>3
<1> QED
  BY <1>3, <1>4

LEMMA SuppliedIsReadOrStated ==
    ASSUME IndexInv, closed, NEW n \in AllNames, final[n].kind = "supplied", ~ InForeignDay(n)
    PROVE  ReadOrStated(n.file.phys)
<1> DEFINE p == n.file.phys
<1>1. SameFile(n, AllNames) # {} \/ p \in supplied
  BY ClosedIndex, FinalOutcomes
<1>2. CASE SameFile(n, AllNames) # {}
  <2>1. PICK o \in AllNames : o.file.phys = p /\ Eligible(o) /\ final[o] = Admission(o.file)
    BY <1>2, ClosedIndex, FinalOutcomes
  <2>2. final[o].kind = "admitted" /\ ~ SpokenFor(o)
    BY <2>1 DEF Eligible, SpokenFor
  <2> QED
    BY <2>1, <2>2, AdmittedIsReadOrStated
<1>3. CASE \E i \in scene.inputs : i.mode = "file" /\ i.readable /\ i.family \in Permitted /\ i.phys = p
  <2> DEFINE Named == {j \in scene.inputs : /\ j.mode = "file" /\ j.readable
                                          /\ j.family \in Permitted}
  <2> DEFINE Gated == UNION {{f.phys : f \in ReadAs(family)} : family \in Permitted}
  <2> DEFINE Direct == {j.phys : j \in Named}
  <2>1. PICK i \in Named : i.phys = p
    BY <1>3
  <2>2. i.phys \in Direct
    OBVIOUS
  <2>3. Reads = Gated \cup Direct
    BY DEF Reads
  <2> HIDE DEF Gated, Direct
  <2>4. i.phys \in Reads
    BY <2>2, <2>3
  <2> QED
    BY <2>1, <2>4 DEF ReadOrStated
<1>4. CASE \E r \in RootSet : r.mode = "declared" /\ \E f \in DeclaredFiles(r) : f.phys = p
  <2>1. PICK r \in RootSet : r.mode = "declared" /\ \E f \in DeclaredFiles(r) : f.phys = p
    BY <1>4
  <2>2. PICK f \in FilesIn(Walk(r)) : f.phys = p /\ Gate(r.family, f, FALSE) = "admit"
    BY <2>1 DEF DeclaredFiles
  <2>3. r.family \in Permitted
    <3>1. r \in Registrable
      BY DEF RootSet, IndexInv, NamesAreMet
    <3> QED
      BY <2>1, <3>1 DEF Registrable
  <2>4. CASE r.family # "zeek_dir"
    BY <2>1, <2>2, <2>3, <2>4, ReadByAnotherFamily DEF ReadOrStated
  <2>5. CASE r.family = "zeek_dir"
    <3>1. f \in scene.files /\ f.dir \in Walk(r) /\ ZeekIsRead
      BY <2>2, <2>3, <2>5 DEF FilesIn, ZeekIsRead
    <3>2. r \in ZeekRoots /\ MayRead(r, f)
      BY <2>1, <2>2, <2>5, <3>1, ClosedIndex, WalkListsItsRoot DEF ZeekRoots, MayRead
    <3>3. \A e \in DatedRoots : f.dir \in Children(e) => e \in Walk(r)
      BY <2>1, <2>2, <3>1, <3>2, ClosedIndex DEF InForeignDay
    <3>4. f.phys \in Reads \/ f \in layout.omitted
      BY <3>1, <3>2, <3>3, ZeekFilesAreReadOrStated
    <3> QED
      BY <2>2, <3>4 DEF ReadOrStated
  <2> QED
    BY <2>4, <2>5
<1> QED
  BY <1>1, <1>2, <1>3, <1>4 DEF IndexInv, SuppliesAreKnown

(* What is read is not what is stated, but for a day that is a dated root. *)
LEMMA ReadIsNotStated ==
    ASSUME IndexInv, closed, NEW f \in layout.omitted \cap ReadAs("zeek_dir")
    PROVE  \E l \in scene.links : f.dir = l.to /\ {l.from, l.to} \subseteq layout.dated
<1> DEFINE d == f.dir
<1>1. ZeekIsRead /\ scene \in Scenes
  BY ClosedIndex
<1>2. /\ layout.walked = Walked /\ layout.dated = DatedRoots
      /\ layout.flat \cap (Owned(DatedRoots) \cup DatedRoots) = {}
  BY <1>1, ClosedIndex
<1>3. d \in DatedRoots \cup (Owned(DatedRoots) \ ReadBelow(DatedRoots))
  <2>1. PICK c \in DatedRoots \cup (Owned(DatedRoots) \ ReadBelow(DatedRoots)) : f \in Held(c, final)
    BY <1>1, ClosedIndex
  <2> QED
    BY <2>1 DEF Held, FilesIn
<1>4. PICK q \in ZeekRoots : d \in ZeekViewDirs(q)
  <2>1. PICK q \in ZeekRoots : f \in FilesIn(ZeekViewDirs(q))
    BY DEF ReadAs
  <2> QED
    BY <2>1 DEF FilesIn
<1>5. PICK e \in DatedRoots : d \in Children(e)
  BY <1>2, <1>3, <1>4 DEF ZeekViewDirs
<1>6. d \in DatedRoots
  BY <1>3, <1>5 DEF ReadBelow
<1>7. CASE \E l \in scene.links : l.from = e /\ l.to = d
  BY <1>2, <1>6, <1>7
<1>8. CASE d \in Dirs /\ d # e /\ scene.parent[d] = e
  <2>1. e < d
    BY <1>1, <1>8, TreeOfScene
  <2>2. Within(d, d)
    BY <1>1, <1>8, LineageOf DEF Within
  <2>3. OwnedBy(d, {x \in DatedRoots : x < d})
    BY <1>5, <2>1, <2>2 DEF OwnedBy
  <2> QED
    BY <1>1, <1>6, <2>3, DatedRootsAreOutermost
<1> QED
  BY <1>5, <1>7, <1>8 DEF Children

(* recursive.py: whatever the tree, its links, the contents, the families  *)
(* and the inputs, and in whatever order the inputs are registered, a file *)
(* is given to one family, is given to one when a gate admits one of its   *)
(* names, and what is given or supplied is read or stated, never both.     *)
THEOREM EveryFileIsOwned == PartSpec => []EveryFileHasOneOwner
<1>1. IndexInv => NothingVanishes
  <2> SUFFICES ASSUME IndexInv, closed PROVE NothingVanishes
    BY DEF NothingVanishes
  <2>1. DOMAIN final = AllNames
    BY ClosedIndex
  <2>2. \A n \in AllNames :
            (final[n].kind \in {"admitted", "supplied"} /\ ~ SpokenFor(n) /\ ~ InForeignDay(n)) =>
                ReadOrStated(n.file.phys)
    BY AdmittedIsReadOrStated, SuppliedIsReadOrStated
  <2> QED
    BY <2>1, <2>2, ReadIsNotStated DEF NothingVanishes, ReadOrStated
<1>2. IndexInv => OneOwner
  BY FilesHaveOneOwner DEF OneOwner
<1> QED
  BY <1>1, <1>2, IndexInvariant, PTL DEF EveryFileHasOneOwner
=============================================================================
