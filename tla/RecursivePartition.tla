------------------------- MODULE RecursivePartition -------------------------
(***************************************************************************)
(* Recursive discovery (common/loader/recursive.py): the directories an    *)
(* operator supplies are walked, every file is offered to the families'    *)
(* gates under each of its names, and when all walks are complete each     *)
(* physical file goes to one family and Zeek's dated layout is resolved    *)
(* across the walks.                                                       *)
(*                                                                         *)
(* One file may be reached by several roots, through a link, and under     *)
(* names different gates like.  The partition must give it to one family,  *)
(* and never call it read, or omitted, when it is not.                     *)
(***************************************************************************)
EXTENDS Naturals, Sequences, FiniteSets

CONSTANTS
    Scenes      \* trees, contents, permitted families and supplied inputs

(* Directories are numbered as the code sorts them, by the number of parts *)
(* of their paths and then by the path, so that a parent comes first.      *)
ASSUME PartitionAssumption ==
    \A s \in Scenes :
        /\ s.parent \in Seq(Nat)
        /\ \A d \in DOMAIN s.parent : s.parent[d] \in 1..d

(* The registry's order; the journal declares no recursive admission.      *)
Families == <<"zeek_dir", "syslog_dir", "pihole_dir", "cloudtrail_dir">>

VARIABLES
    scene,      \* the file system and the invocation
    pending,    \* inputs the CLI has not routed yet
    closed,     \* whether the index is closed
    roots,      \* the walks registered, in order
    names,      \* spellings offered to the gates: [file, linked]
    supplied,   \* physical files an explicit file or a declaration reads
    final,      \* outcome of every spelling, once the index is closed
    layout      \* [walked, dated, flat, omitted], once it is closed

partVars == <<scene, pending, closed, roots, names, supplied, final, layout>>

NoLayout == [walked |-> {}, dated |-> {}, flat |-> {}, omitted |-> {}]

-----------------------------------------------------------------------------
(* The tree: dir -> parent (a top directory is its own), the directories   *)
(* with a date for a name, those whose listing fails, and the links.       *)
Dirs == DOMAIN scene.parent

Lineage[d \in Dirs] ==
    IF scene.parent[d] = d THEN {d} ELSE {d} \cup Lineage[scene.parent[d]]
Within(d, top) == top \in Lineage[d]

(* walk_directory_tree: real directories below the root, links not entered. *)
Listed(d, top) ==
    Within(d, top) /\ \A e \in Lineage[d] : Within(e, top) => e \notin scene.unlisted

Walk(root) == {d \in Dirs : Listed(d, root.dir)}
FilesIn(dirs) == {f \in scene.files : f.dir \in dirs}

Children(d) ==
    {c \in Dirs \ {d} : scene.parent[c] = d} \cup {l.to : l \in {k \in scene.links : k.from = d}}

HasDateChild(d) ==
    \/ \E c \in scene.dateNamed : c # d /\ scene.parent[c] = d
    \/ \E l \in scene.links : l.from = d /\ l.dateNamed

-----------------------------------------------------------------------------
(* The gates.  Zeek asks the name, and the sniffed type when it has one;   *)
(* syslog asks the content and keeps what it cannot read; Pi-hole and      *)
(* CloudTrail ask the name.                                                *)
Permitted == scene.permitted
ContentOf(f) == scene.content[f.phys]

Gate(family, f, sniffed) ==
    CASE f.excluded -> "reject"
      [] family = "zeek_dir" /\ sniffed /\ ~ ContentOf(f).wanted -> "outside"
      [] family = "syslog_dir" ->
            IF ContentOf(f).lines \/ ContentOf(f).sniff = "torn" THEN "admit" ELSE "reject"
      [] OTHER -> IF family \in f.likes THEN "admit" ELSE "reject"

Outcome(kind, family, stage) == [kind |-> kind, family |-> family, stage |-> stage]

(* admit_spelling: the recognized family first, then Zeek by name for what *)
(* nothing recognizes, then the syslog content gate, unless it already     *)
(* answered.                                                               *)
Admission(f) ==
    LET c == ContentOf(f)
        origin == c.sniff
        known == origin \in {Families[i] : i \in 1..4}
        answer == IF known /\ origin \in Permitted THEN Gate(origin, f, TRUE) ELSE "none"
        falls == /\ "syslog_dir" \in Permitted
                 /\ ~ (origin = "syslog_dir" /\ answer = "reject")
                 /\ Gate("syslog_dir", f, FALSE) = "admit"
    IN  IF f.excluded THEN Outcome("excluded", "none", 9)
        ELSE IF origin = "empty" THEN Outcome("empty", "none", 9)
        ELSE IF answer = "admit" THEN Outcome("admitted", origin, 0)
        ELSE IF /\ origin = "none" /\ "zeek_dir" \in Permitted
                /\ Gate("zeek_dir", f, FALSE) = "admit" THEN Outcome("admitted", "zeek_dir", 1)
        ELSE IF falls THEN Outcome("admitted", "syslog_dir", 2)
        ELSE IF origin = "torn" THEN Outcome("unreadable", "none", 9)
        ELSE IF origin = "none" THEN Outcome("unrecognized", "none", 9)
        ELSE Outcome(IF answer = "reject" THEN "rejected" ELSE "outside", origin, 9)

-----------------------------------------------------------------------------
PartInit ==
    /\ scene \in Scenes
    /\ pending = scene.inputs /\ closed = FALSE
    /\ roots = <<>> /\ names = {} /\ supplied = {} /\ final = <<>> /\ layout = NoLayout

DeclaredFiles(root) ==
    {f \in FilesIn(Walk(root)) : Gate(root.family, f, FALSE) = "admit"}

(* register: a declaration for a family the run does not read is inert. *)
RegisterRoot(root) ==
    /\ root.mode \in {"partition", "declared"}
    /\ pending' = pending \ {root}
    /\ IF root.mode = "declared" /\ root.family \notin Permitted
       THEN UNCHANGED <<roots, names, supplied>>
       ELSE /\ roots' = Append(roots, root)
            /\ names' = IF root.mode = "declared" THEN names
                        ELSE names \cup {[file |-> f, linked |-> FALSE] : f \in FilesIn(Walk(root))}
            /\ supplied' = IF root.mode = "partition" THEN supplied
                           ELSE supplied \cup {f.phys : f \in DeclaredFiles(root)}
    /\ UNCHANGED <<scene, closed, final, layout>>

(* register_supplied_input: an explicit file the run will really read. *)
RegisterSupplied(input) ==
    /\ input.mode = "file"
    /\ pending' = pending \ {input}
    /\ supplied' = IF input.family \in Permitted /\ input.readable
                   THEN supplied \cup {input.phys} ELSE supplied
    /\ UNCHANGED <<scene, closed, roots, names, final, layout>>

-----------------------------------------------------------------------------
(* close.  Zeek's layout is resolved over the walks that can carry it.     *)
RootSet == {roots[i] : i \in 1..Len(roots)}
ZeekRoots ==
    {r \in RootSet : r.dir \notin scene.unlisted
                     /\ (r.mode = "partition" \/ r.family = "zeek_dir")}
Walked == UNION {Walk(r) : r \in ZeekRoots}
WalkedByAny == UNION {Walk(r) : r \in RootSet}

OwnedBy(d, owners) == \E r \in owners : \E c \in Children(r) : Within(d, c)

(* The outermost directories with a date-named child: in the order of the *)
(* directories, each that no dated root before it owns.                    *)
DatedUpTo[d \in 0..Len(scene.parent)] ==
    IF d = 0 THEN {}
    ELSE DatedUpTo[d - 1] \cup
         IF d \in Walked /\ HasDateChild(d) /\ ~ OwnedBy(d, DatedUpTo[d - 1]) THEN {d} ELSE {}

DatedRoots == DatedUpTo[Len(scene.parent)]

(* A linked child no walk listed is listed once, for Zeek alone. *)
LinkedChildren(dated) ==
    {l.to : l \in {k \in scene.links : k.from \in dated}} \ (Walked \cup scene.unlisted)

LinkedNames(dated) ==
    IF \E r \in ZeekRoots : r.mode = "partition"
    THEN {[file |-> f, linked |-> TRUE] : f \in FilesIn(LinkedChildren(dated))} ELSE {}

(* _finalize: the best-ranked admission of a physical file names its       *)
(* family; a name reached through a link only may win for Zeek alone.      *)
Eligible(n) ==
    LET a == Admission(n.file)
    IN  a.kind = "admitted" /\ (n.linked => a.family = "zeek_dir")

Place(family) == CHOOSE i \in 1..4 : Families[i] = family
Rank(n) == 4 * Admission(n.file).stage + Place(Admission(n.file).family)

SameFile(n, all) == {m \in all : m.file.phys = n.file.phys /\ Eligible(m)}
Best(same) == CHOOSE m \in same : \A o \in same : Rank(m) <= Rank(o)
Winner(same) == Admission(Best(same).file).family

(* The mutant that keeps the admission of each name. *)
FinalizeByName(all) == [n \in all |-> Admission(n.file)]

Finalize(all) ==
    [n \in all |->
        LET same == SameFile(n, all)
            own == Admission(n.file)
        IN  IF same # {}
            THEN IF Eligible(n) /\ own.family = Winner(same) THEN own
                 ELSE Outcome("supplied", Winner(same), 9)
            ELSE IF n.file.phys \in supplied THEN Outcome("supplied", "none", 9)
            ELSE own]

(* _admitted_as: any registered spelling of the file under the same name. *)
GivenTo(f, family, outcomes) ==
    \E n \in DOMAIN outcomes :
        /\ n.file = f
        /\ outcomes[n].kind = "admitted" /\ outcomes[n].family = family

ZeekAdmissible(f, outcomes) ==
    \E r \in ZeekRoots :
        /\ f.dir \in Walk(r)
        /\ IF r.mode = "partition" THEN GivenTo(f, "zeek_dir", outcomes)
           ELSE Gate("zeek_dir", f, FALSE) = "admit"

(* What a dated root's links and children hold is its own, one level deep; *)
(* a directory outside is read when it holds a file for Zeek.              *)
Owned(dated) == {d \in Walked : OwnedBy(d, dated)}
ReadBelow(dated) == UNION {Children(r) : r \in dated}
Held(d, outcomes) == {f \in FilesIn({d}) : ZeekAdmissible(f, outcomes)}

Layout(dated, outcomes) ==
    [walked  |-> Walked,
     dated   |-> dated,
     flat    |-> {d \in Walked \ (Owned(dated) \cup dated) : Held(d, outcomes) # {}},
     omitted |-> UNION {Held(d, outcomes) : d \in dated \cup (Owned(dated) \ ReadBelow(dated))}]

Close ==
    /\ pending = {} /\ ~ closed /\ closed' = TRUE
    /\ LET zeek == "zeek_dir" \in Permitted
           dated == IF zeek THEN DatedRoots ELSE {}
           all == names \cup IF zeek THEN LinkedNames(dated) ELSE {}
       IN  /\ names' = all /\ final' = Finalize(all)
           /\ layout' = IF zeek THEN Layout(dated, Finalize(all)) ELSE NoLayout
    /\ UNCHANGED <<scene, pending, roots, supplied>>

Routed == closed /\ UNCHANGED partVars

PartNext ==
    \/ \E input \in pending : RegisterRoot(input) \/ RegisterSupplied(input)
    \/ Close \/ Routed

PartSpec == PartInit /\ [][PartNext]_partVars

-----------------------------------------------------------------------------
(* The views: what each family's load is given.                            *)
ZeekViewDirs(root) ==
    (layout.flat \cap Walk(root))
    \cup UNION {Children(d) \cap (layout.walked \cup LinkedChildren({d})) :
                d \in layout.dated \cap Walk(root)}

ReadAs(family) ==
    IF family = "zeek_dir"
    THEN UNION {{f \in FilesIn(ZeekViewDirs(r)) :
                    IF r.mode = "partition" THEN GivenTo(f, family, final)
                    ELSE Gate(family, f, FALSE) = "admit"} : r \in ZeekRoots}
    ELSE UNION {{f \in FilesIn(Walk(r)) :
                    IF r.mode = "partition"
                    THEN final[[file |-> f, linked |-> FALSE]]
                            \in [kind : {"admitted"}, family : {family}, stage : 0..2]
                    ELSE r.family = family /\ Gate(family, f, FALSE) = "admit"}
                : r \in RootSet}

Reads == (UNION {{f.phys : f \in ReadAs(family)} : family \in Permitted})
         \cup {i.phys : i \in {j \in scene.inputs : /\ j.mode = "file" /\ j.readable
                                                    /\ j.family \in Permitted}}

(* What _facts_for states as LINKED_LAYOUT_NOT_READ: files only a link of  *)
(* the dated layout reaches, which are not Zeek's.                         *)
LinkedNotRead ==
    {n.file : n \in {m \in DOMAIN final :
        /\ m.linked /\ m.file.phys \notin {f.phys : f \in FilesIn(WalkedByAny)}
        /\ final[m].kind \notin {"empty", "excluded", "supplied"}
        /\ ~ (final[m].kind = "admitted" /\ final[m].family = "zeek_dir")}}

(* One file, one family: whatever its names and however many walks met it, *)
(* the positional partition gives it to a single family, and gives it to   *)
(* one whenever a gate admits one of the names its walks met.  A name that *)
(* only a link of the dated layout met is given to Zeek or to nobody.      *)
Given(n) == final[n].kind = "admitted" /\ (n.linked => final[n].family = "zeek_dir")

OneOwner ==
    closed => \A m, n \in DOMAIN final :
        m.file.phys = n.file.phys =>
            /\ Given(m) /\ Given(n) => final[m].family = final[n].family
            /\ Eligible(m) => \E o \in DOMAIN final : o.file.phys = m.file.phys /\ Given(o)

(* Nothing vanishes: a file the partition calls admitted, or supplied by   *)
(* another name or input, is read by a family or stated as an omission of  *)
(* the dated layout or of its links; and nothing that is read is stated as *)
(* omitted.  Three corners are outside the claim: a file of another family *)
(* found through a link that a declared walk met as well (the walk speaks  *)
(* for it); a dated directory that is a linked child of a dated one; and a *)
(* Zeek declaration that starts in a day of a dated root it does not walk: *)
(* the day is that root's, its other walks judge the day's files, and what *)
(* only the declaration's gate admits is read by nobody.                   *)
SpokenFor(n) ==
    /\ n.linked /\ final[n].family # "zeek_dir"
    /\ n.file.phys \in {f.phys : f \in FilesIn(WalkedByAny)}

InForeignDay(n) ==
    \E r \in ZeekRoots : \E f \in FilesIn(Walk(r)) :
        /\ r.mode = "declared" /\ f.phys = n.file.phys
        /\ \E e \in layout.dated \ Walk(r) : f.dir \in Children(e)

NothingVanishes ==
    closed =>
        /\ \A n \in DOMAIN final :
              (final[n].kind \in {"admitted", "supplied"} /\ ~ SpokenFor(n) /\ ~ InForeignDay(n)) =>
                  n.file.phys \in Reads \cup {f.phys : f \in layout.omitted \cup LinkedNotRead}
        /\ \A f \in layout.omitted \cap ReadAs("zeek_dir") :
              \E l \in scene.links : f.dir = l.to /\ {l.from, l.to} \subseteq layout.dated

(* What is documented of a declaration: the family's own gate judges every *)
(* file beneath the declared directory, so each file with readable content *)
(* that it admits is read by the family or stated as an omission of its    *)
(* layout.                                                                 *)
DeclarationIsHonoured ==
    closed => \A r \in RootSet : r.mode = "declared" =>
        \A f \in DeclaredFiles(r) :
            ContentOf(f).sniff \notin {"empty", "torn"} => f \in ReadAs(r.family) \cup layout.omitted

(* So every file is one family's or spoken for. *)
EveryFileHasOneOwner == OneOwner /\ NothingVanishes
=============================================================================
