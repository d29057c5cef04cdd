---------------------------- MODULE MCPopulation ----------------------------
(***************************************************************************)
(* What a run reads and what it keeps of it: recursive discovery, the load *)
(* of one pattern, the fold of a snapshot and the graph that is drawn of a *)
(* load.  A behaviour runs one of the four.                                *)
(***************************************************************************)
EXTENDS LoadPipeline, RecursivePartition, GraphPayload, SnapshotFold, TLC


(* Archives of at most three files, rows at five instants over three days. *)
MCRows == {<<>>, <<NoTime, 6>>, <<4>>, <<6>>, <<8>>,
           <<4, 5>>, <<5, 6>>, <<6, 6>>, <<6, 7>>, <<7, 8>>}

MCFile(name, gz, dir, pos, rows, vet, health, named, day) ==
    [name |-> name, gz |-> gz, dir |-> dir, pos |-> pos, rows |-> rows, vet |-> vet,
     health |-> health, named |-> named, day |-> day]

MCDirectory(dir) == [dir |-> dir, kind |-> "directory", days |-> {}, links |-> {}]

(* Families that are in order, ambiguous, overlapping, mixed and unrelated. *)
MCNamings ==
    { <<LiveName("a"), OrdinalName("a", 1, FALSE), OrdinalName("a", 2, FALSE)>>,
      <<LiveName("a"), OrdinalName("a", 2, FALSE), OrdinalName("a", 2, FALSE)>>,
      <<LiveName("a"), LiveName("b"), OrdinalName("a", 0, FALSE)>>,
      <<DaysName("a", 2, 1), DatedName("a", 2), HoursName("b", 1, 1, 0)>>,
      <<DaysName("a", 4, 1), DaysName("a", 3, 1), HoursName("a", 1, 2, 1)>>,
      <<DaysName("a", 4, 1), HoursName("a", 3, 4, 0), HoursName("a", 3, 2, 0)>> }

MCFlat(naming, rows, vet, health, named, widen) ==
    [family |-> "flat", layouts |-> {MCDirectory(1)}, sibling |-> NoTime, widen |-> widen,
     files |-> {MCFile(naming[i], i = 3, 1, i, rows[i], IF i = 1 THEN vet ELSE "plain",
                       IF i = 3 THEN "ok" ELSE health[i], named /\ i = 2, Root) : i \in 1..3}]

MCHealths ==
    {<<"ok", "ok">>, <<"torn", "ok">>, <<"ok", "torn">>, <<"denied", "ok">>,
     <<"binary", "foreign">>, <<"ok", "tornEarly">>, <<"torn", "torn">>}

MCFlatArchives ==
    {MCFlat(naming, rows, "plain", <<"ok", "ok">>, FALSE, FALSE) :
        naming \in MCNamings, rows \in MCRows \X MCRows \X (MCRows \ {<<6>>, <<5, 6>>, <<6, 6>>, <<7, 8>>})}
    \cup {MCFlat(naming, rows, vet, health, named, widen) :
        naming \in {<<LiveName("a"), OrdinalName("a", 1, FALSE), OrdinalName("a", 2, TRUE)>>},
        rows \in {<<7, 8>>, <<8>>, <<NoTime, 6>>} \X {<<5>>, <<6, 7>>, <<>>} \X {<<4>>, <<4, 5>>},
        vet \in {"plain", "redated", "nostat"}, health \in MCHealths,
        named \in BOOLEAN, widen \in BOOLEAN}

MCZeek(layouts, rows, days, health, sibling) ==
    [family |-> "zeek", layouts |-> layouts, sibling |-> sibling, widen |-> FALSE,
     files |-> {MCFile(LiveName("conn"), FALSE, 1, i, rows[i], "plain",
                       IF i = 1 THEN health ELSE "ok", layouts = {}, days[i]) : i \in 1..2}]

MCZeekLayouts ==
    {{}, {MCDirectory(1)},
     {[MCDirectory(1) EXCEPT !.days = {2, 3}]},
     {[MCDirectory(1) EXCEPT !.days = {2, 3, 4}, !.links = {4}]},
     {[MCDirectory(1) EXCEPT !.days = {2, 3}], MCDirectory(2)},
     {[MCDirectory(1) EXCEPT !.days = {2, 3}], [MCDirectory(2) EXCEPT !.kind = "denied"]}}

MCZeekArchives ==
    {MCZeek(layouts, rows, days, health, sibling) :
        layouts \in MCZeekLayouts,
        rows \in {<<4>>, <<4, 7>>, <<8>>, <<>>} \X {<<6>>, <<7, 8>>, <<NoTime, 5>>},
        days \in {<<2, 3>>, <<3, 4>>, <<Undated, 2>>, <<Root, Root>>},
        health \in {"ok", "torn", "malformed", "denied"}, sibling \in {NoTime, 8}}

MCTrail ==
    {[family |-> "cloudtrail", layouts |-> {MCDirectory(1)}, sibling |-> NoTime, widen |-> FALSE,
      files |-> {MCFile(LiveName("e"), FALSE, 1, 1, rows, "plain", health, FALSE, Root)}] :
        rows \in MCRows, health \in {"ok", "torn", "denied"}}

(* A file of a dated input lies in a directory the input has. *)
MCArchives ==
    MCFlatArchives \cup MCTrail
    \cup {a \in MCZeekArchives : \A f \in a.files : \A l \in a.layouts :
             l.dir = 1 => IF l.days = {} THEN f.day = Root
                          ELSE f.day \in l.days \cup {Root, Undated}}

MCRequests ==
    {[mode |-> m, since |-> NoTime, until |-> NoTime] : m \in {"all", "default"}}
    \cup {[mode |-> "explicit", since |-> w[1], until |-> w[2]] :
             w \in {<<5, NoTime>>, <<6, NoTime>>, <<NoTime, 6>>, <<5, 7>>, <<6, 6>>}}
-----------------------------------------------------------------------------
(* What rests while another one runs. *)
NoScene == [permitted |-> {}, inputs |-> {}]
PartIdle ==
    /\ scene = NoScene /\ pending = {} /\ closed = FALSE
    /\ roots = <<>> /\ names = {} /\ supplied = {} /\ final = <<>> /\ layout = NoLayout

LoadIdle ==
    /\ archive = "none" /\ request = "none" /\ stage = "idle" /\ policy = "none"
    /\ windows = NoWindow /\ todo = {} /\ table = {} /\ account = EmptyAccount
    /\ tracker = "none" /\ coverage = "none"

GraphIdle ==
    /\ graph = <<>> /\ loaded = <<>> /\ widened = FALSE /\ draft = <<>> /\ cut = Uncut
    /\ payload = <<>> /\ graphStep = "idle"

FoldIdle ==
    /\ fs = [f \in Files |-> Gone] /\ changes = 0 /\ pc = "raised" /\ current = 1
    /\ snapshot = [f \in Files |-> NotTaken] /\ handle = Closed /\ row = 1 /\ plan = "none"
    /\ status = [s \in Sinks |-> "ready"] /\ admission = "ready" /\ run = [s \in Sinks |-> {}]
    /\ delta = run /\ checkpoint = run /\ frame = {} /\ fileFrame = {} /\ committed = {}
    /\ aborted = {} /\ attempted = 0 /\ skipped = {} /\ mutated = FALSE

(* The compressed file of a fold starts with one row.                      *)
FoldInit == Init /\ Size(fs[NFiles].content) = 1

Folds == stage = "idle" /\ scene = NoScene /\ graphStep = "idle"
popVars == <<loadVars, partVars, graphVars, vars>>

PopInit ==
    \/ GraphInit /\ LoadIdle /\ PartIdle /\ FoldIdle
    \/ LoadInit /\ PartIdle /\ GraphIdle /\ FoldIdle
    \/ PartInit /\ LoadIdle /\ GraphIdle /\ FoldIdle
    \/ FoldInit /\ LoadIdle /\ PartIdle /\ GraphIdle
PopNext ==
    \/ stage # "idle" /\ LoadNext /\ UNCHANGED <<partVars, graphVars, vars>>
    \/ scene # NoScene /\ PartNext /\ UNCHANGED <<loadVars, graphVars, vars>>
    \/ GraphNext /\ UNCHANGED <<loadVars, partVars, vars>>
    \/ Next /\ UNCHANGED <<loadVars, partVars, graphVars>>
    \/ Folds /\ pc \in {"done", "raised"} /\ UNCHANGED popVars
PopSpec == PopInit /\ [][PopNext]_popVars

(* Discovery alone.                                                        *)
TreeInit == PartInit /\ LoadIdle /\ GraphIdle /\ FoldIdle
TreeSpec == TreeInit /\ [][PartNext /\ UNCHANGED <<loadVars, graphVars, vars>>]_popVars

(* Two changes in a pass are followed where rows are admitted, which is    *)
(* where a file has most to take back.                                     *)
MCBound == plan = "admit" \/ changes < MaxChanges
MCSymmetry == Permutations(Inodes)

(* Small trees: four directories, one link, two names of one file. *)

MCParents == {<<1, 1, 2, 3>>, <<1, 1, 1, 2>>, <<1, 1, 1, 4>>}
MCLinks == {{}} \cup {{[from |-> f, to |-> t, dateNamed |-> d]} :
              f \in {2, 3}, t \in {4}, d \in BOOLEAN}
    \cup {{[from |-> 2, to |-> 3, dateNamed |-> TRUE]}}
MCContents ==
    {[sniff |-> "zeek_dir", wanted |-> TRUE, lines |-> FALSE],
     [sniff |-> "zeek_dir", wanted |-> FALSE, lines |-> FALSE],
     [sniff |-> "pihole_dir", wanted |-> TRUE, lines |-> TRUE],
     [sniff |-> "none", wanted |-> TRUE, lines |-> FALSE],
     [sniff |-> "none", wanted |-> TRUE, lines |-> TRUE],
     [sniff |-> "torn", wanted |-> TRUE, lines |-> FALSE],
     [sniff |-> "empty", wanted |-> TRUE, lines |-> FALSE]}
MCLikes == {{}, {"zeek_dir"}, {"pihole_dir"}}

MCPartition(d) == [mode |-> "partition", family |-> "none", dir |-> d, phys |-> 0,
                   readable |-> TRUE]
MCDeclared(fam, d) == [mode |-> "declared", family |-> fam, dir |-> d, phys |-> 0,
                       readable |-> TRUE]
MCNamed(fam, p, r) == [mode |-> "file", family |-> fam, dir |-> 0, phys |-> p, readable |-> r]
MCInputs ==
    {{MCPartition(1)}, {MCPartition(2), MCPartition(1)},
     {MCPartition(2), MCDeclared("zeek_dir", 1)}, {MCPartition(1), MCDeclared("syslog_dir", 3)},
     {MCPartition(1), MCDeclared("zeek_dir", 3)},
     {MCPartition(2), MCNamed("syslog_dir", 1, TRUE)}, {MCPartition(3), MCNamed("zeek_dir", 1, FALSE)}}

MCF(id, dir, phys, likes, ex) ==
    [id |-> id, dir |-> dir, phys |-> phys, likes |-> likes, excluded |-> ex]

MCLikings ==
    {<<{"zeek_dir"}, {"zeek_dir"}>>, <<{"zeek_dir"}, {}>>,
     <<{"zeek_dir"}, {"pihole_dir"}>>, <<{"pihole_dir"}, {}>>}

(* A chain, a fan with a grandchild, and two branches; a directory of the  *)
(* chain cannot be listed in one of the trees.                             *)
MCTrees ==
    {[parent |-> t[1], dateNamed |-> t[2], unlisted |-> t[3]] :
        t \in {<<<<1, 1, 2, 3>>, {3}, {}>>, <<<<1, 1, 2, 3>>, {2, 4}, {}>>,
               <<<<1, 1, 2, 3>>, {3}, {3}>>, <<<<1, 1, 1, 2>>, {}, {}>>,
               <<<<1, 1, 1, 2>>, {3}, {}>>, <<<<1, 1, 1, 4>>, {2, 4}, {}>>}}

(* Every sort of content for one placing of the files, some for the others. *)
MCPlaced == ({<<2, 3>>} \X MCContents)
            \cup ({<<3, 4>>, <<1, 4>>} \X {c \in MCContents : c.wanted /\ c.sniff \notin {"pihole_dir", "empty"}})
MCSceneSet ==
    {[parent |-> t.parent, dateNamed |-> t.dateNamed, unlisted |-> t.unlisted, links |-> ln,
      files |-> {MCF(1, at[1][1], 1, lk[1], FALSE),
                 MCF(2, at[1][2], 1, lk[2], at[1][2] = 2 /\ lk[2] = {})},
      content |-> <<at[2]>>, permitted |-> {"zeek_dir", "syslog_dir", "pihole_dir"}, inputs |-> inp] :
        t \in MCTrees, ln \in MCLinks, at \in MCPlaced, lk \in MCLikings, inp \in MCInputs}
-----------------------------------------------------------------------------
(* Small pictures: short, with bands that leave it, with sparse ends, with *)
(* more flows than fit, and Pi-hole lines that tell a disposition twice.   *)
MCWidths == <<1, 2, 5, 10>>
GConn(t, s, d, v, b, len) == [ts |-> t, src |-> s, dst |-> d, svc |-> v, bytes |-> b, dur |-> len]
GLine(t, s, n, e) == [ts |-> t, src |-> s, dst |-> n, svc |-> e]
GAsk(kind, rows, mode) ==
    [kind |-> kind, rows |-> rows, hosts |-> 3, services |-> 3, target |-> 6, mode |-> mode,
     from |-> 2, to |-> 9, denied |-> FALSE]
(* Three rows: bytes, durations and times of every sort. *)
GShort ==
    {<<GConn(1, 1, 2, 1, 2, 3), GConn(t, 2, 1, 2, b, len), GConn(u, 1, 2, 3, c, 6)>> :
        t \in {Never, 2, 5}, b \in {Never, 0, 9}, len \in {Never, 1, 4}, u \in {0, 7, 12}, c \in {0, 2}}
(* A dense body, and an outlier on either side. *)
GBody == [i \in 1..9 |-> GConn(6 + (i % 3), 1 + (i % 2), 2, 1, 1, i % 2)]
GEnds == {GBody \o <<GConn(0, 4, 5, 2, 2, len)>> \o after :
             len \in {0, 6, 12}, after \in {<<>>, <<GConn(14, 2, 1, 3, 1, 0)>>, <<GConn(11, 2, 1, 3, 1, 2)>>}}
         \cup {GBody \o <<GConn(t, 1, 2, 2, 0, 0)>> : t \in {3, 4, 12, 20}}
(* Many labels of each column. *)
GMany(n, step) == [i \in 1..n |-> GConn(i * step, i % 4, 4 + (i \div 3), i % 3, i % 3, 2 * (i % 2))]
GPihole ==
    {<<GLine(1, 1, 11, 0), GLine(t, 1, n, 1), GLine(t, 2, n, 1), GLine(2, 1, 12, e), GLine(5, 2, m, 0),
       GLine(6, 2, 31, 3)>> : t \in {1, 4, 9}, n \in {11, 21, Unnamed}, e \in {2, 3, 7}, m \in {12, 21, Unnamed}}
GDns == {<<GLine(t, 1, 2, 1), GLine(3, 1, n, 2), GLine(8, 2, 3, 1)>> : t \in {Never, 1, 12}, n \in {2, Unnamed}}
MCGraphs ==
    {GAsk("conn", rows, mode) : rows \in GShort, mode \in {"none", "dated"}}
    \cup {[GAsk("conn", rows, mode) EXCEPT !.target = n] :
             rows \in GEnds, mode \in {"none", "all", "default"}, n \in {6, 30}}
    \cup {[GAsk("conn", GMany(n, k), "all") EXCEPT !.hosts = h, !.services = s, !.target = t] :
             n \in {12, 16}, k \in {0, 1, 2}, h \in 1..4, s \in 1..3, t \in {1, 20}}
    \cup {[GAsk("pihole", rows, mode) EXCEPT !.services = s] :
             rows \in GPihole, mode \in {"none", "default"}, s \in {1, 3}}
    \cup {[GAsk("pihole", [i \in 1..10 |-> GLine(i % 3, i % 4, 11 + (i % 2), i \div 10)], "none")
             EXCEPT !.target = t] : t \in {1, 6}}
    \cup {[GAsk("conn", [i \in 1..16 |-> GConn(i % 2, 1, 4 + (i % 2), 1 + (i \div 2), 0, 0)], "all")
             EXCEPT !.services = s] : s \in {5, 9}}
    \cup {[GAsk("dns", rows, mode) EXCEPT !.denied = b] :
             rows \in GDns, mode \in {"none", "asked", "dated"}, b \in BOOLEAN}
    \cup {GAsk("conn", <<GConn(t, 1, 2, 1, 1, 4)>>, "dated") : t \in {0, 1, 12}}
    \cup {GAsk("conn", <<>>, "dated"), GAsk("dns", <<>>, "none")}
=============================================================================
