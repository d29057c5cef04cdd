----------------------------- MODULE Allowlist -----------------------------
(***************************************************************************)
(* The allowlist (common/allowlist.py), the verb that manages it           *)
(* (cli_allowlist.py) and what a hunt does with it (_runner/analyze.py,    *)
(* _runner/planning.py).  A behaviour is a setup, up to MaxVerbs verbs on  *)
(* it, any of which may die between its writes, and a hunt.                *)
(*                                                                         *)
(* A name is [rank, hidden, backup, suffix, head], a file a set of lines.  *)
(* What a line is as a pattern, and as a rule, is given; a rule is         *)
(* [ips, ports, protos, scope], empty where it says nothing.               *)
(***************************************************************************)
EXTENDS Naturals, FiniteSets, SequencesExt

CONSTANTS
    Setups,             \* [config, directory, frames, off]
    Registry,            \* the registry, in load order: [name, default, file]
    LinesOf,            \* of a file
    FormOf, Hits,       \* of a line as a pattern, and the values it is found in
    RulesOf,            \* of a line as a rule: one, or none if unreadable
    LowerOf, ApexOf,    \* of a value: in lower case, and the probe below it
    CopyNames,          \* names that copy may compose
    Hunters,            \* the detectors
    MaxVerbs

ASSUME AllowlistAssumption == MaxVerbs \in Nat

VARIABLES
    lists,      \* the configuration: [master, shape, set, dir, domains, rules, entries]
    kept,       \* its .bak, <<>> when there is none
    directory,    \* the directory: <<name, file>> pairs
    verbs,     \* of the verbs: [left, asked, before, copied]
    frames,     \* the distinct frames of the hunt: [columns, rows]
    off,        \* --no-allowlist
    plan,       \* resolve_allowlist_plan's lists, in load order
    matcher,    \* [domains, hosts, rules, advice]
    given,       \* the rows each detector is given of each frame
    coverage,   \* the counts of the banner
    allowStep   \* "verbs", "toggle", "dead", "build", "filter", "done", "failed"

allowVars == <<lists, kept, directory, verbs, frames, off, plan, matcher, given, coverage, allowStep>>

ShippedNames == {Registry[k].name : k \in DOMAIN Registry}
-----------------------------------------------------------------------------
(* The dot rule, in the order of its clauses. *)
Kind(name) ==
    CASE name.hidden \/ name.backup -> "none"
      [] name.suffix = "toml" -> "stanza"
      [] name.suffix # "" -> "none"
      [] OTHER -> name.head

(* The plan: tiers in load order, a file once. *)
ByRank(S) == [k \in 1..Cardinality(S) |->
                CHOOSE e \in S : Cardinality({d \in S : d[1].rank < e[1].rank}) = k - 1]
Dropin(kind) ==
    LET there == ByRank({e \in directory : Kind(e[1]) = kind})
    IN  [k \in DOMAIN there |-> [name |-> there[k][1], kind |-> kind, origin |-> "dropin",
                                 file |-> there[k][2], enabled |-> TRUE]]
FromPaths(paths, kind) ==
    LET there == SelectSeq(paths, LAMBDA p : p \in DOMAIN LinesOf)
    IN  [k \in DOMAIN there |-> [name |-> there[k], kind |-> kind, origin |-> "config-path",
                                 file |-> there[k], enabled |-> TRUE]]
Enabled(spec) == IF lists.set[spec.name] = "unset" THEN spec.default
                 ELSE lists.set[spec.name] = "on"
Curated == [k \in DOMAIN Registry |-> [name |-> Registry[k].name, kind |-> "domain",
                                      origin |-> "shipped", file |-> Registry[k].file,
                                      enabled |-> Enabled(Registry[k])]]
Emit(acc, l) == IF \E k \in DOMAIN acc : acc[k].file = l.file THEN acc ELSE Append(acc, l)
InDirectory == IF lists.dir THEN Dropin("domain") \o Dropin("numeric") \o Dropin("host") ELSE <<>>
Planned == FoldLeft(Emit, <<>>, Curated \o InDirectory \o FromPaths(lists.domains, "domain")
                                   \o FromPaths(lists.rules, "numeric"))
Stanzas == lists.entries \cup
    (IF lists.dir THEN UNION {RulesOf[line] : line \in UNION {LinesOf[e[2]] :
                                 e \in {d \in directory : Kind(d[1]) = "stanza"}}}
     ELSE {})

(* The matcher: enabled lists only, read again. *)
Active(kind) == {k \in DOMAIN plan : plan[k].enabled /\ plan[k].kind = kind}
LinesIn(kind) == UNION {LinesOf[plan[k].file] : k \in Active(kind)}
Compiles(line) == FormOf[line] # "malformed"
Empty == [domains |-> {}, hosts |-> {}, rules |-> {}, advice |-> {}]
Compiled ==
    [domains |-> {l \in LinesIn("domain") : Compiles(l)},
     hosts |-> {l \in LinesIn("host") : Compiles(l)},
     rules |-> (UNION {RulesOf[l] : l \in LinesIn("numeric")}) \cup Stanzas,
     advice |-> UNION {{<<plan[k].file, l>> : l \in {m \in LinesOf[plan[k].file] : ~ Compiles(m)}} :
                          k \in Active("domain") \cup Active("host")}]

(* The lanes: a frame with queries is matched by domain patterns only; any *)
(* other by rules, and by host patterns where it has hosts. *)
Found(lines, value) == \E l \in lines : value \in Hits[l]
(* A mutant: the apex is not probed. *)
DomainHitBare(row) == Found(matcher.domains, LowerOf[row.query])
DomainHit(row) == \/ Found(matcher.domains, LowerOf[row.query])
                  \/ Found(matcher.domains, ApexOf[LowerOf[row.query]])
HostHit(row) == Found(matcher.hosts, LowerOf[row.host])
IpsMatch(ips, row) ==
    CASE Len(ips) = 0 -> TRUE
      [] Len(ips) = 1 -> row.src \in ips[1] \/ row.dst \in ips[1]
      [] OTHER -> \/ row.src \in ips[1] /\ row.dst \in ips[2]
                  \/ row.src \in ips[2] /\ row.dst \in ips[1]
Covers(rule, frame, row) ==
    /\ rule.ports # {} => "port" \in frame.columns /\ row.port \in rule.ports
    /\ rule.protos # {} => "port" \in frame.columns /\ row.proto \in rule.protos
    /\ rule.ips # <<>> => "src" \in frame.columns /\ IpsMatch(rule.ips, row)
RuleHit(frame, row, rules) == \E r \in rules : Covers(r, frame, row)
Scoped(d) == {r \in matcher.rules : r.scope = {} \/ d \in r.scope}
Filtered(frame, d) ==
    IF "query" \in frame.columns THEN {r \in frame.rows : ~ DomainHit(r)}
    ELSE {r \in frame.rows : /\ ~ RuleHit(frame, r, Scoped(d))
                             /\ "host" \in frame.columns => ~ HostHit(r)}
Contribution(frame) ==      \* scope-blind
    LET query == "query" \in frame.columns
        src == ~ query /\ "src" \in frame.columns
        host == ~ query /\ "host" \in frame.columns
    IN  [domains |-> IF query THEN {r \in frame.rows : DomainHit(r)} ELSE {},
         connections |-> IF src THEN {r \in frame.rows : RuleHit(frame, r, matcher.rules)} ELSE {},
         hosts |-> IF host THEN {r \in frame.rows : HostHit(r)} ELSE {}]
Nothing == [domains |-> {}, connections |-> {}, hosts |-> {}]

-----------------------------------------------------------------------------
(* enable and disable: the old bytes go to .bak, then the file is          *)
(* replaced.  A table of lists written another way is not found, and the   *)
(* second table makes the file unreadable. *)
Upsert(config, n, on) ==
    [config EXCEPT !.set = [@ EXCEPT ![n] = IF on THEN "on" ELSE "off"],
                   !.shape = IF @ \in {"inline", "broken"} THEN "broken" ELSE "table"]
Toggle(n, on) ==
    /\ allowStep = "verbs" /\ verbs.left > 0 /\ lists.shape # "no file"
    /\ kept' = lists
    /\ verbs' = [verbs EXCEPT !.left = @ - 1, !.asked = [name |-> n, on |-> on],
                                !.before = lists]
    /\ allowStep' = "toggle"
    /\ UNCHANGED <<lists, directory, frames, off, plan, matcher, given, coverage>>
Overwrite ==
    /\ allowStep = "toggle" /\ allowStep' = "verbs"
    /\ lists' = Upsert(kept, verbs.asked.name, verbs.asked.on)
    /\ UNCHANGED <<kept, directory, verbs, frames, off, plan, matcher, given, coverage>>
Die ==          \* between the two replacements
    /\ allowStep = "toggle" /\ allowStep' = "verbs"
    /\ verbs' = [verbs EXCEPT !.asked = [name |-> "none", on |-> FALSE]]
    /\ UNCHANGED <<lists, kept, directory, frames, off, plan, matcher, given, coverage>>

(* copy: under a name that loads as a list of the same kind, not over a    *)
(* file; the copy has the lines of the shipped list. *)
Copy(k, name) ==
    /\ allowStep = "verbs" /\ verbs.left > 0 /\ lists.shape # "broken" /\ lists.dir
    /\ Kind(name) = "domain" /\ \A e \in directory : e[1] # name
    /\ directory' = directory \cup {<<name, Registry[k].copy>>}
    /\ verbs' = [verbs EXCEPT !.left = @ - 1, !.copied = @ \cup {name}]
    /\ UNCHANGED <<lists, kept, frames, off, plan, matcher, given, coverage, allowStep>>

-----------------------------------------------------------------------------
(* The hunt. *)
Unreadable ==
    /\ allowStep = "verbs" /\ lists.shape = "broken" /\ allowStep' = "failed"
    /\ UNCHANGED <<lists, kept, directory, verbs, frames, off, plan, matcher, given, coverage>>
Resolve ==
    /\ allowStep = "verbs" /\ lists.shape # "broken" /\ allowStep' = "build"
    /\ plan' = Planned
    /\ UNCHANGED <<lists, kept, directory, verbs, frames, off, matcher, given, coverage>>
Build ==
    /\ allowStep = "build" /\ allowStep' = "filter"
    /\ matcher' = IF off \/ ~ lists.master THEN Empty ELSE Compiled
    /\ UNCHANGED <<lists, kept, directory, verbs, frames, off, plan, given, coverage>>
Suppress ==
    /\ allowStep = "filter" /\ allowStep' = "done"
    /\ given' = [d \in Hunters |-> [f \in DOMAIN frames |-> Filtered(frames[f], d)]]
    /\ coverage' = [f \in DOMAIN frames |-> IF off \/ ~ lists.master THEN Nothing
                                            ELSE Contribution(frames[f])]
    /\ UNCHANGED <<lists, kept, directory, verbs, frames, off, plan, matcher>>

AllowInit ==
    /\ \E s \in Setups : /\ lists = s.config /\ directory = s.directory
                         /\ frames = s.frames /\ off = s.off
    /\ kept = <<>> /\ plan = <<>> /\ matcher = Empty /\ given = <<>> /\ coverage = <<>>
    /\ verbs = [left |-> MaxVerbs, asked |-> [name |-> "none", on |-> FALSE],
                 before |-> lists, copied |-> {}]
    /\ allowStep = "verbs"
AllowNext ==
    \/ \E n \in ShippedNames, on \in BOOLEAN : Toggle(n, on)
    \/ \E k \in DOMAIN Registry, name \in CopyNames : Copy(k, name)
    \/ Overwrite \/ Die \/ Unreadable \/ Resolve \/ Build \/ Suppress
AllowSpec == AllowInit /\ [][AllowNext]_allowVars

-----------------------------------------------------------------------------
(* What the operator's files say, line by line and without the plan: a     *)
(* line is in force if its list is on, or if its file is in the directory  *)
(* or named in the configuration and is not a shipped list itself.         *)
On == lists.master /\ ~ off
ShippedFiles == {Registry[k].file : k \in DOMAIN Registry}
FilesOfDir(kind) == {e[2] : e \in {d \in directory : lists.dir /\ Kind(d[1]) = kind}}
Named(paths) == ToSet(paths) \cap DOMAIN LinesOf
InForce(kind) ==
    LET here == [k \in {"domain", "numeric", "host"} |-> FilesOfDir(k)]
        on == {Registry[k].file : k \in {j \in DOMAIN Registry : Enabled(Registry[j])}}
        domain == here["domain"] \ ShippedFiles
        numeric == here["numeric"] \ (ShippedFiles \cup here["domain"])
        host == here["host"] \ (ShippedFiles \cup here["domain"] \cup here["numeric"])
        paths == Named(lists.domains) \ (ShippedFiles \cup numeric \cup host)
        named == Named(lists.rules) \ (ShippedFiles \cup domain \cup host \cup paths)
    IN  UNION {LinesOf[f] : f \in CASE kind = "domain" -> on \cup domain \cup paths
                                   [] kind = "numeric" -> numeric \cup named
                                   [] OTHER -> host}
RulesInForce == (UNION {RulesOf[l] : l \in InForce("numeric")}) \cup Stanzas
Excused(f, row, rules) ==
    On /\ IF "query" \in frames[f].columns
          THEN \E l \in InForce("domain") : Compiles(l) /\
                  {LowerOf[row.query], ApexOf[LowerOf[row.query]]} \cap Hits[l] # {}
          ELSE \/ \E r \in rules : Covers(r, frames[f], row)
               \/ "host" \in frames[f].columns /\ \E l \in InForce("host") :
                     Compiles(l) /\ LowerOf[row.host] \in Hits[l]

(* A detector loses exactly the rows that a line in force, scoped to it,   *)
(* covers; every row that any detector loses is counted, and every counted *)
(* row is covered; a pattern in force is live or told of.  A rule that     *)
(* says nothing covers every row, and its rows are only counted where a    *)
(* frame has addresses. *)
SuppressionIsAccounted ==
    allowStep = "done" =>
        /\ \A f \in DOMAIN frames :
              LET counted == coverage[f].domains \cup coverage[f].connections \cup coverage[f].hosts
                  for(d) == {r \in RulesInForce : r.scope = {} \/ d \in r.scope}
              IN  /\ \A d \in Hunters :
                        given[d][f] = {r \in frames[f].rows : ~ Excused(f, r, for(d))}
                  /\ counted \subseteq {r \in frames[f].rows : Excused(f, r, RulesInForce)}
                  /\ (\A r \in RulesInForce : r.ips # <<>> \/ r.ports \cup r.protos # {}) =>
                        \A d \in Hunters : frames[f].rows \ given[d][f] \subseteq counted
        /\ On => \A kind \in {"domain", "host"} : \A l \in InForce(kind) :
                    \/ l \in matcher.domains \cup matcher.hosts
                    \/ \E a \in matcher.advice : a[2] = l
        /\ ~ On => matcher = Empty

(* A toggle is all or nothing: the configuration is the old one or the old *)
(* one with that list set, .bak is the old one from before the first byte  *)
(* changes, and a hunt obeys it, unless the file wrote its lists in a way  *)
(* the verb does not read: then nothing loads, and .bak still does.  A     *)
(* copy is loaded whatever becomes of the list it was made of. *)
TogglesAreObeyed ==
    /\ allowStep = "toggle" => kept = lists
    /\ (verbs.asked.name # "none" /\ allowStep # "toggle") =>
          /\ \A n \in ShippedNames \ {verbs.asked.name} : lists.set[n] = verbs.before.set[n]
          /\ kept = verbs.before
          /\ lists.shape = "broken" => verbs.before.shape \in {"inline", "broken"}
          /\ allowStep = "done" => \A k \in DOMAIN plan :
                (plan[k].origin = "shipped" /\ plan[k].name = verbs.asked.name)
                    => plan[k].enabled = verbs.asked.on
    /\ (allowStep = "done" /\ On) => \A e \in directory : e[1] \in verbs.copied =>
          \A l \in LinesOf[e[2]] : Compiles(l) => l \in matcher.domains

(* The allowlist does what its files and its verbs say. *)
AllowlistIsHonest == SuppressionIsAccounted /\ TogglesAreObeyed
=============================================================================
