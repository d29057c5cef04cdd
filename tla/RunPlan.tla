------------------------------ MODULE RunPlan ------------------------------
(***************************************************************************)
(* What a hunt will read and which detectors it will run, decided from the *)
(* command line, the configuration, the state of the system journal and    *)
(* what the directories hold (cli.py, common/sources.py,                   *)
(* _runner/planning.py).  Every call is planned twice over the same        *)
(* inputs, as a dry run and as a run.                                      *)
(*                                                                         *)
(* An input is a family and where it was named, "call" or "config"; what   *)
(* it holds is data: the patterns its discovery yields files for.          *)
(***************************************************************************)
EXTENDS Naturals, FiniteSets

CONSTANTS Calls     \* the invocations, with the state they meet (see Call)

Families == {"zeek_dir", "syslog_dir", "pihole_dir", "cloudtrail_dir"}
LocalSources == {"syslog_dir", "journal"}

SyslogModes == {"auto", "journal", "files", "off"}
JournalStates == {"missing", "fails", "empty", "unusable", "usable"}
ASSUME CallsAssumption ==
    \A c \in Calls : /\ c.flagMode \in SyslogModes \cup {"none"}
                    /\ c.confMode \in SyslogModes \cup {"unset"} /\ c.journal \in JournalStates

Log(source, pattern) == [source |-> source, pattern |-> pattern]

(* REQUIRED_LOGS, OPTIONAL_LOGS and IN_DEFAULT_HUNT of every detector. *)
Detectors == {"auth", "aws", "beacon", "dns", "dnsblock", "exfil", "protocol",
              "scan", "ssl", "syslog"}
DefaultMembers == {"aws", "beacon", "dns", "exfil", "scan", "syslog"}
Required(d) ==
    IF d \in {"beacon", "exfil", "protocol", "scan"} THEN {Log("zeek_dir", "conn")}
    ELSE IF d = "ssl" THEN {Log("zeek_dir", "ssl")}
    ELSE IF d = "dnsblock" THEN {Log("pihole_dir", "pihole")}
    ELSE IF d = "aws" THEN {Log("cloudtrail_dir", "json")}
    ELSE {}
Optional(d) ==
    IF d \in {"auth", "syslog"}
    THEN {Log("syslog_dir", "*.log*"), Log("journal", "*.log*"), Log("zeek_dir", "syslog")}
    ELSE IF d = "dns" THEN {Log("zeek_dir", "dns"), Log("pihole_dir", "pihole")}
    ELSE IF d = "ssl" THEN {Log("zeek_dir", "x509")}
    ELSE {}
RequiresOneOf(d) == d \in {"auth", "dns", "syslog"}

(* The call.  targets: what the positionals sniff as; supplied: the        *)
(* families the walks of --recursive gave files to; flags: the --<f>-dir   *)
(* options; config: the families with a configured directory; emptied: the *)
(* user's file sets syslog_dir to nothing; holds, denied: what inputs hold *)
(* and which cannot be listed; broken: detectors whose import fails.       *)
VARIABLES call, stage, dry, real

planVars == <<call, stage, dry, real>>

-----------------------------------------------------------------------------
(* Selection. *)
Available == Detectors \ call.broken
Inclusions ==
    UNION {CASE token = "all"     -> Available \cup call.broken
             [] token = "default" -> (DefaultMembers \cap Available) \cup call.broken
             [] OTHER             -> {token} : token \in call.plus}
Selected == Inclusions \ call.minus
LaneSelected ==
    \E d \in Selected \ call.broken :
        \E l \in Required(d) \cup Optional(d) : l.source \in LocalSources

(* Routing of the positionals, and the family values of the run. *)
NamedDetectors == IF Cardinality(call.plus) = 1 /\ call.minus = {}
                  THEN call.plus \cap Available ELSE {}

OfOrigin(origin) == CASE origin = "zeek"   -> "zeek_dir"   [] origin = "syslog" -> "syslog_dir"
                      [] origin = "pihole" -> "pihole_dir" [] origin = "trail"  -> "cloudtrail_dir"
                      [] OTHER             -> "zeek_dir"

RouteFor(d, origin) ==
    LET sources == {l.source : l \in Optional(d)}
    IN  IF Required(d) # {} THEN (CHOOSE l \in Required(d) : TRUE).source
        ELSE IF OfOrigin(origin) \in sources /\ origin # "unknown" THEN OfOrigin(origin)
        ELSE IF d = "dns" THEN "zeek_dir" ELSE "syslog_dir"

Buckets ==
    IF call.recursive THEN call.supplied
    ELSE {IF NamedDetectors = {} THEN OfOrigin(o)
          ELSE RouteFor(CHOOSE d \in NamedDetectors : TRUE, o) : o \in call.targets}

Given == call.targets # {}
Overridden == Buckets \cup call.flags
InScope(f) == Given => f \in Buckets

-----------------------------------------------------------------------------
(* The local system-log lane: one of the files, the journal, or nothing.   *)
Configured == IF call.emptied THEN call.config \ {"syslog_dir"} ELSE call.config
ConfiguredMode == IF call.confMode # "unset" THEN call.confMode
                  ELSE IF call.emptied THEN "off" ELSE "auto"
ExplicitMode == call.flagMode # "none"
ExplicitPath == "syslog_dir" \in Overridden
Mode == IF ExplicitPath THEN "files"
        ELSE IF ExplicitMode THEN call.flagMode ELSE ConfiguredMode

Refused == ExplicitMode /\ \/ call.flagMode \in {"journal", "off"} /\ ExplicitPath
                           \/ call.flagMode # "off" /\ ~ LaneSelected
Widens == ExplicitPath \/ call.flagMode \in {"auto", "journal", "files"}

LaneEligible == LaneSelected /\ (InScope("syslog_dir") \/ Widens) /\ Mode # "off"

ScopeWithSyslog(include) ==
    ((IF Given THEN Buckets ELSE Families) \ {"syslog_dir"})
    \cup IF include THEN {"syslog_dir"} ELSE {}
AdjustedScope == ScopeWithSyslog(LaneEligible)

Resolved(f) == IF f \in Overridden THEN {"call"}
               ELSE IF f \in AdjustedScope \cap Configured THEN {"config"} ELSE {}

Reading == LaneEligible /\ Mode \in {"auto", "journal"}

(* The dry run asks the journal for one record; the run captures it. *)
ProbeReady == call.journal \in {"unusable", "usable"}
ProbeProvider ==
    IF ~ LaneEligible THEN "off"
    ELSE IF Mode = "files" THEN "files"
    ELSE IF ProbeReady THEN "journal"
    ELSE IF call.journal = "empty" THEN IF Mode = "journal" THEN "journal" ELSE "files"
    ELSE IF Mode = "journal" THEN "raise" ELSE "files"
CaptureProvider ==
    IF ~ LaneEligible THEN "off"
    ELSE IF Mode = "files" THEN "files"
    ELSE IF Mode = "journal"
    THEN IF call.journal \in {"missing", "fails"} THEN "raise" ELSE "journal"
    ELSE IF call.journal = "usable" THEN "journal" ELSE "files"

(* A mutant: the files stay in the map beside the journal. *)
BothCarriers(provider, captured) ==
    (UNION {{[source |-> f, via |-> v] : v \in Resolved(f)} : f \in Families})
    \cup IF provider = "journal" /\ captured
         THEN {[source |-> "journal", via |-> "capture"]} ELSE {}

(* At most one local carrier; a probed journal has no path to give. *)
SourceDirsForProvider(provider, captured) ==
    (UNION {{[source |-> f, via |-> v] : v \in Resolved(f)} : f \in Families \ {"syslog_dir"}})
    \cup (IF provider = "files"
          THEN {[source |-> "syslog_dir", via |-> v] : v \in Resolved("syslog_dir")} ELSE {})
    \cup IF provider = "journal" /\ captured
         THEN {[source |-> "journal", via |-> "capture"]} ELSE {}

-----------------------------------------------------------------------------
(* The plan. *)
Holds(input, pattern) ==
    \/ input.source = "journal"
    \/ /\ [input |-> input, pattern |-> pattern] \in call.holds
       /\ input \notin call.denied

Satisfiable(log, sources, virtual) ==
    \/ log \in virtual
    \/ \E input \in sources : input.source = log.source /\ Holds(input, log.pattern)

DeniedFor(log, sources) == \E input \in sources \cap call.denied : input.source = log.source

UnmetReason(log, sources) ==
    IF \A input \in sources : input.source # log.source
    THEN IF log.source \in AdjustedScope THEN "not configured" ELSE "out of scope"
    ELSE IF DeniedFor(log, sources) THEN "denied" ELSE "not found"

SkipReason(d, sources, virtual) ==
    LET unmet == {l \in Required(d) : ~ Satisfiable(l, sources, virtual)}
        anyOf == \E l \in Optional(d) : Satisfiable(l, sources, virtual)
    IN  IF d \in call.broken THEN "import failed"
        ELSE IF unmet # {} THEN UnmetReason(CHOOSE l \in unmet : TRUE, sources)
        ELSE IF RequiresOneOf(d) /\ ~ anyOf
        THEN IF \E l \in Optional(d) : DeniedFor(l, sources) THEN "denied" ELSE "no source"
        ELSE "none"

NoPlan == [made |-> FALSE, error |-> "none", provider |-> "off", sources |-> {},
           willRun |-> {}, skipped |-> {}, needed |-> {}]

PlanOver(sources, provider, virtual) ==
    LET runs == {d \in Selected : SkipReason(d, sources, virtual) = "none"}
        needed == UNION {Required(d) \cup {l \in Optional(d) : Satisfiable(l, sources, virtual)}
                         : d \in runs}
    IN  [made     |-> TRUE,
         error    |-> IF \E a, b \in needed : a.pattern = b.pattern /\ a # b
                      THEN "claimed twice" ELSE "none",
         provider |-> provider,
         sources  |-> sources,
         willRun  |-> runs,
         skipped  |-> {[detector |-> d, reason |-> SkipReason(d, sources, virtual)] :
                          d \in Selected \ runs},
         needed   |-> needed]
BuildRunPlan(provider, captured, virtual) ==
    PlanOver(SourceDirsForProvider(provider, captured), provider, virtual)

-----------------------------------------------------------------------------
PlanInit == /\ call \in Calls /\ stage = "called"
            /\ dry = NoPlan /\ real = NoPlan

(* A call that contradicts itself ends before anything is read. *)
Refuse == /\ stage = "called" /\ Refused
          /\ stage' = "refused" /\ UNCHANGED <<call, dry, real>>

NoJournal == [NoPlan EXCEPT !.error = "journal"]
PreviewPlan ==
    IF ProbeProvider = "raise" THEN NoJournal
    ELSE BuildRunPlan(ProbeProvider, FALSE,
                      IF ProbeProvider = "journal" THEN {Log("journal", "*.log*")} ELSE {})
HuntPlan == IF CaptureProvider = "raise" THEN NoJournal ELSE BuildRunPlan(CaptureProvider, TRUE, {})

DryRun ==
    /\ stage = "called" /\ ~ Refused
    /\ stage' = "previewed" /\ dry' = PreviewPlan
    /\ UNCHANGED <<call, real>>

PlanRun ==
    /\ stage = "previewed" /\ real' = HuntPlan
    /\ stage' = IF real'.error = "none" THEN "planned" ELSE "failed"
    /\ UNCHANGED <<call, dry>>

PlanNext == Refuse \/ DryRun \/ PlanRun
PlanSpec == PlanInit /\ [][PlanNext]_planVars

-----------------------------------------------------------------------------
(* The dry run describes the run: the same detectors run and are skipped,  *)
(* for the same reasons and over the same logs, or both raise the same     *)
(* error, and neither plan ever claims one pattern for two sources.  The   *)
(* one exception is a journal with records but no usable row in auto mode, *)
(* which a probe of one record cannot tell from a usable one.              *)
DryRunPlansTheRun ==
    stage \notin {"called", "refused", "previewed", "idle"} =>
        /\ dry.error # "claimed twice" /\ real.error # "claimed twice"
        /\ (Reading /\ Mode = "auto" /\ call.journal = "unusable")
           \/ /\ dry.error = real.error /\ dry.provider = real.provider
              /\ dry.willRun = real.willRun /\ dry.needed = real.needed
              /\ dry.skipped = real.skipped

(* Positionals scope the run: a configured directory is read only when the *)
(* run has no positional, when a positional routed to its family, or when  *)
(* --syslog-source asked for the files; the journal only in the same       *)
(* cases; and a skipped detector is told the true cause, out of scope or   *)
(* not configured.                                                         *)
ScopeIsHonoured ==
    \A p \in {dry, real} : p.made =>
        /\ \A input \in p.sources : input.via # "call" =>
              \/ ~ Given \/ input.source \in Buckets
              \/ /\ input.source \in LocalSources
                 /\ call.flagMode \in {"auto", "journal", "files"}
        /\ \A s \in p.skipped : \A l \in Required(s.detector) :
              /\ s.reason = "out of scope" => Given /\ l.source \notin Overridden
              /\ s.reason = "not configured" => l.source \notin Configured \cup Overridden

(* runner: a dry run announces the run, and the run stays in the asked
   scope. *)
PlanIsTheRun == DryRunPlansTheRun /\ ScopeIsHonoured
=============================================================================
