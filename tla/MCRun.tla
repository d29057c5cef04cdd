------------------------------- MODULE MCRun -------------------------------
(***************************************************************************)
(* From the command line to the exit code.  A behaviour plans one call     *)
(* twice, or plans one and runs it to its end, or fans out, exports, sets  *)
(* up, manages the allowlist and hunts with it, draws the era deck of an   *)
(* archive, or writes the files all of these write.                        *)
(***************************************************************************)
EXTENDS RunLifecycle, FanOut, MCExportWindow, MCInitWizard, MCAllowlist, EraDeck,
        PrivateFiles

NoTerms == [yes |-> FALSE, gate |-> FALSE, quiet |-> FALSE, target |-> "none"]
NoCall == [plus |-> {}, minus |-> {}, targets |-> {}, recursive |-> FALSE, supplied |-> {},
           flags |-> {}, config |-> {}, emptied |-> FALSE, confMode |-> "unset",
           flagMode |-> "none", journal |-> "missing", holds |-> {}, denied |-> {}, broken |-> {}]

FanIdle == /\ verb = "idle" /\ issues = {} /\ todo = {} /\ ledger = <<>> /\ retried = {}
           /\ target = <<>> /\ said = {} /\ code = "none"
ExportIdle == /\ export = <<>> /\ phase = "idle" /\ window = <<>> /\ pending = <<>>
              /\ records = <<>> /\ notes = {} /\ files = <<>>
NoScene == [configs |-> [h \in Homes |-> NoFile], dropins |-> [n \in Dropins |-> "none"],
            found |-> {}, journal |-> FALSE, writable |-> {}, edits |-> {}]
WizardIdle == /\ scene = NoScene /\ wizard = "idle" /\ flow = "none" /\ scope = "none"
              /\ home = "none" /\ existing = NoFile /\ seen = NoFile /\ answers = NoAnswers
              /\ skips = Untouched /\ configs = scene.configs /\ dropins = scene.dropins
              /\ backups = scene.configs /\ edited = [home |-> "none", when |-> "never"]
AllowIdle == /\ lists = MCListings /\ kept = <<>> /\ directory = {} /\ frames = <<>>
             /\ verbs = [left |-> 0, asked |-> [name |-> "none", on |-> FALSE],
                         before |-> <<>>, copied |-> {}]
             /\ off = FALSE /\ plan = <<>> /\ matcher = Nothing /\ given = <<>> /\ coverage = <<>>
             /\ allowStep = "idle"
EraIdle == /\ tape = <<>> /\ changed = {} /\ reducer = <<>> /\ census = {} /\ folding = <<>>
           /\ cards = <<>> /\ eraStep = "idle"
FilesIdle == /\ desk = <<>> /\ folder = 0 /\ dirs = <<>> /\ inodes = <<>> /\ hands = <<>>
             /\ chance = <<>>
PlanIdle == call = NoCall /\ stage = "idle" /\ dry = NoPlan /\ real = NoPlan

(* The calls that are run to their end: three detectors, two of them with  *)
(* a prepared population, and the ways to have nothing to run.             *)
MCInput(f, v) == [source |-> f, via |-> v]
MCAll(v) == {[input |-> MCInput(l.source, v), pattern |-> l.pattern] :
                l \in UNION {Required(d) \cup Optional(d) : d \in Detectors}}
MCLived == {[NoCall EXCEPT !.plus = p, !.minus = m, !.config = Families, !.holds = h] :
                p \in {{"syslog", "dnsblock", "aws"}}, m \in {{}, {"syslog", "dnsblock", "aws"}},
                h \in {{}, MCAll("config")}}

MCTerms == [yes : BOOLEAN, gate : BOOLEAN, quiet : BOOLEAN, target : {"file", "final", "stdout"}]
LifeIdle == PlanIdle /\ terms = NoTerms /\ RunInit
Others == FanIdle /\ ExportIdle /\ WizardIdle
MCInit ==
    \/ PlanInit /\ terms = NoTerms /\ RunInit /\ Others /\ AllowIdle /\ EraIdle /\ FilesIdle
    \/ /\ call \in MCLived /\ stage = "called" /\ dry = NoPlan /\ real = NoPlan
       /\ terms \in Terms /\ RunInit /\ Others /\ AllowIdle /\ EraIdle /\ FilesIdle
    \/ FanInit /\ LifeIdle /\ ExportIdle /\ WizardIdle /\ AllowIdle /\ EraIdle /\ FilesIdle
    \/ ExportInit /\ LifeIdle /\ FanIdle /\ WizardIdle /\ AllowIdle /\ EraIdle /\ FilesIdle
    \/ WizardInit /\ LifeIdle /\ FanIdle /\ ExportIdle /\ AllowIdle /\ EraIdle /\ FilesIdle
    \/ AllowInit /\ LifeIdle /\ Others /\ EraIdle /\ FilesIdle
    \/ EraInit /\ LifeIdle /\ Others /\ AllowIdle /\ FilesIdle
    \/ FilesInit /\ LifeIdle /\ Others /\ AllowIdle /\ EraIdle
MCNext ==
    \/ PlanNext /\ UNCHANGED <<runVars, fanVars, vars, wizardVars, allowVars, eraVars, fileVars>>
    \/ terms # NoTerms /\ RunNext /\ UNCHANGED <<fanVars, vars, wizardVars, allowVars, eraVars, fileVars>>
    \/ FanNext /\ UNCHANGED <<lifeVars, vars, wizardVars, allowVars, eraVars, fileVars>>
    \/ ExportNext /\ UNCHANGED <<lifeVars, fanVars, wizardVars, allowVars, eraVars, fileVars>>
    \/ WizardNext /\ UNCHANGED <<lifeVars, fanVars, vars, allowVars, eraVars, fileVars>>
    \/ AllowNext /\ UNCHANGED <<lifeVars, fanVars, vars, wizardVars, eraVars, fileVars>>
    \/ EraNext /\ UNCHANGED <<lifeVars, fanVars, vars, wizardVars, allowVars, fileVars>>
    \/ desk # <<>> /\ FilesNext /\ UNCHANGED <<lifeVars, fanVars, vars, wizardVars, allowVars, eraVars>>
MCSpec == MCInit /\ [][MCNext]_<<lifeVars, fanVars, vars, wizardVars, allowVars, eraVars, fileVars>>

(* A run and a fan-out tell the truth: the exit code is the one the        *)
(* detectors and the cards earned, and a line that claims a report or a    *)
(* digest was written is only said of one that was. *)
RunTellsTheTruth == RunExitIsEarned /\ FanOutExitIsEarned
                    /\ RunClaimIsTrue /\ FanOutClaimIsTrue

-----------------------------------------------------------------------------
(* The calls that are planned: every mode of the local lane against every  *)
(* state of the journal, with and without positionals.                     *)
MCReach ==
    {[r \in {"targets", "recursive", "supplied", "flags"} |->
        CASE r = "targets" -> t[1] [] r = "recursive" -> t[2]
          [] r = "supplied" -> t[3] [] OTHER -> t[4]] :
        t \in {<<{}, FALSE, {}, {}>>, <<{}, FALSE, {}, {"syslog_dir"}>>,
               <<{}, FALSE, {}, {"pihole_dir"}>>, <<{"zeek"}, FALSE, {}, {}>>,
               <<{"syslog"}, FALSE, {}, {}>>, <<{"unknown", "pihole"}, FALSE, {}, {}>>,
               <<{"trail"}, FALSE, {}, {"zeek_dir"}>>, <<{"zeek"}, TRUE, {}, {}>>,
               <<{"zeek"}, TRUE, {"zeek_dir", "syslog_dir"}, {}>>}}
MCPicks == {<<{"default"}, {}>>, <<{"default"}, {"syslog", "auth"}>>, <<{"all"}, {}>>,
            <<{"syslog"}, {}>>, <<{"dns"}, {}>>, <<{"ssl", "dnsblock"}, {}>>}
MCHeld == {{}, MCAll("config") \cup MCAll("call"),
           {h \in MCAll("config") : h.pattern \in {"*.log*", "conn", "pihole"}}}
MCDenied == {{}, {MCInput("syslog_dir", "config"), MCInput("zeek_dir", "call")}}
MCConfig == {<<Families, FALSE, "unset">>, <<Families, FALSE, "journal">>,
             <<Families, FALSE, "off">>, <<Families, FALSE, "files">>,
             <<{"zeek_dir", "syslog_dir"}, FALSE, "auto">>, <<Families, TRUE, "unset">>,
             <<{"pihole_dir"}, TRUE, "journal">>}
MCCalls ==
    {[plus |-> k[1], minus |-> k[2], targets |-> r["targets"], recursive |-> r["recursive"],
      supplied |-> r["supplied"], flags |-> r["flags"], config |-> c[1], emptied |-> c[2],
      confMode |-> c[3], flagMode |-> m, journal |-> j, holds |-> h, denied |-> n, broken |-> b] :
        k \in MCPicks, r \in MCReach, c \in MCConfig,
        m \in {"none", "auto", "journal", "files", "off"},
        j \in {"missing", "empty", "unusable", "usable"},
        h \in MCHeld, n \in MCDenied, b \in {{}, {"syslog"}}}
-----------------------------------------------------------------------------
(* Eight days in weeks of two.  Most are alike; up to two are not: not     *)
(* there, empty, not listed whole, torn between files, busy, odd.          *)
MCRow(t, to, duration, sent, via) ==
    [t |-> t, from |-> "home", to |-> to, duration |-> duration, sent |-> sent, via |-> via]
MCQuery(t, name) == [t |-> t, name |-> name]
MCConn(kind, t) ==
    CASE kind = "empty" -> <<>>
      [] kind = "busy" -> << <<MCRow(t, "a", 3, 3, "udp"), MCRow(t, "b", 1, 3, "udp")>>,
                             <<MCRow(t, "a", 3, 3, "tcp"), MCRow(t + 1, "b", 3, 0, "udp")>> >>
      [] kind = "full" -> << <<MCRow(t, "b", 1, 1, "tcp")>>, <<MCRow(t, "c", 1, 1, "tcp")>> >>
      [] kind = "odd" -> << <<MCRow(t + 1, "home", 3, 3, "none"), MCRow(t, "a", 3, Never, "none"),
                              MCRow(Never, "a", 9, 9, "udp"), MCRow(t + 2, "a", 9, 9, "udp")>> >>
      [] kind = "unclear" -> << <<MCRow(t, "unclear", Never, 1, "udp")>> >>
      [] OTHER -> << <<MCRow(t, "a", 1, 1, "udp"), MCRow(t + 1, "a", 0, 2, "tcp")>> >>
MCDns(kind, t) ==
    CASE kind = "empty" -> <<>>
      [] kind = "busy" -> << <<MCQuery(t, 1), MCQuery(t, Excluded)>>, <<MCQuery(t, 2)>> >>
      [] kind = "full" -> << <<MCQuery(t, 4), MCQuery(t, 1)>>, <<MCQuery(t, 3)>> >>
      [] kind = "odd" -> << <<MCQuery(t, 2), MCQuery(t + 2, 3)>> >>
      [] kind = "unclear" -> << <<MCQuery(t, Unlisted)>> >>
      [] kind = "new" -> << <<MCQuery(t, 3)>> >>
      [] OTHER -> << <<MCQuery(t, 1)>> >>
MCState(kind) == CASE kind = "empty" -> "empty" [] kind = "denied" -> "denied" [] OTHER -> "present"
MCTape(kinds, asked, bytes, unstable) ==
    LET days == {d \in DOMAIN kinds : kinds[d] # "gap"} IN
    [days |-> days, bytes |-> bytes, asked |-> asked, unstable |-> unstable,
     conn |-> [d \in days |-> [state |-> MCState(kinds[d]), files |-> MCConn(kinds[d], 2 * d)]],
     dns |-> [d \in days |-> [state |-> MCState(kinds[d]), files |-> MCDns(kinds[d], 2 * d)]]]
MCKinds == {"gap", "empty", "denied", "busy", "full", "odd", "unclear"}
MCAlike == [d \in 0..7 |-> "plain"]
MCPairs == {<<0, 5>>, <<0, 1>>, <<1, 2>>, <<2, 6>>, <<4, 5>>, <<6, 7>>}
MCEraArchives ==
    {MCTape([MCAlike EXCEPT ![p[1]] = a, ![p[2]] = b], "yes", 1, {}) :
        p \in MCPairs, a \in MCKinds, b \in MCKinds}
    \cup {MCTape([MCAlike EXCEPT ![3] = k], "yes", 1, {<<2, "conn">>, <<3, "dns">>, <<7, "conn">>}) :
             k \in MCKinds}
    \cup {MCTape(MCAlike, a, b, {}) : a \in {"yes", "no", "dry"}, b \in {1, 2}}
    \cup {MCTape([d \in 0..7 |-> IF d < n THEN "gap" ELSE "denied"], "yes", 1, {}) : n \in {0, 8}}
    \cup {MCTape([d \in 0..7 |-> CASE d \in {4, 5, 6, 7} -> "denied" [] d \in {0, 2} -> k
                                     [] OTHER -> "plain"], "yes", 1, {}) : k \in {"busy", "plain"}}
    \cup {MCTape([MCAlike EXCEPT ![2] = "busy", ![3] = a, ![b] = "busy"], "yes", 1, {<<6, "dns">>}) :
             a \in {"new", "plain"}, b \in {5, 6}}
MCFollowUp == [n \in 0..4 |-> IF n < 3 THEN 0 ELSE n - 2]
-----------------------------------------------------------------------------
(* Two processes that write or lock in one directory, and its mishaps. *)
MCJob(how, private, mode, asked) == [how |-> how, private |-> private, mode |-> mode, asked |-> asked]
MCReport == MCJob("replace", TRUE, "none", "leaf")
MCAllowlistFile == MCJob("replace", FALSE, "none", "leaf")
MCAuto == MCJob("replace", TRUE, "none", "slash")
MCStream == MCJob("stream", TRUE, "none", "bare")
MCOpen == MCJob("stream", FALSE, "none", "leaf")
MCLock == MCJob("lock", TRUE, "none", "leaf")
MCShared == MCJob("replace", FALSE, "0640", "bare")
MCJobs == {<<MCReport>>, <<MCShared>>, <<MCOpen>>, <<MCAllowlistFile, MCAuto>>, <<MCReport, MCAllowlistFile>>,
           <<MCAuto, MCAuto>>, <<MCAuto, MCStream>>, <<MCLock, MCLock>>, <<MCShared, MCStream>>}
MCOwn == [owner |-> "me", writers |-> {}, sticky |-> FALSE, group |-> "many"]
MCTmp == [MCOwn EXCEPT !.owner = "root", !.writers = {"group", "world"}, !.sticky = TRUE]
MCTeam == [MCOwn EXCEPT !.writers = {"group"}]
MCLink(in, to) == [in |-> in, owner |-> "me", to |-> to]
MCDesk(jobs, leaf, removals, faults, deaths) ==
    [jobs |-> jobs, leaf |-> leaf, locked |-> FALSE, links |-> {}, removals |-> removals,
     faults |-> faults, deaths |-> deaths]
MCDesks ==
    {MCDesk(jobs, leaf, 0, 0, 0) : jobs \in MCJobs, leaf \in {"missing", "empty", "twice"}}
    \cup {MCDesk(<<job>>, leaf, 1, 0, 0) :
             job \in {MCReport, MCShared, MCOpen, MCLock}, leaf \in {"missing", "empty", "twice"}}
    \cup {MCDesk(jobs, "twice", 1, 0, 0) : jobs \in {<<MCAllowlistFile, MCAuto>>, <<MCLock, MCLock>>}}
    \cup {MCDesk(<<MCLock, MCLock>>, "missing", 1, 0, 0), MCDesk(<<MCOpen, MCOpen>>, "twice", 0, 0, 0)}
    \cup {MCDesk(jobs, leaf, 0, 1, 1) : jobs \in {<<MCReport, MCAllowlistFile>>, <<MCAuto, MCStream>>}, leaf \in {"missing", "twice"}}
    \cup {MCDesk(jobs, leaf, 0, 0, 0) : jobs \in MCJobs, leaf \in {"link", "fifo", "file"}}
    \cup {MCDesk(<<job>>, "swapped", 0, 0, 0) : job \in {MCReport, MCOpen}}
    \cup {MCDesk(<<job>>, "file", 2, 1, 1) : job \in {MCReport, MCOpen, MCLock}}
    \cup {[MCDesk(jobs, "file", 1, 0, 1) EXCEPT !.locked = TRUE] : jobs \in {<<MCLock, MCLock>>}}
    \cup {[MCDesk(<<MCAllowlistFile>>, "file", 0, 0, 0) EXCEPT !.links = {MCLink(in, to)}] :
             in \in {MCOwn, MCTeam, MCTmp}, to \in {MCOwn, [MCTeam EXCEPT !.group = "mine alone"], MCTeam}}
=============================================================================
