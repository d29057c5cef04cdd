---------------------------- MODULE MCDetectors ----------------------------
(***************************************************************************)
(* The detectors.  A behaviour is one detector's: the local syslog         *)
(* population from its preparation to the report, blocked DNS names,       *)
(* logins, rare log lines, port scans, cloud principals, clusters of       *)
(* names, flows, TLS setups or ports.                                      *)
(***************************************************************************)
EXTENDS SyslogPreparation, DnsBlock, AuthLenses, SyslogCollapse, ScanSweep, MCStatistics, TLC


(* Rows that are common, rare, signals, suppressed and outside, of two     *)
(* hosts and of none; the Zeek feed shares one host and both templates.    *)
RowOf(template, host, place, signal) ==
    [template |-> template, host |-> host, place |-> place, signal |-> signal]
Common == RowOf("a", "web", "kept", FALSE)
Rare == RowOf("b", "web", "kept", FALSE)
Boot == RowOf("a", "web", "kept", TRUE)
Quiet == RowOf("b", "db", "suppressed", TRUE)
Early == RowOf("b", "nat", "outside", TRUE)
Nameless == RowOf("c", "unknown", "kept", FALSE)

MCContents == {<<>>, <<Common, Common>>, <<Common, Rare>>, <<Early, Common, Boot>>,
               <<Quiet, Common, Common>>, <<Nameless, Common>>}
MCZeekFeeds == {<<>>,
                <<RowOf("b", "web", "kept", FALSE), RowOf("c", "nat", "kept", FALSE)>>,
                <<RowOf("b", "db", "kept", FALSE), RowOf("b", "unknown", "kept", FALSE),
                  RowOf("a", "nat", "suppressed", FALSE)>>}
-----------------------------------------------------------------------------
(***************************************************************************)
(* Populations for DnsBlock: three full report periods and two of history, *)
(* rows in bundles that can each be present or not, cut into files and     *)
(* chunks in several ways, one of them out of order.                       *)
(***************************************************************************)
MCRow(id, kind, address, name, ts, kept) ==
    [id |-> id, kind |-> kind, address |-> address, name |-> name, ts |-> ts, kept |-> kept]
MCQuery(address, name, ts) == MCRow(1, "query", address, name, ts, TRUE)
MCBlock(name, ts) == MCRow(1, "block", "none", name, ts, TRUE)
MCHandled(name, ts) == MCRow(1, "handled", "none", name, ts, TRUE)

MCFamilyOf == [n \in {"n1", "n2", "n3"} |-> IF n = "n1" THEN "f" ELSE "g"]
MCBase == {MCRow(1, "other", "none", "n3", 1, TRUE), MCRow(1, "other", "none", "n3", 22, TRUE),
           MCBlock("n1", 11), MCBlock("n1", 15)}
MCBundles ==
    {{MCQuery("a", "n3", 5), MCQuery("b", "n3", 5)},
     {MCQuery("a", "n1", 11), MCQuery("a", "n1", 15), MCQuery("a", "n1", 16)},
     {MCBlock("n1", 19), MCBlock("n1", 21), MCQuery("a", "n1", 19),
      MCRow(2, "query", "a", "n1", 19, TRUE), MCQuery("a", "n1", 20), MCQuery("a", "n1", 21)},
     {MCQuery("b", "n1", 12), MCQuery("b", "n1", 15)}
         \cup {MCRow(id, "query", "b", "n1", 19, TRUE) : id \in 3..6},
     {MCHandled("n1", 9)},
     {MCHandled("n2", 7), MCQuery("a", "n1", 6), MCRow(2, "query", "b", "n1", 6, FALSE)},
     {MCBlock("n2", 13), MCBlock("n2", 18), MCQuery("a", "n2", 13), MCQuery("a", "n2", 18)},
     {MCBlock("n3", 12), MCQuery("a", "n3", 12), MCQuery("b", "n3", 17)}}

MCChunked(rows) == LET m == (FirstTs(rows) + LastTs(rows)) \div 2
                   IN  <<{r \in rows : r.ts <= m}, {r \in rows : r.ts > m}>>
MCBetween(rows, lo, hi) == LET part == {r \in rows : lo < r.ts /\ r.ts <= hi}
                           IN  IF part = {} THEN <<{}>> ELSE MCChunked(part)
MCSplits(rows) ==
    {<<MCBetween(rows, 15, 22), MCBetween(rows, 0, 15)>>,
     <<MCBetween(rows, 18, 22), MCBetween(rows, 11, 18), MCBetween(rows, 0, 11)>>,
     <<MCBetween(rows, 0, 15), MCBetween(rows, 15, 22)>>}
MCRequest(how, file, start, end) == [mode |-> how, file |-> file, start |-> start, end |-> end]
MCWhole == {<<1, 12>>, <<12, 22>>}
MCGap == {<<1, 12>>, <<13, 22>>}
MCUnknown == {<<1, 22>>, <<>>}
MCAsked ==
    {<<MCRequest("default", FALSE, 0, 0), facts>> : facts \in {MCWhole, MCGap, MCUnknown}}
    \cup {<<MCRequest("default", TRUE, 0, 0), MCGap>>, <<MCRequest("all", FALSE, 0, 0), MCWhole>>,
          <<MCRequest("since", FALSE, 9, 0), MCWhole>>, <<MCRequest("until", FALSE, 0, 19),
                                                          MCWhole>>,
          <<MCRequest("both", FALSE, 13, 14), MCWhole>>}
MCPopulations ==
    {[files |-> files, request |-> asked[1], facts |-> asked[2]] :
        files \in UNION {MCSplits(MCBase \cup UNION chosen) : chosen \in SUBSET MCBundles},
        asked \in MCAsked}
-----------------------------------------------------------------------------
(***************************************************************************)
(* Logins in bundles that can each be present or not: runs with and        *)
(* without a success, ties, one failure told by several observers, both    *)
(* audit dialects with common events, two hosts, accounts that exist, do   *)
(* not exist or are numbers.                                               *)
(***************************************************************************)
MCLogin(id, ts, host, kind, account, source) ==
    [id |-> id, ts |-> ts, host |-> host, kind |-> kind, account |-> account, source |-> source,
     service |-> "sshd", auid |-> "", event |-> "", res |-> ""]
MCAudit(id, ts, kind, event, res) ==
    [MCLogin(id, ts, "h1", kind, "ann", "s1") EXCEPT !.event = event, !.res = res]
MCFail(id, ts, host) == MCLogin(id, ts, host, "failed-password", "ann", "s1")
MCNobody(id, ts, host) == MCLogin(id, ts, host, "failed-invalid-user", "bob", "s1")
MCLoginBundles ==
    {{MCFail(1, 2, "h1"), MCFail(2, 3, "h1")},
     {MCFail(3, 4, "h1"), MCFail(4, 5, "h1")},
     {MCFail(14, 3, "h1"), MCLogin(5, 5, "h1", "accepted", "ann", "s1")},
     {MCLogin(6, 6, "h1", "accepted", "ann", "s1"), MCLogin(7, 7, "h1", "chatter", "", "")},
     {MCFail(8, 8, "h1"), MCFail(9, 9, "h2"), MCLogin(10, 4, "h2", "accepted", "ann", "s2"),
      MCLogin(15, 9, "h1", "accepted", "ann", "s1")},
     {MCFail(11, 3, "h2"), MCFail(12, 4, "h2"), MCLogin(13, 5, "h2", "accepted", "ann", "s1")},
     {MCLogin(20, 2, "h1", "authentication-failure", "ann", "s1"),
      MCLogin(21, 3, "h1", "authentication-failure", "ann", "s1"),
      MCLogin(22, 3, "h1", "authentication-failure", "(unknown)", "s2")},
     {MCNobody(30, 2, "h1"), MCNobody(31, 4, "h2"), MCNobody(32, 6, "h1"),
      MCLogin(33, 6, "h1", "invalid-user", "bob", "s1")},
     {[MCLogin(40, 3, "h1", "sudo-grant", "ann", "") EXCEPT !.service = "sudo"],
      [MCLogin(41, 4, "h1", "sudo-denial", "ann", "") EXCEPT !.service = "sudo"]}
         \cup {[MCAudit(n, n - 55, "USER_AUTH", "", "failed") EXCEPT !.account = "?",
                   !.auid = "1000", !.source = "", !.service = "login"] : n \in 60..63},
     {MCAudit(50, 3, "USER_LOGIN", "e1", "failed"), MCAudit(51, 3, "AUDIT1112", "e1", "failed"),
      MCAudit(52, 4, "AUDIT1112", "e2", "failed"), MCAudit(53, 4, "USER_AUTH", "e2", "failed")},
     {MCAudit(54, 7, "USER_LOGIN", "e3", "success"), MCAudit(55, 7, "AUDIT1112", "e3", "success"),
      MCAudit(56, 7, "AUDIT1101", "e4", "failed")}}
MCWindows == {<<3, 9>>, <<1, 8>>}
MCLogins == {[rows |-> UNION chosen, start |-> w[1], end |-> w[2]] :
                chosen \in SUBSET MCLoginBundles, w \in MCWindows}
-----------------------------------------------------------------------------
(***************************************************************************)
(* Lines in bundles that can each be present or not: bursts at and over    *)
(* the gap, a boot whose signals are apart, boots near two bursts, a line  *)
(* without time or host, sessions and updates that overlap.                *)
(***************************************************************************)
MCLine(id, ts, host, program, kind, rare) ==
    [id |-> id, ts |-> ts, host |-> host, program |-> program, kind |-> kind, rare |-> rare]
MCLineBundles ==
    {{MCLine(1, 4, "web", "cron", "plain", TRUE), MCLine(2, 5, "web", "cron", "plain", TRUE)},
     {MCLine(3, 7, "web", "cron", "plain", TRUE), MCLine(4, 8, "web", "ntpd", "plain", TRUE)},
     {MCLine(5, 6, "web", "", "plain", TRUE)},
     {MCLine(10, 0, "web", "kernel", "reboot", TRUE),
      MCLine(11, 3, "web", "kernel", "reboot", FALSE)},
     {MCLine(12, 8, "web", "kernel", "reboot", FALSE)},
     {MCLine(13, NoTime, "web", "kernel", "reboot", TRUE),
      MCLine(14, NoTime, "web", "cron", "plain", TRUE)},
     {MCLine(20, 5, "web", "sudo", "sudo", TRUE), MCLine(21, 7, "web", "sudo", "sudo", TRUE)},
     {MCLine(22, 6, "", "sudo", "plain", TRUE), MCLine(23, 9, "", "cron", "plain", TRUE)},
     {MCLine(30, 5, "web", "sshd", "open", FALSE), MCLine(31, 6, "web", "sshd", "close", TRUE)},
     {MCLine(32, 12, "web", "sshd", "close", TRUE)},
     {MCLine(40, 6, "web", "dnf", "update", FALSE), MCLine(41, 9, "web", "dnf", "update", TRUE)},
     {MCLine(42, 11, "web", "dnf", "update", TRUE)},
     {MCLine(50, 5, "db", "cron", "plain", TRUE), MCLine(51, 6, "db", "su", "open", TRUE),
      MCLine(52, 6, "db", "kernel", "reboot", FALSE)}}
MCLineSets == {UNION chosen : chosen \in SUBSET MCLineBundles}
-----------------------------------------------------------------------------
(***************************************************************************)
(* Connections in bundles that can each be present or not: runs of ports   *)
(* that fit a window and its length exactly or miss it by one, sweeps of   *)
(* hosts, a scan across the edge of a bucket, ports that are no scan.      *)
(***************************************************************************)
MCConn(id, ts, src, dst, port, scan) ==
    [id |-> id, ts |-> ts, src |-> src, dst |-> dst, port |-> port, scan |-> scan,
     proto |-> "tcp", home |-> FALSE]
MCConnBundles ==
    {{MCConn(1, 1, "a", "x", 22, TRUE), MCConn(2, 3, "a", "x", 23, TRUE)},
     {MCConn(3, 4, "a", "x", 24, TRUE)},
     {MCConn(4, 5, "a", "x", 25, FALSE), MCConn(5, 5, "a", "x", 22, FALSE)},
     {MCConn(6, 2, "a", "y", 22, TRUE), MCConn(7, 3, "a", "y", 23, FALSE),
      MCConn(8, 5, "a", "y", 80, FALSE)},
     {MCConn(9, 7, "a", "z", 22, FALSE), MCConn(10, 8, "a", "z", 23, FALSE)},
     {MCConn(11, 4, "a", "z", 80, FALSE), MCConn(12, 6, "a", "x", 80, FALSE),
      MCConn(13, 12, "a", "y", 24, TRUE)},
     {MCConn(20, 1, "b", "x", 443, FALSE), MCConn(21, 2, "b", "y", 443, FALSE),
      MCConn(22, 4, "b", "z", 443, FALSE), MCConn(23, 8, "b", "x", 22, TRUE)},
     {MCConn(18, 5, "a", "z", 23, TRUE), MCConn(19, 3, "b", "x", 443, TRUE)},
     {MCConn(24, 4, "b", "y", 22, TRUE), MCConn(25, 12, "b", "z", 80, TRUE),
      MCConn(26, 16, "b", "z", NoPort, TRUE)},
     {[MCConn(27, 8, "b", "mdns", 80, TRUE) EXCEPT !.home = TRUE],
      [MCConn(28, 9, "b", "x", 22, FALSE) EXCEPT !.home = TRUE],
      [MCConn(29, 9, "b", "y", 5353, FALSE) EXCEPT !.proto = "icmp"]},
     {[MCConn(p, 4 * (p - 29), "c", "x", CASE p = 30 -> 5353 [] p = 31 -> 80 [] OTHER -> 443,
              p = 31) EXCEPT !.home = TRUE] : p \in 30..33}}
MCConnSets == {UNION chosen : chosen \in SUBSET MCConnBundles}
-----------------------------------------------------------------------------
(* What rests while another one runs. *)
SyslogIdle ==
    /\ archive = [f \in Files |-> <<>>] /\ zeek = <<>> /\ suppression = FALSE /\ pc = "idle"
    /\ current = 1 /\ miner = <<>> /\ checkpoint = <<>> /\ delta = <<>> /\ arrays = archive
    /\ counts = <<>> /\ totals = <<>> /\ hosts = {} /\ indexed = {} /\ unindexed = {}
    /\ index = "ready" /\ envelope = {} /\ mode = "ordinary" /\ frame = <<>> /\ local = <<>>
    /\ admission = "ready" /\ coverage = "ready" /\ committed = {} /\ channels = {}
    /\ warnings = {} /\ declined = "no" /\ notes = <<>> /\ failed = FALSE
    /\ report = [made |-> FALSE, told |-> <<>>]
DnsIdle ==
    /\ population = <<>> /\ phase = "idle" /\ cursor = 0 /\ anchor = <<>> /\ cells = <<>>
    /\ inventory = {} /\ pop = <<>> /\ lane = <<>> /\ analysis = <<>> /\ batches = <<>>
    /\ reducers = <<>> /\ cadence = <<>> /\ status = "READY" /\ findings = <<>>
AuthIdle ==
    /\ logins = <<>> /\ decisions = {} /\ lenses = NoLenses /\ alerts = {} /\ authStep = "idle"
CollapseIdle ==
    /\ lines = {} /\ boots = {} /\ deals = {} /\ found = {} /\ syslogStep = "idle"
ScanIdle ==
    conns = {} /\ measured = {} /\ ranked = <<>> /\ told = <<>> /\ scanStep = "idle"
AwsIdle ==
    /\ trail = <<>> /\ remarks = [below |-> 0, blank |-> FALSE] /\ sweeps = <<>>
    /\ verdicts = {} /\ awsStep = "idle"
NamesIdle ==
    /\ feed = <<>> /\ looked = <<>> /\ child = "none" /\ queue = "empty" /\ outcome = "none"
    /\ parent = "out" /\ label = <<>> /\ dense = <<>> /\ stories = {} /\ nameStep = "idle"
FlowIdle ==
    /\ flows = <<>> /\ asides = <<>> /\ transfers = <<>> /\ rhythms = <<>> /\ flowStep = "idle"
TlsIdle == tls = <<>> /\ funnel = <<>> /\ setups = <<>> /\ tlsStep = "idle"
PortsIdle ==
    ports = <<>> /\ legs = <<>> /\ context = <<>> /\ entities = <<>> /\ portStep = "idle"

detectorVars ==
    <<vars, dnsVars, authVars, collapseVars, scanVars, awsVars, nameVars, flowVars, tlsVars, portVars>>
Detectors == {"local", "dnsblock", "auth", "syslog", "scan", "aws", "dns", "flow", "tls", "ports"}
DetectorsInit ==
    \E d \in Detectors :
        /\ \/ d = "local" /\ Init
           \/ d # "local" /\ SyslogIdle
        /\ \/ d = "dnsblock" /\ DnsInit
           \/ d # "dnsblock" /\ DnsIdle
        /\ \/ d = "auth" /\ AuthInit
           \/ d # "auth" /\ AuthIdle
        /\ \/ d = "syslog" /\ CollapseInit
           \/ d # "syslog" /\ CollapseIdle
        /\ \/ d = "scan" /\ ScanInit
           \/ d # "scan" /\ ScanIdle
        /\ \/ d = "aws" /\ AwsInit
           \/ d # "aws" /\ AwsIdle
        /\ \/ d = "dns" /\ NamesInit
           \/ d # "dns" /\ NamesIdle
        /\ \/ d = "flow" /\ FlowInit
           \/ d # "flow" /\ FlowIdle
        /\ \/ d = "tls" /\ TlsInit
           \/ d # "tls" /\ TlsIdle
        /\ \/ d = "ports" /\ PortInit
           \/ d # "ports" /\ PortsIdle
Finished ==
    \/ phase = "told"
    \/ authStep = "done"
    \/ syslogStep = "done"
    \/ scanStep = "done"
    \/ awsStep = "done"
    \/ nameStep = "done"
    \/ flowStep \in {"done", "failed"}
    \/ tlsStep = "done"
    \/ portStep = "done"
DetectorsNext ==
    \/ /\ Next
       /\ UNCHANGED <<dnsVars, authVars, collapseVars, scanVars, awsVars, nameVars,
                      flowVars, tlsVars, portVars>>
    \/ /\ DnsNext
       /\ UNCHANGED <<vars, authVars, collapseVars, scanVars, awsVars, nameVars,
                      flowVars, tlsVars, portVars>>
    \/ /\ AuthNext
       /\ UNCHANGED <<vars, dnsVars, collapseVars, scanVars, awsVars, nameVars,
                      flowVars, tlsVars, portVars>>
    \/ /\ CollapseNext
       /\ UNCHANGED <<vars, dnsVars, authVars, scanVars, awsVars, nameVars,
                      flowVars, tlsVars, portVars>>
    \/ /\ ScanNext
       /\ UNCHANGED <<vars, dnsVars, authVars, collapseVars, awsVars, nameVars,
                      flowVars, tlsVars, portVars>>
    \/ /\ AwsNext
       /\ UNCHANGED <<vars, dnsVars, authVars, collapseVars, scanVars, nameVars,
                      flowVars, tlsVars, portVars>>
    \/ /\ NamesNext
       /\ UNCHANGED <<vars, dnsVars, authVars, collapseVars, scanVars, awsVars,
                      flowVars, tlsVars, portVars>>
    \/ /\ FlowNext
       /\ UNCHANGED <<vars, dnsVars, authVars, collapseVars, scanVars, awsVars,
                      nameVars, tlsVars, portVars>>
    \/ /\ TlsNext
       /\ UNCHANGED <<vars, dnsVars, authVars, collapseVars, scanVars, awsVars,
                      nameVars, flowVars, portVars>>
    \/ /\ PortNext
       /\ UNCHANGED <<vars, dnsVars, authVars, collapseVars, scanVars, awsVars,
                      nameVars, flowVars, tlsVars>>
    \/ Finished /\ UNCHANGED detectorVars
DetectorsSpec == DetectorsInit /\ [][DetectorsNext]_detectorVars
=============================================================================
