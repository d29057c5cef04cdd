--------------------------- MODULE SyslogCollapse ---------------------------
(***************************************************************************)
(* From rare log lines to findings (detectors/syslog.py, run).  Two        *)
(* channels read every line, whatever its rarity: reboots, and the         *)
(* administrative runs that are recognised by their grammar.  The rare     *)
(* lines that are no reboot signal collapse into bursts and families; then *)
(* a reboot labels a burst, and a run claims findings.                     *)
(*                                                                         *)
(* A line is [id, ts, host, program, kind, rare]; "" is a host that is     *)
(* missing, NoTime a time that is.                                         *)
(***************************************************************************)
EXTENDS Integers, FiniteSets, SequencesExt, FiniteSetsExt

CONSTANTS
    LineSets,           \* what a run may be given
    PrivilegedPrograms,
    BurstGap, BurstMinSize, FamilyMinSize, RebootCluster,
    AdminCluster, AdminMaxSpan, UpdateCluster, UpdateMinAnchors,
    LeadTolerance, TailTolerance, MinMemberFindings,
    BootLead, BootTail

ASSUME SyslogCollapseAssumption ==
    /\ {BurstGap, BurstMinSize, FamilyMinSize, RebootCluster, AdminCluster, UpdateCluster,
        UpdateMinAnchors, MinMemberFindings} \subseteq Nat \ {0}
    /\ {AdminMaxSpan, LeadTolerance, TailTolerance, BootLead, BootTail} \subseteq Nat

VARIABLES
    lines,      \* the frame
    boots,      \* boot_events
    deals,      \* transaction_events
    found,      \* pairs
    syslogStep  \* "detect", "collapse", "reconcile", "claim", "done"

collapseVars == <<lines, boots, deals, found, syslogStep>>

-----------------------------------------------------------------------------
NoTime == -1
Timed(S) == {r \in S : r.ts # NoTime}
TimesOf(S) == {r.ts : r \in Timed(S)}
HostOf(r) == IF r.host = "" THEN "unknown" ELSE r.host
OnHost(S, h) == {r \in S : HostOf(r) = h}
HostNames(S) == {HostOf(r) : r \in S}

(* _gap_cluster: a neighbour gap of gap or more starts a new group. *)
GapCluster(S, gap) ==
    LET heads == {t \in TimesOf(S) : \A u \in TimesOf(S) : u < t => t - u >= gap}
    IN  {{r \in Timed(S) : h <= r.ts /\ \A o \in heads : o <= r.ts => o <= h} : h \in heads}
FirstTime(S) == IF Timed(S) = {} THEN NoTime ELSE Min(TimesOf(S))
LastTime(S) == IF Timed(S) = {} THEN NoTime ELSE Max(TimesOf(S))

-----------------------------------------------------------------------------
(* The channels over every line. *)
Reboots(S) == {r \in S : r.kind = "reboot"}
BootOf(h, rows) == [host |-> h, start |-> FirstTime(rows), end |-> LastTime(rows), signals |-> rows]
BootEvents(S) ==
    UNION {{BootOf(h, c) : c \in GapCluster(OnHost(Reboots(S), h), RebootCluster)}
           \cup {BootOf(h, rows) : rows \in {OnHost(Reboots(S), h) \ Timed(S)} \ {{}}} :
           h \in HostNames(Reboots(S))}

InBootWindow(r, events) ==
    \E e \in events : /\ e.host = r.host /\ e.start # NoTime
                      /\ e.start - BootLead <= r.ts /\ r.ts <= e.end + BootTail
Concrete(S) == {r \in Timed(S) : r.host \notin {"", "unknown"}}

Deal(label, h, start, end, anchors) ==
    [label |-> label, host |-> h, start |-> start, end |-> end,
     from |-> start - LeadTolerance, to |-> end + TailTolerance, anchors |-> anchors]
(* An admin session runs from the first open of a cluster to its last      *)
(* close. *)
AdminSessions(S) ==
    UNION {
      LET opens == {r.ts : r \in {q \in c : q.kind = "open"}}
          start == Min(opens)
          closes == {r.ts : r \in {q \in c : q.kind = "close" /\ opens # {} /\ q.ts >= start}}
          end == Max(closes)
          sudos == {r.ts : r \in {q \in S : /\ q.kind = "sudo"
                                            /\ \E p \in c : p.host = q.host
                                            /\ start - LeadTolerance <= q.ts
                                            /\ q.ts <= end + TailTolerance}}
      IN  IF opens = {} \/ closes = {} THEN {}
          ELSE IF end - start > AdminMaxSpan THEN {}
          ELSE {Deal("admin session", (CHOOSE p \in c : TRUE).host, start, end,
                     {r.ts : r \in {q \in c : start <= q.ts /\ q.ts <= end}} \cup sudos)} :
      c \in UNION {GapCluster({r \in OnHost(S, h) : r.kind \in {"open", "close"}}, AdminCluster) :
                      h \in HostNames(S)}}
UpdateRuns(S, events) ==
    LET anchors == {r \in S : r.kind = "update" /\ ~ InBootWindow(r, events)}
    IN  {Deal("update run", (CHOOSE p \in c : TRUE).host, FirstTime(c), LastTime(c), TimesOf(c)) :
            c \in {g \in UNION {GapCluster(OnHost(anchors, h), UpdateCluster) :
                                  h \in HostNames(anchors)} : Cardinality(g) >= UpdateMinAnchors}}

Recognise ==
    /\ syslogStep = "detect" /\ syslogStep' = "collapse"
    /\ boots' = BootEvents(lines)
    /\ \E recognize \in BOOLEAN :     \* recognize_transactions
          deals' = IF ~ recognize THEN {}
                   ELSE AdminSessions(Concrete(lines))
                        \cup UpdateRuns(Concrete(lines), BootEvents(lines))
    /\ UNCHANGED <<lines, found>>

-----------------------------------------------------------------------------
(* The rare lines.  Lines of a privileged program never burst. *)
Finding(tier, h, rows, severity) ==
    [tier |-> tier, host |-> h, rows |-> rows, severity |-> severity,
     start |-> FirstTime(rows), end |-> LastTime(rows), label |-> "", boot |-> {}, members |-> {}]
RareLines(S) == {r \in S : r.rare /\ r.kind # "reboot"}
Privileged(r) == r.program \in PrivilegedPrograms \ {"unknown"}
BurstsOf(S) ==
    {Finding("burst", (CHOOSE p \in {HostOf(r) : r \in c} : TRUE), c, "INFO") :
        c \in {g \in UNION {GapCluster(OnHost(S, h), BurstGap) : h \in HostNames(S)} :
                  Cardinality(g) >= BurstMinSize}}
ProgramOf(r) == IF r.program = "" THEN "unknown" ELSE r.program
Families(S, severity) ==
    UNION {LET rows == {r \in S : HostOf(r) = k[1] /\ ProgramOf(r) = k[2]}
           IN  IF Cardinality(rows) < FamilyMinSize
               THEN {Finding("needle", k[1], {r}, severity) : r \in rows}
               ELSE {Finding("family", k[1], rows, severity)} :
           k \in {<<HostOf(r), ProgramOf(r)>> : r \in S}}
(* The grouping drops a row whose host is missing.  The burst pass has     *)
(* given the others the host "unknown"; lines of a privileged program did  *)
(* not go through it.                                                      *)
Groupable(S) == {r \in S : r.host # ""}

(* A mutant: the second pass folds what has burst again. *)
CollapseAgain ==
    LET member == {r \in RareLines(lines) : Privileged(r)}
        sieve == RareLines(lines) \ member
    IN  /\ syslogStep = "collapse" /\ syslogStep' = "reconcile"
        /\ found' = BurstsOf(sieve) \cup Families(sieve, "LOW")
                    \cup Families(Groupable(member), "MEDIUM")
        /\ UNCHANGED <<lines, boots, deals>>
Collapse ==
    LET member == {r \in RareLines(lines) : Privileged(r)}
        sieve == RareLines(lines) \ member
        bursts == BurstsOf(sieve)
        isolated == sieve \ UNION {b.rows : b \in bursts}
    IN  /\ syslogStep = "collapse" /\ syslogStep' = "reconcile"
        /\ found' = bursts \cup Families(isolated, "LOW")
                    \cup Families(Groupable(member), "MEDIUM")
        /\ UNCHANGED <<lines, boots, deals>>

-----------------------------------------------------------------------------
(* _reconcile: one representation of each boot. *)
Distance(a, b) == IF a < b THEN b - a ELSE a - b
Contemporary(e, b) == e.start <= b.end + BurstGap /\ b.start <= e.end + BurstGap
Standalone(e) == [Finding("reboot", e.host, {}, "INFO") EXCEPT
                     !.start = e.start, !.end = e.end, !.label = "rebooted", !.boot = {e}]
Nearest(e, bursts) ==
    CHOOSE b \in bursts : \A c \in bursts :
        \/ Distance(b.start, e.start) < Distance(c.start, e.start)
        \/ Distance(b.start, e.start) = Distance(c.start, e.start) /\ b.start <= c.start
Represent(fs, e) ==
    LET near == {b \in fs : /\ b.tier = "burst" /\ b.host = e.host /\ b.label = ""
                            /\ Contemporary(e, b)}
    IN  IF e.start = NoTime \/ near = {} THEN fs \cup {Standalone(e)}
        ELSE LET b == Nearest(e, near)
             IN  (fs \ {b}) \cup {[b EXCEPT !.label = "rebooted", !.boot = {e}]}
Reconcile ==
    /\ syslogStep = "reconcile" /\ syslogStep' = "claim"
    /\ found' = FoldLeft(Represent, found, SetToSortSeq(boots, LAMBDA d, e :
                    d.start # NoTime /\ (e.start = NoTime \/ d.start < e.start)))
    /\ UNCHANGED <<lines, boots, deals>>

(* _reconcile_transactions: a finding goes to the nearest run whose window *)
(* holds all of it; a run with one finding claims nothing. *)
Rank(d) == IF d.label = "admin session" THEN 0 ELSE 1
Fits(d, f) == f.host = d.host /\ d.from <= f.start /\ f.end <= d.to
Claimable(f) == IF f.tier = "reboot" \/ f.label = "rebooted" \/ f.start = NoTime THEN {}
                ELSE {d \in deals : Fits(d, f)}
Away(d, f) == Min({Distance(f.start + f.end, 2 * a) : a \in d.anchors})
Nearer(d, e, f) == \/ d = e
                   \/ Away(d, f) < Away(e, f)
                   \/ Away(d, f) = Away(e, f) /\ d.start < e.start
                   \/ Away(d, f) = Away(e, f) /\ d.start = e.start /\ Rank(d) < Rank(e)
Claim(f) == CHOOSE d \in Claimable(f) : \A e \in Claimable(f) : Nearer(d, e, f)
Members(d) == {f \in found : Claimable(f) # {} /\ Claim(f) = d}
Material == {d \in deals : Cardinality(Members(d)) >= MinMemberFindings}
Severity(members) == IF \E f \in members : f.severity = "MEDIUM" THEN "MEDIUM" ELSE "INFO"
ReconcileTransactions ==
    /\ syslogStep = "claim" /\ syslogStep' = "done"
    /\ found' = (found \ UNION {Members(d) : d \in Material})
                \cup {[Finding("transaction", d.host, UNION {f.rows : f \in Members(d)},
                               Severity(Members(d))) EXCEPT
                          !.start = d.start, !.end = d.end, !.label = d.label,
                          !.members = Members(d)] : d \in Material}
    /\ UNCHANGED <<lines, boots, deals>>

CollapseInit == lines \in LineSets /\ boots = {} /\ deals = {} /\ found = {}
                /\ syslogStep = "detect"
CollapseNext == Recognise \/ Collapse \/ Reconcile \/ ReconcileTransactions
CollapseSpec == CollapseInit /\ [][CollapseNext]_collapseVars

-----------------------------------------------------------------------------
(* At the end every rare line that is no reboot signal is in exactly one   *)
(* finding, with the severity of its program, through bursts, families,    *)
(* labels and claims; except a privileged program's line without a host.   *)
(* Every boot is told once, by one burst of its host near in time or on    *)
(* its own if there is none to label, and no reboot signal is a rare line. *)
LinesOnce ==
    /\ \A r \in RareLines(lines) :
          LET telling == {f \in found : r \in f.rows}
          IN  /\ Cardinality(telling) = IF Privileged(r) /\ r.host = "" THEN 0 ELSE 1
              /\ Privileged(r) => \A f \in telling : f.severity = "MEDIUM"
    /\ \A f \in found : /\ f.rows \subseteq RareLines(lines)
                        /\ f.severity = "MEDIUM" => \E r \in f.rows : Privileged(r)
BootsOnce ==
    /\ UNION {e.signals : e \in boots} = Reboots(lines)
    /\ \A e \in boots : Cardinality({f \in found : e \in f.boot}) = 1
    /\ \A f \in found : Cardinality(f.boot) <= 1 /\ (f.label = "rebooted" <=> f.boot # {})
    /\ \A f \in found, e \in boots :
          e \in f.boot => /\ f.host = e.host
                          /\ f.tier = "burst" => Contemporary(e, f)
                          /\ (f.tier = "reboot" /\ e.start # NoTime) =>
                                ~ \E b \in found : /\ b.tier = "burst" /\ b.label = ""
                                                   /\ b.host = e.host /\ Contemporary(e, b)
ToldOnce == syslogStep = "done" => LinesOnce /\ BootsOnce

(* What a run claims happened on its host while it ran: every timed line   *)
(* of it lies between the tolerance before the first anchor and the one    *)
(* after the last; no boot is hidden in it, and it did not begin as boot   *)
(* chatter.  Lines that a gap of the burst's length separates are in no    *)
(* burst together.                                                         *)
ClaimsAreBounded ==
    syslogStep = "done" =>
        /\ \A f \in found : f.tier = "transaction" =>
              /\ Cardinality(f.members) >= MinMemberFindings
              /\ \A m \in f.members : m.boot = {} /\ m.host = f.host
              /\ \A r \in Timed(f.rows) : /\ r.host = f.host
                                          /\ f.start - LeadTolerance <= r.ts
                                          /\ r.ts <= f.end + TailTolerance
              /\ f.label = "update run" =>
                    \A r \in lines : (r.host = f.host /\ r.ts \in {f.start, f.end}
                                      /\ r.kind = "update") => ~ InBootWindow(r, boots)
        /\ \A f \in found \cup UNION {g.members : g \in found} : f.tier = "burst" =>
              \A r \in f.rows : r.ts < f.end =>
                  \E s \in f.rows : r.ts < s.ts /\ s.ts - r.ts < BurstGap

(* syslog.py: every rare line is told once, and a finding claims no more
   than the lines and boots near it. *)
LinesAreTold == ToldOnce /\ ClaimsAreBounded
=============================================================================
