---------------------------- MODULE MCRun_proofs ----------------------------
(***************************************************************************)
(* Proofs about planning, a hunt, the fan-outs and the setup wizard.       *)
(* First, that the dry run announces the run, whatever the detectors, the  *)
(* inputs and the journal: the two plans are computed from sources that    *)
(* differ by the captured journal only, and the probed plan is told of     *)
(* that one.  Then that the exit codes are earned and the claims true, of  *)
(* a hunt and of the fan-outs, and that the wizard loses nothing and does  *)
(* what its summary says: for every call, every failure and every answer,  *)
(* alone and in the composition that is model-checked.                     *)
(***************************************************************************)
EXTENDS MCRun, TLAPS

-----------------------------------------------------------------------------
(* The logs of the detectors.                                              *)
JournalLog == Log("journal", "*.log*")
Capture == [source |-> "journal", via |-> "capture"]
RequiredLogs == {Log("zeek_dir", "conn"), Log("zeek_dir", "ssl"), Log("pihole_dir", "pihole"),
                 Log("cloudtrail_dir", "json")}
OptionalLogs == {Log("syslog_dir", "*.log*"), JournalLog, Log("zeek_dir", "syslog"),
                 Log("zeek_dir", "dns"), Log("pihole_dir", "pihole"), Log("zeek_dir", "x509")}

(* A detector requires one log or none, and never the local system log.    *)
LEMMA OneRequired ==
    ASSUME NEW d
    PROVE  /\ Required(d) \subseteq RequiredLogs
           /\ \A k, l \in Required(d) : k = l
<1>1. CASE d \in {"beacon", "exfil", "protocol", "scan"}
  <2>1. Required(d) = {Log("zeek_dir", "conn")}
    BY <1>1 DEF Required
  <2> QED
    BY <2>1 DEF RequiredLogs
<1>2. CASE d = "ssl"
  <2>1. Required(d) = {Log("zeek_dir", "ssl")}
    BY <1>2 DEF Required
  <2> QED
    BY <2>1 DEF RequiredLogs
<1>3. CASE d = "dnsblock"
  <2>1. Required(d) = {Log("pihole_dir", "pihole")}
    BY <1>3 DEF Required
  <2> QED
    BY <2>1 DEF RequiredLogs
<1>4. CASE d = "aws"
  <2>1. Required(d) = {Log("cloudtrail_dir", "json")}
    BY <1>4 DEF Required
  <2> QED
    BY <2>1 DEF RequiredLogs
<1>5. CASE d \notin {"beacon", "exfil", "protocol", "scan", "ssl", "dnsblock", "aws"}
  <2>1. Required(d) = {}
    BY <1>5 DEF Required
  <2> QED
    BY <2>1
<1> QED
  BY <1>1, <1>2, <1>3, <1>4, <1>5

LEMMA KnownOptional ==
    ASSUME NEW d
    PROVE  Optional(d) \subseteq OptionalLogs
<1>1. CASE d \in {"auth", "syslog"}
  <2>1. Optional(d) = {Log("syslog_dir", "*.log*"), JournalLog, Log("zeek_dir", "syslog")}
    BY <1>1 DEF Optional, JournalLog
  <2> QED
    BY <2>1 DEF OptionalLogs
<1>2. CASE d = "dns"
  <2>1. Optional(d) = {Log("zeek_dir", "dns"), Log("pihole_dir", "pihole")}
    BY <1>2 DEF Optional
  <2> QED
    BY <2>1 DEF OptionalLogs
<1>3. CASE d = "ssl"
  <2>1. Optional(d) = {Log("zeek_dir", "x509")}
    BY <1>3 DEF Optional
  <2> QED
    BY <2>1 DEF OptionalLogs
<1>4. CASE d \notin {"auth", "syslog", "dns", "ssl"}
  <2>1. Optional(d) = {}
    BY <1>4 DEF Optional
  <2> QED
    BY <2>1
<1> QED
  BY <1>1, <1>2, <1>3, <1>4

(* Two logs of one pattern are the two carriers of the local system log.   *)
LEMMA OnlyCarriersClash ==
    ASSUME NEW k \in RequiredLogs \cup OptionalLogs, NEW l \in RequiredLogs \cup OptionalLogs,
           k.pattern = l.pattern, k # l
    PROVE  {k.source, l.source} = {"syslog_dir", "journal"}
  BY DEF RequiredLogs, OptionalLogs, JournalLog, Log

LEMMA RequiredIsNotTheJournal ==
    JournalLog \notin RequiredLogs
  BY DEF RequiredLogs, JournalLog, Log

LEMMA KnownLogs ==
    ASSUME NEW l \in RequiredLogs \cup OptionalLogs
    PROVE  /\ l.source \in Families \cup {"journal"}
           /\ l.source = "journal" => l = JournalLog
           /\ l \in RequiredLogs => l.source \in Families \ {"syslog_dir"}
  BY DEF RequiredLogs, OptionalLogs, JournalLog, Log, Families
-----------------------------------------------------------------------------
(* The sources of a provider.                                              *)
Directories == UNION {{[source |-> f, via |-> v] : v \in Resolved(f)} : f \in Families \ {"syslog_dir"}}

LEMMA DirectorySources ==
    ASSUME NEW input \in Directories
    PROVE  input.source \in Families \ {"syslog_dir"}
  BY DEF Directories

LEMMA SourcesOfProviders ==
    ASSUME NEW captured \in BOOLEAN
    PROVE  /\ SourceDirsForProvider("off", captured) = Directories
           /\ SourceDirsForProvider("files", captured) =
                 Directories \cup {[source |-> "syslog_dir", via |-> v] : v \in Resolved("syslog_dir")}
           /\ SourceDirsForProvider("journal", captured) =
                 Directories \cup (IF captured THEN {Capture} ELSE {})
  BY DEF SourceDirsForProvider, Directories, Capture

LEMMA OneCarrier ==
    ASSUME NEW captured \in BOOLEAN, NEW provider \in {"off", "files", "journal"},
           NEW input \in SourceDirsForProvider(provider, captured)
    PROVE  /\ input.source = "syslog_dir" => provider = "files"
           /\ input.source = "journal" => provider = "journal"
<1>1. input \in Directories => input.source \notin {"syslog_dir", "journal"}
  BY DirectorySources DEF Families
<1>2. CASE provider = "off"
  BY <1>1, <1>2, SourcesOfProviders
<1>3. CASE provider = "files"
  BY <1>1, <1>3, SourcesOfProviders
<1>4. CASE provider = "journal"
  BY <1>1, <1>4, SourcesOfProviders DEF Capture
<1> QED
  BY <1>2, <1>3, <1>4
-----------------------------------------------------------------------------
(* The two plans of one provider.  A probed journal is told to the dry run *)
(* as a log that is there, a captured one is a source of the run.          *)
Providers == {"off", "files", "journal"}
Seen(provider) == SourceDirsForProvider(provider, FALSE)
Captured(provider) == SourceDirsForProvider(provider, TRUE)
Told(provider) == IF provider = "journal" THEN {JournalLog} ELSE {}

LEMMA SourcesDifferByTheJournal ==
    ASSUME NEW provider \in Providers
    PROVE  Captured(provider) = Seen(provider) \cup (IF provider = "journal" THEN {Capture} ELSE {})
<1>1. CASE provider = "off"
  BY <1>1, SourcesOfProviders DEF Captured, Seen
<1>2. CASE provider = "files"
  BY <1>2, SourcesOfProviders DEF Captured, Seen
<1>3. CASE provider = "journal"
  BY <1>3, SourcesOfProviders DEF Captured, Seen
<1> QED
  BY <1>1, <1>2, <1>3 DEF Providers

LEMMA NoJournalIsSeen ==
    ASSUME NEW provider \in Providers, NEW input \in Seen(provider)
    PROVE  input.source # "journal"
<1>1. input \in Directories => input.source # "journal"
  BY DirectorySources DEF Families
<1>2. Seen(provider) \subseteq Directories \cup {[source |-> "syslog_dir", via |-> v] : v \in Resolved("syslog_dir")}
  BY SourcesOfProviders DEF Seen, Providers
<1> QED
  BY <1>1, <1>2

(* Every log but the journal's is found, denied and missed alike.          *)
LEMMA OtherLogsAreMetAlike ==
    ASSUME NEW provider \in Providers, NEW l \in RequiredLogs \cup OptionalLogs, l # JournalLog
    PROVE  /\ Satisfiable(l, Seen(provider), Told(provider)) <=> Satisfiable(l, Captured(provider), {})
           /\ DeniedFor(l, Seen(provider)) <=> DeniedFor(l, Captured(provider))
           /\ UnmetReason(l, Seen(provider)) = UnmetReason(l, Captured(provider))
<1>1. l.source # "journal" /\ l \notin Told(provider)
  BY KnownLogs DEF Told
<1>2. \A input : input.source = l.source => (input \in Captured(provider) <=> input \in Seen(provider))
  BY <1>1, SourcesDifferByTheJournal DEF Capture
<1>3. Satisfiable(l, Seen(provider), Told(provider)) <=> Satisfiable(l, Captured(provider), {})
  BY <1>1, <1>2 DEF Satisfiable
<1>4. DeniedFor(l, Seen(provider)) <=> DeniedFor(l, Captured(provider))
  BY <1>2 DEF DeniedFor
<1>5. UnmetReason(l, Seen(provider)) = UnmetReason(l, Captured(provider))
  BY <1>2, <1>4 DEF UnmetReason
<1> QED
  BY <1>3, <1>4, <1>5

LEMMA TheJournalIsMetAlike ==
    ASSUME NEW provider \in Providers
    PROVE  /\ Satisfiable(JournalLog, Seen(provider), Told(provider)) <=> provider = "journal"
           /\ Satisfiable(JournalLog, Captured(provider), {}) <=> provider = "journal"
<1>1. JournalLog.source = "journal"
  BY DEF JournalLog, Log
<1>2. Satisfiable(JournalLog, Seen(provider), Told(provider)) <=> provider = "journal"
  BY <1>1, NoJournalIsSeen DEF Satisfiable, Told
<1>3. CASE provider = "journal"
  <2>1. Capture \in Captured(provider) /\ Capture.source = "journal"
    BY <1>3, SourcesDifferByTheJournal DEF Capture
  <2> QED
    BY <1>1, <1>2, <1>3, <2>1 DEF Satisfiable, Holds
<1>4. CASE provider # "journal"
  BY <1>1, <1>2, <1>4, SourcesDifferByTheJournal, NoJournalIsSeen DEF Satisfiable
<1> QED
  BY <1>3, <1>4

LEMMA LogsAreMetAlike ==
    ASSUME NEW provider \in Providers, NEW l \in RequiredLogs \cup OptionalLogs
    PROVE  Satisfiable(l, Seen(provider), Told(provider)) <=> Satisfiable(l, Captured(provider), {})
  BY OtherLogsAreMetAlike, TheJournalIsMetAlike

(* So each detector is skipped alike: what is denied matters only when no  *)
(* log is there, and then no journal is.                                   *)
LEMMA SkippedAlike ==
    ASSUME NEW provider \in Providers, NEW d
    PROVE  SkipReason(d, Seen(provider), Told(provider)) = SkipReason(d, Captured(provider), {})
<1> DEFINE unmet == {l \in Required(d) : ~ Satisfiable(l, Seen(provider), Told(provider))}
           unmetToo == {l \in Required(d) : ~ Satisfiable(l, Captured(provider), {})}
           anyOf == \E l \in Optional(d) : Satisfiable(l, Seen(provider), Told(provider))
           anyOfToo == \E l \in Optional(d) : Satisfiable(l, Captured(provider), {})
           denied == \E l \in Optional(d) : DeniedFor(l, Seen(provider))
           deniedToo == \E l \in Optional(d) : DeniedFor(l, Captured(provider))
           first == CHOOSE l \in unmet : TRUE
           firstToo == CHOOSE l \in unmetToo : TRUE
<1>1. unmet = unmetToo
  BY OneRequired, LogsAreMetAlike
<1>2. anyOf <=> anyOfToo
  BY KnownOptional, LogsAreMetAlike
<1>3. unmet # {} => UnmetReason(first, Seen(provider)) = UnmetReason(first, Captured(provider))
  <2> SUFFICES ASSUME unmet # {}
               PROVE  UnmetReason(first, Seen(provider)) = UnmetReason(first, Captured(provider))
    OBVIOUS
  <2>1. first \in unmet
    OBVIOUS
  <2>2. first \in RequiredLogs
    BY <2>1, OneRequired
  <2> HIDE DEF first
  <2>3. first # JournalLog
    BY <2>2, RequiredIsNotTheJournal
  <2> QED
    BY <2>2, <2>3, OtherLogsAreMetAlike
<1>4. ~ anyOf => (denied <=> deniedToo)
  <2> SUFFICES ASSUME ~ anyOf, NEW l \in Optional(d)
               PROVE  DeniedFor(l, Seen(provider)) <=> DeniedFor(l, Captured(provider))
    OBVIOUS
  <2>1. l \in OptionalLogs
    BY KnownOptional
  <2>2. CASE l = JournalLog
    <3>1. Captured(provider) = Seen(provider)
      BY <2>2, TheJournalIsMetAlike, SourcesDifferByTheJournal
    <3> QED
      BY <3>1
  <2>3. CASE l # JournalLog
    BY <2>1, <2>3, OtherLogsAreMetAlike
  <2> QED
    BY <2>2, <2>3
<1>5. SkipReason(d, Seen(provider), Told(provider)) =
        IF d \in call.broken THEN "import failed"
        ELSE IF unmet # {} THEN UnmetReason(first, Seen(provider))
        ELSE IF RequiresOneOf(d) /\ ~ anyOf THEN IF denied THEN "denied" ELSE "no source"
        ELSE "none"
  BY Zenon DEF SkipReason
<1>6. SkipReason(d, Captured(provider), {}) =
        IF d \in call.broken THEN "import failed"
        ELSE IF unmetToo # {} THEN UnmetReason(firstToo, Captured(provider))
        ELSE IF RequiresOneOf(d) /\ ~ anyOfToo THEN IF deniedToo THEN "denied" ELSE "no source"
        ELSE "none"
  BY Zenon DEF SkipReason
<1>7. first = firstToo
  BY <1>1
<1>8. CASE d \in call.broken
  BY <1>5, <1>6, <1>8, Zenon
<1>9. CASE d \notin call.broken /\ unmet # {}
  <2>1. SkipReason(d, Seen(provider), Told(provider)) = UnmetReason(first, Seen(provider))
    BY <1>5, <1>9, Zenon
  <2>2. SkipReason(d, Captured(provider), {}) = UnmetReason(firstToo, Captured(provider))
    BY <1>1, <1>6, <1>9, Zenon
  <2> HIDE DEF first, firstToo
  <2> QED
    BY <1>3, <1>7, <1>9, <2>1, <2>2
<1>10. CASE d \notin call.broken /\ unmet = {} /\ (RequiresOneOf(d) => anyOf)
  BY <1>1, <1>2, <1>5, <1>6, <1>10, Zenon
<1>11. CASE d \notin call.broken /\ unmet = {} /\ RequiresOneOf(d) /\ ~ anyOf
  <2>1. SkipReason(d, Seen(provider), Told(provider)) = IF denied THEN "denied" ELSE "no source"
    BY <1>5, <1>11, Zenon
  <2>2. SkipReason(d, Captured(provider), {}) = IF deniedToo THEN "denied" ELSE "no source"
    <3>1. unmetToo = {} /\ ~ anyOfToo
      BY <1>1, <1>2, <1>11, Zenon
    <3> QED
      BY <1>6, <1>11, <3>1, Zenon
  <2> QED
    <3>1. CASE denied
      BY <1>4, <1>11, <2>1, <2>2, <3>1, Zenon
    <3>2. CASE ~ denied
      BY <1>4, <1>11, <2>1, <2>2, <3>2, Zenon
    <3> QED
      BY <3>1, <3>2, Zenon
<1> QED
  BY <1>8, <1>9, <1>10, <1>11

(* The two plans run the same detectors over the same logs.                *)
LEMMA PlannedAlike ==
    ASSUME NEW provider \in Providers
    PROVE  LET foreseen == BuildRunPlan(provider, FALSE, Told(provider))
               captured == BuildRunPlan(provider, TRUE, {})
           IN  /\ foreseen.error = captured.error /\ foreseen.provider = captured.provider
               /\ foreseen.willRun = captured.willRun /\ foreseen.needed = captured.needed
               /\ foreseen.skipped = captured.skipped
<1> DEFINE runs == {d \in Selected : SkipReason(d, Seen(provider), Told(provider)) = "none"}
           runsToo == {d \in Selected : SkipReason(d, Captured(provider), {}) = "none"}
           needed == UNION {Required(d) \cup {l \in Optional(d) : Satisfiable(l, Seen(provider), Told(provider))} : d \in runs}
           neededToo == UNION {Required(d) \cup {l \in Optional(d) : Satisfiable(l, Captured(provider), {})} : d \in runsToo}
           skipped == {[detector |-> d, reason |-> SkipReason(d, Seen(provider), Told(provider))] : d \in Selected \ runs}
           skippedToo == {[detector |-> d, reason |-> SkipReason(d, Captured(provider), {})] : d \in Selected \ runsToo}
           error == IF \E a, b \in needed : a.pattern = b.pattern /\ a # b THEN "claimed twice" ELSE "none"
           errorToo == IF \E a, b \in neededToo : a.pattern = b.pattern /\ a # b THEN "claimed twice" ELSE "none"
           foreseen == BuildRunPlan(provider, FALSE, Told(provider))
           captured == BuildRunPlan(provider, TRUE, {})
<1>1. runs = runsToo
  BY SkippedAlike
<1>2. \A d : {l \in Optional(d) : Satisfiable(l, Seen(provider), Told(provider))}
                = {l \in Optional(d) : Satisfiable(l, Captured(provider), {})}
  BY KnownOptional, LogsAreMetAlike
<1>3. needed = neededToo
  BY <1>1, <1>2
<1>4. skipped = skippedToo
  BY <1>1, SkippedAlike
<1>5. foreseen =
        [made |-> TRUE, error |-> error, provider |-> provider, sources |-> Seen(provider),
         willRun |-> runs, skipped |-> skipped, needed |-> needed]
  BY Zenon DEF BuildRunPlan, PlanOver, Seen
<1>6. captured =
        [made |-> TRUE, error |-> errorToo, provider |-> provider, sources |-> Captured(provider),
         willRun |-> runsToo, skipped |-> skippedToo, needed |-> neededToo]
  BY Zenon DEF BuildRunPlan, PlanOver, Captured
<1>7. /\ foreseen.error = error /\ foreseen.provider = provider /\ foreseen.willRun = runs
      /\ foreseen.needed = needed /\ foreseen.skipped = skipped
  <2> HIDE DEF foreseen, runs, needed, skipped, error
  <2> QED
    BY <1>5
<1>8. /\ captured.error = errorToo /\ captured.provider = provider /\ captured.willRun = runsToo
      /\ captured.needed = neededToo /\ captured.skipped = skippedToo
  <2> HIDE DEF captured, runsToo, neededToo, skippedToo, errorToo
  <2> QED
    BY <1>6
<1>9. error = errorToo
  BY <1>3
<1> HIDE DEF runs, runsToo, needed, neededToo, skipped, skippedToo, error, errorToo, foreseen, captured
<1>10. /\ foreseen.error = captured.error /\ foreseen.provider = captured.provider
       /\ foreseen.willRun = captured.willRun /\ foreseen.needed = captured.needed
       /\ foreseen.skipped = captured.skipped
  BY <1>1, <1>3, <1>4, <1>7, <1>8, <1>9
<1> QED
  BY <1>10 DEF foreseen, captured

(* A provider gives one carrier, so no pattern has two sources.            *)
LEMMA NothingClaimedTwice ==
    ASSUME NEW provider \in Providers
    PROVE  BuildRunPlan(provider, TRUE, {}).error = "none"
<1> DEFINE runs == {d \in Selected : SkipReason(d, Captured(provider), {}) = "none"}
           needed == UNION {Required(d) \cup {l \in Optional(d) : Satisfiable(l, Captured(provider), {})} : d \in runs}
           Error(logs) == IF \E a, b \in logs : a.pattern = b.pattern /\ a # b THEN "claimed twice" ELSE "none"
<1>1. \A l \in needed : /\ l \in RequiredLogs \cup OptionalLogs
                        /\ l \in RequiredLogs \/ Satisfiable(l, Captured(provider), {})
  BY OneRequired, KnownOptional
<1>2. \A l \in needed : l.source = "journal" => provider = "journal"
  BY <1>1, TheJournalIsMetAlike, KnownLogs DEF Families
<1>3. \A l \in needed : l.source = "syslog_dir" => provider = "files"
  <2> SUFFICES ASSUME NEW l \in needed, l.source = "syslog_dir"
               PROVE  provider = "files"
    OBVIOUS
  <2>1. Satisfiable(l, Captured(provider), {})
    BY <1>1, KnownLogs
  <2>2. PICK input \in Captured(provider) : input.source = "syslog_dir"
    BY <2>1 DEF Satisfiable
  <2> QED
    BY <2>2, OneCarrier DEF Captured, Providers
<1>4. Error(needed) = "none"
  <2> SUFFICES ASSUME NEW a \in needed, NEW b \in needed, a.pattern = b.pattern, a # b
               PROVE  FALSE
    OBVIOUS
  <2>1. {a.source, b.source} = {"syslog_dir", "journal"}
    BY <1>1, OnlyCarriersClash
  <2> QED
    BY <1>2, <1>3, <2>1
<1>5. BuildRunPlan(provider, TRUE, {}).error = Error(needed)
  BY DEF BuildRunPlan, PlanOver, Captured
<1> QED
  BY <1>4, <1>5
-----------------------------------------------------------------------------
(* The provider.                                                           *)
CallTypes ==
    /\ call.flagMode \in SyslogModes \cup {"none"} /\ call.confMode \in SyslogModes \cup {"unset"}
    /\ call.journal \in JournalStates

LEMMA KnownMode ==
    ASSUME CallTypes
    PROVE  Mode \in SyslogModes
<1>1. ConfiguredMode \in SyslogModes
  BY DEF CallTypes, ConfiguredMode, SyslogModes
<1> QED
  BY <1>1 DEF CallTypes, Mode, ExplicitMode, SyslogModes

LEMMA ProvidersOfModes ==
    ASSUME CallTypes
    PROVE  /\ CaptureProvider \in Providers \cup {"raise"}
           /\ ProbeProvider \in Providers \cup {"raise"}
           /\ \/ Reading /\ Mode = "auto" /\ call.journal = "unusable"
              \/ ProbeProvider = CaptureProvider
           /\ CaptureProvider = "journal" => Reading
           /\ ProbeProvider = "journal" => Reading
           /\ CaptureProvider = "files" => LaneEligible
           /\ ProbeProvider = "files" => LaneEligible
<1>1. CASE ~ LaneEligible
  BY <1>1 DEF ProbeProvider, CaptureProvider, Providers
<1>2. CASE LaneEligible /\ Mode = "files"
  BY <1>2 DEF ProbeProvider, CaptureProvider, Providers
<1>3. CASE LaneEligible /\ Mode = "journal"
  BY <1>3 DEF ProbeProvider, CaptureProvider, Providers, Reading, ProbeReady, CallTypes, JournalStates
<1>4. CASE LaneEligible /\ Mode = "auto"
  BY <1>4 DEF ProbeProvider, CaptureProvider, Providers, Reading, ProbeReady, CallTypes, JournalStates
<1> QED
  BY <1>1, <1>2, <1>3, <1>4, KnownMode DEF SyslogModes, LaneEligible

(* The dry run's plan and the run's are the plans of their providers.      *)
LEMMA PlansOfProviders ==
    ASSUME CallTypes
    PROVE  /\ IF ProbeProvider = "raise" THEN PreviewPlan = NoJournal
              ELSE /\ ProbeProvider \in Providers
                   /\ PreviewPlan = BuildRunPlan(ProbeProvider, FALSE, Told(ProbeProvider))
           /\ IF CaptureProvider = "raise" THEN HuntPlan = NoJournal
              ELSE /\ CaptureProvider \in Providers
                   /\ HuntPlan = BuildRunPlan(CaptureProvider, TRUE, {})
<1>1. ProbeProvider \in Providers \cup {"raise"} /\ CaptureProvider \in Providers \cup {"raise"}
  BY ProvidersOfModes
<1>2. ProbeProvider # "raise" => PreviewPlan = BuildRunPlan(ProbeProvider, FALSE, Told(ProbeProvider))
  BY Zenon DEF PreviewPlan, Told, JournalLog
<1>3. CaptureProvider # "raise" => HuntPlan = BuildRunPlan(CaptureProvider, TRUE, {})
  BY Zenon DEF HuntPlan
<1>4. (ProbeProvider = "raise" => PreviewPlan = NoJournal) /\ (CaptureProvider = "raise" => HuntPlan = NoJournal)
  BY Zenon DEF PreviewPlan, HuntPlan
<1> QED
  BY <1>1, <1>2, <1>3, <1>4, Zenon

LEMMA RefusedJournal ==
    NoJournal.error = "journal" /\ NoJournal.made = FALSE /\ NoPlan.error = "none" /\ NoPlan.made = FALSE
  BY DEF NoJournal, NoPlan

LEMMA PlansAgree ==
    ASSUME CallTypes
    PROVE  /\ PreviewPlan.error # "claimed twice" /\ HuntPlan.error # "claimed twice"
           /\ \/ Reading /\ Mode = "auto" /\ call.journal = "unusable"
              \/ /\ PreviewPlan.error = HuntPlan.error /\ PreviewPlan.provider = HuntPlan.provider
                 /\ PreviewPlan.willRun = HuntPlan.willRun /\ PreviewPlan.needed = HuntPlan.needed
                 /\ PreviewPlan.skipped = HuntPlan.skipped
<1>1. ASSUME NEW provider \in Providers
      PROVE  BuildRunPlan(provider, FALSE, Told(provider)).error = "none"
  BY <1>1, PlannedAlike, NothingClaimedTwice, Zenon
<1>2. PreviewPlan.error # "claimed twice"
  BY <1>1, PlansOfProviders, RefusedJournal
<1>3. HuntPlan.error # "claimed twice"
  BY NothingClaimedTwice, PlansOfProviders, RefusedJournal
<1>4. ASSUME ProbeProvider = CaptureProvider
      PROVE  /\ PreviewPlan.error = HuntPlan.error /\ PreviewPlan.provider = HuntPlan.provider
             /\ PreviewPlan.willRun = HuntPlan.willRun /\ PreviewPlan.needed = HuntPlan.needed
             /\ PreviewPlan.skipped = HuntPlan.skipped
  <2>1. CASE CaptureProvider = "raise"
    <3>1. PreviewPlan = HuntPlan
      BY <1>4, <2>1, PlansOfProviders, Zenon
    <3> QED
      BY <3>1
  <2>2. CASE CaptureProvider # "raise"
    <3>1. PICK provider \in Providers : provider = ProbeProvider /\ provider = CaptureProvider
      BY <1>4, <2>2, PlansOfProviders, Zenon
    <3>2. /\ PreviewPlan = BuildRunPlan(provider, FALSE, Told(provider))
          /\ HuntPlan = BuildRunPlan(provider, TRUE, {})
      BY <1>4, <2>2, <3>1, PlansOfProviders, Zenon
    <3> QED
      BY <3>2, PlannedAlike, Zenon
  <2> QED
    BY <2>1, <2>2
<1> QED
  BY <1>2, <1>3, <1>4, ProvidersOfModes, Zenon
-----------------------------------------------------------------------------
(* The scope.                                                              *)
LEMMA WhatIsReadIsAsked ==
    ASSUME NEW captured \in BOOLEAN, NEW provider \in Providers,
           NEW input \in SourceDirsForProvider(provider, captured), input.via # "call",
           provider = "files" => LaneEligible, provider = "journal" => Reading
    PROVE  \/ ~ Given \/ input.source \in Buckets
           \/ /\ input.source \in LocalSources
              /\ call.flagMode \in {"auto", "journal", "files"}
<1>1. ASSUME NEW f \in Families, "config" \in Resolved(f)
      PROVE  f \notin Overridden /\ f \in AdjustedScope
  BY <1>1 DEF Resolved
<1>2. CASE input \in Directories
  <2>1. PICK f \in Families \ {"syslog_dir"} : \E v \in Resolved(f) : input = [source |-> f, via |-> v]
    BY <1>2 DEF Directories
  <2>2. input.source = f /\ "config" \in Resolved(f)
    BY <2>1 DEF Resolved
  <2> QED
    BY <1>1, <2>1, <2>2 DEF AdjustedScope, ScopeWithSyslog
<1>3. CASE provider = "files" /\ input \notin Directories
  <2>1. PICK v \in Resolved("syslog_dir") : input = [source |-> "syslog_dir", via |-> v]
    BY <1>3, SourcesOfProviders
  <2>2. input.source = "syslog_dir" /\ "config" \in Resolved("syslog_dir")
    BY <2>1 DEF Resolved
  <2>3. "syslog_dir" \notin Overridden /\ (InScope("syslog_dir") \/ Widens)
    BY <1>1, <1>3, <2>2 DEF Families, LaneEligible
  <2> QED
    BY <2>2, <2>3 DEF InScope, Widens, ExplicitPath, LocalSources
<1>4. CASE provider = "journal" /\ input \notin Directories
  <2>1. input.source = "journal" /\ LaneEligible /\ Mode # "files"
    BY <1>4, SourcesOfProviders DEF Capture, Reading
  <2>2. InScope("syslog_dir") \/ call.flagMode \in {"auto", "journal", "files"}
    BY <2>1 DEF LaneEligible, Widens, Mode
  <2>3. CASE Given /\ InScope("syslog_dir")
    <3>1. "syslog_dir" \in Buckets
      BY <2>3 DEF InScope
    <3>2. Mode = "files"
      BY <3>1 DEF Mode, ExplicitPath, Overridden
    <3> QED
      BY <2>1, <3>2
  <2> QED
    BY <2>1, <2>2, <2>3 DEF LocalSources
<1>5. provider = "off" => input \in Directories
  BY SourcesOfProviders
<1> QED
  BY <1>2, <1>3, <1>4, <1>5 DEF Providers

(* What is out of scope was left out by a positional, what is not          *)
(* configured is named nowhere.                                            *)
LEMMA ReasonsAreTrue ==
    ASSUME NEW captured \in BOOLEAN, NEW provider \in Providers, NEW virtual,
           NEW d, NEW l \in Required(d),
           NEW reason, reason = SkipReason(d, SourceDirsForProvider(provider, captured), virtual)
    PROVE  /\ reason = "out of scope" => Given /\ l.source \notin Overridden
           /\ reason = "not configured" => l.source \notin Configured \cup Overridden
<1> DEFINE sources == SourceDirsForProvider(provider, captured)
           unmet == {k \in Required(d) : ~ Satisfiable(k, sources, virtual)}
           first == CHOOSE k \in unmet : TRUE
<1>1. SUFFICES ASSUME reason \in {"out of scope", "not configured"}
               PROVE  /\ reason = "out of scope" => Given /\ l.source \notin Overridden
                      /\ reason = "not configured" => l.source \notin Configured \cup Overridden
  OBVIOUS
<1>2. unmet # {} /\ reason = UnmetReason(first, sources)
  BY <1>1 DEF SkipReason
<1>3. first = l
  BY <1>2, OneRequired
<1>4. reason = UnmetReason(l, sources)
  BY <1>2, <1>3
<1>5. l.source \in Families \ {"syslog_dir"}
  BY OneRequired, KnownLogs
<1>6. \A v \in Resolved(l.source) : [source |-> l.source, via |-> v] \in sources
  BY <1>5, SourcesOfProviders DEF Directories, Providers
<1>7. \A input \in sources : input.source # l.source
  BY <1>1, <1>4 DEF UnmetReason
<1>8. Resolved(l.source) = {}
  BY <1>6, <1>7
<1>9. l.source \notin Overridden /\ l.source \notin AdjustedScope \cap Configured
  BY <1>8 DEF Resolved
<1>10. reason = IF l.source \in AdjustedScope THEN "not configured" ELSE "out of scope"
  BY <1>4, <1>7 DEF UnmetReason
<1>11. l.source \notin AdjustedScope => Given
  BY <1>5 DEF AdjustedScope, ScopeWithSyslog
<1> QED
  BY <1>9, <1>10, <1>11

(* A plan that was made, by its provider.                                  *)
Honest(p) ==
    p.made =>
        /\ \A input \in p.sources : input.via # "call" =>
              \/ ~ Given \/ input.source \in Buckets
              \/ /\ input.source \in LocalSources
                 /\ call.flagMode \in {"auto", "journal", "files"}
        /\ \A s \in p.skipped : \A l \in Required(s.detector) :
              /\ s.reason = "out of scope" => Given /\ l.source \notin Overridden
              /\ s.reason = "not configured" => l.source \notin Configured \cup Overridden

LEMMA PartsOfAPlan ==
    ASSUME NEW provider, NEW captured, NEW virtual
    PROVE  /\ BuildRunPlan(provider, captured, virtual).sources = SourceDirsForProvider(provider, captured)
           /\ \A s \in BuildRunPlan(provider, captured, virtual).skipped :
                 s.reason = SkipReason(s.detector, SourceDirsForProvider(provider, captured), virtual)
  BY DEF BuildRunPlan, PlanOver

LEMMA BuiltPlansAreHonest ==
    ASSUME NEW captured \in BOOLEAN, NEW provider \in Providers, NEW virtual,
           provider = "files" => LaneEligible, provider = "journal" => Reading,
           NEW p, p = BuildRunPlan(provider, captured, virtual)
    PROVE  Honest(p)
<1>1. \A input \in p.sources : input.via # "call" =>
          \/ ~ Given \/ input.source \in Buckets
          \/ /\ input.source \in LocalSources
             /\ call.flagMode \in {"auto", "journal", "files"}
  BY PartsOfAPlan, WhatIsReadIsAsked
<1>2. ASSUME NEW s \in p.skipped, NEW l \in Required(s.detector)
      PROVE  /\ s.reason = "out of scope" => Given /\ l.source \notin Overridden
             /\ s.reason = "not configured" => l.source \notin Configured \cup Overridden
  <2>1. s.reason = SkipReason(s.detector, SourceDirsForProvider(provider, captured), virtual)
    BY <1>2, PartsOfAPlan
  <2> QED
    BY <1>2, <2>1, ReasonsAreTrue
<1> QED
  BY <1>1, <1>2 DEF Honest

LEMMA PlansAreHonest ==
    ASSUME CallTypes
    PROVE  Honest(NoPlan) /\ Honest(PreviewPlan) /\ Honest(HuntPlan)
<1>1. Honest(NoPlan) /\ Honest(NoJournal)
  BY RefusedJournal DEF Honest
<1>2. Honest(PreviewPlan)
  <2>1. CASE ProbeProvider = "raise"
    BY <1>1, <2>1, PlansOfProviders, Zenon
  <2>2. CASE ProbeProvider # "raise"
    <3>1. PICK provider \in Providers : provider = ProbeProvider
      BY <2>2, PlansOfProviders, Zenon
    <3>2. PreviewPlan = BuildRunPlan(provider, FALSE, Told(provider))
      BY <2>2, <3>1, PlansOfProviders, Zenon
    <3> QED
      BY <3>1, <3>2, BuiltPlansAreHonest, ProvidersOfModes, Zenon
  <2> QED
    BY <2>1, <2>2
<1>3. Honest(HuntPlan)
  <2>1. CASE CaptureProvider = "raise"
    BY <1>1, <2>1, PlansOfProviders, Zenon
  <2>2. CASE CaptureProvider # "raise"
    <3>1. PICK provider \in Providers : provider = CaptureProvider
      BY <2>2, PlansOfProviders, Zenon
    <3>2. HuntPlan = BuildRunPlan(provider, TRUE, {})
      BY <2>2, <3>1, PlansOfProviders, Zenon
    <3> QED
      BY <3>1, <3>2, BuiltPlansAreHonest, ProvidersOfModes, Zenon
  <2> QED
    BY <2>1, <2>2
<1> QED
  BY <1>1, <1>2, <1>3
-----------------------------------------------------------------------------
(* A plan depends on the call only.                                        *)
LEMMA SameCallSamePlans ==
    ASSUME call' = call
    PROVE  PreviewPlan' = PreviewPlan /\ HuntPlan' = HuntPlan
<1>1. Selected' = Selected
  BY DEF Selected, Inclusions, Available
<1>2. Buckets' = Buckets
  BY DEF Buckets, NamedDetectors, Available
<1>3. Overridden' = Overridden /\ (Given' <=> Given) /\ Configured' = Configured
  BY <1>2 DEF Overridden, Given, Configured
<1>4. LaneSelected' <=> LaneSelected
  BY <1>1 DEF LaneSelected
<1>5. Mode' = Mode
  BY <1>3 DEF Mode, ExplicitPath, ExplicitMode, ConfiguredMode
<1>6. LaneEligible' <=> LaneEligible
  BY <1>2, <1>3, <1>4, <1>5 DEF LaneEligible, InScope, Widens, ExplicitPath
<1>7. AdjustedScope' = AdjustedScope
  BY <1>2, <1>3, <1>6 DEF AdjustedScope, ScopeWithSyslog
<1>8. \A f : Resolved(f)' = Resolved(f)
  BY <1>3, <1>7 DEF Resolved
<1>9. ProbeProvider' = ProbeProvider /\ CaptureProvider' = CaptureProvider
  BY <1>5, <1>6 DEF ProbeProvider, CaptureProvider, ProbeReady
<1>10. \A provider, captured : SourceDirsForProvider(provider, captured)' = SourceDirsForProvider(provider, captured)
  BY <1>8 DEF SourceDirsForProvider
<1>11. \A input, pattern : Holds(input, pattern)' <=> Holds(input, pattern)
  BY DEF Holds
<1>12. \A log, sources, virtual : Satisfiable(log, sources, virtual)' <=> Satisfiable(log, sources, virtual)
  BY <1>11 DEF Satisfiable
<1>13. \A log, sources : DeniedFor(log, sources)' <=> DeniedFor(log, sources)
  BY DEF DeniedFor
<1>14. \A log, sources : UnmetReason(log, sources)' = UnmetReason(log, sources)
  BY <1>7, <1>13 DEF UnmetReason
<1>15. \A d, sources, virtual : SkipReason(d, sources, virtual)' = SkipReason(d, sources, virtual)
  <2> SUFFICES ASSUME NEW d, NEW sources, NEW virtual
               PROVE  SkipReason(d, sources, virtual)' = SkipReason(d, sources, virtual)
    OBVIOUS
  <2> DEFINE unmet == {l \in Required(d) : ~ Satisfiable(l, sources, virtual)}
             anyOf == \E l \in Optional(d) : Satisfiable(l, sources, virtual)
             denied == \E l \in Optional(d) : DeniedFor(l, sources)
             first == CHOOSE l \in unmet : TRUE
             reason == UnmetReason(first, sources)
  <2>1. unmet' = unmet /\ (anyOf' <=> anyOf) /\ (denied' <=> denied)
    BY <1>12, <1>13
  <2>2. first' = first
    BY <2>1
  <2>3. reason' = reason
    <3> HIDE DEF first
    <3> QED
      BY <1>14, <2>2
  <2>4. SkipReason(d, sources, virtual) =
          IF d \in call.broken THEN "import failed"
          ELSE IF unmet # {} THEN reason
          ELSE IF RequiresOneOf(d) /\ ~ anyOf THEN IF denied THEN "denied" ELSE "no source"
          ELSE "none"
    BY Zenon DEF SkipReason
  <2>5. SkipReason(d, sources, virtual)' =
          IF d \in call'.broken THEN "import failed"
          ELSE IF unmet' # {} THEN reason'
          ELSE IF RequiresOneOf(d) /\ ~ anyOf' THEN IF denied' THEN "denied" ELSE "no source"
          ELSE "none"
    BY Zenon DEF SkipReason
  <2>6. CASE d \in call.broken
    BY <2>4, <2>5, <2>6, Zenon
  <2>7. CASE d \notin call.broken /\ unmet # {}
    <3>1. SkipReason(d, sources, virtual) = reason
      BY <2>4, <2>7, Zenon
    <3>2. SkipReason(d, sources, virtual)' = reason'
      BY <2>1, <2>5, <2>7, Zenon
    <3> QED
      BY <2>3, <3>1, <3>2, Zenon
  <2>8. CASE d \notin call.broken /\ unmet = {} /\ (RequiresOneOf(d) => anyOf)
    BY <2>1, <2>4, <2>5, <2>8, Zenon
  <2>9. CASE d \notin call.broken /\ unmet = {} /\ RequiresOneOf(d) /\ ~ anyOf /\ denied
    BY <2>1, <2>4, <2>5, <2>9, Zenon
  <2>10. CASE d \notin call.broken /\ unmet = {} /\ RequiresOneOf(d) /\ ~ anyOf /\ ~ denied
    BY <2>1, <2>4, <2>5, <2>10, Zenon
  <2> QED
    BY <2>6, <2>7, <2>8, <2>9, <2>10
<1>16. ASSUME NEW sources, NEW provider, NEW virtual
       PROVE  PlanOver(sources, provider, virtual)' = PlanOver(sources, provider, virtual)
  <2> DEFINE runs == {d \in Selected : SkipReason(d, sources, virtual) = "none"}
             There(d) == {l \in Optional(d) : Satisfiable(l, sources, virtual)}
             needed == UNION {Required(d) \cup There(d) : d \in runs}
             skipped == {[detector |-> d, reason |-> SkipReason(d, sources, virtual)] : d \in Selected \ runs}
             error == IF \E a, b \in needed : a.pattern = b.pattern /\ a # b THEN "claimed twice" ELSE "none"
             whole == [made |-> TRUE, error |-> error, provider |-> provider, sources |-> sources,
                       willRun |-> runs, skipped |-> skipped, needed |-> needed]
  <2>1. runs' = runs
    BY <1>1, <1>15
  <2>2. \A d : There(d)' = There(d)
    BY <1>12
  <2>3. needed' = needed
    <3> HIDE DEF There, runs
    <3> QED
      BY <2>1, <2>2
  <2>4. skipped' = skipped
    <3> HIDE DEF runs
    <3> QED
      BY <1>1, <1>15, <2>1
  <2>5. error' = error
    <3> HIDE DEF needed
    <3> QED
      BY <2>3
  <2>6. whole' = whole
    <3> HIDE DEF error, runs, skipped, needed
    <3> QED
      BY <2>1, <2>3, <2>4, <2>5
  <2> QED
    BY <2>6, Zenon DEF PlanOver
<1>17. \A provider, captured, virtual :
          BuildRunPlan(provider, captured, virtual)' = BuildRunPlan(provider, captured, virtual)
  BY <1>10, <1>16 DEF BuildRunPlan
<1> QED
  BY <1>9, <1>17 DEF PreviewPlan, HuntPlan

(* What is planned at each stage, both times from the one call.            *)
PlanInv ==
    /\ call \in Calls /\ stage \in {"called", "refused", "previewed", "planned", "failed"}
    /\ dry = IF stage \in {"called", "refused"} THEN NoPlan ELSE PreviewPlan
    /\ real = IF stage \in {"planned", "failed"} THEN HuntPlan ELSE NoPlan
    /\ stage = "planned" => real.error = "none"

(* The plans are of their stage (cli.py, _runner/planning.py).             *)
THEOREM PlanInvariant == PlanSpec => []PlanInv
<1>1. PlanInit => PlanInv
  BY DEF PlanInit, PlanInv
<1>2. PlanInv /\ [PlanNext]_planVars => PlanInv'
  <2> SUFFICES ASSUME PlanInv, [PlanNext]_planVars
               PROVE  PlanInv'
    OBVIOUS
  <2>1. ASSUME call' = call
        PROVE  PreviewPlan' = PreviewPlan /\ HuntPlan' = HuntPlan
    BY <2>1, SameCallSamePlans
  <2>2. CASE Refuse
    BY <2>1, <2>2 DEF Refuse, PlanInv
  <2>3. CASE DryRun
    BY <2>1, <2>3 DEF DryRun, PlanInv
  <2>4. CASE PlanRun
    BY <2>1, <2>4 DEF PlanRun, PlanInv
  <2>5. CASE UNCHANGED planVars
    BY <2>1, <2>5 DEF planVars, PlanInv
  <2> QED
    BY <2>2, <2>3, <2>4, <2>5 DEF PlanNext
<1> QED
  BY <1>1, <1>2, PTL DEF PlanSpec

(* The dry run announces the run, and both stay in the scope that was      *)
(* asked: the positionals, the flags and --syslog-source (planning.py).    *)
THEOREM DryRunTellsTheRun == PlanSpec => []PlanIsTheRun
<1>1. PlanInv => PlanIsTheRun
  <2> SUFFICES ASSUME PlanInv
               PROVE  PlanIsTheRun
    OBVIOUS
  <2>1. CallTypes
    BY CallsAssumption DEF PlanInv, CallTypes
  <2>2. DryRunPlansTheRun
    <3> SUFFICES ASSUME stage \in {"planned", "failed"}
                 PROVE  DryRunPlansTheRun
      BY DEF DryRunPlansTheRun, PlanInv
    <3>1. dry = PreviewPlan /\ real = HuntPlan
      BY DEF PlanInv
    <3> QED
      BY <2>1, <3>1, PlansAgree, Zenon DEF DryRunPlansTheRun
  <2>3. ScopeIsHonoured
    <3>1. Honest(dry) /\ Honest(real)
      <4>1. dry \in {NoPlan, PreviewPlan} /\ real \in {NoPlan, HuntPlan}
        BY Zenon DEF PlanInv
      <4> QED
        BY <2>1, <4>1, PlansAreHonest
    <3> QED
      BY <3>1 DEF ScopeIsHonoured, Honest
  <2> QED
    BY <2>2, <2>3 DEF PlanIsTheRun
<1> QED
  BY <1>1, PlanInvariant, PTL

-----------------------------------------------------------------------------
(* A hunt.  The stages, in order.                                          *)
BeforeRun == {"idle", "called", "refused", "previewed", "failed", "planned"}
Gathering == {"preparing", "loaded", "finishing", "opening"}
LifeStages == BeforeRun \cup Gathering \cup {"detecting", "rendered", "exited"}

(* Nothing has happened before the plan; a plan is over the selection.     *)
NothingYet == stage \in BeforeRun => RunInit
PlanIsWhole ==
    /\ stage \in {"idle", "called", "refused", "previewed"} => ~ real.made
    /\ real.made => real.willRun \cup {s.detector : s \in real.skipped} = Selected
    /\ stage \in {"planned"} \cup Gathering \cup {"detecting", "rendered"} => real.made

(* Who can have failed, run or been prepared, and what is told of it.      *)
DetectorsAreAccounted ==
    /\ DOMAIN prepared \subseteq real.willRun /\ failed \subseteq real.willRun
    /\ ran \subseteq real.willRun /\ ran \cap failed = {}
    /\ stage \in Gathering => ran = {}
    /\ \A d \in DOMAIN prepared : prepared[d] \in {"declined", "reloaded"} => d \in noted \cup failed

(* What the target holds, and what the operator was asked and told.        *)
TargetIsKnown ==
    /\ stage \in Gathering => report = "old"
    /\ stage = "detecting" => report \in {"old", "begun"}
    /\ stage = "rendered" => report = "complete" 
    /\ report = "complete" => real.made /\ ran \cup failed = real.willRun
    /\ claimed => report = "complete" /\ terms.target # "stdout" /\ stage = "exited"
    /\ prompts \in {0, 1} /\ (prompts = 1 => terms.gate /\ ~ terms.yes)

ExitIsEarned ==
    /\ stage # "exited" => exit = "none"
    /\ exit # "none" /\ report = "begun" => exit \in {"1", "130"}
    /\ exit = "0" => \/ prompts = 1 /\ report = "old"
                     \/ Selected = {} /\ report = "old"
                     \/ report = "complete" /\ ran = real.willRun /\ failed = {}
    /\ exit = "1" /\ report = "complete" => failed # {}

LifeInv ==
    /\ stage \in LifeStages /\ NothingYet /\ PlanIsWhole
    /\ DetectorsAreAccounted /\ TargetIsKnown /\ ExitIsEarned

LEMMA SameSelection ==
    ASSUME call' = call
    PROVE  Selected' = Selected
  BY DEF Selected, Inclusions, Available

(* A plan is made over the whole selection, or it is not made.             *)
LEMMA PlanOfSelection ==
    /\ HuntPlan.made => HuntPlan.willRun \cup {s.detector : s \in HuntPlan.skipped} = Selected
    /\ HuntPlan.error = "none" => HuntPlan.made
<1>1. ASSUME NEW sources, NEW provider, NEW virtual
      PROVE  LET p == PlanOver(sources, provider, virtual)
             IN  p.made /\ p.willRun \cup {s.detector : s \in p.skipped} = Selected
  <2> DEFINE Reason(d) == SkipReason(d, sources, virtual)
             runs == {d \in Selected : Reason(d) = "none"}
             omits == {[detector |-> d, reason |-> Reason(d)] : d \in Selected \ runs}
             p == PlanOver(sources, provider, virtual)
  <2>1. p.made /\ p.willRun = runs /\ p.skipped = omits
    BY DEF PlanOver
  <2>2. {s.detector : s \in omits} = Selected \ runs
    <3> DEFINE rest == Selected \ runs
    <3>1. omits = {[detector |-> d, reason |-> Reason(d)] : d \in rest}
      OBVIOUS
    <3> HIDE DEF Reason, rest, omits
    <3>2. \A s \in omits : s.detector \in rest
      BY <3>1
    <3>3. \A d \in rest : \E s \in omits : s.detector = d
      <4> TAKE d \in rest
      <4>1. [detector |-> d, reason |-> Reason(d)] \in omits
        BY <3>1
      <4> QED
        BY <4>1
    <3>4. {s.detector : s \in omits} = rest
      BY <3>2, <3>3, Zenon
    <3> QED
      BY <3>4 DEF rest
  <2>3. runs \subseteq Selected
    OBVIOUS
  <2> QED
    BY <2>1, <2>2, <2>3
<1>2. CASE CaptureProvider = "raise"
  BY <1>2, RefusedJournal DEF HuntPlan
<1>3. CASE CaptureProvider # "raise"
  <2>1. HuntPlan = PlanOver(SourceDirsForProvider(CaptureProvider, TRUE), CaptureProvider, {})
    BY <1>3 DEF HuntPlan, BuildRunPlan
  <2> QED
    BY <1>1, <2>1, Zenon
<1> QED
  BY <1>2, <1>3

(* Planning: DryRun and PlanRun, which the run does not see.               *)
LEMMA PlanningKeeps ==
    ASSUME LifeInv, PlanNext, UNCHANGED runVars
    PROVE  LifeInv'
<1>1. call' = call /\ stage \in {"called", "previewed"}
  BY DEF PlanNext, Refuse, DryRun, PlanRun
<1>2. RunInit /\ RunInit'
  <2>1. RunInit
    BY <1>1 DEF LifeInv, NothingYet, BeforeRun
  <2> QED
    BY <2>1 DEF RunInit, runVars
<1>3. stage' \in {"refused", "previewed", "planned", "failed"}
  BY DEF PlanNext, Refuse, DryRun, PlanRun
<1>4. Selected' = Selected
  BY <1>1, SameSelection
<1>5. PlanIsWhole'
  <2>1. CASE PlanRun
    <3>1. real' = HuntPlan /\ (stage' = "planned" => HuntPlan.error = "none") /\ stage' \in {"planned", "failed"}
      BY <2>1 DEF PlanRun
    <3> QED
      BY <1>4, <3>1, PlanOfSelection DEF PlanIsWhole, Gathering
  <2>2. CASE Refuse \/ DryRun
    <3>1. real' = real /\ stage' \in {"refused", "previewed"}
      BY <2>2 DEF Refuse, DryRun
    <3> QED
      BY <1>1, <1>4, <3>1 DEF PlanIsWhole, Gathering, LifeInv
  <2> QED
    BY <2>1, <2>2 DEF PlanNext
<1>6. DetectorsAreAccounted'
  BY <1>2, <1>3 DEF RunInit, DetectorsAreAccounted, Gathering
<1>7. TargetIsKnown' /\ ExitIsEarned'
  BY <1>2, <1>3 DEF RunInit, TargetIsKnown, ExitIsEarned, Gathering
<1> QED
  BY <1>2, <1>3, <1>5, <1>6, <1>7 DEF LifeInv, NothingYet, BeforeRun, LifeStages

(* The steps of a run leave the plan alone.                                *)
LEMMA PlanStays ==
    ASSUME KeepPlan
    PROVE  call' = call /\ real' = real /\ terms' = terms /\ Selected' = Selected
  BY SameSelection DEF KeepPlan

(* A plan that failed, or that has nothing to run.                         *)
LEMMA EndUnplannedKeeps ==
    ASSUME LifeInv, EndUnplanned
    PROVE  LifeInv'
<1> call' = call /\ real' = real /\ terms' = terms /\ Selected' = Selected
  BY PlanStays DEF EndUnplanned
<1> USE DEF EndUnplanned, Raise, Exit, BeforeRun, Gathering
<1>1. stage' \in LifeStages /\ NothingYet'
  BY DEF LifeInv, LifeStages, NothingYet, RunInit
<1>2. PlanIsWhole'
  BY DEF LifeInv, PlanIsWhole, LifeStages
<1>3. DetectorsAreAccounted'
  BY DEF LifeInv, DetectorsAreAccounted, NothingYet, RunInit
<1>4. TargetIsKnown'
  BY DEF LifeInv, TargetIsKnown, NothingYet, RunInit, PlanIsWhole, DetectorsAreAccounted
<1>5. ExitIsEarned'
  BY DEF LifeInv, ExitIsEarned, TargetIsKnown, NothingYet, RunInit, PlanIsWhole, DetectorsAreAccounted
<1> QED
  BY <1>1, <1>2, <1>3, <1>4, <1>5 DEF LifeInv

(* The gates.                                                              *)
LEMMA GateBeforeLoadKeeps ==
    ASSUME LifeInv, GateBeforeLoad
    PROVE  LifeInv'
<1> call' = call /\ real' = real /\ terms' = terms /\ Selected' = Selected
  BY PlanStays DEF GateBeforeLoad
<1> USE DEF GateBeforeLoad, Confirm, GateAsks, Declined, Exit, BeforeRun, Gathering
<1>1. stage' \in LifeStages /\ NothingYet'
  BY DEF LifeInv, LifeStages, NothingYet, RunInit
<1>2. PlanIsWhole'
  BY DEF LifeInv, PlanIsWhole, LifeStages
<1>3. DetectorsAreAccounted'
  BY DEF LifeInv, DetectorsAreAccounted, NothingYet, RunInit
<1>4. TargetIsKnown'
  BY DEF LifeInv, TargetIsKnown, NothingYet, RunInit, PlanIsWhole, DetectorsAreAccounted
<1>5. ExitIsEarned'
  BY DEF LifeInv, ExitIsEarned, TargetIsKnown, NothingYet, RunInit, PlanIsWhole, DetectorsAreAccounted
<1> QED
  BY <1>1, <1>2, <1>3, <1>4, <1>5 DEF LifeInv

LEMMA GateAfterLoadKeeps ==
    ASSUME LifeInv, GateAfterLoad
    PROVE  LifeInv'
<1> call' = call /\ real' = real /\ terms' = terms /\ Selected' = Selected
  BY PlanStays DEF GateAfterLoad
<1> USE DEF GateAfterLoad, Confirm, GateAsks, Declined, Raise, Exit, BeforeRun, Gathering
<1>1. stage' \in LifeStages /\ NothingYet'
  BY DEF LifeInv, LifeStages, NothingYet, RunInit
<1>2. PlanIsWhole'
  BY DEF LifeInv, PlanIsWhole, LifeStages
<1>3. DetectorsAreAccounted'
  BY DEF LifeInv, DetectorsAreAccounted, NothingYet, RunInit
<1>4. TargetIsKnown'
  BY DEF LifeInv, TargetIsKnown, NothingYet, RunInit, PlanIsWhole, DetectorsAreAccounted
<1>5. ExitIsEarned'
  BY DEF LifeInv, ExitIsEarned, TargetIsKnown, NothingYet, RunInit, PlanIsWhole, DetectorsAreAccounted
<1> QED
  BY <1>1, <1>2, <1>3, <1>4, <1>5 DEF LifeInv

(* The load, and the populations it takes back.                            *)
LEMMA LoadKeeps ==
    ASSUME LifeInv, Load
    PROVE  LifeInv'
<1> call' = call /\ real' = real /\ terms' = terms /\ Selected' = Selected
  BY PlanStays DEF Load
<1> USE DEF Load, Committed, Raise, Exit, BeforeRun, Gathering
<1>1. stage' \in LifeStages /\ NothingYet'
  BY DEF LifeInv, LifeStages, NothingYet, RunInit
<1>2. PlanIsWhole'
  BY DEF LifeInv, PlanIsWhole, LifeStages
<1>3. DetectorsAreAccounted'
  BY DEF LifeInv, DetectorsAreAccounted, NothingYet, RunInit
<1>4. TargetIsKnown'
  BY DEF LifeInv, TargetIsKnown, NothingYet, RunInit, PlanIsWhole, DetectorsAreAccounted
<1>5. ExitIsEarned'
  BY DEF LifeInv, ExitIsEarned, TargetIsKnown, NothingYet, RunInit, PlanIsWhole, DetectorsAreAccounted
<1> QED
  BY <1>1, <1>2, <1>3, <1>4, <1>5 DEF LifeInv

LEMMA FinishKeeps ==
    ASSUME LifeInv, Finish
    PROVE  LifeInv'
<1> call' = call /\ real' = real /\ terms' = terms /\ Selected' = Selected
  BY PlanStays DEF Finish
<1> USE DEF Finish, Committed, BeforeRun, Gathering
<1>1. stage' \in LifeStages /\ NothingYet'
  BY DEF LifeInv, LifeStages, NothingYet, RunInit
<1>2. PlanIsWhole'
  BY DEF LifeInv, PlanIsWhole, LifeStages
<1>3. DetectorsAreAccounted'
  BY DEF LifeInv, DetectorsAreAccounted, NothingYet, RunInit
<1>4. TargetIsKnown'
  BY DEF LifeInv, TargetIsKnown, NothingYet, RunInit, PlanIsWhole, DetectorsAreAccounted
<1>5. ExitIsEarned'
  BY DEF LifeInv, ExitIsEarned, TargetIsKnown, NothingYet, RunInit, PlanIsWhole, DetectorsAreAccounted
<1> QED
  BY <1>1, <1>2, <1>3, <1>4, <1>5 DEF LifeInv

(* The report.                                                             *)
LEMMA OpenReportKeeps ==
    ASSUME LifeInv, OpenReport
    PROVE  LifeInv'
<1> call' = call /\ real' = real /\ terms' = terms /\ Selected' = Selected
  BY PlanStays DEF OpenReport
<1> USE DEF OpenReport, Raise, Exit, BeforeRun, Gathering
<1>1. stage' \in LifeStages /\ NothingYet'
  BY DEF LifeInv, LifeStages, NothingYet, RunInit
<1>2. PlanIsWhole'
  BY DEF LifeInv, PlanIsWhole, LifeStages
<1>3. DetectorsAreAccounted'
  BY DEF LifeInv, DetectorsAreAccounted, NothingYet, RunInit
<1>4. TargetIsKnown'
  BY DEF LifeInv, TargetIsKnown, NothingYet, RunInit, PlanIsWhole, DetectorsAreAccounted
<1>5. ExitIsEarned'
  BY DEF LifeInv, ExitIsEarned, TargetIsKnown, NothingYet, RunInit, PlanIsWhole, DetectorsAreAccounted
<1> QED
  BY <1>1, <1>2, <1>3, <1>4, <1>5 DEF LifeInv

LEMMA RenderKeeps ==
    ASSUME LifeInv, Render
    PROVE  LifeInv'
<1> call' = call /\ real' = real /\ terms' = terms /\ Selected' = Selected
  BY PlanStays DEF Render
<1> USE DEF Render, Raise, Exit, BeforeRun, Gathering
<1>1. stage' \in LifeStages /\ NothingYet'
  BY DEF LifeInv, LifeStages, NothingYet, RunInit
<1>2. PlanIsWhole'
  BY DEF LifeInv, PlanIsWhole, LifeStages
<1>3. DetectorsAreAccounted'
  BY DEF LifeInv, DetectorsAreAccounted, NothingYet, RunInit
<1>4. TargetIsKnown'
  BY DEF LifeInv, TargetIsKnown, NothingYet, RunInit, PlanIsWhole, DetectorsAreAccounted
<1>5. ExitIsEarned'
  BY DEF LifeInv, ExitIsEarned, TargetIsKnown, NothingYet, RunInit, PlanIsWhole, DetectorsAreAccounted
<1> QED
  BY <1>1, <1>2, <1>3, <1>4, <1>5 DEF LifeInv

LEMMA AnnounceKeeps ==
    ASSUME LifeInv, Announce
    PROVE  LifeInv'
<1> call' = call /\ real' = real /\ terms' = terms /\ Selected' = Selected
  BY PlanStays DEF Announce
<1> USE DEF Announce, Exit, BeforeRun, Gathering
<1>1. stage' \in LifeStages /\ NothingYet'
  BY DEF LifeInv, LifeStages, NothingYet, RunInit
<1>2. PlanIsWhole'
  BY DEF LifeInv, PlanIsWhole, LifeStages
<1>3. DetectorsAreAccounted'
  BY DEF LifeInv, DetectorsAreAccounted, NothingYet, RunInit
<1>4. TargetIsKnown'
  BY DEF LifeInv, TargetIsKnown, NothingYet, RunInit, PlanIsWhole, DetectorsAreAccounted
<1>5. ExitIsEarned'
  BY DEF LifeInv, ExitIsEarned, TargetIsKnown, NothingYet, RunInit, PlanIsWhole, DetectorsAreAccounted
<1> QED
  BY <1>1, <1>2, <1>3, <1>4, <1>5 DEF LifeInv

(* ^C.                                                                     *)
LEMMA InterruptKeeps ==
    ASSUME LifeInv, Interrupt
    PROVE  LifeInv'
<1> call' = call /\ real' = real /\ terms' = terms /\ Selected' = Selected
  BY PlanStays DEF Interrupt
<1> USE DEF Interrupt, Interrupted, Exit, BeforeRun, Gathering
<1>1. stage' \in LifeStages /\ NothingYet'
  BY DEF LifeInv, LifeStages, NothingYet, RunInit
<1>2. PlanIsWhole'
  BY DEF LifeInv, PlanIsWhole, LifeStages
<1>3. DetectorsAreAccounted'
  BY DEF LifeInv, DetectorsAreAccounted, NothingYet, RunInit
<1>4. TargetIsKnown'
  BY DEF LifeInv, TargetIsKnown, NothingYet, RunInit, PlanIsWhole, DetectorsAreAccounted
<1>5. ExitIsEarned'
  BY DEF LifeInv, ExitIsEarned, TargetIsKnown, NothingYet, RunInit, PlanIsWhole, DetectorsAreAccounted
<1> QED
  BY <1>1, <1>2, <1>3, <1>4, <1>5 DEF LifeInv

LEMMA PrepareKeeps ==
    ASSUME NEW d, LifeInv, Prepare(d)
    PROVE  LifeInv'
<1> call' = call /\ real' = real /\ terms' = terms /\ Selected' = Selected
  BY PlanStays DEF Prepare
<1> USE DEF Prepare, Dispose, BeforeRun, Gathering
<1>1. stage' \in LifeStages /\ NothingYet'
  BY DEF LifeInv, LifeStages, NothingYet, RunInit
<1>2. PlanIsWhole'
  BY DEF LifeInv, PlanIsWhole, LifeStages
<1>3. DetectorsAreAccounted'
  <2>1. PICK outcome \in {"committed", "ineligible", "declined", "bad config"} :
           /\ prepared' = [n \in DOMAIN prepared \cup {d} |-> IF n = d THEN outcome ELSE prepared[n]]
           /\ IF outcome = "committed" THEN UNCHANGED <<failed, noted>>
              ELSE Dispose(d, outcome = "bad config", outcome = "ineligible")
    BY DEF Prepare
  <2>2. /\ d \in real.willRun /\ ran' = ran /\ stage' = stage /\ ran = {}
        /\ real' = real
    BY DEF LifeInv, DetectorsAreAccounted
  <2>3. /\ failed \subseteq failed' /\ failed' \subseteq failed \cup {d}
        /\ noted \subseteq noted'
        /\ outcome = "declined" => d \in noted' \cup failed'
    BY <2>1
  <2>4. DOMAIN prepared' = DOMAIN prepared \cup {d}
    BY <2>1
  <2>5. \A n \in DOMAIN prepared' : prepared'[n] \in {"declined", "reloaded"} => n \in noted' \cup failed'
    BY <2>1, <2>3 DEF LifeInv, DetectorsAreAccounted
  <2> QED
    BY <2>2, <2>3, <2>4, <2>5 DEF LifeInv, DetectorsAreAccounted
<1>4. TargetIsKnown'
  BY DEF LifeInv, TargetIsKnown, NothingYet, RunInit, PlanIsWhole, DetectorsAreAccounted
<1>5. ExitIsEarned'
  BY DEF LifeInv, ExitIsEarned, TargetIsKnown, NothingYet, RunInit, PlanIsWhole, DetectorsAreAccounted
<1> QED
  BY <1>1, <1>2, <1>3, <1>4, <1>5 DEF LifeInv

LEMMA DetectKeeps ==
    ASSUME NEW d, LifeInv, Detect(d)
    PROVE  LifeInv'
<1> call' = call /\ real' = real /\ terms' = terms /\ Selected' = Selected
  BY PlanStays DEF Detect
<1> USE DEF Detect, BeforeRun, Gathering
<1>1. stage' \in LifeStages /\ NothingYet'
  BY DEF LifeInv, LifeStages, NothingYet, RunInit
<1>2. PlanIsWhole'
  BY DEF LifeInv, PlanIsWhole, LifeStages
<1>3. DetectorsAreAccounted'
  BY DEF LifeInv, DetectorsAreAccounted, NothingYet, RunInit
<1>4. TargetIsKnown'
  BY DEF LifeInv, TargetIsKnown, NothingYet, RunInit, PlanIsWhole, DetectorsAreAccounted
<1>5. ExitIsEarned'
  BY DEF LifeInv, ExitIsEarned, TargetIsKnown, NothingYet, RunInit, PlanIsWhole, DetectorsAreAccounted
<1> QED
  BY <1>1, <1>2, <1>3, <1>4, <1>5 DEF LifeInv

LEMMA RunStepKeeps ==
    ASSUME LifeInv, [RunNext]_lifeVars
    PROVE  LifeInv'
<1>1. CASE (Refuse \/ DryRun \/ PlanRun) /\ UNCHANGED runVars
  BY <1>1, PlanningKeeps DEF PlanNext
<1>2. CASE UNCHANGED lifeVars
  <2>1. Selected' = Selected
    BY <1>2, SameSelection DEF lifeVars, planVars
  <2> QED
    BY <1>2, <2>1 DEF lifeVars, planVars, runVars, LifeInv, NothingYet, RunInit, PlanIsWhole,
          DetectorsAreAccounted, TargetIsKnown, ExitIsEarned
<1>3. CASE \E d \in Detectors : Prepare(d) \/ Detect(d)
  BY <1>3, PrepareKeeps, DetectKeeps
<1> QED
  BY <1>1, <1>2, <1>3, EndUnplannedKeeps, GateBeforeLoadKeeps, GateAfterLoadKeeps, LoadKeeps,
     FinishKeeps, OpenReportKeeps, RenderKeeps, AnnounceKeeps, InterruptKeeps DEF RunNext

LEMMA LifeStarts ==
    ASSUME RunInit, real = NoPlan, stage \in {"idle", "called"}
    PROVE  LifeInv
  BY RefusedJournal DEF RunInit, LifeInv, LifeStages, BeforeRun, Gathering, NothingYet, PlanIsWhole,
     DetectorsAreAccounted, TargetIsKnown, ExitIsEarned

LEMMA LifeIsHonest ==
    ASSUME LifeInv
    PROVE  RunExitIsEarned /\ RunClaimIsTrue
<1>1. RunExitIsEarned
  BY DEF LifeInv, ExitIsEarned, TargetIsKnown, PlanIsWhole, DetectorsAreAccounted, RunExitIsEarned
<1>2. RunClaimIsTrue
  BY DEF LifeInv, ExitIsEarned, TargetIsKnown, RunClaimIsTrue
<1> QED
  BY <1>1, <1>2

(* The inductive invariant of a hunt, from the call to the exit code       *)
(* (_runner/analyze.py).                                                   *)
THEOREM LifeInvariant == LifeSpec => []LifeInv
<1>1. LifeInit => LifeInv
  BY LifeStarts DEF LifeInit, PlanInit
<1>2. LifeInv /\ [RunNext]_lifeVars => LifeInv'
  BY RunStepKeeps
<1> QED
  BY <1>1, <1>2, PTL DEF LifeSpec

-----------------------------------------------------------------------------
(* The fan-outs.  Each input is attempted once; the artifact of a kind is  *)
(* of its attempt, the shared file is open once a card is drawn.           *)
ArtifactsAreOfAttempts ==
    verb = "graph" =>
        /\ DOMAIN target = Kinds /\ todo \cup said \subseteq Kinds
        /\ \A k \in Kinds : /\ k \in said <=> target[k] = "whole"
                            /\ target[k] = "torn" => k \in Results("error")
                            /\ k \in todo => target[k] = "old"

CardsShareAFile ==
    verb = "digest" =>
        /\ DOMAIN target = {"out"}
        /\ Results("rendered") # {} => target["out"] = "open"
        /\ said \subseteq {"out"} /\ (said # {} => Results("rendered") # {})
        /\ code = "none" => said = {}
        /\ code # "none" /\ said = {} => Results("rendered") = {} \/ Results("declined") # {}

AttemptsAreKnown ==
    /\ todo \cap DOMAIN ledger = {}
    /\ ledger = <<>> \/ DOMAIN ledger # {}
    /\ verb = "graph" => \A i \in DOMAIN ledger : ledger[i] \in {"denied", "empty", "error", "rendered"}
    /\ verb = "digest" => issues = {}

FanInv ==
    /\ verb \in {"idle", "graph", "digest"} /\ AttemptsAreKnown
    /\ verb = "idle" => said = {}
    /\ ArtifactsAreOfAttempts /\ CardsShareAFile /\ FanOutExitIsEarned

LEMMA PutResult ==
    ASSUME NEW i, NEW r, ledger' = Put(ledger, i, r), i \notin DOMAIN ledger
    PROVE  /\ DOMAIN ledger' = DOMAIN ledger \cup {i}
           /\ ledger'[i] = r /\ \A j \in DOMAIN ledger : ledger'[j] = ledger[j]
           /\ \A kind : /\ kind # r => Results(kind)' = Results(kind)
                       /\ kind = r => Results(kind)' = Results(kind) \cup {i}
<1>1. DOMAIN ledger' = DOMAIN ledger \cup {i}
  BY DEF Put
<1>2. ledger'[i] = r /\ \A j \in DOMAIN ledger : ledger'[j] = ledger[j]
  BY DEF Put
<1> QED
  BY <1>1, <1>2 DEF Results

LEMMA GraphStepKeeps ==
    ASSUME FanInv, NEW k \in Kinds, GraphKind(k)
    PROVE  FanInv'
<1> verb = "graph" /\ code = "none" /\ k \in todo /\ verb' = verb /\ code' = code /\ issues' = issues
  BY DEF GraphKind, Attempt, GraphDenied, GraphRetry, GraphEmpty, GraphBroken, GraphDrawn
<1>1. CASE GraphRetry(k)
  BY <1>1 DEF GraphRetry, FanInv, AttemptsAreKnown, ArtifactsAreOfAttempts, CardsShareAFile,
     FanOutExitIsEarned, Results
<1>2. ASSUME NEW r, NEW t, Attempt(k, r),
             \/ r \in {"denied", "empty"} /\ target' = target /\ said' = said
             \/ r = "error" /\ said' = said /\ t \in {"old", "torn"} /\ target' = [target EXCEPT ![k] = t]
             \/ r = "rendered" /\ target' = [target EXCEPT ![k] = "whole"] /\ said' = said \cup {k}
      PROVE  FanInv'
  <2>1. /\ DOMAIN ledger' = DOMAIN ledger \cup {k} /\ todo' = todo \ {k}
        /\ ledger'[k] = r /\ \A j \in DOMAIN ledger : ledger'[j] = ledger[j]
        /\ \A kind : /\ kind # r => Results(kind)' = Results(kind)
                    /\ kind = r => Results(kind)' = Results(kind) \cup {k}
    BY <1>2, PutResult DEF Attempt, FanInv, AttemptsAreKnown
  <2>2. AttemptsAreKnown'
    BY <1>2, <2>1 DEF FanInv, AttemptsAreKnown
  <2>3. ArtifactsAreOfAttempts'
    <3>1. CASE r \in {"denied", "empty"}
      <4>1. target' = target /\ said' = said
        BY <1>2, <3>1
      <4>2. Results("error")' = Results("error")
        BY <2>1, <3>1 DEF Results
      <4> QED
        BY <2>1, <4>1, <4>2 DEF FanInv, ArtifactsAreOfAttempts
    <3>2. CASE r = "error"
      <4>1. said' = said /\ t \in {"old", "torn"} /\ target' = [target EXCEPT ![k] = t]
        BY <1>2, <3>2
      <4>2. Results("error")' = Results("error") \cup {k}
        BY <2>1, <3>2
      <4> QED
        BY <2>1, <4>1, <4>2 DEF FanInv, ArtifactsAreOfAttempts
    <3>3. CASE r = "rendered"
      <4>1. target' = [target EXCEPT ![k] = "whole"] /\ said' = said \cup {k}
        BY <1>2, <3>3
      <4>2. Results("error")' = Results("error")
        BY <2>1, <3>3 DEF Results
      <4> QED
        BY <2>1, <4>1, <4>2 DEF FanInv, ArtifactsAreOfAttempts
    <3> QED
      BY <1>2, <3>1, <3>2, <3>3
  <2> QED
    BY <2>1, <2>2, <2>3 DEF FanInv, CardsShareAFile, FanOutExitIsEarned
<1> QED
  BY <1>1, <1>2 DEF GraphKind, GraphDenied, GraphEmpty, GraphBroken, GraphDrawn

LEMMA DigestStepKeeps ==
    ASSUME FanInv, NEW p \in Paths, DigestPath(p)
    PROVE  FanInv'
<1> verb = "digest" /\ code = "none" /\ p \in todo /\ verb' = verb /\ issues' = issues
    /\ said' = said /\ todo' = todo \ {p}
  BY DEF DigestPath
<1>1. PICK r : ledger' = Put(ledger, p, r) /\
               \/ target' = target /\ code' = code /\ r # "rendered"
               \/ /\ target' = [target EXCEPT !["out"] = "open"]
                  /\ IF r = "declined" THEN code' = "0" ELSE code' = code
  <2>1. CASE DigestSkip(p)
    BY <2>1 DEF DigestSkip
  <2>2. CASE DigestCard(p)
    BY <2>2 DEF DigestCard, Code
  <2> QED
    BY <2>1, <2>2 DEF DigestPath
<1>2. /\ DOMAIN ledger' = DOMAIN ledger \cup {p}
      /\ ledger'[p] = r /\ \A j \in DOMAIN ledger : ledger'[j] = ledger[j]
      /\ \A kind : /\ kind # r => Results(kind)' = Results(kind)
                  /\ kind = r => Results(kind)' = Results(kind) \cup {p}
  BY <1>1, PutResult DEF FanInv, AttemptsAreKnown
<1>3. said = {} /\ said' = {}
  BY DEF FanInv, CardsShareAFile
<1>4. CASE r = "rendered"
  <2>1. target' = [target EXCEPT !["out"] = "open"] /\ code' = code
    BY <1>1, <1>4
  <2> QED
    BY <1>2, <1>3, <2>1 DEF FanInv, AttemptsAreKnown, ArtifactsAreOfAttempts, CardsShareAFile, FanOutExitIsEarned
<1>5. CASE r = "declined"
  <2>1. code' \in {"none", "0"} /\ (target' = target \/ target' = [target EXCEPT !["out"] = "open"])
    BY <1>1, <1>5
  <2>2. p \in Results("declined")' /\ Results("rendered")' = Results("rendered")
    BY <1>2, <1>5 DEF Results
  <2> QED
    BY <1>2, <1>3, <2>1, <2>2 DEF FanInv, AttemptsAreKnown, ArtifactsAreOfAttempts, CardsShareAFile, FanOutExitIsEarned
<1>6. CASE r \notin {"rendered", "declined"}
  <2>1. code' = code /\ (target' = target \/ target' = [target EXCEPT !["out"] = "open"])
    BY <1>1, <1>6
  <2>2. Results("rendered")' = Results("rendered")
    BY <1>2, <1>6 DEF Results
  <2> QED
    BY <1>2, <1>3, <2>1, <2>2 DEF FanInv, AttemptsAreKnown, ArtifactsAreOfAttempts, CardsShareAFile, FanOutExitIsEarned
<1> QED
  BY <1>4, <1>5, <1>6

LEMMA FanExitKeeps ==
    ASSUME FanInv, GraphExit \/ DigestExit
    PROVE  FanInv'
<1> ledger' = ledger /\ verb' = verb /\ todo' = todo /\ issues' = issues /\ target' = target
  BY DEF GraphExit, DigestExit
<1>1. \A kind : Results(kind)' = Results(kind)
  BY DEF Results
<1>2. CASE GraphExit
  <2>1. said' = said /\ verb = "graph" /\ code = "none"
    BY <1>2 DEF GraphExit
  <2>2. FanOutExitIsEarned'
    <3>1. CASE ledger = <<>>
      <4>1. code' = "1"
        BY <1>2, <3>1 DEF GraphExit, Code
      <4> QED
        BY <3>1, <4>1 DEF FanOutExitIsEarned
    <3>2. CASE ledger # <<>> /\ ("denied" \in issues \/ Results("denied") # {})
      <4>1. code' = "1"
        BY <1>2, <3>2 DEF GraphExit, Code
      <4> QED
        BY <1>1, <3>2, <4>1 DEF FanOutExitIsEarned
    <3>3. CASE ledger # <<>> /\ "denied" \notin issues /\ Results("denied") = {}
      <4>1. code' = IF \/ Results("rendered") # {}
                       \/ Results("empty") # {} /\ ~ ("refused" \in issues \/ Results("error") # {})
                    THEN "0" ELSE "1"
        BY <1>2, <3>3 DEF GraphExit, Code
      <4>2. \E i \in DOMAIN ledger : ledger[i] \in {"denied", "empty", "error", "rendered"}
        BY <2>1, <3>3 DEF FanInv, AttemptsAreKnown
      <4>3. Results("denied") \cup Results("empty") \cup Results("error") \cup Results("rendered") # {}
        BY <4>2 DEF Results
      <4> QED
        BY <1>1, <3>3, <4>1, <4>3 DEF FanOutExitIsEarned
    <3> QED
      BY <3>1, <3>2, <3>3
  <2> QED
    BY <1>1, <2>1, <2>2 DEF FanInv, AttemptsAreKnown, ArtifactsAreOfAttempts, CardsShareAFile
<1>3. CASE DigestExit
  <2>1. FanOutExitIsEarned'
    BY <1>1, <1>3 DEF DigestExit, Code, FanOutExitIsEarned, FanInv, AttemptsAreKnown
  <2>2. CardsShareAFile'
    BY <1>1, <1>3 DEF DigestExit, Code, FanInv, CardsShareAFile
  <2> QED
    BY <1>3, <2>1, <2>2 DEF DigestExit, FanInv, AttemptsAreKnown, ArtifactsAreOfAttempts
<1> QED
  BY <1>2, <1>3

LEMMA FanStepKeeps ==
    ASSUME FanInv, [FanNext]_fanVars
    PROVE  FanInv'
<1>1. CASE UNCHANGED fanVars
  BY <1>1 DEF fanVars, FanInv, AttemptsAreKnown, ArtifactsAreOfAttempts, CardsShareAFile, FanOutExitIsEarned, Results
<1> QED
  BY <1>1, GraphStepKeeps, DigestStepKeeps, FanExitKeeps DEF FanNext

LEMMA FanStarts ==
    ASSUME FanInit \/ FanIdle
    PROVE  FanInv
  BY DEF FanInit, FanIdle, FanInv, AttemptsAreKnown, ArtifactsAreOfAttempts, CardsShareAFile, FanOutExitIsEarned, Results

LEMMA FanIsHonest ==
    ASSUME FanInv
    PROVE  FanOutExitIsEarned /\ FanOutClaimIsTrue
  BY DEF FanInv, ArtifactsAreOfAttempts, CardsShareAFile, FanOutClaimIsTrue

(* What a hunt and a fan-out say is true: no exit code that was not        *)
(* earned, and no report, card or artifact announced that was not written, *)
(* in the composition of all verbs (analyze.py, graph.py, digest.py).      *)
THEOREM ExitsAndClaimsAreTrue == MCSpec => []RunTellsTheTruth
<1> DEFINE Both == LifeInv /\ FanInv
<1>1. MCInit => Both
  <2>1. MCInit => RunInit /\ real = NoPlan /\ stage \in {"idle", "called"}
    BY DEF MCInit, PlanInit, LifeIdle, PlanIdle
  <2>2. MCInit => FanInit \/ FanIdle
    BY DEF MCInit, Others
  <2> QED
    BY <2>1, <2>2, LifeStarts, FanStarts
<1>2. ASSUME Both, [MCNext]_<<lifeVars, fanVars, vars, wizardVars, allowVars, eraVars, fileVars>>
      PROVE  Both'
  <2>1. [RunNext]_lifeVars
    BY <1>2 DEF MCNext, lifeVars, RunNext, PlanNext
  <2>2. [FanNext]_fanVars
    BY <1>2 DEF MCNext
  <2> QED
    BY <1>2, <2>1, <2>2, RunStepKeeps, FanStepKeeps
<1>3. Both => RunTellsTheTruth
  BY LifeIsHonest, FanIsHonest DEF RunTellsTheTruth
<1> QED
  BY <1>1, <1>2, <1>3, PTL DEF MCSpec

-----------------------------------------------------------------------------
(* The wizard.  Until the accept nothing is written.                       *)
Early == {"idle", "start", "entry", "asking", "placing", "summary", "aborted", "refused"}
WizardSteps == Early \cup {"backing", "writing", "clearing", "seeding", "done", "dead"}
AsFound(h) ==
    IF edited.home = h
    THEN [(IF scene.configs[h] # NoFile THEN scene.configs[h] ELSE ExampleFile) EXCEPT !.version = 1]
    ELSE scene.configs[h]

WizardTypes ==
    /\ wizard \in WizardSteps /\ home \in Homes \cup {"none"}
    /\ wizard \notin {"idle", "start", "asking", "placing", "aborted"} => home \in Homes
    /\ DOMAIN configs = Homes /\ DOMAIN backups = Homes /\ DOMAIN dropins = Dropins
    /\ DOMAIN scene.configs = Homes /\ DOMAIN scene.dropins = Dropins
    /\ \A h \in Homes : scene.configs[h] = NoFile \/ IsFile(scene.configs[h])
    /\ \A h \in Homes : configs[h] = NoFile \/ IsFile(configs[h])
    /\ existing = NoFile \/ IsFile(existing)

DiskIsKnown ==
    /\ wizard \in Early => dropins = scene.dropins
    /\ \A h \in Homes : /\ wizard \in Early \cup {"backing"} \/ h # home => backups[h] = NoFile
                        /\ wizard \in Early \cup {"backing", "writing"} \/ h # home
                              => configs[h] = AsFound(h)
    /\ wizard = "clearing" => scope \in {"allowlist", "both"}

(* What was read is the last version, unless somebody has edited since.    *)
EditedSince == edited.home = home /\ edited.when \in {"entry", "asking", "summary"}
ReadIsLatest ==
    /\ (wizard = "entry" \/ (wizard \in {"asking", "summary"} /\ flow = "merge")) =>
          /\ seen = existing /\ existing # NoFile
          /\ EditedSince \/ existing.version = Latest(home)
    /\ wizard \in {"backing", "writing"} =>
          /\ (edited.home = home /\ LateEdit) \/ seen.version = Latest(home)
          /\ flow = "merge" => seen = existing /\ existing # NoFile
    /\ wizard = "writing" => backups[home].version = seen.version
    /\ home # "none" => (home # edited.home \/ ~ LateEdit
                            => Latest(home) \in {configs[home].version, backups[home].version})

(* The answers, once they are given, can be written as they are shown.     *)
Answered == {"placing", "summary", "backing", "writing", "clearing", "seeding", "done"}
WellAnswered(unset) ==
    \A k \in Keys : /\ answers[k].kind \in {"set", "remove", "skip"}
                    /\ answers[k].kind = "set" => answers[k].value # Unset
                    /\ answers[k].kind = "skip" => k \in Dirs \cup unset
AnswersAreSound ==
    (wizard \in Answered /\ scope # "allowlist") =>
        /\ DOMAIN answers = Keys
        /\ WellAnswered(IF wizard = "placing" THEN {"root"} ELSE {})
        /\ skips.kind = "set" => \A d \in skips.value \cap DOMAIN Slots :
              Fed(answers, d) => flow = "merge" /\ d \in existing.skips

(* What is written is what was answered, over what was read or shipped.    *)
Base == IF flow = "merge" THEN existing ELSE ExampleFile
FileIsWritten ==
    (wizard \in {"clearing", "seeding", "done"} /\ scope # "allowlist") =>
        /\ configs[home] # NoFile
        /\ configs[home].lines = Apply(Base.lines, answers)
        /\ configs[home].skips = IF skips.kind = "set" THEN skips.value ELSE Base.skips

(* The system's place is taken only where no user's configuration is.      *)
Settled == wizard \in {"entry", "summary", "backing", "writing", "clearing", "seeding", "done"}
           \/ (wizard = "asking" /\ flow # "fresh")
PlaceIsFound ==
    (Settled /\ home = "system") =>
        \/ configs["user"] = NoFile
        \/ /\ edited.home = "user" /\ edited.when # "start"
           /\ flow = "fresh" => edited.when \notin {"asking", "placing"}

FlowIsKnown ==
    /\ flow \in {"none", "merge", "reset", "fresh"} /\ scope \in {"none", "config", "allowlist", "both"}
    /\ flow # "reset" => scope = "none"
    /\ flow \in {"merge", "reset"} => home \in Homes
    /\ wizard \in {"start", "entry"} => flow = "none"
    /\ wizard = "placing" => flow = "fresh"
    /\ wizard \in {"asking", "summary"} => flow # "none"
    /\ wizard \in {"asking", "summary", "backing", "writing"} => scope # "allowlist"

WizardInv ==
    /\ WizardTypes /\ DiskIsKnown /\ ReadIsLatest /\ AnswersAreSound
    /\ FileIsWritten /\ PlaceIsFound /\ FlowIsKnown
    /\ \A n \in Dropins : scene.dropins[n] = "user" =>
          dropins[n] = "user" \/ (n \in Claimed /\ scope \in {"allowlist", "both"})


(* Answers that stay are sound as long as they were.                       *)
LEMMA AnswersStay ==
    ASSUME AnswersAreSound, scope' = scope, answers' = answers, skips' = skips,
           flow' = flow, existing' = existing,
           wizard' \in Answered => wizard \in Answered /\ (wizard = "placing" <=> wizard' = "placing")
    PROVE  AnswersAreSound'
<1>1. SUFFICES ASSUME wizard' \in Answered, scope' # "allowlist"
               PROVE  AnswersAreSound'
  BY DEF AnswersAreSound
<1> DEFINE unset == IF wizard = "placing" THEN {"root"} ELSE {}
<1>2. /\ DOMAIN answers = Keys /\ WellAnswered(unset)
      /\ skips.kind = "set" => \A d \in skips.value \cap DOMAIN Slots :
            Fed(answers, d) => flow = "merge" /\ d \in existing.skips
  BY <1>1 DEF AnswersAreSound
<1>3. unset' = unset
  BY <1>1
<1> HIDE DEF unset
<1>4. WellAnswered(unset)'
  BY <1>2, <1>3 DEF WellAnswered
<1>5. \A d : Fed(answers, d)' <=> Fed(answers, d)
  BY DEF Fed, Shown, HasValue, Raw
<1>6. skips'.kind = "set" => \A d \in skips'.value \cap DOMAIN Slots :
            Fed(answers, d)' => flow' = "merge" /\ d \in existing'.skips
  BY <1>2, <1>5
<1> QED
  BY <1>2, <1>4, <1>6 DEF AnswersAreSound, unset

(* Facts about files.                                                      *)
LEMMA FilesAreSomething ==
    /\ NoFile.version = -1 /\ NoFile.lines = [k \in Keys |-> Unset] /\ NoFile.skips = {}
    /\ IsFile(ExampleFile) /\ ExampleFile.version = 9 /\ ExampleFile.skips = {}
    /\ ExampleFile.lines = [k \in Keys |-> IF Shipped(k) = "" THEN Unset ELSE Shipped(k)]
    /\ \A f : IsFile(f) => f # NoFile
<1>1. NoFile.version = -1 /\ NoFile.lines = [k \in Keys |-> Unset] /\ NoFile.skips = {}
  BY DEF NoFile
<1>2. \A f : IsFile(f) => f # NoFile
  BY <1>1 DEF IsFile
<1>3. /\ DOMAIN ExampleFile = {"version", "lines", "detect", "skips"} /\ ExampleFile.version = 9
      /\ ExampleFile.lines = [k \in Keys |-> IF Shipped(k) = "" THEN Unset ELSE Shipped(k)]
      /\ ExampleFile.skips = {}
  BY DEF ExampleFile, Example
<1>4. DOMAIN ExampleFile.lines = Keys /\ 9 \in Nat
  BY <1>3
<1> QED
  BY <1>1, <1>2, <1>3, <1>4 DEF IsFile

(* Another process' edit of a file changes its version and nothing else.   *)
Touched(f) == [(IF f # NoFile THEN f ELSE ExampleFile) EXCEPT !.version = 1]
LEMMA TouchedFile ==
    ASSUME NEW f, f = NoFile \/ IsFile(f)
    PROVE  /\ IsFile(Touched(f)) /\ Touched(f).version = 1
           /\ f # NoFile => Touched(f).lines = f.lines /\ Touched(f).skips = f.skips
<1> DEFINE g == IF f # NoFile THEN f ELSE ExampleFile
<1>1. IsFile(g)
  BY FilesAreSomething
<1>2. DOMAIN g = {"version", "lines", "detect", "skips"} /\ DOMAIN g.lines = Keys
  BY <1>1 DEF IsFile
<1>3. Touched(f) = [g EXCEPT !.version = 1]
  BY DEF Touched
<1>4. f # NoFile => g = f
  OBVIOUS
<1> HIDE DEF g
<1>5. /\ DOMAIN Touched(f) = {"version", "lines", "detect", "skips"}
      /\ Touched(f).version = 1 /\ Touched(f).lines = g.lines /\ Touched(f).skips = g.skips
  BY <1>2, <1>3
<1> QED
  BY <1>2, <1>4, <1>5 DEF IsFile

LEMMA AsFoundIsLatest ==
    ASSUME WizardTypes, NEW h \in Homes
    PROVE  /\ AsFound(h).version = Latest(h)
           /\ AsFound(h) = NoFile \/ IsFile(AsFound(h))
<1>1. CASE edited.home = h
  <2>1. AsFound(h) = Touched(scene.configs[h]) /\ Latest(h) = 1
    BY <1>1 DEF AsFound, Touched, Latest
  <2> QED
    BY <2>1, TouchedFile DEF WizardTypes
<1>2. CASE edited.home # h
  BY <1>2 DEF AsFound, Latest, WizardTypes
<1> QED
  BY <1>1, <1>2

LEMMA DiscoverKeeps ==
    ASSUME WizardInv, Discover
    PROVE  WizardInv'
<1> USE DEF Discover, Goto, diskVars
<1>1. WizardTypes'
  <2>1. CASE Discovered = "none"
    BY <2>1 DEF WizardInv, WizardTypes, WizardSteps, Early
  <2>2. CASE Discovered # "none"
    <3>1. Discovered \in Homes /\ wizard \in Early
      BY <2>2 DEF Discovered, Homes, Early
    <3>2. configs[Discovered] = AsFound(Discovered)
      BY <3>1 DEF WizardInv, DiskIsKnown
    <3>3. existing' = NoFile \/ IsFile(existing')
      BY <2>2, <3>1, <3>2, AsFoundIsLatest DEF WizardInv
    <3> QED
      BY <2>2, <3>1, <3>3 DEF WizardInv, WizardTypes, WizardSteps, Early
  <2> QED
    BY <2>1, <2>2
<1>2. DiskIsKnown'
  BY DEF WizardInv, DiskIsKnown, AsFound, Early, FlowIsKnown, WizardTypes
<1>3. ReadIsLatest'
  <2>1. CASE Discovered = "none"
    <3>1. wizard' = "asking" /\ flow' = "fresh" /\ home' = "none"
      BY <2>1
    <3> QED
      BY <3>1 DEF ReadIsLatest
  <2>2. CASE Discovered # "none"
    <3>1. Discovered \in Homes /\ wizard \in Early
      BY <2>2 DEF Discovered, Homes, Early
    <3>2. configs[Discovered] = AsFound(Discovered) /\ configs[Discovered] # NoFile
      BY <2>2, <3>1 DEF WizardInv, DiskIsKnown, Discovered, Exists
    <3>3. configs[Discovered].version = Latest(Discovered)
      BY <3>1, <3>2, AsFoundIsLatest DEF WizardInv
    <3>4. Latest(Discovered)' = Latest(Discovered)
      BY DEF Latest, Discovered, Exists
    <3>5. /\ wizard' = "entry" /\ home' = Discovered /\ configs' = configs
          /\ existing' = configs[Discovered] /\ seen' = configs[Discovered]
      BY <2>2
    <3>6. Latest(home)' = Latest(Discovered)
      BY <3>5 DEF Latest
    <3> HIDE DEF Discover
    <3> QED
      BY <3>2, <3>3, <3>5, <3>6 DEF ReadIsLatest
  <2> QED
    BY <2>1, <2>2
<1>4. AnswersAreSound'
  BY DEF WizardInv, AnswersAreSound, FlowIsKnown, Answered, WellAnswered, Fed, Shown, HasValue, Raw
<1>5. FileIsWritten'
  BY DEF WizardInv, FileIsWritten, Base, Apply, FlowIsKnown
<1>6. PlaceIsFound'
  BY DEF WizardInv, PlaceIsFound, Settled, Discovered, Exists, FlowIsKnown
<1>7. FlowIsKnown'
  BY DEF WizardInv, FlowIsKnown, WizardTypes
<1>8. \A n \in Dropins' : scene'.dropins[n] = "user" =>
          dropins'[n] = "user" \/ (n \in Claimed' /\ scope' \in {"allowlist", "both"})
  BY DEF WizardInv, DiskIsKnown, FlowIsKnown, Early, Dropins, WizardTypes
<1> QED
  BY <1>1, <1>2, <1>3, <1>4, <1>5, <1>6, <1>7, <1>8 DEF WizardInv

LEMMA EnterMergeKeeps ==
    ASSUME WizardInv, EnterMerge
    PROVE  WizardInv'
<1> USE DEF EnterMerge, Goto, diskVars
<1>1. WizardTypes'
  BY FilesAreSomething DEF WizardInv, WizardTypes, WizardSteps, Early, Homes, Discovered, Exists, AsFound, DiskIsKnown, FlowIsKnown
<1>2. DiskIsKnown'
  BY DEF WizardInv, DiskIsKnown, AsFound, Early, FlowIsKnown, WizardTypes
<1>3. ReadIsLatest'
  BY FilesAreSomething DEF WizardInv, ReadIsLatest, DiskIsKnown, WizardTypes, FlowIsKnown, EditedSince, LateEdit, Latest, AsFound, Early, Exists, Discovered, Homes
<1>4. AnswersAreSound'
  BY DEF WizardInv, AnswersAreSound, FlowIsKnown, Answered, WellAnswered, Fed, Shown, HasValue, Raw
<1>5. FileIsWritten'
  BY DEF WizardInv, FileIsWritten, Base, Apply, FlowIsKnown
<1>6. PlaceIsFound'
  BY DEF WizardInv, PlaceIsFound, Settled, Discovered, Exists, FlowIsKnown
<1>7. FlowIsKnown'
  BY DEF WizardInv, FlowIsKnown, WizardTypes
<1>8. \A n \in Dropins' : scene'.dropins[n] = "user" =>
          dropins'[n] = "user" \/ (n \in Claimed' /\ scope' \in {"allowlist", "both"})
  BY DEF WizardInv, DiskIsKnown, FlowIsKnown, Early, Dropins, WizardTypes
<1> QED
  BY <1>1, <1>2, <1>3, <1>4, <1>5, <1>6, <1>7, <1>8 DEF WizardInv

LEMMA EnterResetKeeps ==
    ASSUME WizardInv, EnterReset
    PROVE  WizardInv'
<1> USE DEF EnterReset, Goto, diskVars
<1>1. WizardTypes'
  BY FilesAreSomething DEF WizardInv, WizardTypes, WizardSteps, Early, Homes, Discovered, Exists, AsFound, DiskIsKnown, FlowIsKnown
<1>2. DiskIsKnown'
  BY DEF WizardInv, DiskIsKnown, AsFound, Early, FlowIsKnown, WizardTypes
<1>3. ReadIsLatest'
  BY FilesAreSomething DEF WizardInv, ReadIsLatest, DiskIsKnown, WizardTypes, FlowIsKnown, EditedSince, LateEdit, Latest, AsFound, Early, Exists, Discovered, Homes
<1>4. AnswersAreSound'
  BY DEF WizardInv, AnswersAreSound, FlowIsKnown, Answered, WellAnswered, Fed, Shown, HasValue, Raw
<1>5. FileIsWritten'
  BY DEF WizardInv, FileIsWritten, Base, Apply, FlowIsKnown
<1>6. PlaceIsFound'
  BY DEF WizardInv, PlaceIsFound, Settled, Discovered, Exists, FlowIsKnown
<1>7. FlowIsKnown'
  BY DEF WizardInv, FlowIsKnown, WizardTypes
<1>8. \A n \in Dropins' : scene'.dropins[n] = "user" =>
          dropins'[n] = "user" \/ (n \in Claimed' /\ scope' \in {"allowlist", "both"})
  BY DEF WizardInv, DiskIsKnown, FlowIsKnown, Early, Dropins, WizardTypes
<1> QED
  BY <1>1, <1>2, <1>3, <1>4, <1>5, <1>6, <1>7, <1>8 DEF WizardInv

LEMMA AcceptKeeps ==
    ASSUME WizardInv, Accept
    PROVE  WizardInv'
<1> USE DEF Accept, Goto, diskVars
<1>1. WizardTypes'
  BY FilesAreSomething DEF WizardInv, WizardTypes, WizardSteps, Early, Homes, Discovered, Exists, AsFound, DiskIsKnown, FlowIsKnown
<1>2. DiskIsKnown'
  BY DEF WizardInv, DiskIsKnown, AsFound, Early, FlowIsKnown, WizardTypes
<1>3. ReadIsLatest'
  <2>1. home \in Homes /\ wizard \in Early /\ configs[home] = AsFound(home)
    BY DEF WizardInv, WizardTypes, DiskIsKnown, Early
  <2>2. configs[home].version = Latest(home)
    BY <2>1, AsFoundIsLatest DEF WizardInv
  <2>3. Latest(home)' = Latest(home)
    BY DEF Latest
  <2>4. CASE flow = "merge"
    BY <2>2, <2>3, <2>4 DEF WizardInv, ReadIsLatest, EditedSince, LateEdit
  <2>5. CASE flow # "merge"
    BY <2>2, <2>3, <2>5 DEF WizardInv, ReadIsLatest
  <2> QED
    BY <2>4, <2>5
<1>4. AnswersAreSound'
  BY AnswersStay DEF WizardInv, Answered, Rest
<1>5. FileIsWritten'
  BY DEF WizardInv, FileIsWritten, Base, Apply, FlowIsKnown
<1>6. PlaceIsFound'
  BY DEF WizardInv, PlaceIsFound, Settled, Discovered, Exists, FlowIsKnown
<1>7. FlowIsKnown'
  BY DEF WizardInv, FlowIsKnown, WizardTypes
<1>8. \A n \in Dropins' : scene'.dropins[n] = "user" =>
          dropins'[n] = "user" \/ (n \in Claimed' /\ scope' \in {"allowlist", "both"})
  BY DEF WizardInv, DiskIsKnown, FlowIsKnown, Early, Dropins, WizardTypes
<1> QED
  BY <1>1, <1>2, <1>3, <1>4, <1>5, <1>6, <1>7, <1>8 DEF WizardInv

LEMMA RedoKeeps ==
    ASSUME WizardInv, Redo
    PROVE  WizardInv'
<1> USE DEF Redo, Goto, diskVars
<1>1. WizardTypes'
  BY FilesAreSomething DEF WizardInv, WizardTypes, WizardSteps, Early, Homes, Discovered, Exists, AsFound, DiskIsKnown, FlowIsKnown
<1>2. DiskIsKnown'
  BY DEF WizardInv, DiskIsKnown, AsFound, Early, FlowIsKnown, WizardTypes
<1>3. ReadIsLatest'
  BY FilesAreSomething DEF WizardInv, ReadIsLatest, DiskIsKnown, WizardTypes, FlowIsKnown, EditedSince, LateEdit, Latest, AsFound, Early, Exists, Discovered, Homes
<1>4. AnswersAreSound'
  BY DEF WizardInv, AnswersAreSound, FlowIsKnown, Answered, WellAnswered, Fed, Shown, HasValue, Raw
<1>5. FileIsWritten'
  BY DEF WizardInv, FileIsWritten, Base, Apply, FlowIsKnown
<1>6. PlaceIsFound'
  BY DEF WizardInv, PlaceIsFound, Settled, Discovered, Exists, FlowIsKnown
<1>7. FlowIsKnown'
  BY DEF WizardInv, FlowIsKnown, WizardTypes
<1>8. \A n \in Dropins' : scene'.dropins[n] = "user" =>
          dropins'[n] = "user" \/ (n \in Claimed' /\ scope' \in {"allowlist", "both"})
  BY DEF WizardInv, DiskIsKnown, FlowIsKnown, Early, Dropins, WizardTypes
<1> QED
  BY <1>1, <1>2, <1>3, <1>4, <1>5, <1>6, <1>7, <1>8 DEF WizardInv

LEMMA GiveUpKeeps ==
    ASSUME WizardInv, GiveUp
    PROVE  WizardInv'
<1> USE DEF GiveUp, Goto, diskVars
<1>1. WizardTypes'
  BY FilesAreSomething DEF WizardInv, WizardTypes, WizardSteps, Early, Homes, Discovered, Exists, AsFound, DiskIsKnown, FlowIsKnown
<1>2. DiskIsKnown'
  BY DEF WizardInv, DiskIsKnown, AsFound, Early, FlowIsKnown, WizardTypes
<1>3. ReadIsLatest'
  BY FilesAreSomething DEF WizardInv, ReadIsLatest, DiskIsKnown, WizardTypes, FlowIsKnown, EditedSince, LateEdit, Latest, AsFound, Early, Exists, Discovered, Homes
<1>4. AnswersAreSound'
  BY DEF WizardInv, AnswersAreSound, FlowIsKnown, Answered, WellAnswered, Fed, Shown, HasValue, Raw
<1>5. FileIsWritten'
  BY DEF WizardInv, FileIsWritten, Base, Apply, FlowIsKnown
<1>6. PlaceIsFound'
  BY DEF WizardInv, PlaceIsFound, Settled, Discovered, Exists, FlowIsKnown
<1>7. FlowIsKnown'
  BY DEF WizardInv, FlowIsKnown, WizardTypes
<1>8. \A n \in Dropins' : scene'.dropins[n] = "user" =>
          dropins'[n] = "user" \/ (n \in Claimed' /\ scope' \in {"allowlist", "both"})
  BY DEF WizardInv, DiskIsKnown, FlowIsKnown, Early, Dropins, WizardTypes
<1> QED
  BY <1>1, <1>2, <1>3, <1>4, <1>5, <1>6, <1>7, <1>8 DEF WizardInv

LEMMA BackupKeeps ==
    ASSUME WizardInv, Backup
    PROVE  WizardInv'
<1> USE DEF Backup, Rest, Goto, diskVars
<1>1. WizardTypes'
  BY FilesAreSomething DEF WizardInv, WizardTypes, WizardSteps, Early, Homes, Discovered, Exists, AsFound, DiskIsKnown, FlowIsKnown
<1>2. DiskIsKnown'
  BY DEF WizardInv, DiskIsKnown, AsFound, Early, FlowIsKnown, WizardTypes
<1>3. ReadIsLatest'
  <2>1. home \in Homes /\ backups[home] = NoFile
    BY DEF WizardInv, WizardTypes, DiskIsKnown
  <2>2. backups'[home].version = seen.version
    BY <2>1 DEF WizardInv, WizardTypes
  <2>3. Latest(home)' = Latest(home) /\ LateEdit' = (LateEdit /\ TRUE)
    BY DEF Latest, LateEdit
  <2>4. configs[home].version = Latest(home)
    BY <2>1, AsFoundIsLatest DEF WizardInv, DiskIsKnown
  <2> QED
    BY <2>2, <2>3, <2>4 DEF WizardInv, ReadIsLatest
<1>4. AnswersAreSound'
  BY AnswersStay DEF WizardInv, Answered, Rest
<1>5. FileIsWritten'
  BY DEF WizardInv, FileIsWritten, Base, Apply, FlowIsKnown
<1>6. PlaceIsFound'
  BY DEF WizardInv, PlaceIsFound, Settled, Discovered, Exists, FlowIsKnown
<1>7. FlowIsKnown'
  BY DEF WizardInv, FlowIsKnown, WizardTypes
<1>8. \A n \in Dropins' : scene'.dropins[n] = "user" =>
          dropins'[n] = "user" \/ (n \in Claimed' /\ scope' \in {"allowlist", "both"})
  BY DEF WizardInv, DiskIsKnown, FlowIsKnown, Early, Dropins, WizardTypes
<1> QED
  BY <1>1, <1>2, <1>3, <1>4, <1>5, <1>6, <1>7, <1>8 DEF WizardInv

LEMMA ClearKeeps ==
    ASSUME WizardInv, Clear
    PROVE  WizardInv'
<1> USE DEF Clear, Rest, Goto, diskVars
<1>1. WizardTypes'
  BY FilesAreSomething DEF WizardInv, WizardTypes, WizardSteps, Early, Homes, Discovered, Exists, AsFound, DiskIsKnown, FlowIsKnown
<1>2. DiskIsKnown'
  BY DEF WizardInv, DiskIsKnown, AsFound, Early, FlowIsKnown, WizardTypes
<1>3. ReadIsLatest'
  BY FilesAreSomething DEF WizardInv, ReadIsLatest, DiskIsKnown, WizardTypes, FlowIsKnown, EditedSince, LateEdit, Latest, AsFound, Early, Exists, Discovered, Homes
<1>4. AnswersAreSound'
  BY AnswersStay DEF WizardInv, Answered, Rest
<1>5. FileIsWritten'
  BY DEF WizardInv, FileIsWritten, Base, Apply, FlowIsKnown
<1>6. PlaceIsFound'
  BY DEF WizardInv, PlaceIsFound, Settled, Discovered, Exists, FlowIsKnown
<1>7. FlowIsKnown'
  BY DEF WizardInv, FlowIsKnown, WizardTypes
<1>8. \A n \in Dropins' : scene'.dropins[n] = "user" =>
          dropins'[n] = "user" \/ (n \in Claimed' /\ scope' \in {"allowlist", "both"})
  BY DEF WizardInv, DiskIsKnown, FlowIsKnown, Early, Dropins, WizardTypes
<1> QED
  BY <1>1, <1>2, <1>3, <1>4, <1>5, <1>6, <1>7, <1>8 DEF WizardInv

LEMMA SeedKeeps ==
    ASSUME WizardInv, Seed
    PROVE  WizardInv'
<1> USE DEF Seed, Rest, Goto, diskVars
<1>1. WizardTypes'
  BY FilesAreSomething DEF WizardInv, WizardTypes, WizardSteps, Early, Homes, Discovered, Exists, AsFound, DiskIsKnown, FlowIsKnown
<1>2. DiskIsKnown'
  BY DEF WizardInv, DiskIsKnown, AsFound, Early, FlowIsKnown, WizardTypes
<1>3. ReadIsLatest'
  BY FilesAreSomething DEF WizardInv, ReadIsLatest, DiskIsKnown, WizardTypes, FlowIsKnown, EditedSince, LateEdit, Latest, AsFound, Early, Exists, Discovered, Homes
<1>4. AnswersAreSound'
  BY AnswersStay DEF WizardInv, Answered, Rest
<1>5. FileIsWritten'
  BY DEF WizardInv, FileIsWritten, Base, Apply, FlowIsKnown
<1>6. PlaceIsFound'
  BY DEF WizardInv, PlaceIsFound, Settled, Discovered, Exists, FlowIsKnown
<1>7. FlowIsKnown'
  BY DEF WizardInv, FlowIsKnown, WizardTypes
<1>8. \A n \in Dropins' : scene'.dropins[n] = "user" =>
          dropins'[n] = "user" \/ (n \in Claimed' /\ scope' \in {"allowlist", "both"})
  BY DEF WizardInv, DiskIsKnown, FlowIsKnown, Early, Dropins, WizardTypes
<1> QED
  BY <1>1, <1>2, <1>3, <1>4, <1>5, <1>6, <1>7, <1>8 DEF WizardInv

LEMMA StopsKeeps ==
    ASSUME WizardInv, Stops
    PROVE  WizardInv'
<1> USE DEF Stops, Rest, Goto, diskVars
<1>1. WizardTypes'
  BY FilesAreSomething DEF WizardInv, WizardTypes, WizardSteps, Early, Homes, Discovered, Exists, AsFound, DiskIsKnown, FlowIsKnown
<1>2. DiskIsKnown'
  BY DEF WizardInv, DiskIsKnown, AsFound, Early, FlowIsKnown, WizardTypes
<1>3. ReadIsLatest'
  BY FilesAreSomething DEF WizardInv, ReadIsLatest, DiskIsKnown, WizardTypes, FlowIsKnown, EditedSince, LateEdit, Latest, AsFound, Early, Exists, Discovered, Homes
<1>4. AnswersAreSound'
  BY AnswersStay DEF WizardInv, Answered, Rest
<1>5. FileIsWritten'
  BY DEF WizardInv, FileIsWritten, Base, Apply, FlowIsKnown
<1>6. PlaceIsFound'
  BY DEF WizardInv, PlaceIsFound, Settled, Discovered, Exists, FlowIsKnown
<1>7. FlowIsKnown'
  BY DEF WizardInv, FlowIsKnown, WizardTypes
<1>8. \A n \in Dropins' : scene'.dropins[n] = "user" =>
          dropins'[n] = "user" \/ (n \in Claimed' /\ scope' \in {"allowlist", "both"})
  BY DEF WizardInv, DiskIsKnown, FlowIsKnown, Early, Dropins, WizardTypes
<1> QED
  BY <1>1, <1>2, <1>3, <1>4, <1>5, <1>6, <1>7, <1>8 DEF WizardInv

(* The other process.                                                      *)
LEMMA EditKeeps ==
    ASSUME WizardInv, NEW h \in Homes, Edit(h)
    PROVE  WizardInv'
<1>1. /\ wizard' = wizard /\ home' = home /\ scene' = scene /\ flow' = flow /\ existing' = existing
      /\ seen' = seen /\ backups' = backups /\ dropins' = dropins /\ scope' = scope
      /\ answers' = answers /\ skips' = skips
      /\ edited.home = "none" /\ edited' = [home |-> h, when |-> wizard]
      /\ wizard \notin {"done", "dead", "aborted", "refused"}
  BY DEF Edit, WizardInv, WizardTypes, WizardSteps, Early
<1>2. configs' = [configs EXCEPT ![h] = Touched(configs[h])] /\ DOMAIN configs = Homes
  BY DEF Edit, Touched, Exists, WizardInv, WizardTypes
<1>3. configs'[h] = Touched(configs[h]) /\ \A g \in Homes \ {h} : configs'[g] = configs[g]
  BY <1>2
<1>4. \A g \in Homes : AsFound(g) = scene.configs[g]
  BY <1>1 DEF AsFound, Homes
<1>5. \A g \in Homes : AsFound(g)' = IF g = h THEN Touched(scene.configs[h]) ELSE scene.configs[g]
  BY <1>1 DEF AsFound, Touched
<1>6. edited'.home = h /\ edited'.when = wizard
  BY <1>1
<1>7. WizardTypes'
  BY <1>1, <1>2, <1>3, TouchedFile DEF WizardInv, WizardTypes
<1>8. DiskIsKnown'
  <2> SUFFICES ASSUME NEW g \in Homes, wizard \in Early \cup {"backing", "writing"} \/ g # home
               PROVE  configs'[g] = AsFound(g)'
    BY <1>1 DEF WizardInv, DiskIsKnown
  <2>1. configs[g] = scene.configs[g]
    BY <1>4 DEF WizardInv, DiskIsKnown
  <2> QED
    BY <1>3, <1>5, <2>1
<1>9. ReadIsLatest'
  <2>1. \A g \in Homes : Latest(g) = scene.configs[g].version
    BY <1>1 DEF Latest, Homes
  <2>2. /\ Latest(h)' = 1
        /\ \A g : g # h => Latest(g)' = scene.configs[g].version
    BY <1>1, <1>6 DEF Latest
  <2>3. CASE home = h
    <3>1. Latest(home)' = 1 /\ configs'[home].version = 1 /\ home # "none"
      BY <1>1, <1>3, <2>2, <2>3, TouchedFile DEF WizardInv, WizardTypes, Homes
    <3>2. wizard = "entry" \/ (wizard \in {"asking", "summary"} /\ flow = "merge") => EditedSince'
      BY <1>1, <1>6, <2>3 DEF EditedSince
    <3>3. wizard \in {"backing", "writing"} => edited'.home = home /\ LateEdit'
      BY <1>1, <1>6, <2>3 DEF LateEdit
    <3> QED
      BY <1>1, <3>1, <3>2, <3>3 DEF WizardInv, ReadIsLatest
  <2>4. CASE home # h /\ home \in Homes
    <3>1. /\ Latest(home)' = Latest(home) /\ configs'[home] = configs[home]
          /\ ~ EditedSince /\ ~ LateEdit /\ home # edited.home /\ home # "none"
      BY <1>1, <1>3, <2>1, <2>2, <2>4 DEF EditedSince, LateEdit, Homes
    <3> QED
      BY <1>1, <3>1 DEF WizardInv, ReadIsLatest
  <2>5. CASE home = "none"
    <3>1. flow # "merge" /\ wizard \notin {"entry", "backing", "writing"}
      BY <2>5 DEF WizardInv, WizardTypes, FlowIsKnown, Homes
    <3> QED
      BY <1>1, <2>5, <3>1 DEF ReadIsLatest
  <2> QED
    BY <1>1, <2>3, <2>4, <2>5 DEF WizardInv, WizardTypes
<1>10. AnswersAreSound' /\ FlowIsKnown'
  <2>1. AnswersAreSound'
    BY <1>1, AnswersStay DEF WizardInv, Answered
  <2> QED
    BY <1>1, <2>1 DEF WizardInv, FlowIsKnown
<1>11. FileIsWritten'
  <2>1. wizard \in {"clearing", "seeding", "done"} => home \in Homes
    BY DEF WizardInv, WizardTypes
  <2>2. ASSUME home \in Homes, configs[home] # NoFile
        PROVE  /\ configs'[home] # NoFile /\ configs'[home].lines = configs[home].lines
               /\ configs'[home].skips = configs[home].skips
    <3>1. CASE home = h
      <4>1. IsFile(configs[h])
        BY <2>2, <3>1 DEF WizardInv, WizardTypes
      <4>2. /\ IsFile(Touched(configs[h])) /\ Touched(configs[h]).lines = configs[h].lines
            /\ Touched(configs[h]).skips = configs[h].skips
        BY <2>2, <3>1, <4>1, TouchedFile
      <4> QED
        BY <1>3, <3>1, <4>2, FilesAreSomething
    <3>2. CASE home # h
      BY <1>3, <2>2, <3>2
    <3> QED
      BY <3>1, <3>2
  <2> QED
    BY <1>1, <2>1, <2>2 DEF WizardInv, FileIsWritten, Base, Apply, FlowIsKnown
<1>12. PlaceIsFound'
  BY <1>1, <1>3, <1>6 DEF WizardInv, PlaceIsFound, Settled, FlowIsKnown, Homes
<1> QED
  BY <1>1, <1>7, <1>8, <1>9, <1>10, <1>11, <1>12 DEF WizardInv

(* The write.                                                              *)
LEMMA ReplaceKeeps ==
    ASSUME WizardInv, Replace
    PROVE  WizardInv'
<1>1. /\ home' = home /\ scene' = scene /\ flow' = flow /\ existing' = existing /\ edited' = edited
      /\ seen' = seen /\ backups' = backups /\ dropins' = dropins /\ scope' = scope
      /\ answers' = answers /\ skips' = skips /\ wizard = "writing" /\ home \in Homes
      /\ wizard' \in {"clearing", "seeding", "done"}
      /\ wizard' = "clearing" => scope = "both"
  BY DEF Replace, Rest, Goto, WizardInv, WizardTypes
<1> DEFINE base == IF flow = "merge" THEN seen ELSE ExampleFile
           out == IF skips.kind = "set" THEN skips.value ELSE base.skips
<1>2. IsFile(base) /\ base = Base
  <2>1. IsFile(ExampleFile)
    BY FilesAreSomething
  <2>2. flow = "merge" => seen = existing /\ IsFile(existing)
    BY <1>1 DEF WizardInv, ReadIsLatest, WizardTypes
  <2> QED
    BY <2>1, <2>2 DEF Base
<1>3. PICK f : /\ configs' = [configs EXCEPT ![home] = f]
               /\ IsFile(f) /\ f.lines = Apply(base.lines, answers) /\ f.skips = out
  <2> DEFINE detect == IF skips.kind = "set" THEN "default" ELSE base.detect
             lines == Apply(base.lines, answers)
             f == [base EXCEPT !.lines = lines, !.detect = detect, !.skips = out]
  <2>1. configs' = [configs EXCEPT ![home] = f]
    BY DEF Replace
  <2>2. DOMAIN lines = Keys
    BY DEF Apply
  <2> HIDE DEF base, lines, detect, out
  <2>3. IsFile(f) /\ f.lines = lines /\ f.skips = out
    BY <1>2, <2>2 DEF IsFile
  <2> QED
    BY <2>1, <2>3 DEF lines
<1>4. /\ configs'[home] = f /\ DOMAIN configs' = Homes
      /\ \A g \in Homes \ {home} : configs'[g] = configs[g]
  BY <1>1, <1>3 DEF WizardInv, WizardTypes
<1> HIDE DEF base
<1>5. WizardTypes'
  BY <1>1, <1>3, <1>4 DEF WizardInv, WizardTypes, WizardSteps, Early
<1>6. DiskIsKnown'
  BY <1>1, <1>4 DEF WizardInv, DiskIsKnown, AsFound, Early
<1>7. ReadIsLatest'
  <2>1. Latest(home)' = Latest(home) /\ (LateEdit' <=> LateEdit) /\ home # "none"
    BY <1>1 DEF Latest, LateEdit, Homes
  <2> QED
    BY <1>1, <2>1 DEF WizardInv, ReadIsLatest
<1>8. AnswersAreSound' /\ FlowIsKnown'
  <2>1. AnswersAreSound'
    BY <1>1, AnswersStay DEF WizardInv, Answered
  <2> QED
    BY <1>1, <2>1 DEF WizardInv, FlowIsKnown
<1>9. FileIsWritten'
  <2>1. f # NoFile
    BY <1>3, FilesAreSomething
  <2>2. f.lines = Apply(Base.lines, answers) /\ f.skips = IF skips.kind = "set" THEN skips.value ELSE Base.skips
    BY <1>2, <1>3
  <2>3. Base' = Base /\ Apply(Base.lines, answers)' = Apply(Base.lines, answers)
    BY <1>1, FilesAreSomething DEF Base, Apply, ExampleFile
  <2> QED
    BY <1>1, <1>4, <2>1, <2>2, <2>3 DEF FileIsWritten
<1>10. PlaceIsFound'
  BY <1>1, <1>4 DEF WizardInv, PlaceIsFound, Settled, Homes
<1> QED
  BY <1>1, <1>5, <1>6, <1>7, <1>8, <1>9, <1>10 DEF WizardInv

(* No detector of the default hunt feeds on the root.                      *)
LEMMA FedByOthers ==
    ASSUME NEW d \in DOMAIN Slots
    PROVE  Slots[d] \subseteq Keys \ {"root"}
<1>1. d \in {"aws", "exfil", "dns", "syslog"}
  BY DEF Slots
<1>2. /\ Slots["aws"] = {"cloudtrail_dir"} /\ Slots["exfil"] = {"zeek_dir"}
      /\ Slots["dns"] = {"zeek_dir", "pihole_dir"} /\ Slots["syslog"] = {"zeek_dir", "syslog_source"}
  BY DEF Slots
<1> QED
  BY <1>1, <1>2 DEF Keys, Dirs

(* The place of a fresh install.                                           *)
LEMMA PlaceKeeps ==
    ASSUME WizardInv, NEW h \in Homes, Place(h)
    PROVE  WizardInv'
<1>1. /\ home' = h /\ scene' = scene /\ edited' = edited /\ backups' = backups /\ dropins' = dropins
      /\ scope' = scope /\ configs' = configs /\ wizard = "placing" /\ flow = "fresh" /\ scope = "none"
  BY DEF Place, diskVars, WizardInv, FlowIsKnown
<1>2. /\ configs[h] = AsFound(h) /\ AsFound(h)' = AsFound(h)
      /\ configs[h].version = Latest(h) /\ Latest(h)' = Latest(h)
      /\ configs[h] = NoFile \/ IsFile(configs[h])
  BY <1>1, AsFoundIsLatest DEF WizardInv, DiskIsKnown, Early, AsFound, Latest, WizardTypes
<1>3. CASE h = "custom" /\ Exists(h)
  <2>1. /\ wizard' = "entry" /\ existing' = configs[h] /\ seen' = configs[h] /\ flow' = "none"
        /\ configs[h] # NoFile
    BY <1>3 DEF Place, Goto, Exists
  <2>2. WizardTypes' /\ FlowIsKnown'
    BY <1>1, <1>2, <2>1 DEF WizardInv, WizardTypes, WizardSteps, Early, FlowIsKnown
  <2>3. DiskIsKnown'
    BY <1>1, <2>1 DEF WizardInv, DiskIsKnown, AsFound, Early
  <2>4. ReadIsLatest'
    <3>1. Latest(home)' = Latest(h)
      BY <1>1 DEF Latest
    <3> QED
      BY <1>1, <1>2, <2>1, <3>1 DEF ReadIsLatest
  <2>5. AnswersAreSound' /\ FileIsWritten' /\ PlaceIsFound'
    BY <1>1, <1>3, <2>1 DEF AnswersAreSound, Answered, FileIsWritten, PlaceIsFound
  <2> QED
    BY <1>1, <2>2, <2>3, <2>4, <2>5 DEF WizardInv
<1>4. CASE ~ (h = "custom" /\ Exists(h))
  <2>1. /\ wizard' = "summary" /\ existing' = existing /\ seen' = seen /\ flow' = flow /\ skips' = skips
        /\ h = "system" => configs["user"] = NoFile
    BY <1>4 DEF Place, Goto, Exists, Shadowed
  <2>2. PICK v : answers' = [answers EXCEPT !["root"] = SetTo(v)] /\ v # Unset
    <3>1. [user |-> "default", system |-> "system", custom |-> "typed"][h] # Unset
      BY DEF Homes, Unset
    <3> QED
      BY <1>4, <3>1 DEF Place
  <2>3. WizardTypes' /\ FlowIsKnown'
    BY <1>1, <1>2, <2>1 DEF WizardInv, WizardTypes, WizardSteps, Early, FlowIsKnown
  <2>4. DiskIsKnown'
    BY <1>1, <2>1 DEF WizardInv, DiskIsKnown, AsFound, Early
  <2>5. ReadIsLatest'
    <3>1. Latest(home)' = Latest(h)
      BY <1>1 DEF Latest
    <3> QED
      BY <1>1, <1>2, <2>1, <3>1 DEF ReadIsLatest
  <2>6. AnswersAreSound'
    <3>1. /\ DOMAIN answers = Keys /\ WellAnswered({"root"})
          /\ skips.kind = "set" => \A d \in skips.value \cap DOMAIN Slots :
                 Fed(answers, d) => flow = "merge" /\ d \in existing.skips
      BY <1>1 DEF WizardInv, AnswersAreSound, Answered
    <3>2. /\ DOMAIN answers' = Keys /\ answers'["root"] = SetTo(v)
          /\ \A k \in Keys \ {"root"} : answers'[k] = answers[k]
      BY <2>2, <3>1 DEF Keys
    <3>3. WellAnswered({})'
      BY <2>2, <3>1, <3>2 DEF WellAnswered, SetTo
    <3>4. \A d \in DOMAIN Slots : Fed(answers, d)' <=> Fed(answers, d)
      <4> TAKE d \in DOMAIN Slots
      <4>1. \A k \in Slots[d] : answers'[k] = answers[k]
        BY <3>2, FedByOthers
      <4>2. \A k \in Slots[d] : Shown(answers, k)' = Shown(answers, k)
        BY <2>1, <4>1 DEF Shown, HasValue, Raw
      <4> QED
        BY <4>2 DEF Fed
    <3> QED
      BY <2>1, <3>1, <3>2, <3>3, <3>4 DEF AnswersAreSound
  <2>7. FileIsWritten' /\ PlaceIsFound'
    BY <1>1, <2>1 DEF FileIsWritten, PlaceIsFound
  <2> QED
    BY <1>1, <2>3, <2>4, <2>5, <2>6, <2>7 DEF WizardInv
<1> QED
  BY <1>3, <1>4

(* The answers.                                                            *)
Sound(a) == a.kind \in {"set", "remove"} /\ (a.kind = "set" => a.value # Unset)

LEMMA SetToIsSound ==
    ASSUME NEW v, v # Unset
    PROVE  Sound(SetTo(v)) /\ SetTo(v).kind = "set"
  BY DEF Sound, SetTo

LEMMA DropAndSkip ==
    /\ Sound(Drop) /\ Drop.kind = "remove"
    /\ Skip.kind = "skip" /\ Untouched.kind = "none"
  BY DEF Sound, Drop, Skip, Untouched

LEMMA SourcesAreSound ==
    ASSUME NEW k, k # "root", NEW a \in AnswersTo(k)
    PROVE  Sound(a) \/ a = Skip
<1>1. Sound(SetTo("typed")) /\ Sound(SetTo("found")) /\ Sound(Drop)
  BY SetToIsSound, DropAndSkip DEF Unset
<1>2. HasValue(k) => Sound(SetTo(Raw(k)))
  BY SetToIsSound DEF HasValue, Raw
<1>3. a = Enter(k) \/ a \in SourceAnswers(k)
  BY DEF AnswersTo
<1>4. CASE a = Enter(k)
  BY <1>1, <1>2, <1>4, Zenon DEF Enter
<1>5. CASE a \in SourceAnswers(k)
  BY <1>1, <1>2, <1>5 DEF SourceAnswers
<1> QED
  BY <1>3, <1>4, <1>5

LEMMA RootIsSound ==
    ASSUME NEW a \in AnswersTo("root")
    PROVE  Sound(a)
<1>1. Sound(SetTo("typed")) /\ Sound(SetTo("default")) /\ Sound(SetTo("system")) /\ Sound(Drop)
  BY SetToIsSound, DropAndSkip DEF Unset
<1>2. Present("root") => Sound(SetTo(Raw("root")))
  BY SetToIsSound DEF Present, Raw
<1>3. a = Enter("root") \/ a \in RootAnswers
  BY DEF AnswersTo
<1>4. CASE a = Enter("root")
  BY <1>1, <1>2, <1>4, Zenon DEF Enter
<1>5. CASE a \in RootAnswers
  BY <1>1, <1>2, <1>5 DEF RootAnswers
<1> QED
  BY <1>3, <1>4, <1>5

LogChoices == IF scene.edits # {} THEN {EnterLogs} ELSE LogAnswers
LEMMA LogsAreSound ==
    ASSUME NEW logs \in LogChoices
    PROVE  Sound(logs[1]) /\ Sound(logs[2])
<1> DEFINE Pair(p) == Sound(p[1]) /\ Sound(p[2])
<1>1. /\ Sound(SetTo("typed")) /\ Sound(SetTo("found")) /\ Sound(SetTo("")) /\ Sound(SetTo("off"))
      /\ Sound(SetTo("files")) /\ Sound(SetTo("auto")) /\ Sound(SetTo("journal")) /\ Sound(Drop)
  BY SetToIsSound, DropAndSkip DEF Unset
<1>2. Sound(FoundDir)
  BY <1>1, Zenon DEF FoundDir
<1>3. Sound(PreserveDir)
  <2>1. Present("syslog_dir") => Sound(SetTo(Raw("syslog_dir")))
    BY SetToIsSound DEF Present, Raw
  <2> QED
    BY <1>1, <2>1, Zenon DEF PreserveDir
<1>4. Sound(SetTo(StatedMode))
  <2>1. StatedMode # Unset
    BY DEF StatedMode, Present, Raw, Unset
  <2> QED
    BY <2>1, SetToIsSound
<1>5. \A a, b : Sound(a) /\ Sound(b) => Pair(<<a, b>>)
  BY Zenon
<1> HIDE DEF Pair
<1>6. Pair(EnterLogs)
  BY <1>1, <1>2, <1>3, <1>4, <1>5, Zenon DEF EnterLogs
<1>7. Pair(AutoLogs)
  <2>1. Sound(IF flow = "fresh" THEN FoundDir ELSE IF Present("syslog_dir") THEN PreserveDir ELSE SetTo(""))
    BY <1>1, <1>2, <1>3, Zenon
  <2> QED
    BY <1>1, <1>5, <2>1, Zenon DEF AutoLogs
<1>8. Pair(JournalLogs)
  <2>1. Sound(IF flow = "fresh" THEN SetTo("") ELSE PreserveDir)
    BY <1>1, <1>3, Zenon
  <2> QED
    BY <1>1, <1>5, <2>1, Zenon DEF JournalLogs
<1>9. ASSUME NEW p \in FilesLogs
      PROVE  Pair(p)
  <2> DEFINE dir == IF flow = "fresh" THEN FoundDir ELSE PreserveDir
  <2>1. Sound(dir)
    BY <1>2, <1>3, Zenon
  <2>2. p = <<SetTo("files"), dir>>
    BY <1>9 DEF FilesLogs
  <2> HIDE DEF dir
  <2> QED
    BY <1>1, <1>5, <2>1, <2>2, Zenon
<1>10. Pair(<<SetTo("files"), SetTo("typed")>>) /\ Pair(<<SetTo("off"), SetTo("")>>)
  BY <1>1, <1>5, Zenon
<1>11. logs = EnterLogs \/ logs \in LogAnswers
  BY DEF LogChoices
<1>12. Pair(logs)
  BY <1>6, <1>7, <1>8, <1>9, <1>10, <1>11, Zenon DEF LogAnswers
<1> QED
  BY <1>12 DEF Pair

(* What is left out of the hunt has nothing to read, or was left out.      *)
LEMMA SkipsAreSound ==
    ASSUME NEW actions, NEW out \in SkipAnswers(actions), out.kind = "set",
           NEW d \in out.value \cap DOMAIN Slots, Fed(actions, d)
    PROVE  flow = "merge" /\ d \in existing.skips
<1> DEFINE before == IF flow = "merge" THEN existing.skips ELSE {}
           additions == {e \in DOMAIN Slots : ~ Fed(actions, e)} \ before
           lifts == IF flow = "merge" THEN {e \in before \cap DOMAIN Slots : Fed(actions, e)} ELSE {}
           changes == {c \in {additions, lifts, additions \cup lifts} : c # {}}
           Chosen(c) == [kind |-> "set", value |-> (before \cup (c \cap additions)) \ (c \cap lifts)]
<1>1. out # Untouched
  BY DropAndSkip
<1>2. PICK c \in changes : out = Chosen(c)
  BY <1>1 DEF SkipAnswers
<1>3. out.value = (before \cup (c \cap additions)) \ (c \cap lifts)
  BY <1>2
<1>4. d \notin additions
  OBVIOUS
<1>5. d \in before
  BY <1>3, <1>4
<1> QED
  BY <1>5

LEMMA CollectKeeps ==
    ASSUME WizardInv, Collect
    PROVE  WizardInv'
<1>1. /\ home' = home /\ scene' = scene /\ flow' = flow /\ existing' = existing /\ edited' = edited
      /\ seen' = seen /\ backups' = backups /\ dropins' = dropins /\ scope' = scope
      /\ configs' = configs /\ wizard = "asking" /\ scope # "allowlist"
      /\ wizard' = IF flow = "fresh" THEN "placing" ELSE "summary"
  BY DEF Collect, Goto, diskVars, WizardInv, FlowIsKnown
<1>2. PICK zeek \in AnswersTo("zeek_dir"), pihole \in AnswersTo("pihole_dir"),
           trail \in AnswersTo("cloudtrail_dir"), root \in AnswersTo("root"), logs \in LogChoices :
          /\ answers' = [zeek_dir |-> zeek, pihole_dir |-> pihole, cloudtrail_dir |-> trail,
                         syslog_source |-> logs[1], syslog_dir |-> logs[2],
                         root |-> IF flow = "fresh" THEN Skip ELSE root]
          /\ skips' \in SkipAnswers(answers')
  BY DEF Collect, LogChoices
<1>3. WizardTypes' /\ FlowIsKnown'
  BY <1>1 DEF WizardInv, WizardTypes, WizardSteps, Early, FlowIsKnown
<1>4. DiskIsKnown'
  BY <1>1 DEF WizardInv, DiskIsKnown, AsFound, Early
<1>5. ReadIsLatest'
  BY <1>1 DEF WizardInv, ReadIsLatest, EditedSince, LateEdit, Latest
<1>6. AnswersAreSound'
  <2>1. /\ DOMAIN answers' = Keys
        /\ answers'["zeek_dir"] = zeek /\ answers'["pihole_dir"] = pihole
        /\ answers'["cloudtrail_dir"] = trail
        /\ answers'["syslog_source"] = logs[1] /\ answers'["syslog_dir"] = logs[2]
        /\ answers'["root"] = IF flow = "fresh" THEN Skip ELSE root
    BY <1>2 DEF Keys, Dirs
  <2>2. /\ \A k \in Dirs : Sound(answers'[k]) \/ answers'[k] = Skip
        /\ Sound(answers'["syslog_source"]) /\ Sound(answers'["syslog_dir"])
        /\ IF flow = "fresh" THEN answers'["root"] = Skip ELSE Sound(answers'["root"])
    BY <2>1, SourcesAreSound, RootIsSound, LogsAreSound DEF Dirs
  <2>3. WellAnswered(IF wizard = "placing" THEN {"root"} ELSE {})'
    BY <1>1, <2>2, DropAndSkip DEF WellAnswered, Keys, Sound
  <2>4. skips'.kind = "set" => \A d \in skips'.value \cap DOMAIN Slots :
              Fed(answers, d)' => flow' = "merge" /\ d \in existing'.skips
    <3> SUFFICES ASSUME skips'.kind = "set", NEW d \in skips'.value \cap DOMAIN Slots, Fed(answers, d)'
                 PROVE  flow = "merge" /\ d \in existing.skips
      BY <1>1
    <3>1. Fed(answers', d)
      BY <1>1 DEF Fed, Shown, HasValue, Raw
    <3> QED
      BY <1>2, <3>1, SkipsAreSound
  <2> QED
    BY <2>1, <2>3, <2>4 DEF AnswersAreSound
<1>7. FileIsWritten' /\ PlaceIsFound'
  BY <1>1 DEF WizardInv, FileIsWritten, PlaceIsFound, Settled
<1> QED
  BY <1>1, <1>3, <1>4, <1>5, <1>6, <1>7 DEF WizardInv

LEMMA WizardStepKeeps ==
    ASSUME WizardInv, [WizardNext]_wizardVars
    PROVE  WizardInv'
<1>1. CASE WizardNext
  <2>1. CASE \E h \in Homes : Place(h) \/ Edit(h)
    BY <2>1, PlaceKeeps, EditKeeps
  <2> QED
    BY <1>1, <2>1, DiscoverKeeps, EnterMergeKeeps, EnterResetKeeps, CollectKeeps, AcceptKeeps,
       RedoKeeps, GiveUpKeeps, BackupKeeps, ReplaceKeeps, ClearKeeps, SeedKeeps, StopsKeeps
    DEF WizardNext
<1>2. CASE UNCHANGED wizardVars
  <2> USE <1>2 DEF wizardVars
  <2>1. WizardTypes' /\ DiskIsKnown' /\ FlowIsKnown' /\ PlaceIsFound'
    BY DEF WizardInv, WizardTypes, DiskIsKnown, AsFound, FlowIsKnown, PlaceIsFound, Settled
  <2>2. ReadIsLatest'
    BY DEF WizardInv, ReadIsLatest, EditedSince, LateEdit, Latest
  <2>3. AnswersAreSound'
    BY DEF WizardInv, AnswersAreSound, Answered, WellAnswered, Fed, Shown, HasValue, Raw
  <2>4. FileIsWritten'
    BY DEF WizardInv, FileIsWritten, Base, Apply
  <2> QED
    BY <2>1, <2>2, <2>3, <2>4 DEF WizardInv
<1> QED
  BY <1>1, <1>2

LEMMA WizardStarts ==
    ASSUME WizardInit \/ WizardIdle
    PROVE  WizardInv
<1>1. /\ wizard \in {"idle", "start"} /\ flow = "none" /\ scope = "none" /\ home = "none"
      /\ existing = NoFile /\ edited.home = "none"
      /\ configs = scene.configs /\ dropins = scene.dropins
      /\ DOMAIN backups = Homes /\ \A h \in Homes : backups[h] = NoFile
  BY DEF WizardInit, WizardIdle, NoScene
<1>2. /\ DOMAIN scene.configs = Homes /\ DOMAIN scene.dropins = Dropins
      /\ \A h \in Homes : scene.configs[h] = NoFile \/ IsFile(scene.configs[h])
  <2>1. CASE WizardInit
    BY <2>1, WizardAssumption DEF WizardInit
  <2>2. CASE WizardIdle
    BY <2>2 DEF WizardIdle, NoScene
  <2> QED
    BY <2>1, <2>2
<1>3. "none" \notin Homes
  BY DEF Homes
<1>4. WizardTypes /\ DiskIsKnown /\ FlowIsKnown
  BY <1>1, <1>2, <1>3 DEF WizardTypes, WizardSteps, Early, DiskIsKnown, AsFound, FlowIsKnown
<1>5. ReadIsLatest /\ AnswersAreSound /\ FileIsWritten /\ PlaceIsFound
  BY <1>1 DEF ReadIsLatest, AnswersAreSound, Answered, FileIsWritten, PlaceIsFound
<1> QED
  BY <1>1, <1>4, <1>5 DEF WizardInv

(* A key is written so that the next run sees what the summary showed.     *)
LEMMA KeyIsShown ==
    ASSUME NEW lines, NEW k \in Keys, NEW written, written.lines = Apply(lines, answers),
           answers[k].kind \in {"set", "remove", "skip"},
           answers[k].kind = "set" => answers[k].value # Unset,
           answers[k].kind = "skip" => k \in Dirs,
           lines = Base.lines
    PROVE  \/ Shown(answers, k) = Effective(written, k)
           \/ /\ k = "zeek_dir" /\ written.lines[k] = Unset
              /\ flow = "merge" \/ answers[k].kind = "remove"
<1>1. written.lines[k] = IF answers[k].kind = "set" THEN answers[k].value
                         ELSE IF answers[k].kind = "remove" THEN Unset
                         ELSE IF flow = "merge" \/ lines[k] = Unset THEN lines[k] ELSE ""
  BY DEF Apply
<1>2. CASE answers[k].kind = "set"
  BY <1>1, <1>2 DEF Shown, Effective
<1>3. CASE answers[k].kind = "remove"
  BY <1>1, <1>3 DEF Shown, Effective, Shipped, Dirs
<1>4. CASE answers[k].kind = "skip" /\ flow = "merge"
  BY <1>1, <1>4 DEF Shown, Effective, Shipped, Dirs, HasValue, Raw, Base, Unset
<1>5. CASE answers[k].kind = "skip" /\ flow # "merge"
  <2>1. lines[k] = IF Shipped(k) = "" THEN Unset ELSE Shipped(k)
    BY <1>5, FilesAreSomething DEF Base
  <2> QED
    BY <1>1, <1>5, <2>1 DEF Shown, Effective, Shipped, Dirs, Unset
<1> QED
  BY <1>2, <1>3, <1>4, <1>5

LEMMA SetupFacts ==
    ASSUME WizardInv
    PROVE  SetupIsHonest
<1>1. NothingIsLost
  <2>1. \A h \in Homes : h # edited.home \/ ~ LateEdit =>
            Latest(h) \in {configs[h].version, backups[h].version}
    <3> TAKE h \in Homes
    <3>1. CASE h = home
      <4>1. home # "none"
        BY <3>1 DEF Homes
      <4> QED
        BY <3>1, <4>1 DEF WizardInv, ReadIsLatest
    <3>2. CASE h # home
      BY <3>2, AsFoundIsLatest DEF WizardInv, DiskIsKnown
    <3> QED
      BY <3>1, <3>2
  <2>2. \A h \in Homes : (h # home \/ wizard \in {"aborted", "refused", "summary"}) =>
            backups[h] = NoFile /\ (edited.home # h => configs[h] = scene.configs[h])
    BY DEF WizardInv, DiskIsKnown, Early, AsFound
  <2> QED
    BY <2>1, <2>2 DEF WizardInv, NothingIsLost
<1>2. SummaryIsTruth
  <2> SUFFICES ASSUME wizard = "done", scope # "allowlist"
               PROVE  LET file == configs[home]
                      IN  /\ \A k \in Keys : Shown(answers, k) = Effective(file, k)
                                \/ /\ k = "zeek_dir" /\ file.lines[k] = Unset
                                   /\ flow = "merge" \/ answers[k].kind = "remove"
                          /\ skips.kind = "set" => file.skips = skips.value
                          /\ \A d \in file.skips \cap DOMAIN Slots : Fed(answers, d) =>
                                flow = "merge" /\ d \in existing.skips
                          /\ \/ home \in {"custom", Discovered}
                             \/ /\ edited.home = "user" /\ edited.when # "start"
                                /\ flow = "fresh" => edited.when \notin {"asking", "placing"}
    BY DEF SummaryIsTruth
  <2> DEFINE file == configs[home]
  <2>1. /\ home \in Homes /\ file # NoFile /\ file.lines = Apply(Base.lines, answers)
        /\ file.skips = IF skips.kind = "set" THEN skips.value ELSE Base.skips
    BY DEF WizardInv, WizardTypes, FileIsWritten
  <2>2. WellAnswered({}) /\ (skips.kind = "set" => \A d \in skips.value \cap DOMAIN Slots :
                                  Fed(answers, d) => flow = "merge" /\ d \in existing.skips)
    BY DEF WizardInv, AnswersAreSound, Answered
  <2>3. \/ home \in {"custom", Discovered}
        \/ /\ edited.home = "user" /\ edited.when # "start"
           /\ flow = "fresh" => edited.when \notin {"asking", "placing"}
    BY <2>1 DEF WizardInv, PlaceIsFound, Settled, Discovered, Exists, Homes
  <2>4. \A d \in file.skips \cap DOMAIN Slots : Fed(answers, d) =>
            flow = "merge" /\ d \in existing.skips
    <3>1. Base.skips = IF flow = "merge" THEN existing.skips ELSE {}
      BY FilesAreSomething DEF Base
    <3> HIDE DEF file
    <3> QED
      BY <2>1, <2>2, <3>1
  <2>5. skips.kind = "set" => file.skips = skips.value
    BY <2>1
  <2> HIDE DEF file
  <2>6. \A k \in Keys : Shown(answers, k) = Effective(file, k)
            \/ /\ k = "zeek_dir" /\ file.lines[k] = Unset
               /\ flow = "merge" \/ answers[k].kind = "remove"
    <3> TAKE k \in Keys
    <3>1. /\ answers[k].kind \in {"set", "remove", "skip"}
          /\ answers[k].kind = "set" => answers[k].value # Unset
          /\ answers[k].kind = "skip" => k \in Dirs
      BY <2>2 DEF WellAnswered
    <3> QED
      BY <2>1, <3>1, KeyIsShown
  <2> QED
    BY <2>3, <2>4, <2>5, <2>6 DEF file
<1> QED
  BY <1>1, <1>2 DEF SetupIsHonest

(* The inductive invariant of the wizard: until the accept the disk is as  *)
(* it was found, what is written is what was answered over the file that   *)
(* was read, and that was backed up first (cli_init.py).                   *)
THEOREM WizardInvariant == WizardSpec => []WizardInv
<1>1. WizardInit => WizardInv
  BY WizardStarts
<1>2. WizardInv /\ [WizardNext]_wizardVars => WizardInv'
  BY WizardStepKeeps
<1> QED
  BY <1>1, <1>2, PTL DEF WizardSpec

(* Wherever the wizard is given up, killed, or edited behind its back, the *)
(* user's text survives in the file or its backup, and the accepted        *)
(* summary is what the next run reads, whatever the files and answers and  *)
(* among all other verbs (cli_init.py).                                    *)
THEOREM SetupLosesNothing == MCSpec => []SetupIsHonest
<1>1. MCInit => WizardInv
  BY WizardStarts DEF MCInit, Others
<1>2. ASSUME WizardInv, [MCNext]_<<lifeVars, fanVars, vars, wizardVars, allowVars, eraVars, fileVars>>
      PROVE  WizardInv'
  <2>1. [WizardNext]_wizardVars
    BY <1>2 DEF MCNext
  <2> QED
    BY <1>2, <2>1, WizardStepKeeps
<1>3. WizardInv => SetupIsHonest
  BY SetupFacts
<1> QED
  BY <1>1, <1>2, <1>3, PTL DEF MCSpec
=============================================================================
