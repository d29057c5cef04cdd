----------------------------- MODULE AuthLenses -----------------------------
(***************************************************************************)
(* Failed and successful logins (detectors/auth.py, detectors/auth_core.py *)
(* and the grammar of parsers/auth.py).  Three observers write about one   *)
(* login: sshd, PAM and the kernel's audit, the last in two dialects.      *)
(* Volumes are counted over all three; a run of failures that ends in a    *)
(* success is looked for in one observer at a time, because two of them    *)
(* tell the same failure twice.                                            *)
(*                                                                         *)
(* A row is what the grammar captures of a line: its kind of record and    *)
(* the fields it states, "" where there is none.                           *)
(***************************************************************************)
EXTENDS Integers, FiniteSets, SequencesExt, FiniteSetsExt

CONSTANTS
    Logins,             \* [rows, start, end]: what a run has and its window; a row
                        \* is [id, ts, host, kind, service, account, auid, source,
                        \* event, res], ids in the order of the lanes
    ConcentrationFloor, LandingRunFloor, HostSpreadFloor,
    VolumeDailyRate, SecondsPerDay

ASSUME AuthAssumption ==
    /\ {ConcentrationFloor, LandingRunFloor, HostSpreadFloor} \subseteq Nat \ {0}
    /\ VolumeDailyRate \in Nat \ {0} /\ SecondsPerDay \in Nat \ {0}

VARIABLES
    logins,     \* the input
    decisions,  \* eligible decisions
    lenses,     \* LensResult
    alerts,     \* findings
    authStep    \* "project", "lenses", "assemble", "done"

authVars == <<logins, decisions, lenses, alerts, authStep>>

-----------------------------------------------------------------------------
(* Projection: classify_structure and extract_decision.  One kind stands   *)
(* for those that only differ in their words: a su or root grant for a     *)
(* sudo grant, a failed su for an authentication failure.                  *)
Sshd == {"accepted", "failed-password", "failed-invalid-user", "maximum-attempts",
         "invalid-user"}
Pam == {"authentication-failure", "authentication-failure-summary", "sudo-denial", "sudo-grant"}
Audisp == {"USER_AUTH", "USER_LOGIN", "USER_ACCT"}
Typeless == {"AUDIT1100", "AUDIT1112", "AUDIT1101"}
CountedTypes == {"accepted", "failed-password", "failed-invalid-user", "maximum-attempts",
                 "authentication-failure", "sudo-grant",
                 "USER_AUTH", "USER_LOGIN", "AUDIT1100", "AUDIT1112"}

ProducerOf(row) == CASE row.kind \in Sshd -> "sshd" [] row.kind \in Pam -> "pam"
                     [] row.kind \in Audisp -> "audisp" [] row.kind \in Typeless -> "typeless"
                     [] OTHER -> "none"
Identity(token) == IF token \in {"?", "(unknown)"} THEN "" ELSE token
OutcomeOf(row) ==
    CASE row.kind \in {"accepted", "sudo-grant"} -> "granted"
      [] row.kind \in Audisp \cup Typeless -> IF row.res = "success" THEN "granted"
                                              ELSE IF row.res = "failed" THEN "denied"
                                              ELSE "indeterminate"
      [] row.kind = "invalid-user" -> "indeterminate"
      [] OTHER -> "denied"
Actor(row) == IF Identity(row.account) # "" THEN Identity(row.account)
              ELSE IF ProducerOf(row) \in {"audisp", "typeless"} THEN Identity(row.auid) ELSE ""
Namespace(row) == CASE Identity(row.account) = "" -> IF row.auid # "" THEN "unix_auid" ELSE ""
                    [] Identity(row.account) # "" /\ row.kind = "failed-invalid-user" ->
                          "preauth_username"
                    [] OTHER -> "unix_user"
Gate(row) == CASE ProducerOf(row) = "sshd" -> "sshd"
               [] ProducerOf(row) = "pam" -> row.service
               [] OTHER -> IF row.service = "" THEN "audit" ELSE row.service

Eligible(row) == /\ row.kind \in CountedTypes /\ OutcomeOf(row) # "indeterminate"
                 /\ <<Actor(row), Identity(row.source)>> # <<"", "">>
Decision(row) ==
    [id |-> row.id, ts |-> row.ts, host |-> row.host, producer |-> ProducerOf(row),
     gate |-> Gate(row), outcome |-> OutcomeOf(row), namespace |-> Namespace(row),
     actor |-> Actor(row), source |-> Identity(row.source), type |-> row.kind,
     event |-> row.event]

-----------------------------------------------------------------------------
(* Reconciling the observers. *)
Service(gate) == IF gate \in {"sshd", "sshd-session", "dropbear"} THEN "ssh" ELSE gate
AuditType(type) == CASE type = "AUDIT1100" -> "USER_AUTH" [] type = "AUDIT1112" -> "USER_LOGIN"
                     [] OTHER -> type
CountKey(d) == <<d.host, Service(d.gate), d.outcome, d.namespace, d.actor, d.source,
                 AuditType(d.type)>>
Deduped(S) == {d \in S : \A e \in S : (d.event # "" /\ e.event = d.event /\ e.host = d.host)
                                          => d.id <= e.id}
Told(S, producer) == {d \in S : d.producer = producer}
(* _reconciled_audit_rows: of each group the dialect with more events. *)
AuditRows(S) ==
    LET audit == Told(S, "audisp") \cup Told(S, "typeless")
        Winner(key) == LET group == {d \in audit : CountKey(d) = key}
                           named == Deduped(Told(group, "audisp"))
                           numeric == Deduped(Told(group, "typeless"))
                       IN  IF Cardinality(named) >= Cardinality(numeric) THEN named ELSE numeric
    IN  UNION {Winner(key) : key \in {CountKey(d) : d \in audit}}
Streams(S) == <<Told(S, "sshd"), Told(S, "pam"), AuditRows(S)>>
Counted(S) == UNION Range(Streams(S))

InsideWindow(d) == logins.start <= d.ts /\ d.ts <= logins.end
Denied(S) == {d \in S : d.outcome = "denied"}
Granted(S) == {d \in S : d.outcome = "granted"}
EpisodeKey(d) ==
    CASE d.actor # "" /\ d.source # "" ->
            <<d.host, Service(d.gate), "edge", d.namespace, d.actor, d.source>>
      [] d.actor = "" /\ d.source # "" -> <<d.host, Service(d.gate), "source", d.source>>
      [] OTHER -> <<d.host, Service(d.gate), "actor", d.namespace, d.actor>>
Account(d) == <<d.namespace, d.actor>>
Keys(S) == {EpisodeKey(d) : d \in S}
OfKey(S, key) == {d \in S : EpisodeKey(d) = key}

-----------------------------------------------------------------------------
(* The lenses.  S is what is counted, inside the window. *)
Concentrations(S) ==
    {key \in Keys(S) : Cardinality(Denied(OfKey(S, key))) >= ConcentrationFloor}

VolumeFloor == LET scaled == (VolumeDailyRate * (logins.end - logins.start) + SecondsPerDay - 1)
                             \div SecondsPerDay
               IN  IF scaled > VolumeDailyRate THEN scaled ELSE VolumeDailyRate
Loud(S) == logins.start < logins.end /\ Cardinality(Denied(S)) >= VolumeFloor
SourceIn(key) == key[Len(key)]
CoveredSources(keys) == {SourceIn(key) : key \in {k \in keys : k[3] \in {"edge", "source"}}}
CoveredAccounts(keys) == {<<key[4], key[5]>> : key \in {k \in keys : k[3] \in {"edge", "actor"}}}
Volumes(S, keys) ==
    {<<"source_volume", s>> : s \in {t \in {d.source : d \in S} \ {""} :
        Loud({d \in S : d.source = t}) /\ t \notin CoveredSources(keys)}}
    \cup {<<"account_volume", a[1], a[2]>> : a \in {b \in {Account(d) : d \in S} :
        /\ b[2] # "" /\ Loud({d \in S : Account(d) = b}) /\ b \notin CoveredAccounts(keys)}}
DeniedFor(S, e) == {g \in Denied(S) : Account(g) = Account(e) /\ g.source = e.source}
Spreads(S) ==
    {<<"host_spread", d.source, d.namespace, d.actor>> :
        d \in {e \in S : /\ e.actor # "" /\ e.source # ""
                         /\ Cardinality({f.host : f \in DeniedFor(S, e)}) >= HostSpreadFloor}}
Live(S) == {<<d.host, d.namespace, d.actor>> : d \in {g \in Granted(S) : g.actor # ""}}

(* landing: the transitions of one key in one stream, second by second.    *)
Transition(key, run, t, status, stream) ==
    [key |-> key, status |-> status, failures |-> Cardinality(run),
     first |-> Min({d.ts : d \in run}), success |-> t,
     ended |-> /\ status = "established"
               /\ \A d \in Denied(OfKey(stream, key)) : d.ts <= t
               /\ \E row \in logins.rows : row.host = key[1] /\ InsideWindow(row) /\ row.ts > t]

(* A mutant: a run that is too short goes on after the success. *)
StepUnbroken(acc, key, t, stream) ==
    LET now == {d \in OfKey(stream, key) : d.ts = t}
        run == acc.run \cup Denied(now)
    IN  IF Granted(now) = {} \/ Cardinality(run) < LandingRunFloor
        THEN [acc EXCEPT !.run = run]
        ELSE [run |-> {}, found |-> acc.found \cup
                 {Transition(key, run, t, IF Denied(now) # {} THEN "tie" ELSE "established",
                             stream)}]
Step(acc, key, t, stream) ==
    LET now == {d \in OfKey(stream, key) : d.ts = t}
        run == acc.run \cup Denied(now)
    IN  IF Granted(now) = {} THEN [acc EXCEPT !.run = run]
        ELSE [run |-> {},
              found |-> acc.found \cup
                 (IF Cardinality(run) < LandingRunFloor THEN {}
                  ELSE {Transition(key, run, t, IF Denied(now) # {} THEN "tie" ELSE "established",
                                   stream)})]
Landing(stream, key) ==
    FoldLeft(LAMBDA acc, t : Step(acc, key, t, stream), [run |-> {}, found |-> {}],
             SetToSortSeq({d.ts : d \in OfKey(stream, key)}, <)).found

(* _observer_coherent_landing: the first observer with a transition, be it *)
(* a tie, tells the whole episode. *)
LandingStreams(S) ==
    LET streams == Streams(S) IN [n \in 1..3 |-> {d \in Deduped(streams[n]) : InsideWindow(d)}]
Telling(streams, key) ==
    {n \in 1..3 : key \in Keys(streams[n]) /\ Landing(streams[n], key) # {}}
LandingKeys(streams) == UNION {Keys(streams[n]) : n \in 1..3}
Episodes(streams) ==
    UNION {LET telling == Telling(streams, key)
               n == Min(telling)
           IN  IF telling = {} THEN {}
               ELSE {[key |-> key, transitions |-> Landing(streams[n], key),
                      rows |-> OfKey(streams[n], key)]} : key \in LandingKeys(streams)}
Landed(episode) == {t \in episode.transitions : t.status = "established"}

-----------------------------------------------------------------------------
(* The findings.  A concentration that also landed is told by its landing, *)
(* and a landing by the spread of its source and account. *)
Project ==
    /\ authStep = "project" /\ authStep' = "lenses"
    /\ decisions' = {Decision(row) : row \in {r \in logins.rows : Eligible(r)}}
    /\ UNCHANGED <<logins, lenses, alerts>>

RunLenses ==
    /\ authStep = "lenses" /\ authStep' = "assemble"
    /\ LET counted == {d \in Counted(decisions) : InsideWindow(d)}
           keys == Concentrations(counted)
           streams == LandingStreams(decisions)
           episodes == Episodes(streams)
       IN  lenses' = [streams |-> streams, counted |-> counted,
                      concentrations |-> keys,
                      landings |-> {e \in episodes : Landed(e) # {}},
                      entities |-> Volumes(counted, keys) \cup Spreads(counted),
                      live |-> Live(counted),
                      landingLive |-> Live(UNION {e.rows : e \in episodes})]
    /\ UNCHANGED <<logins, decisions, alerts>>

KeysOf(episodes) == {e.key : e \in episodes}
SpreadOf(key) == IF key[3] = "edge" THEN <<"host_spread", key[6], key[4], key[5]>> ELSE <<>>
(* The title is an account's name only if somebody got in under it: what   *)
(* is typed as a name may be a password. *)
TitledKey(key, live, landed) ==
    IF key[3] # "source" /\ (landed \/ <<key[1], key[4], key[5]>> \in live \/ key[4] = "unix_auid")
    THEN key[5] ELSE IF key[3] = "actor" THEN key[1] ELSE SourceIn(key)
Touched(entity, live) ==
    \E d \in Denied(lenses.counted) :
        /\ <<d.host, d.namespace, d.actor>> \in live
        /\ CASE entity[1] = "account_volume" -> Account(d) = <<entity[2], entity[3]>>
             [] OTHER -> d.source = entity[2] /\ Account(d) = <<entity[3], entity[4]>>
TitledEntity(entity, landed) ==
    CASE entity[1] = "source_volume" -> entity[2]
      [] entity[1] = "account_volume" ->
            IF Touched(entity, lenses.live) \/ entity[2] = "unix_auid" THEN entity[3] ELSE "volume"
      [] OTHER -> IF landed \/ Touched(entity, lenses.live) \/ entity[3] = "unix_auid"
                  THEN entity[4] ELSE entity[2]

Consumed(e) == SpreadOf(e.key) \in lenses.entities

Assemble ==
    /\ authStep = "assemble" /\ authStep' = "done"
    /\ alerts' =
          {[signal |-> "concentration", identity |-> key, landings |-> {},
            title |-> TitledKey(key, lenses.live, FALSE)] :
              key \in lenses.concentrations \ KeysOf(lenses.landings)}
          \cup {LET matches == {e \in lenses.landings : SpreadOf(e.key) = entity}
                IN  [signal |-> entity[1], identity |-> entity,
                     landings |-> UNION {Landed(e) : e \in matches},
                     title |-> TitledEntity(entity, matches # {})] : entity \in lenses.entities}
          \cup {[signal |-> "landing", identity |-> e.key, landings |-> Landed(e),
                 title |-> TitledKey(e.key, lenses.landingLive, TRUE)] :
                   e \in {f \in lenses.landings : ~ Consumed(f)}}
    /\ UNCHANGED <<logins, decisions, lenses>>

NoLenses == [streams |-> <<>>, counted |-> {}, concentrations |-> {}, landings |-> {},
             entities |-> {}, live |-> {}, landingLive |-> {}]
AuthInit == /\ logins \in Logins /\ decisions = {} /\ lenses = NoLenses /\ alerts = {}
            /\ authStep = "project"
AuthNext == Project \/ RunLenses \/ Assemble
AuthSpec == AuthInit /\ [][AuthNext]_authVars

-----------------------------------------------------------------------------
(* A success is called a landing exactly if the observer that tells the    *)
(* episode saw LandingRunFloor failures of the same host, service, account *)
(* and source after the success before it, and none in its own second.     *)
(* The count is that of the failures, and a run that is said to have ended *)
(* was followed by rows of the host but no failure.                        *)
RunBefore(stream, key, t) ==
    {d \in Denied(OfKey(stream, key)) :
        d.ts < t /\ \A g \in Granted(OfKey(stream, key)) : g.ts < t => g.ts < d.ts}
LandingIsARun ==
    authStep = "assemble" => \A key \in LandingKeys(lenses.streams) :
        LET told == UNION {Landed(e) : e \in {f \in lenses.landings : f.key = key}}
            telling == Telling(lenses.streams, key)
        IN  telling # {} =>
            LET stream == lenses.streams[Min(telling)]
            IN  {t.success : t \in told} =
                   {g.ts : g \in {h \in Granted(OfKey(stream, key)) :
                       /\ Cardinality(RunBefore(stream, key, h.ts)) >= LandingRunFloor
                       /\ \A d \in Denied(OfKey(stream, key)) : d.ts # h.ts}}
                /\ \A t \in told : t.failures = Cardinality(RunBefore(stream, key, t.success))

(* No alarm is dropped on the way to the findings.  Every landing is told  *)
(* in exactly one of them, every concentration under its own identity or   *)
(* with its landing, and a source or an account with as many failures as   *)
(* the volume floor is named in a finding, although volumes leave out what *)
(* a concentration covers and a concentration what landed.                 *)
Names(alert, what) == \E i \in DOMAIN alert.identity : alert.identity[i] = what
EveryAlarmIsTold ==
    authStep = "done" =>
        LET counted == lenses.counted
        IN  /\ \A e \in lenses.landings : \A t \in Landed(e) :
                  Cardinality({a \in alerts : t \in a.landings}) = 1
            /\ \A key \in Concentrations(counted) : \E a \in alerts :
                  a.identity = key \/ \E t \in a.landings : t.key = key
            /\ \A s \in {d.source : d \in counted} \ {""} :
                  Loud({d \in counted : d.source = s}) => \E a \in alerts : Names(a, s)
            /\ \A b \in {Account(d) : d \in counted} :
                  (b[2] # "" /\ Loud({d \in counted : Account(d) = b})) =>
                      \E a \in alerts : Names(a, b[1]) /\ Names(a, b[2])

(* A title never shows a name under which nobody got in: what was typed as *)
(* a name may have been a password.                                        *)
TitlesAreAccounts ==
    authStep = "done" => \A a \in alerts :
        LET named == {d \in decisions : d.actor = a.title /\ InsideWindow(d)}
        IN  named # {} =>
                \E d \in named : d.outcome = "granted" \/ d.namespace = "unix_auid"

(* auth.py: every firing lens reaches the report, under a title that names
   an account that is one. *)
AlarmsAreTold == LandingIsARun /\ EveryAlarmIsTold /\ TitlesAreAccounts
=============================================================================
