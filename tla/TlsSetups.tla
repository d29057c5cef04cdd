----------------------------- MODULE TlsSetups -----------------------------
(***************************************************************************)
(* TLS sessions set up unlike the others (detectors/ssl.py, with the run's *)
(* notes on them).  Two legs look at a session: one at the client (no      *)
(* server name), one at the server (a certificate that did not validate).  *)
(* A pair of hosts with enough sessions in either leg is told.             *)
(*                                                                         *)
(* A row is [src, dst, ts, named, made, resumed, cert, status, setup]; a   *)
(* certificate record is [cert, ts, whole].  An address is a value; what   *)
(* it is, is given.  Ratios, mixes of ports and wording are left out.      *)
(***************************************************************************)
EXTENDS Integers, FiniteSets, SequencesExt, FiniteSetsExt

CONSTANTS
    TlsLogs,                    \* the frames: [rows, records, lacks]
    Hosted, Unreadable, Nowhere,    \* addresses in home_net, unparsable, non-routable
    TlsLexicon,                 \* addresses, certificates, statuses and setups in order
    MinSessions

ASSUME TlsAssumption == MinSessions \in Nat \ {0}

VARIABLES
    tls,        \* the frames
    funnel,     \* the facts and what the notes say of them
    setups,     \* the findings, in order
    tlsStep     \* "notes", "run", "done"

tlsVars == <<tls, funnel, setups, tlsStep>>

-----------------------------------------------------------------------------
Sessions == DOMAIN tls.rows
Session(i) == tls.rows[i]
Undated == -1
FlowColumns == {"ts", "src", "dst", "port"}
LegColumns == [client |-> {"established", "resumed", "sni"},
               server |-> {"cert_fp", "validation_status"}]

(* The gates, in their order: an address that cannot be read is neither at *)
(* home nor non-routable. *)
ReadSessions == IF tls.lacks \cap FlowColumns # {} THEN {}
        ELSE {i \in Sessions : {Session(i).src, Session(i).dst} \cap Unreadable = {}}
FromHome == {i \in ReadSessions : Session(i).src \in Hosted}
LeavingHome == {i \in FromHome : Session(i).dst \notin Hosted}
Routable == {i \in LeavingHome : Session(i).dst \notin Nowhere}
EligibleSessions == {i \in Routable : Session(i).ts # Undated}
Visible == IF "cert_fp" \in tls.lacks THEN {} ELSE {i \in EligibleSessions : Session(i).cert # "none"}

(* Values that are not booleans, and a status that was not measured, put a *)
(* session in no leg. *)
Client == IF LegColumns.client \cap tls.lacks # {} THEN {}
          ELSE {i \in EligibleSessions : /\ Session(i).made = "true" /\ Session(i).resumed = "false"
                                 /\ ~ Session(i).named}
Server == IF LegColumns.server \cap tls.lacks # {} THEN {}
          ELSE {i \in EligibleSessions : /\ Session(i).cert # "none"
                                 /\ Session(i).status \notin {"ok", "none"}}
Between(S, p) == {i \in S : <<Session(i).src, Session(i).dst>> = p}
TlsPairs == {<<Session(i).src, Session(i).dst>> : i \in EligibleSessions}

Nth(word) == CHOOSE n \in DOMAIN TlsLexicon : TlsLexicon[n] = word
Mode(S, key) ==         \* of a column; ties go to the first in the lexicon
    CHOOSE v \in {Session(i)[key] : i \in S} :
        \A w \in {Session(i)[key] : i \in S} \ {v} :
            LET count(x) == Cardinality({i \in S : Session(i)[key] = x})
            IN  count(v) > count(w) \/ (count(v) = count(w) /\ Nth(v) < Nth(w))

(* The earliest dated record of a certificate; all its facts, or none.     *)
RecordsOf(cert) ==
    {n \in DOMAIN tls.records : tls.records[n].cert = cert /\ tls.records[n].ts # Undated}
EarliestRecord(cert) ==
    CHOOSE n \in RecordsOf(cert) : \A m \in RecordsOf(cert) \ {n} :
        \/ tls.records[n].ts < tls.records[m].ts
        \/ tls.records[n].ts = tls.records[m].ts /\ n < m
CertificateFacts(failed) ==
    LET cert == Mode(failed, "cert")
    IN  IF failed = {} \/ RecordsOf(cert) = {} THEN <<>>
        ELSE IF ~ tls.records[EarliestRecord(cert)].whole THEN <<>>
        ELSE [record |-> EarliestRecord(cert),
              used |-> Min({Session(i).ts : i \in {j \in failed : Session(j).cert = cert}})]

Setup(p) ==
    LET client == Between(Client, p)
        server == Between(Server, p)
        usual == Mode(Between(EligibleSessions, p), "setup")
    IN  [pair |-> p, rows |-> client \cup server, client |-> client, server |-> server,
         severity |-> IF client # {} /\ server # {} THEN "MEDIUM" ELSE "LOW",
         setup |-> usual, alike |-> {i \in Sessions : Session(i).setup = usual},
         status |-> IF server = {} THEN "none" ELSE Mode(server, "status"),
         certificate |-> CertificateFacts(server)]
Graver(s, t) ==
    \/ s.severity = "MEDIUM" /\ t.severity = "LOW"
    \/ /\ s.severity = t.severity
       /\ \/ Cardinality(s.rows) > Cardinality(t.rows)
          \/ /\ Cardinality(s.rows) = Cardinality(t.rows)
             /\ \/ Nth(s.pair[1]) < Nth(t.pair[1])
                \/ s.pair[1] = t.pair[1] /\ Nth(s.pair[2]) < Nth(t.pair[2])

(* What the notes say when nothing could be scored. *)
Cause ==
    IF EligibleSessions # {} THEN "scored"
    ELSE IF tls.lacks \cap FlowColumns # {} THEN "columns"
    ELSE IF LeavingHome # {} /\ Routable = {} THEN "non-routable"
    ELSE IF FromHome # {} /\ LeavingHome = {} THEN "inside home"
    ELSE "not outbound"

-----------------------------------------------------------------------------
Disclose ==
    /\ tlsStep = "notes" /\ tlsStep' = "run"
    /\ funnel' = IF Sessions = {} THEN [cause |-> "unsaid", visible |-> 0, of |-> 0]
                 ELSE [cause |-> Cause, visible |-> Cardinality(Visible),
                       of |-> Cardinality(EligibleSessions)]
    /\ UNCHANGED <<tls, setups>>
TellSetups ==
    /\ tlsStep = "run" /\ tlsStep' = "done"
    /\ LET told == {Setup(p) : p \in {q \in TlsPairs :
                        Cardinality(Between(Client \cup Server, q)) >= MinSessions}}
       IN  setups' = [n \in 1..Cardinality(told) |->
                        CHOOSE s \in told : Cardinality({t \in told : Graver(t, s)}) = n - 1]
    /\ UNCHANGED <<tls, funnel>>

TlsInit == tls \in TlsLogs /\ funnel = <<>> /\ setups = <<>> /\ tlsStep = "notes"
TlsNext == Disclose \/ TellSetups
TlsSpec == TlsInit /\ [][TlsNext]_tlsVars

-----------------------------------------------------------------------------
(* A run with rows and nothing scored says why, and the reason is true of  *)
(* the rows, if they have times; a run that scored gives no reason.        *)
EmptyRunsSayWhy ==
    Sessions # {} =>
        /\ funnel.cause = "scored" <=> funnel.of > 0
        /\ funnel.cause # "scored" => setups = <<>>
        /\ funnel.cause = "non-routable" =>
              \A i \in Sessions : (Session(i).src \in Hosted /\ Session(i).dst \notin Hosted \cup Unreadable)
                                     => Session(i).dst \in Nowhere
        /\ (funnel.cause = "not outbound" /\ \A i \in Sessions : Session(i).ts # Undated) =>
              \A i \in Sessions : \/ {Session(i).src, Session(i).dst} \cap Unreadable # {}
                                  \/ Session(i).src \notin Hosted

(* Every odd session of an outbound pair is told once, unless its pair has *)
(* too few of them; two legs are MEDIUM even in different sessions; and no *)
(* claim outruns what was measured: certificate claims stay within the     *)
(* sessions the note calls visible, have a measured status, and date the   *)
(* certificate by its earliest record and its own first use.               *)
SetupsAreMeasured ==
    tlsStep = "done" =>
        /\ \A i \in Client \cup Server :
              LET p == <<Session(i).src, Session(i).dst>>
              IN  Cardinality({k \in DOMAIN setups : i \in setups[k].rows})
                     = IF Cardinality(Between(Client \cup Server, p)) >= MinSessions THEN 1 ELSE 0
        /\ \A k \in DOMAIN setups :
              LET s == setups[k]
              IN  /\ s.severity = "MEDIUM" <=>
                        (\E i, j \in s.rows : i \in Client /\ j \in Server)
                  /\ s.status \in {Session(i).status : i \in s.server} \cup {"none"}
                  /\ s.server # {} => s.status \notin {"ok", "none"}
                  /\ s.certificate # <<>> =>
                        LET r == tls.records[s.certificate.record]
                        IN  /\ \E i \in s.server : /\ Session(i).cert = r.cert
                                                   /\ Session(i).ts = s.certificate.used
                            /\ \A n \in DOMAIN tls.records :
                                  (tls.records[n].cert = r.cert /\ tls.records[n].ts # Undated)
                                      => r.ts <= tls.records[n].ts
        /\ Cardinality(UNION {setups[k].server : k \in DOMAIN setups}) <= funnel.visible
        /\ Cardinality(UNION {setups[k].rows : k \in DOMAIN setups}) <= funnel.of
        /\ EmptyRunsSayWhy
=============================================================================
