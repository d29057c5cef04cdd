---------------------------- MODULE MCStatistics ----------------------------
(***************************************************************************)
(* Inputs of the statistical detectors.  Each is made of pieces that can   *)
(* each be there or not, loaded out of order.                              *)
(***************************************************************************)
EXTENDS AwsPrincipals, DnsClusters, FlowSignals, TlsSetups, PortExpectations

(***************************************************************************)
(* Trails of pieces that can each be there or not, loaded out of order:    *)
(* new actions a gap apart or just less, repeats, ties with the first      *)
(* event, rows without a time, services beside people.                     *)
(***************************************************************************)
MCEvent(who, ts, name, failed) ==
    [who |-> who, ts |-> ts, name |-> name, failed |-> failed, service |-> name,
     lane |-> "interactive"]
MCPieces ==
    << <<MCEvent("ada", 5, "list", FALSE), MCEvent("ada", 7, "get", TRUE)>>,
       <<MCEvent("ada", 1, "login", FALSE)>>,
       <<MCEvent("ada", 3, "put", TRUE)>>,
       <<MCEvent("ada", 10, "delete", FALSE), MCEvent("ada", 12, "list", FALSE),
         MCEvent("ada", 12, "tag", FALSE)>>,
       <<MCEvent("bob", 4, "list", FALSE), MCEvent("bob", 4, "get", FALSE)>>,
       <<MCEvent("bob", 6, "put", TRUE), MCEvent("bob", NoTimestamp, "tag", FALSE)>>,
       <<MCEvent("bob", 2, "get", FALSE), MCEvent("bob", 5, "none", FALSE)>>,
       <<MCEvent("eve", 9, "list", FALSE), MCEvent("eve", 9, "get", FALSE)>>,
       <<[MCEvent("cfn", 3, "list", FALSE) EXCEPT !.lane = "service"],
         [MCEvent("ada", 4, "assume", FALSE) EXCEPT !.lane = "service"]>> >>
MCTrails == {FlattenSeq([k \in DOMAIN MCPieces |-> IF k \in there THEN MCPieces[k] ELSE <<>>]) :
                there \in SUBSET DOMAIN MCPieces}

(***************************************************************************)
(* Names of a tunnel, of a site and of a private network, in feeds of four *)
(* to six rows; every clustering of them into at most two clusters.        *)
(***************************************************************************)
MCNames == {"t1", "t2", "t3", "b1", "b2", "s1", "lan", "l1", "x."}
MCScoreOf == [n \in MCNames |-> CASE n = "t1" -> 4 [] n \in {"t2", "t3"} -> 3 [] n = "l1" -> 3
                                  [] n = "s1" -> 2 [] OTHER -> 1]
MCParentOf == [n \in MCNames |-> CASE n \in {"t1", "t2", "t3", "b1", "b2"} -> "tunnel"
                                   [] n \in {"lan", "l1"} -> "lan" [] OTHER -> "site"]
MCAsk(names, code) == [i \in DOMAIN names |-> [name |-> names[i], code |-> code]]
MCHear(names, kind) == [i \in DOMAIN names |-> [name |-> names[i], kind |-> kind]]
MCTunings == {[threshold |-> 3, scan |-> TRUE, promote |-> TRUE],
              [threshold |-> 4, scan |-> TRUE, promote |-> TRUE],
              [threshold |-> 2, scan |-> FALSE, promote |-> FALSE]}
MCZeekLookups ==
    {<<>>, MCAsk(<<"t1">>, "ok"), MCAsk(<<"t1", "t2", "t1", "t3">>, "nxdomain"),
     MCAsk(<<"t3", "t1", "b1", "b2">>, "nxdomain"),
     MCAsk(<<"t1", "t1", "t2", "t3", "t3", "l1">>, "ok"),
     MCAsk(<<"s1", "l1", "lan", "x.">>, "ok") \o MCAsk(<<"b1", "b2">>, "nxdomain"),
     MCAsk(<<"t2", "t3", "s1">>, "none") \o MCAsk(<<"x.">>, "nxdomain")}
MCPiholeEvents ==
    {<<>>, MCHear(<<"t1", "t1", "t2", "t3", "l1">>, "query") \o MCHear(<<"t1", "s1">>, "blocked"),
     MCHear(<<"t2", "s1">>, "query") \o MCHear(<<"t3", "x.">>, "forwarded")}
MCFeeds == {[zeek |-> z, pihole |-> p, tuning |-> t] :
               z \in MCZeekLookups, p \in MCPiholeEvents, t \in MCTunings}

(***************************************************************************)
(* Connections of two hosts to two networks, in pieces that can each be    *)
(* there or not: an address in two spellings, answers that were not        *)
(* measured, a sensor that speaks, groups, rows without a time.            *)
(***************************************************************************)
MCFlowRow(src, dst, out, back) ==
    [src |-> src, dst |-> dst, service |-> "443", ts |-> 0, est |-> TRUE, local |-> "unset",
     out |-> out, back |-> back]
MCAt(row, ts) == [row EXCEPT !.ts = ts]
MCFlowPieces ==
    << <<MCFlowRow("in", "x1", 6, 0), MCFlowRow("in", "x1", 6, 9)>>,
       <<MCAt(MCFlowRow("in", "x1m", 4, 0), 3)>>,
       <<MCFlowRow("in", "x2", 10, 1), MCFlowRow("in2", "x2", 11, 2)>>,
       <<MCFlowRow("in", "y1", 5, NoBytes), MCAt(MCFlowRow("in", "y1", 6, 4), 9)>>,
       <<MCAt(MCFlowRow("in", "y2", 9, NoBytes), 5), MCFlowRow("in", "in2", 40, 0)>>,
       <<[MCFlowRow("out", "x2", 12, 0) EXCEPT !.local = "yes"],
         [MCFlowRow("in", "x3", 30, 0) EXCEPT !.local = "no"], MCFlowRow("bad", "x1", 30, 1)>>,
       <<[MCFlowRow("in", "x1", NoBytes, 2) EXCEPT !.est = FALSE], MCFlowRow("in", "all", 30, 0)>>,
       <<[MCFlowRow("in", "x2", 2, 2) EXCEPT !.ts = NoStamp],
         [MCFlowRow("inm", "x2", 3, NoBytes) EXCEPT !.service = "none"]>> >>
MCFlowLogs ==
    {[rows |-> FlattenSeq([k \in DOMAIN MCFlowPieces |-> IF k \in there THEN MCFlowPieces[k] ELSE <<>>]),
      lacks |-> {}, bounded |-> 1 \in there] : there \in SUBSET DOMAIN MCFlowPieces}
    \cup {[rows |-> MCFlowPieces[1], lacks |-> l, bounded |-> FALSE] :
             l \in {{"ts"}, {"resp_bytes"}, {"conn_state"}}}
    \cup {[rows |-> <<>>, lacks |-> l, bounded |-> TRUE] : l \in {{}, {"src", "bytes"}}}
    \cup {[rows |-> <<MCFlowRow("in", "x1", NoBytes, 4)>>, lacks |-> {}, bounded |-> TRUE]}
MCSpellings == {"in", "inm", "in2", "out", "bad", "all", "x1", "x1m", "x2", "x3", "y1", "y2"}
MCAddressOf == [s \in MCSpellings |-> CASE s = "inm" -> "in" [] s = "x1m" -> "x1" [] OTHER -> s]
MCPoolOf == [a \in MCSpellings |-> IF a \in {"y1", "y2"} THEN "Y" ELSE "X"]
MCLexicon == <<"443", "all", "bad", "in", "in2", "inm", "out", "x1", "x1m", "x2", "x3", "y1", "y2">>

(***************************************************************************)
(* Sessions of two hosts, in pieces that can each be there or not.         *)
(***************************************************************************)
MCSession(src, dst, ts, cert, status) ==
    [src |-> src, dst |-> dst, ts |-> ts, named |-> TRUE, made |-> "true", resumed |-> "false",
     cert |-> cert, status |-> status, setup |-> "new"]
MCNameless(row) == [row EXCEPT !.named = FALSE]
MCTlsPieces ==
    << <<MCNameless(MCSession("ann", "far", 4, "none", "none")),
         MCSession("ann", "far", 5, "c1", "ok")>>,
       <<MCSession("ann", "far", 3, "c1", "expired")>>,
       <<MCSession("ann", "far", 2, "c2", "self"), MCSession("ann", "far", 6, "c2", "none")>>,
       <<[MCNameless(MCSession("ben", "far", 1, "c1", "expired")) EXCEPT !.setup = "old"],
         MCNameless(MCSession("ben", "far", Undated, "c1", "self"))>>,
       <<[MCNameless(MCSession("ben", "off", 5, "none", "none")) EXCEPT !.resumed = "true"],
         [MCNameless(MCSession("ben", "off", 5, "none", "none")) EXCEPT !.made = "1"]>>,
       <<MCNameless(MCSession("ann", "ben", 7, "c2", "self"))>>,
       <<MCNameless(MCSession("ann", "all", 7, "c2", "self"))>>,
       <<MCNameless(MCSession("???", "far", 7, "none", "none")),
         MCNameless(MCSession("off", "far", 7, "none", "none"))>> >>
MCRecord(cert, ts, whole) == [cert |-> cert, ts |-> ts, whole |-> whole]
MCTlsRecords == {<<>>, <<MCRecord("c1", Undated, TRUE), MCRecord("c1", 4, TRUE), MCRecord("c1", 1, TRUE)>>,
                 <<MCRecord("c2", 5, TRUE), MCRecord("c2", 2, FALSE)>>}
MCTlsLogs ==
    {[rows |-> FlattenSeq([k \in DOMAIN MCTlsPieces |-> IF k \in there THEN MCTlsPieces[k] ELSE <<>>]),
      records |-> r, lacks |-> {}] : there \in SUBSET DOMAIN MCTlsPieces, r \in MCTlsRecords}
    \cup {[rows |-> MCTlsPieces[k], records |-> <<>>, lacks |-> {c}] :
             k \in DOMAIN MCTlsPieces, c \in {"port", "sni", "cert_fp"}}
MCTlsLexicon == <<"???", "all", "ann", "ben", "c1", "c2", "expired", "far", "new", "none", "off",
                  "old", "self">>

(***************************************************************************)
(* Web and mail connections in pieces that can each be there or not,       *)
(* loaded out of order.                                                    *)
(***************************************************************************)
MCPortRow(src, port, labels, ts) ==
    [src |-> src, dst |-> "srv", port |-> port, origPort |-> 9, labels |-> labels, removed |-> {},
     inverted |-> FALSE, ts |-> ts, clean |-> TRUE, known |-> TRUE, labelled |-> TRUE,
     measured |-> TRUE]
MCPortPieces ==
    << <<MCPortRow("a", 80, {"http"}, 5), MCPortRow("a", 80, {"http"}, 1)>>,
       <<MCPortRow("b", 80, {}, 5), MCPortRow("b", 80, {"http"}, 6)>>,
       <<MCPortRow("c", 80, {}, 5), MCPortRow("c", 80, {}, 5), MCPortRow("b", 80, {"http"}, 2)>>,
       <<MCPortRow("d", 80, {}, 7), MCPortRow("d", 80, {"http"}, 7)>>,
       <<MCPortRow("a", 25, {"http"}, 3), MCPortRow("a", 25, {"http"}, 4)>>,
       <<MCPortRow("b", 25, {"http"}, 12), MCPortRow("b", 25, {"http", "tls"}, 4), MCPortRow("b", 25, {"http"}, 13)>>,
       <<MCPortRow("a", 8080, {"http"}, 3), MCPortRow("a", 25, {"tls", "smtp"}, 3), MCPortRow("a", 80, {"tls"}, 4)>>,
       <<[MCPortRow("c", 25, {"http"}, 3) EXCEPT !.inverted = TRUE, !.origPort = 80],
         [MCPortRow("c", 25, {"http"}, 3) EXCEPT !.inverted = TRUE, !.origPort = 0]>>,
       <<[MCPortRow("d", 80, {"http"}, 1) EXCEPT !.labelled = FALSE, !.measured = FALSE],
         [MCPortRow("d", 80, {}, 1) EXCEPT !.known = FALSE], MCPortRow("d", 99, {"odd"}, 2),
         [MCPortRow("e", 80, {}, 9) EXCEPT !.removed = {"http"}]>> >>
MCPortLogs ==
    {FlattenSeq([k \in DOMAIN MCPortPieces |-> IF k \in there THEN MCPortPieces[k] ELSE <<>>]) :
        there \in SUBSET DOMAIN MCPortPieces}
MCRegistered == [l \in {"http", "tls", "smtp", "odd"} |->
                   CASE l = "http" -> {80} [] l = "tls" -> {443} [] l = "smtp" -> {25} [] OTHER -> {}]
MCConventional == [MCRegistered EXCEPT !["http"] = {8080}, !["tls"] = {}, !["smtp"] = {}]
MCCarriers == [MCRegistered EXCEPT !["http"] = {}, !["tls"] = {"smtp"}, !["smtp"] = {}]
-----------------------------------------------------------------------------
(* The setups of an authority and the entities of a port count every row   *)
(* and tell each of their own once (ssl.py, protocol.py). *)
EntitiesAreAccounted == SetupsAreMeasured /\ PortsAreAccounted
=============================================================================
