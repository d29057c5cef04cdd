---------------------------- MODULE MCAllowlist ----------------------------
(***************************************************************************)
(* Two shipped lists, one of them off; a directory with every kind of      *)
(* name, links to shipped lists and one file under two names; rules with   *)
(* and without scope, and one that says nothing.                           *)
(***************************************************************************)
EXTENDS Allowlist

MCShipped == << [name |-> "common", default |-> TRUE, file |-> "f-common", copy |-> "c-common"],
                [name |-> "homelab", default |-> FALSE, file |-> "f-homelab", copy |-> "c-homelab"] >>
MCLinesOf == [f \in {"f-common", "c-common", "f-homelab", "c-homelab", "own", "nets", "boxes",
                     "stanzas", "wide"} |->
                CASE f \in {"f-common", "c-common"} -> {"cdn", "bad"}
                  [] f \in {"f-homelab", "c-homelab"} -> {"lab"}
                  [] f = "own" -> {"ads", "sub"} [] f = "nets" -> {"pair", "web", "junk"}
                  [] f = "boxes" -> {"box", "bad"} [] f = "stanzas" -> {"scoped"} [] OTHER -> {"any"}]
MCLineIds == {"cdn", "bad", "lab", "ads", "sub", "pair", "web", "junk", "box", "scoped", "any"}
MCFormOf == [l \in MCLineIds |-> CASE l = "bad" -> "malformed" [] l \in {"sub", "lab"} -> "fallback"
                                   [] OTHER -> "union"]
MCHits == [l \in MCLineIds |-> CASE l = "cdn" -> {"cdn", "x.cdn"} [] l = "lab" -> {"lab", "web1"}
                                 [] l = "ads" -> {"ads"} [] l = "sub" -> {"x.ads", "x.lab"}
                                 [] l = "box" -> {"web1"} [] OTHER -> {}]
MCRule(ips, ports, scope) == [ips |-> ips, ports |-> ports, protos |-> {}, scope |-> scope]
MCRulesOf == [l \in MCLineIds |->
                CASE l = "pair" -> {MCRule(<<{"a"}, {"b", "c"}>>, {}, {})}
                  [] l = "web" -> {MCRule(<<>>, {443}, {})}
                  [] l = "scoped" -> {MCRule(<<{"c"}>>, {22}, {"beacon"})}
                  [] l = "any" -> {MCRule(<<>>, {}, {})}
                  [] l \in {"ads", "sub", "box", "cdn", "lab"} -> {MCRule(<<{}>>, {}, {})}
                  [] OTHER -> {}]
MCValues == {"Ads", "ads", "cdn", "lab", "db1", "Web1", "web1"}
MCLowerOf == [v \in MCValues |-> CASE v = "Ads" -> "ads" [] v = "Web1" -> "web1" [] OTHER -> v]
MCApexOf == [v \in MCValues |-> CASE v = "ads" -> "x.ads" [] v = "cdn" -> "x.cdn"
                                  [] v = "lab" -> "x.lab" [] OTHER -> "x.other"]
MCName(rank, suffix, head) ==
    [rank |-> rank, hidden |-> FALSE, backup |-> FALSE, suffix |-> suffix, head |-> head]
MCCopyNames == {MCName(7, "", "domain"), MCName(8, "toml", "domain"),
                [MCName(9, "", "domain") EXCEPT !.backup = TRUE]}
MCDropinSets ==
    {{},
     {<<MCName(1, "", "domain"), "own">>, <<MCName(2, "", "numeric"), "nets">>,
      <<MCName(3, "", "host"), "boxes">>, <<MCName(4, "toml", "none"), "stanzas">>},
     {<<MCName(1, "", "domain"), "f-homelab">>, <<MCName(2, "other", "domain"), "own">>,
      <<[MCName(3, "", "host") EXCEPT !.hidden = TRUE], "boxes">>, <<MCName(5, "", "none"), "own">>},
     {<<MCName(1, "", "numeric"), "nets">>, <<MCName(2, "", "host"), "nets">>,
      <<MCName(3, "", "domain"), "own">>, <<MCName(4, "", "domain"), "own">>},
     {<<MCName(1, "", "numeric"), "own">>, <<MCName(2, "", "numeric"), "wide">>}}
MCListings == [master |-> TRUE, shape |-> "absent",
            set |-> [n \in {"common", "homelab"} |-> "unset"], dir |-> TRUE,
            domains |-> <<>>, rules |-> <<>>, entries |-> {}]
MCConfigs ==
    {[MCListings EXCEPT !.shape = s] : s \in {"no file", "absent", "inline"}}
    \cup {[MCListings EXCEPT !.shape = "table", !.set["common"] = "off", !.master = m] : m \in BOOLEAN}
    \cup {[MCListings EXCEPT !.dir = FALSE, !.domains = <<"own", "missing", "f-homelab">>,
                          !.rules = <<"own", "nets">>, !.entries = {MCRule(<<{"a"}>>, {}, {"dns"})}],
          [MCListings EXCEPT !.domains = <<"own", "nets">>, !.rules = <<"boxes", "nets">>]}
MCLook(query) == [query |-> query, src |-> "a", dst |-> "b", port |-> 53, proto |-> "udp",
                  host |-> "none"]
MCTalk(src, dst, port) == [query |-> "none", src |-> src, dst |-> dst, port |-> port,
                           proto |-> "tcp", host |-> "none"]
MCSay(host, src) == [query |-> "none", src |-> src, dst |-> "d", port |-> 514, proto |-> "udp",
                     host |-> host]
MCFrames == << [columns |-> {"query", "src", "port"},
                rows |-> {MCLook("Ads"), MCLook("cdn"), MCLook("lab"), MCLook("db1")}],
               [columns |-> {"src", "port"},
                rows |-> {MCTalk("a", "b", 22), MCTalk("b", "a", 80), MCTalk("b", "c", 443),
                          MCTalk("d", "c", 22)}],
               [columns |-> {"src", "port", "host"}, rows |-> {MCSay("Web1", "a"), MCSay("db1", "c")}],
               [columns |-> {"host"}, rows |-> {MCSay("web1", "a"), MCSay("db1", "a")}] >>
MCSetups == {[config |-> c, directory |-> d, frames |-> MCFrames, off |-> o] :
                c \in MCConfigs, d \in MCDropinSets, o \in BOOLEAN}
=============================================================================
