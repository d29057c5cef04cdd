---------------------------- MODULE MCInitWizard ----------------------------
(***************************************************************************)
(* Scenes for InitWizard: no configuration, one in each home, and in two;  *)
(* with and without each key.  Where somebody edits, one of each kind.     *)
(***************************************************************************)
EXTENDS InitWizard

MCFile(zeek, pihole, source, dir, root, detect, out) ==
    [version |-> 0, detect |-> detect, skips |-> out,
     lines |-> [k \in Keys |-> CASE k = "zeek_dir" -> zeek [] k = "pihole_dir" -> pihole
                                 [] k = "syslog_source" -> source [] k = "syslog_dir" -> dir
                                 [] k = "root" -> root [] OTHER -> Unset]]
MCBare == MCFile(Unset, Unset, Unset, Unset, Unset, "unset", {})
MCFull == MCFile("mine", "mine", "files", "mine", "", "default", {"aws", "ssl"})
MCFiles == {MCBare, MCFull,
            MCFile("", Unset, Unset, "", "mine", "default", {"exfil", "dns"}),
            MCFile("mine", "", Unset, "mine", Unset, "custom", {"dns"}),
            MCFile(Unset, "mine", "journal", Unset, "mine", "default", {})}
MCNone == [h \in Homes |-> NoFile]
MCLists == [n \in Dropins |-> "user"]
MCScene(homes, found, edits, writable) ==
    [configs |-> homes, found |-> found, journal |-> found # {"zeek_dir"},
     writable |-> writable, edits |-> edits,
     dropins |-> IF homes = MCNone THEN [MCLists EXCEPT !["domains"] = "none"] ELSE MCLists]
MCScenes ==
    {MCScene([MCNone EXCEPT !["user"] = f], found, {}, Homes) :
        f \in MCFiles, found \in {{}, {"zeek_dir"}, {"zeek_dir", "syslog_dir"}}}
    \cup {MCScene(MCNone, found, {}, Homes) : found \in {{}, {"zeek_dir", "syslog_dir"}}}
    \cup {MCScene(MCNone, {}, Homes, Homes)}
    \cup {MCScene([MCNone EXCEPT ![h] = MCFull], {}, Homes, Homes) : h \in Homes}
    \cup {MCScene([h \in Homes |-> MCBare], {}, {"user"}, {"custom"}),
          MCScene([MCNone EXCEPT !["custom"] = MCBare], {}, {"system"}, {"custom", "user"})}
=============================================================================
