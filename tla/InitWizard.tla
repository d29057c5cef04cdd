----------------------------- MODULE InitWizard -----------------------------
(***************************************************************************)
(* sigwood init: find a configuration, ask, show a summary, and on accept  *)
(* back up and write (cli_init.py).  Another process may edit a            *)
(* configuration at any point, and the wizard may be killed once it        *)
(* writes.                                                                 *)
(*                                                                         *)
(* A file is the managed keys of its [sigwood] table and the version of    *)
(* everything else in it.  A key is Unset without an active line; "" is    *)
(* the explicit empty value.  Paths are named for where they come from.    *)
(***************************************************************************)
EXTENDS Integers, FiniteSets

CONSTANTS
    Scenes      \* [configs, found, journal, writable, dropins, edits]: the files
                \* of the homes, the sources that would be detected, whether the
                \* journal answers, and the homes somebody else edits; then the
                \* user answers with Enter only, which bounds the model

Homes == {"user", "system", "custom"}
Dirs == {"zeek_dir", "pihole_dir", "cloudtrail_dir"}
Keys == Dirs \cup {"syslog_source", "syslog_dir", "root"}
Unset == "unset"
Example == 9                            \* the version of the shipped example

NoFile == [version |-> -1, lines |-> [k \in Keys |-> Unset], detect |-> "unset", skips |-> {}]
(* What a run uses for a key without an active line. *)
Shipped(k) == IF k \in {"zeek_dir", "syslog_dir", "root"} THEN "default"
              ELSE IF k = "syslog_source" THEN "auto" ELSE ""
ExampleFile == [version |-> Example, detect |-> "default", skips |-> {},
                lines |-> [k \in Keys |-> IF Shipped(k) = "" THEN Unset ELSE Shipped(k)]]

(* _DEFAULT_HUNT_SLOTS, one detector for each set of slots. *)
Slots == [aws |-> {"cloudtrail_dir"}, exfil |-> {"zeek_dir"},
          dns |-> {"zeek_dir", "pihole_dir"}, syslog |-> {"zeek_dir", "syslog_source"}]

(* Drop-ins: one that is seeded, one more of the reserved names, one other. *)
Seeds == {"domains"}
Claimed == {"domains", "domains_work"}
Dropins == Claimed \cup {"notes"}

(* A configuration of a home is a file or none; a home has all its parts.  *)
IsFile(f) == /\ DOMAIN f = {"version", "lines", "detect", "skips"} /\ f.version \in Nat
             /\ DOMAIN f.lines = Keys
ASSUME WizardAssumption ==
    \A s \in Scenes : /\ DOMAIN s.configs = Homes /\ DOMAIN s.dropins = Dropins
                      /\ \A h \in Homes : s.configs[h] = NoFile \/ IsFile(s.configs[h])

VARIABLES
    scene, wizard,  \* wizard: where the dialogue is
    flow, scope,    \* "none", "merge", "reset", "fresh"; "config", "allowlist", "both"
    home,           \* where the configuration is or will be
    existing,       \* the file as read at entry
    seen,           \* the file as read for the backup
    answers, skips, \* the action of each key; the action on detect
    configs, backups, dropins,
    edited          \* history: [home, when] of the other process's edit

wizardVars == <<scene, wizard, flow, scope, home, existing, seen, answers, skips,
                configs, backups, dropins, edited>>
diskVars == <<configs, backups, dropins>>

-----------------------------------------------------------------------------
(* The answers to each question. *)
SetTo(value) == [kind |-> "set", value |-> value]
Drop == [kind |-> "remove", value |-> ""]
Skip == [kind |-> "skip", value |-> ""]
Untouched == [kind |-> "none", value |-> {}]

Present(k) == existing.lines[k] # Unset
HasValue(k) == existing.lines[k] \notin {Unset, ""}
Raw(k) == existing.lines[k]

SourceAnswers(k) ==
    IF HasValue(k) THEN {SetTo(Raw(k)), SetTo("typed"), Drop}
    ELSE {SetTo("typed"), Skip} \cup IF k \in scene.found THEN {SetTo("found")} ELSE {}

StatedMode == IF Present("syslog_source") THEN Raw("syslog_source")
                  ELSE IF Raw("syslog_dir") = "" THEN "off" ELSE "auto"
PreserveDir == IF Present("syslog_dir") THEN SetTo(Raw("syslog_dir")) ELSE Drop
FoundDir == IF "syslog_dir" \in scene.found THEN SetTo("found") ELSE SetTo("")

(* Mode and file fallback are answered together: Enter, [a], [j], [f], a   *)
(* path or off; [f] without a directory asks for one. *)
EnterLogs ==
    IF flow # "fresh" THEN <<SetTo(StatedMode), PreserveDir>>
    ELSE IF scene.journal THEN <<SetTo("auto"), FoundDir>>
    ELSE IF FoundDir = SetTo("found") THEN <<SetTo("files"), FoundDir>>
    ELSE <<SetTo("off"), SetTo("")>>
AutoLogs == <<SetTo("auto"), IF flow = "fresh" THEN FoundDir
                           ELSE IF Present("syslog_dir") THEN PreserveDir ELSE SetTo("")>>
JournalLogs == <<SetTo("journal"), IF flow = "fresh" THEN SetTo("") ELSE PreserveDir>>
FilesLogs == LET dir == IF flow = "fresh" THEN FoundDir ELSE PreserveDir
             IN  IF dir = SetTo("") THEN {} ELSE {<<SetTo("files"), dir>>}
LogAnswers == {EnterLogs, AutoLogs, JournalLogs} \cup FilesLogs
              \cup {<<SetTo("files"), SetTo("typed")>>, <<SetTo("off"), SetTo("")>>}

RootAnswers == IF Present("root") THEN {SetTo(Raw("root")), SetTo("typed"), Drop}
               ELSE {SetTo("default"), SetTo("system"), SetTo("typed")}

-----------------------------------------------------------------------------
(* _resolve_row and _resolve_all: what the summary says a key will be.     *)
Shown(actions, k) ==
    IF actions[k].kind = "set" THEN actions[k].value
    ELSE IF actions[k].kind = "remove" THEN IF k \in Dirs THEN "" ELSE Shipped(k)
    ELSE IF flow = "merge" /\ HasValue(k) THEN Raw(k) ELSE ""

(* _apply_action: what is written. *)
Apply(lines, actions) ==
    [k \in Keys |->
        IF actions[k].kind = "set" THEN actions[k].value
        ELSE IF actions[k].kind = "remove" THEN Unset
        ELSE IF flow = "merge" \/ lines[k] = Unset THEN lines[k] ELSE ""]

(* What the next run makes of a file. *)
Effective(file, k) == IF file.lines[k] = Unset THEN Shipped(k) ELSE file.lines[k]

(* The default hunt leaves out what has nothing to read, if the user says  *)
(* so; in a merge what has something to read again is taken back.  A       *)
(* selection of the user's own is left alone.                              *)
Fed(actions, d) == \E k \in Slots[d] :
    IF k = "syslog_source" THEN Shown(actions, k) # "off" ELSE Shown(actions, k) # ""
SkipAnswers(actions) ==
    LET kept == IF flow = "merge" THEN existing.skips ELSE {}
        additions == {d \in DOMAIN Slots : ~ Fed(actions, d)} \ kept
        lifts == IF flow = "merge" THEN {d \in kept \cap DOMAIN Slots : Fed(actions, d)} ELSE {}
        changes == {c \in {additions, lifts, additions \cup lifts} : c # {}}
        Written(c) == [kind |-> "set", value |-> (kept \cup (c \cap additions)) \ (c \cap lifts)]
    IN  IF flow = "merge" /\ existing.detect = "custom" THEN {Untouched}
        ELSE {Untouched} \cup {Written(c) : c \in changes}

-----------------------------------------------------------------------------
Exists(h) == configs[h] # NoFile
Discovered == IF Exists("user") THEN "user" ELSE IF Exists("system") THEN "system" ELSE "none"
NoAnswers == [k \in Keys |-> Skip]
Goto(step) == wizard' = step

Discover ==
    /\ wizard = "start"
    /\ home' = Discovered
    /\ IF Discovered = "none"
       THEN /\ Goto("asking") /\ flow' = "fresh" /\ UNCHANGED <<existing, seen>>
       ELSE /\ Goto("entry") /\ existing' = configs[Discovered] /\ seen' = configs[Discovered]
            /\ UNCHANGED flow
    /\ UNCHANGED <<scene, scope, answers, skips, diskVars, edited>>

EnterMerge ==
    /\ wizard = "entry" /\ flow' = "merge" /\ Goto("asking")
    /\ UNCHANGED <<scene, scope, home, existing, seen, answers, skips, diskVars, edited>>

(* A reset is typed out; both places are tried before anything is asked.   *)
EnterReset ==
    /\ wizard = "entry" /\ flow' = "reset"
    /\ scope' \in {"config", "allowlist", "both"}
    /\ Goto(IF home \notin scene.writable THEN "refused"
            ELSE IF scope' = "allowlist" THEN "clearing" ELSE "asking")
    /\ UNCHANGED <<scene, home, existing, seen, answers, skips, diskVars, edited>>

Enter(k) == IF k = "root" THEN IF Present(k) THEN SetTo(Raw(k)) ELSE SetTo("default")
            ELSE IF HasValue(k) THEN SetTo(Raw(k))
            ELSE IF k \in scene.found THEN SetTo("found") ELSE Skip
AnswersTo(k) == IF scene.edits # {} THEN {Enter(k)}
              ELSE IF k = "root" THEN RootAnswers ELSE SourceAnswers(k)
Collect ==
    /\ wizard = "asking"
    /\ \E zeek \in AnswersTo("zeek_dir"), pihole \in AnswersTo("pihole_dir"),
          trail \in AnswersTo("cloudtrail_dir"), root \in AnswersTo("root"),
          logs \in IF scene.edits # {} THEN {EnterLogs} ELSE LogAnswers :
          /\ answers' = [zeek_dir |-> zeek, pihole_dir |-> pihole, cloudtrail_dir |-> trail,
                         syslog_source |-> logs[1], syslog_dir |-> logs[2],
                         root |-> IF flow = "fresh" THEN Skip ELSE root]
          /\ skips' \in SkipAnswers(answers')
    /\ Goto(IF flow = "fresh" THEN "placing" ELSE "summary")
    /\ UNCHANGED <<scene, flow, scope, home, existing, seen, diskVars, edited>>

(* The place of a fresh install is its root.  A home that is shadowed or   *)
(* not writable is asked for again; one with a configuration of its own    *)
(* starts over with it.                                                    *)
Shadowed(h) == h = "system" /\ Exists("user")
Place(h) ==
    /\ wizard = "placing"
    /\ IF h = "custom" /\ Exists(h)
       THEN /\ Goto("entry") /\ existing' = configs[h] /\ seen' = configs[h]
            /\ answers' = NoAnswers /\ skips' = Untouched /\ flow' = "none"
       ELSE /\ ~ Shadowed(h) /\ h \in scene.writable
            /\ Goto("summary")
            /\ answers' = [answers EXCEPT !["root"] =
                   SetTo([user |-> "default", system |-> "system", custom |-> "typed"][h])]
            /\ UNCHANGED <<existing, seen, skips, flow>>
    /\ home' = h
    /\ UNCHANGED <<scene, scope, diskVars, edited>>

(* Only a merge works on the file as it was before the questions.          *)
Accept ==
    /\ wizard = "summary" /\ Goto("backing")
    /\ seen' = IF flow = "merge" THEN seen ELSE configs[home]
    /\ UNCHANGED <<scene, flow, scope, home, existing, answers, skips, diskVars, edited>>

Redo ==
    /\ wizard = "summary" /\ Goto("asking")
    /\ answers' = NoAnswers /\ skips' = Untouched
    /\ UNCHANGED <<scene, flow, scope, home, existing, seen, diskVars, edited>>

(* Abort, another answer where "reset" was to be typed, the end of input.  *)
GiveUp ==
    /\ wizard \in {"entry", "asking", "placing", "summary"} /\ Goto("aborted")
    /\ UNCHANGED <<scene, flow, scope, home, existing, seen, answers, skips, diskVars, edited>>

Rest == <<scene, flow, scope, home, existing, seen, answers, skips, edited>>
(* A mutant: the backup is made in a merge only. *)
BackupTooLate ==
    /\ wizard = "backing" /\ home \in scene.writable /\ Goto("writing")
    /\ backups' = IF flow = "merge" THEN [backups EXCEPT ![home] = seen] ELSE backups
    /\ UNCHANGED <<Rest, configs, dropins>>

Backup ==
    /\ wizard = "backing" /\ home \in scene.writable /\ Goto("writing")
    /\ backups' = IF seen = NoFile THEN backups ELSE [backups EXCEPT ![home] = seen]
    /\ UNCHANGED <<Rest, configs, dropins>>

Replace ==
    /\ wizard = "writing"
    /\ LET base == IF flow = "merge" THEN seen ELSE ExampleFile
       IN  configs' = [configs EXCEPT ![home] =
               [base EXCEPT !.lines = Apply(base.lines, answers),
                            !.detect = IF skips.kind = "set" THEN "default" ELSE @,
                            !.skips = IF skips.kind = "set" THEN skips.value ELSE @]]
    /\ Goto(IF flow = "fresh" THEN "seeding"
            ELSE IF flow = "reset" /\ scope = "both" THEN "clearing" ELSE "done")
    /\ UNCHANGED <<Rest, backups, dropins>>

(* Drop-ins go one by one, and blank ones come where there is none.        *)
Clear ==
    /\ wizard = "clearing"
    /\ IF \E n \in Claimed : dropins[n] # "none"
       THEN /\ \E n \in Claimed : dropins[n] # "none" /\ dropins' = [dropins EXCEPT ![n] = "none"]
            /\ UNCHANGED wizard
       ELSE Goto("seeding") /\ UNCHANGED dropins
    /\ UNCHANGED <<Rest, configs, backups>>

Seed ==
    /\ wizard = "seeding" /\ Goto("done")
    /\ dropins' = [n \in Dropins |-> IF n \in Seeds /\ dropins[n] = "none" THEN "blank"
                                     ELSE dropins[n]]
    /\ UNCHANGED <<Rest, configs, backups>>

(* A write that fails, or the death of the wizard.  Each file is replaced  *)
(* by a rename.                                                            *)
Stops ==
    /\ wizard \in {"backing", "writing", "clearing", "seeding"} /\ Goto("dead")
    /\ UNCHANGED <<Rest, diskVars>>

Edit(h) ==
    /\ h \in scene.edits /\ edited.home = "none"
    /\ wizard \notin {"done", "dead", "aborted", "refused"}
    /\ configs' = [configs EXCEPT ![h] =
           [(IF Exists(h) THEN configs[h] ELSE ExampleFile) EXCEPT !.version = 1]]
    /\ edited' = [home |-> h, when |-> wizard]
    /\ UNCHANGED <<scene, wizard, flow, scope, home, existing, seen, answers, skips,
                   backups, dropins>>

WizardInit ==
    /\ scene \in Scenes /\ configs = scene.configs /\ dropins = scene.dropins
    /\ backups = [h \in Homes |-> NoFile]
    /\ wizard = "start" /\ flow = "none" /\ scope = "none" /\ home = "none"
    /\ existing = NoFile /\ seen = NoFile /\ answers = NoAnswers /\ skips = Untouched
    /\ edited = [home |-> "none", when |-> "never"]
WizardNext ==
    \/ Discover \/ EnterMerge \/ EnterReset \/ Collect \/ Accept \/ Redo \/ GiveUp
    \/ Backup \/ Replace \/ Clear \/ Seed \/ Stops
    \/ \E h \in Homes : Place(h) \/ Edit(h)
WizardSpec == WizardInit /\ [][WizardNext]_wizardVars

-----------------------------------------------------------------------------
Latest(h) == IF edited.home = h THEN 1 ELSE scene.configs[h].version
LateEdit == /\ edited.home = home
            /\ \/ edited.when \in {"backing", "writing"}
               \/ flow = "merge" /\ edited.when \in {"entry", "asking", "summary"}

(* Whatever happens and wherever the wizard dies, the last version of a    *)
(* configuration is in the file or in its backup, except one that another  *)
(* process wrote while a merge was asking or after the accept.  Nothing    *)
(* changes before the accept, or in another home; a drop-in of the user    *)
(* goes only in a reset of the allowlist, and none that is not reserved.   *)
NothingIsLost ==
    /\ \A h \in Homes : h # edited.home \/ ~ LateEdit =>
          Latest(h) \in {configs[h].version, backups[h].version}
    /\ \A h \in Homes : (h # home \/ wizard \in {"aborted", "refused", "summary"}) =>
          backups[h] = NoFile /\ (edited.home # h => configs[h] = scene.configs[h])
    /\ \A n \in Dropins : scene.dropins[n] = "user" =>
          dropins[n] = "user" \/ (n \in Claimed /\ scope \in {"allowlist", "both"})

(* The summary the user accepts is what the next run sees: the value of    *)
(* every key, in the first configuration that a run finds, unless another  *)
(* process makes one in the user's home after the place was settled.  The  *)
(* one exception is a Zeek directory that a merge leaves without an active *)
(* line, or that is removed: the summary takes it for off and a run for    *)
(* the default.  A detector that the user let the wizard leave out has     *)
(* nothing to read.                                                        *)
SummaryIsTruth ==
    (wizard = "done" /\ scope # "allowlist") =>
        LET file == configs[home]
        IN  /\ \A k \in Keys : Shown(answers, k) = Effective(file, k)
                  \/ /\ k = "zeek_dir" /\ file.lines[k] = Unset
                     /\ flow = "merge" \/ answers[k].kind = "remove"
            /\ skips.kind = "set" => file.skips = skips.value
            /\ \A d \in file.skips \cap DOMAIN Slots : Fed(answers, d) =>
                  flow = "merge" /\ d \in existing.skips
            /\ \/ home \in {"custom", Discovered}
               \/ /\ edited.home = "user" /\ edited.when # "start"
                  /\ flow = "fresh" => edited.when \notin {"asking", "placing"}

(* A source that the summary shows as off is not read by the next run.     *)
OffMeansOff ==
    (wizard = "done" /\ scope # "allowlist") =>
        \A k \in Dirs : Shown(answers, k) = "" => Effective(configs[home], k) = ""

(* cli_init.py: no interruption loses the user's text, and what the wizard
   says it wrote is on the disk. *)
SetupIsHonest == NothingIsLost /\ SummaryIsTruth
=============================================================================
