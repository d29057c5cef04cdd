---------------------------- MODULE PrivateFiles ----------------------------
(***************************************************************************)
(* How sigwood writes (common/paths.py): a target is named, its directory  *)
(* made, and the file replaced whole, streamed in place, or opened as a    *)
(* lock, by processes that work in one directory while it is emptied,      *)
(* removed and made again.                                                 *)
(*                                                                         *)
(* Names are numbers: Report, its suffixes up to LastName, Lock, OtherName *)
(* of a hard link, and from Temporary on one name for each process and     *)
(* try.  A file's value is who wrote it and how many of its Chunks.        *)
(***************************************************************************)
EXTENDS Integers, Sequences, FiniteSets

CONSTANTS
    FileScenes,     \* what is asked, and the directory it is asked in
    Chunks          \* parts of a value, each its own write

VARIABLES
    desk,       \* what is asked and how the directory is at first
    folder,     \* the directory that has the name now, or 0
    dirs, inodes,
    hands,      \* each process
    chance      \* what may still happen to it

fileVars == <<desk, folder, dirs, inodes, hands, chance>>

Report == 0
LastName == 2
OtherName == 3
Lock == 4
Temporary(w, try) == 10 * w + try
ReportNames == Report..LastName
Hands == DOMAIN hands
Over == {"done", "gone", "failed", "refused", "died", "beside"}
Blocking == {"link", "fifo"}
(* Who wrote a file: a process, several of them, or one from before.       *)
Several == 0
Before == -1

Modes == {"none", "umask", "theirs", "0600", "0640", "0644", "0700"}
Jobs == [how : {"replace", "stream", "lock"}, private : BOOLEAN, mode : Modes,
         asked : {"leaf", "slash", "bare"}]
Leaves == {"missing", "empty", "file", "twice", "link", "fifo", "swapped"}
ASSUME ChunksAssumption == Chunks \in Nat \ {0}
ASSUME SceneAssumption ==
    \A s \in FileScenes :
        /\ s.jobs \in Seq(Jobs) /\ s.leaf \in Leaves /\ s.locked \in BOOLEAN
        /\ s.removals \in Nat /\ s.faults \in Nat /\ s.deaths \in Nat
-----------------------------------------------------------------------------
(* Whether others may change what a directory holds. *)
Trusted(d) ==
    /\ d.owner \in {"me", "root"}
    /\ d.writers = {} \/ d.sticky \/ (d.writers = {"group"} /\ d.group = "mine alone")
Followed(link) == Trusted(link.in) /\ link.owner \in {"me", "root"} /\ Trusted(link.to)

Job(w) == desk.jobs[w]
Live(d) == d # 0 /\ dirs[d].live
Lookup(d, name) == IF Live(d) /\ name \in DOMAIN dirs[d].at THEN dirs[d].at[name] ELSE 0
KindAt(d, name) == IF Lookup(d, name) = 0 THEN "none" ELSE inodes[Lookup(d, name)].kind
Entered(d, name, f) == [dirs EXCEPT ![d].at = [n \in DOMAIN @ \cup {name} |-> IF n = name THEN f ELSE @[n]]]
Without(at, names) == [n \in DOMAIN at \ names |-> at[n]]
FreshFile(w) == [kind |-> "file", by |-> w, n |-> 0,
                 mode |-> IF Job(w).private THEN "0600" ELSE "umask"]
NoNames == [n \in {} |-> 0]
FreshDir(mode) == [live |-> TRUE, mode |-> mode, at |-> NoNames]
Stands(w, step) == hands[w].step = step
Go(w, step) == hands' = [hands EXCEPT ![w].step = step]
Mine(w) == Temporary(w, hands[w].try)
(* A lost parent is looked up once more. *)
Retried(w) == IF hands[w].try = 0 THEN [hands EXCEPT ![w].try = 1, ![w].step = "walk"]
              ELSE [hands EXCEPT ![w].step = "gone"]
-----------------------------------------------------------------------------
(* A file verdict is exact, a directory's name is the first that is free   *)
(* (LastName bounds how many there are).                                   *)
NameTarget(w) ==
    /\ Stands(w, "resolve")
    /\ LET job == Job(w)
           intoFolder == job.asked = "slash" \/ (job.asked = "bare" /\ folder # 0)
           free == {n \in ReportNames : Lookup(folder, n) = 0}
       IN  /\ intoFolder => free # {}
           /\ hands' = [hands EXCEPT
              ![w].step = IF job.asked = "bare" /\ ~ intoFolder THEN "beside" ELSE "mkdir",
              ![w].name = IF job.how = "lock" THEN Lock
                          ELSE IF intoFolder THEN CHOOSE n \in free : \A m \in free : n <= m
                          ELSE Report,
              ![w].saw = IF intoFolder THEN {Lookup(folder, n) : n \in ReportNames} \ {0} ELSE {}]
    /\ UNCHANGED <<desk, folder, dirs, inodes, chance>>

(* private_mkdir: what is there is left as it is, what it makes is tightened. *)
Mkdir(w) ==
    /\ Stands(w, "mkdir") /\ Go(w, IF folder # 0 THEN "walk" ELSE "make")
    /\ UNCHANGED <<desk, folder, dirs, inodes, chance>>
Make(w) ==
    /\ Stands(w, "make")
    /\ IF folder # 0 THEN Go(w, "walk") /\ UNCHANGED <<folder, dirs>>
       ELSE Go(w, "tighten") /\ dirs' = Append(dirs, FreshDir("umask")) /\ folder' = Len(dirs')
    /\ UNCHANGED <<desk, inodes, chance>>
Tighten(w) ==
    /\ Stands(w, "tighten")
    /\ IF folder = 0 THEN Go(w, "gone") /\ UNCHANGED dirs
       ELSE /\ Go(w, "walk")
            /\ dirs' = IF Job(w).private THEN [dirs EXCEPT ![folder].mode = "0700"] ELSE dirs
    /\ UNCHANGED <<desk, folder, inodes, chance>>

(* Every open of a file walks to its directory and holds it. *)
Walk(w) ==
    /\ Stands(w, "walk")
    /\ LET to == [replace |-> "check", stream |-> "open", lock |-> "claim"]
       IN  hands' = IF folder = 0
                    THEN IF Job(w).how = "replace" THEN Retried(w)
                         ELSE [hands EXCEPT ![w].step = "gone"]
                    ELSE IF \E l \in desk.links : ~ Followed(l) THEN [hands EXCEPT ![w].step = "refused"]
                    ELSE [hands EXCEPT ![w].dir = folder, ![w].step = to[Job(w).how]]
    /\ UNCHANGED <<desk, folder, dirs, inodes, chance>>

(* _atomic_replace_once. *)
Check(w) ==
    /\ Stands(w, "check")
    /\ LET h == hands[w]
           f == Lookup(h.dir, h.name)
       IN  hands' = [hands EXCEPT ![w].step = IF KindAt(h.dir, h.name) \in Blocking THEN "refused" ELSE "create",
                                  ![w].existing = IF f = 0 THEN "none" ELSE inodes[f].mode]
    /\ UNCHANGED <<desk, folder, dirs, inodes, chance>>
Create(w) ==
    /\ Stands(w, "create")
    /\ IF Live(hands[w].dir)
       THEN /\ inodes' = Append(inodes, FreshFile(w))
            /\ dirs' = Entered(hands[w].dir, Mine(w), Len(inodes'))
            /\ hands' = [hands EXCEPT ![w].step = "chmod", ![w].fd = Len(inodes')]
       ELSE hands' = Retried(w) /\ UNCHANGED <<inodes, dirs>>
    /\ UNCHANGED <<desk, folder, chance>>
ModeFor(w) ==
    IF Job(w).private THEN "0600"
    ELSE IF Job(w).mode # "none" THEN Job(w).mode
    ELSE IF hands[w].existing # "none" THEN hands[w].existing ELSE "umask"
Chmod(w) ==
    /\ Stands(w, "chmod") /\ Go(w, "write") /\ inodes' = [inodes EXCEPT ![hands[w].fd].mode = ModeFor(w)]
    /\ UNCHANGED <<desk, folder, dirs, chance>>
(* A mutant: what was not put in place is left. *)
LeftBehind(w) == dirs
Cleaned(w) == IF Live(hands[w].dir) THEN [dirs EXCEPT ![hands[w].dir].at = Without(@, {Mine(w)})] ELSE dirs
Chunk(w, next) ==
    LET f == hands[w].fd
        more == inodes[f].n + 1
    IN  /\ inodes' = [inodes EXCEPT ![f].n = more, ![f].by = IF @ = w THEN w ELSE Several]
        /\ Go(w, IF more >= Chunks THEN next ELSE hands[w].step)
WriteAll(w) ==
    /\ Stands(w, "write") /\ Chunk(w, "recheck")
    /\ UNCHANGED <<desk, folder, dirs, chance>>
Recheck(w) ==
    /\ Stands(w, "recheck")
    /\ IF KindAt(hands[w].dir, hands[w].name) \in Blocking
       THEN Go(w, "refused") /\ dirs' = Cleaned(w)
       ELSE Go(w, "rename") /\ UNCHANGED dirs
    /\ UNCHANGED <<desk, folder, inodes, chance>>
Rename(w) ==
    /\ Stands(w, "rename")
    /\ LET h == hands[w] IN
       IF Lookup(h.dir, Mine(w)) = 0 THEN hands' = Retried(w) /\ dirs' = Cleaned(w)
       ELSE /\ Go(w, "done")
            /\ dirs' = [Entered(h.dir, h.name, h.fd) EXCEPT ![h.dir].at = Without(@, {Mine(w)})]
    /\ UNCHANGED <<desk, folder, inodes, chance>>

(* private_open: a stream is opened in place, and emptied by it. *)
Open(w) ==
    /\ Stands(w, "open")
    /\ LET h == hands[w]
           f == Lookup(h.dir, h.name)
       IN  \/ ~ Live(h.dir) /\ hands' = Retried(w) /\ UNCHANGED <<inodes, dirs>>
           \/ KindAt(h.dir, h.name) \in Blocking /\ Go(w, "refused") /\ UNCHANGED <<inodes, dirs>>
           \/ /\ Live(h.dir) /\ f = 0
              /\ inodes' = Append(inodes, FreshFile(w)) /\ dirs' = Entered(h.dir, h.name, Len(inodes'))
              /\ hands' = [hands EXCEPT ![w].step = "own", ![w].fd = Len(inodes')]
           \/ /\ f # 0 /\ KindAt(h.dir, h.name) \notin Blocking
              /\ inodes' = [inodes EXCEPT ![f].by = w, ![f].n = 0] /\ UNCHANGED dirs
              /\ hands' = [hands EXCEPT ![w].step = "own", ![w].fd = f]
    /\ UNCHANGED <<desk, folder, chance>>
Own(w) ==
    /\ Stands(w, "own") /\ Go(w, "emit")
    /\ inodes' = IF Job(w).private THEN [inodes EXCEPT ![hands[w].fd].mode = "0600"] ELSE inodes
    /\ UNCHANGED <<desk, folder, dirs, chance>>
EmitNext(w) == Stands(w, "emit") /\ Chunk(w, "done") /\ UNCHANGED <<desk, folder, dirs, chance>>

(* private_open_lock: one inode for all, and only a new one is tightened. *)
Claim(w) ==
    /\ Stands(w, "claim")
    /\ LET h == hands[w] IN
       \/ ~ Live(h.dir) /\ hands' = Retried(w) /\ UNCHANGED <<inodes, dirs>>
       \/ /\ Lookup(h.dir, Lock) # 0 /\ UNCHANGED <<inodes, dirs>>
          /\ hands' = [hands EXCEPT ![w].step = "rewalk", ![w].try = 0]
       \/ /\ Live(h.dir) /\ Lookup(h.dir, Lock) = 0
          /\ inodes' = Append(inodes, [FreshFile(w) EXCEPT !.mode = "0600"])
          /\ dirs' = Entered(h.dir, Lock, Len(inodes'))
          /\ hands' = [hands EXCEPT ![w].step = "queue", ![w].fd = Len(inodes')]
    /\ UNCHANGED <<desk, folder, chance>>
Rewalk(w) ==
    /\ Stands(w, "rewalk")
    /\ hands' = IF folder = 0 THEN [hands EXCEPT ![w].step = "gone"]
                ELSE [hands EXCEPT ![w].dir = folder, ![w].step = "reopen"]
    /\ UNCHANGED <<desk, folder, dirs, inodes, chance>>
Reopen(w) ==
    /\ Stands(w, "reopen")
    /\ LET f == Lookup(hands[w].dir, Lock)
           again == hands[w].try = 0
       IN  hands' = IF f # 0 THEN [hands EXCEPT ![w].step = "queue", ![w].fd = f]
                    ELSE IF again THEN [hands EXCEPT ![w].step = "rewalk", ![w].try = 1]
                    ELSE [hands EXCEPT ![w].step = "gone"]
    /\ UNCHANGED <<desk, folder, dirs, inodes, chance>>
Acquire(w) ==
    /\ Stands(w, "queue") /\ \A v \in Hands : Stands(v, "hold") => hands[v].fd # hands[w].fd
    /\ Go(w, "hold") /\ UNCHANGED <<desk, folder, dirs, inodes, chance>>
Release(w) == Stands(w, "hold") /\ Go(w, "done") /\ UNCHANGED <<desk, folder, dirs, inodes, chance>>

(* A full disk stops a writer, a kill stops a process anywhere. *)
Fault(w) ==
    /\ chance.faults > 0 /\ hands[w].step \in {"write", "emit"}
    /\ chance' = [chance EXCEPT !.faults = @ - 1]
    /\ Go(w, "failed") /\ dirs' = IF Stands(w, "write") THEN Cleaned(w) ELSE dirs
    /\ UNCHANGED <<desk, folder, inodes>>
Killed(w) ==
    /\ chance.deaths > 0 /\ hands[w].step \notin Over \cup {"resolve"}
    /\ chance' = [chance EXCEPT !.deaths = @ - 1]
    /\ Go(w, "died") /\ UNCHANGED <<desk, folder, dirs, inodes>>
(* Another process empties the directory, removes it and makes it again. *)
EmptyFolder ==
    /\ chance.removals > 0 /\ Live(folder) /\ DOMAIN dirs[folder].at # {}
    /\ dirs' = [dirs EXCEPT ![folder].at = NoNames] /\ chance' = [chance EXCEPT !.touched = TRUE]
    /\ UNCHANGED <<desk, folder, inodes, hands>>
RemoveFolder ==
    /\ chance.removals > 0 /\ Live(folder) /\ DOMAIN dirs[folder].at = {}
    /\ dirs' = [dirs EXCEPT ![folder].live = FALSE] /\ folder' = 0
    /\ chance' = [chance EXCEPT !.removals = @ - 1, !.touched = TRUE]
    /\ UNCHANGED <<desk, inodes, hands>>
Remake ==
    /\ chance.touched /\ folder = 0
    /\ dirs' = Append(dirs, FreshDir("theirs")) /\ folder' = Len(dirs')
    /\ UNCHANGED <<desk, inodes, hands, chance>>
(* Another process puts a link in the report's place. *)
Relink ==
    /\ desk.leaf = "swapped" /\ ~ chance.touched /\ Live(folder)
    /\ dirs' = Entered(folder, Report, 2) /\ chance' = [chance EXCEPT !.touched = TRUE]
    /\ UNCHANGED <<desk, folder, inodes, hands>>
Written == (\A w \in Hands : hands[w].step \in Over) /\ UNCHANGED fileVars

(* The first file has one name, or two; the second is what stands in its   *)
(* place, or a lock from before.                                           *)
FirstNames(leaf) ==
    (IF leaf \in {"file", "swapped", "twice"} THEN {Report} ELSE {})
    \cup IF leaf \in {"twice", "link"} THEN {OtherName} ELSE {}
SecondNames(leaf, locked) ==
    (IF leaf \in Blocking THEN {Report} ELSE {}) \cup IF locked THEN {Lock} ELSE {}
FirstListing(leaf, locked) ==
    [n \in FirstNames(leaf) \cup SecondNames(leaf, locked) |-> IF n \in FirstNames(leaf) THEN 1 ELSE 2]
Old(kind) == [kind |-> kind, by |-> Before, n |-> Chunks, mode |-> "0644"]
SecondFile == Old(IF desk.leaf \in Blocking THEN desk.leaf
                  ELSE IF desk.leaf = "swapped" THEN "link" ELSE "file")
FilesInit ==
    /\ desk \in FileScenes
    /\ inodes = <<Old("file"), SecondFile>>
    /\ dirs = IF desk.leaf = "missing" THEN <<>>
              ELSE <<[FreshDir("theirs") EXCEPT !.at = FirstListing(desk.leaf, desk.locked)]>>
    /\ folder = Len(dirs)
    /\ hands = [w \in DOMAIN desk.jobs |->
                  [step |-> "resolve", name |-> Report, dir |-> 0, fd |-> 0, existing |-> "none",
                   try |-> 0, saw |-> {}]]
    /\ chance = [removals |-> desk.removals, faults |-> desk.faults, deaths |-> desk.deaths,
                 touched |-> FALSE]
FilesNext ==
    \/ \E w \in Hands :
          \/ NameTarget(w) \/ Mkdir(w) \/ Make(w) \/ Tighten(w) \/ Walk(w)
          \/ Check(w) \/ Create(w) \/ Chmod(w) \/ WriteAll(w) \/ Recheck(w) \/ Rename(w)
          \/ Open(w) \/ Own(w) \/ EmitNext(w)
          \/ Claim(w) \/ Rewalk(w) \/ Reopen(w) \/ Acquire(w) \/ Release(w)
          \/ Fault(w) \/ Killed(w)
    \/ EmptyFolder \/ RemoveFolder \/ Remake \/ Relink \/ Written
FilesSpec == FilesInit /\ [][FilesNext]_fileVars
-----------------------------------------------------------------------------
Streams == {w \in Hands : Job(w).how = "stream"}
Leftovers(w) ==
    UNION {DOMAIN dirs[d].at \cap {Temporary(w, 0), Temporary(w, 1)} : d \in {x \in DOMAIN dirs : Live(x)}}

(* A write is whole or not there (paths.py): whoever replaces inodes never  *)
(* shows a part of one, changes no file that was there under any of its    *)
(* names, and gives the new one the mode of the policy; one that ends      *)
(* otherwise has put nothing in place and left nothing, and one that is    *)
(* killed left at most one temporary.  A stream may only spoil the file it *)
(* opened, never one its automatic name has avoided.  A lock that was      *)
(* there keeps its value and mode, and two processes hold it only if it    *)
(* was removed in between.  Directories that were there keep their mode,   *)
(* and none is missed that nobody removed.                                 *)
WritesAreWhole ==
    hands # <<>> =>
        /\ Streams = {} =>
              /\ \A d \in DOMAIN dirs : \A n \in ReportNames : Lookup(d, n) # 0 => inodes[Lookup(d, n)].n = Chunks
              /\ inodes[1] = Old("file")
              /\ \A w \in Hands : Stands(w, "done") /\ Job(w).how = "replace" =>
                    inodes[hands[w].fd] = [kind |-> "file", by |-> w, n |-> Chunks, mode |-> ModeFor(w)]
        /\ inodes[2] = SecondFile
        /\ \A w \in Hands :
              /\ hands[w].step \in Over \ {"died"} => Leftovers(w) = {}
              /\ Cardinality(Leftovers(w)) <= 1
              /\ \A f \in hands[w].saw : inodes[f].by # w
              /\ Stands(w, "gone") => chance.touched
              /\ Job(w).how = "replace" /\ ~ Stands(w, "done") =>
                    \A d \in DOMAIN dirs : \A n \in ReportNames : Lookup(d, n) # 0 => inodes[Lookup(d, n)].by # w
        /\ \A v, w \in Hands : v # w /\ Stands(v, "hold") /\ Stands(w, "hold") =>
              hands[v].fd # hands[w].fd /\ chance.touched
        /\ desk.leaf # "missing" => dirs[1].mode = "theirs"
-----------------------------------------------------------------------------
(* Why it holds.                                                           *)
Listings == UNION {[S -> Nat \ {0}] : S \in SUBSET Nat}
Directory == [live : BOOLEAN, mode : Modes, at : Listings]
Inode == [kind : {"file", "link", "fifo"}, by : Int, n : Nat, mode : Modes]
Ahead == {"resolve", "mkdir", "make", "tighten"}
Filling == {"chmod", "write", "recheck", "rename"}
Replacing == {"check", "create"} \cup Filling
Streaming == {"open", "own", "emit"}
Locking == {"claim", "rewalk", "reopen", "queue", "hold"}
StepsOf(how) ==
    Ahead \cup Over \cup {"walk"}
    \cup (IF how = "replace" THEN Replacing ELSE {})
    \cup (IF how = "stream" THEN Streaming ELSE {})
    \cup (IF how = "lock" THEN Locking ELSE {})
Steps == Ahead \cup Over \cup {"walk"} \cup Replacing \cup Streaming \cup Locking
Hand == [step : Steps, name : Nat, dir : Nat, fd : Nat, existing : Modes, try : {0, 1}, saw : SUBSET Nat]

FilesTypeOK ==
    /\ desk \in FileScenes /\ dirs \in Seq(Directory) /\ inodes \in Seq(Inode)
    /\ hands \in [DOMAIN desk.jobs -> Hand] /\ folder \in 0..Len(dirs)
    /\ chance \in [removals : Nat, faults : Nat, deaths : Nat, touched : BOOLEAN]

(* Only the directory that has the name lists anything.                    *)
Listing == IF folder = 0 THEN NoNames ELSE dirs[folder].at
DirAccount ==
    /\ \A d \in DOMAIN dirs : (dirs[d].live <=> d = folder) /\ (d # folder => DOMAIN dirs[d].at = {})
    /\ Len(inodes) >= 2 /\ \A n \in DOMAIN Listing : Listing[n] \in DOMAIN inodes
    /\ desk.leaf # "missing" =>
          Len(dirs) >= 1 /\ dirs[1].mode = "theirs" /\ \A w \in Hands : Stands(w, "tighten") => folder # 1

(* What each process is at, with what.                                     *)
HandAccount ==
    \A w \in Hands :
        /\ hands[w].step \in StepsOf(Job(w).how) /\ hands[w].dir \in 0..Len(dirs)
        /\ hands[w].step # "resolve" =>
              IF Job(w).how = "lock" THEN hands[w].name = Lock ELSE hands[w].name \in ReportNames
        /\ hands[w].step \in Replacing \cup {"open", "claim", "reopen"} => hands[w].dir # 0

(* A temporary is its process's, and has what was written so far.          *)
Writers == Streams \cup {Several}
Finished == {w \in Hands : Job(w).how = "replace" /\ Stands(w, "done")}
FillAccount ==
    /\ \A w \in Hands :
          hands[w].step \in Filling =>
              LET f == inodes[hands[w].fd] IN
              /\ hands[w].fd \in 3..Len(inodes) /\ f.kind = "file" /\ f.by = w
              /\ Stands(w, "chmod") => f.n = 0
              /\ ~ Stands(w, "chmod") => f.mode = ModeFor(w)
              /\ Stands(w, "write") => f.n < Chunks
              /\ hands[w].step \in {"recheck", "rename"} => f.n = Chunks
    /\ \A w \in Hands : hands[w].step \in {"own", "emit"} =>
          /\ hands[w].fd \in DOMAIN inodes \ {2}
          /\ inodes[hands[w].fd].by \in Writers /\ inodes[hands[w].fd].kind = "file"
    /\ \A w \in Hands : \A t \in {0, 1} :
          Temporary(w, t) \in DOMAIN Listing =>
              /\ hands[w].try = t /\ hands[w].dir = folder /\ Job(w).how = "replace"
              /\ hands[w].step \in Filling \cup {"died"}
              /\ Listing[Temporary(w, t)] = hands[w].fd

(* A report is a file from before, a stream or a whole replacement.        *)
ReportAccount ==
    /\ \A n \in ReportNames \cap DOMAIN Listing :
          LET f == Listing[n] IN
          \/ f = 1
          \/ f = 2 /\ inodes[2].kind \in Blocking
          \/ f > 2 /\ inodes[f].by \in Writers \cup Finished
    /\ inodes[1].by \in Writers \cup {Before} /\ inodes[1].kind = "file"
    /\ inodes[2] = SecondFile
    /\ Streams = {} =>
          /\ \A n \in ReportNames \cap DOMAIN Listing : inodes[Listing[n]].n = Chunks
          /\ inodes[1] = Old("file")
          /\ \A w \in Finished :
                /\ hands[w].fd \in DOMAIN inodes
                /\ inodes[hands[w].fd] = [kind |-> "file", by |-> w, n |-> Chunks, mode |-> ModeFor(w)]

(* What an automatic name has avoided.                                     *)
AvoidAccount ==
    \A w \in Hands :
        /\ hands[w].saw \subseteq DOMAIN inodes
        /\ \A f \in hands[w].saw : inodes[f].by # w
        /\ Stands(w, "resolve") => \A f \in DOMAIN inodes : inodes[f].by # w
        /\ \A v \in Hands : hands[v].step \in Filling => hands[v].fd \notin hands[w].saw
        /\ Job(w).how = "stream" /\ hands[w].name \in DOMAIN Listing =>
              \/ Listing[hands[w].name] \notin hands[w].saw \/ Stands(w, "resolve")
              \/ inodes[Listing[hands[w].name]].kind \in Blocking

(* Nothing is missed that nobody took away, and one lock excludes.         *)
NothingLost ==
    /\ ~ chance.touched =>
          \A w \in Hands :
              /\ hands[w].step \notin {"resolve", "mkdir", "make"} \cup Over => folder # 0
              /\ hands[w].step \in Replacing \cup {"open", "claim", "reopen"} =>
                    hands[w].dir = folder
              /\ hands[w].step \in Filling => Mine(w) \in DOMAIN Listing
              /\ hands[w].step \in {"rewalk", "reopen"} => Lock \in DOMAIN Listing
              /\ hands[w].step \in {"queue", "hold"} =>
                    Lock \in DOMAIN Listing /\ Listing[Lock] = hands[w].fd
              /\ ~ Stands(w, "gone")
    /\ \A v, w \in Hands : v # w /\ Stands(v, "hold") /\ Stands(w, "hold") => hands[v].fd # hands[w].fd
    /\ desk.leaf = "swapped" /\ ~ chance.touched => 2 \notin {Listing[n] : n \in ReportNames \cap DOMAIN Listing}

FilesInv ==
    /\ FilesTypeOK /\ DirAccount /\ HandAccount /\ FillAccount /\ ReportAccount
    /\ AvoidAccount /\ NothingLost

=============================================================================
