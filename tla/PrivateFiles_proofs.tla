------------------------ MODULE PrivateFiles_proofs ------------------------
(***************************************************************************)
(* Proofs about PrivateFiles, for any number of processes, any of the      *)
(* three ways to write in any combination, values of any number of parts,  *)
(* and a directory that is removed and made again any number of times.     *)
(* The argument: inodes carry who wrote them, so a temporary is nobody     *)
(* else's (FillAccount) and a report is whole because only finished        *)
(* replacements put one there (ReportAccount).                             *)
(***************************************************************************)
EXTENDS PrivateFiles, FiniteSetTheorems, TLAPS

-----------------------------------------------------------------------------
(* Names *)

LEMMA TemporaryNames ==
    ASSUME NEW v \in Nat \ {0}, NEW w \in Nat \ {0}, NEW t \in {0, 1}, NEW u \in {0, 1}
    PROVE  /\ Temporary(w, t) \in Nat /\ Temporary(w, t) \notin ReportNames
           /\ Temporary(w, t) # Lock
           /\ Temporary(w, t) = Temporary(v, u) => w = v /\ t = u
BY DEF Temporary, ReportNames, Lock, Report, LastName

LEMMA IsListing ==
    ASSUME NEW at
    PROVE  at \in Listings <=>
              /\ at = [n \in DOMAIN at |-> at[n]] /\ DOMAIN at \subseteq Nat
              /\ \A n \in DOMAIN at : at[n] \in Nat \ {0}
<1>1. ASSUME at \in Listings
      PROVE  /\ at = [n \in DOMAIN at |-> at[n]] /\ DOMAIN at \subseteq Nat
             /\ \A n \in DOMAIN at : at[n] \in Nat \ {0}
  <2>1. PICK S \in SUBSET Nat : at \in [S -> Nat \ {0}]
    BY <1>1 DEF Listings
  <2> QED
    BY <2>1
<1>2. ASSUME at = [n \in DOMAIN at |-> at[n]], DOMAIN at \subseteq Nat,
             \A n \in DOMAIN at : at[n] \in Nat \ {0}
      PROVE  at \in Listings
  <2>1. at \in [DOMAIN at -> Nat \ {0}]
    BY <1>2
  <2> QED
    BY <1>2, <2>1 DEF Listings
<1> QED
  BY <1>1, <1>2

LEMMA NoNamesIsListing == NoNames \in Listings /\ DOMAIN NoNames = {}
BY IsListing DEF NoNames

LEMMA EnteredListing ==
    ASSUME NEW at \in Listings, NEW name \in Nat, NEW f \in Nat \ {0}
    PROVE  [n \in DOMAIN at \cup {name} |-> IF n = name THEN f ELSE at[n]] \in Listings
<1> DEFINE new == [n \in DOMAIN at \cup {name} |-> IF n = name THEN f ELSE at[n]]
<1>1. DOMAIN at \subseteq Nat /\ \A n \in DOMAIN at : at[n] \in Nat \ {0}
  BY IsListing
<1>2. DOMAIN new = DOMAIN at \cup {name}
  OBVIOUS
<1>3. /\ new = [n \in DOMAIN new |-> new[n]] /\ DOMAIN new \subseteq Nat
      /\ \A n \in DOMAIN new : new[n] \in Nat \ {0}
  BY <1>1, <1>2
<1> QED
  BY <1>3, IsListing

LEMMA WithoutListing ==
    ASSUME NEW at \in Listings, NEW names
    PROVE  Without(at, names) \in Listings
<1>1. DOMAIN at \subseteq Nat /\ \A n \in DOMAIN at : at[n] \in Nat \ {0}
  BY IsListing
<1>2. DOMAIN Without(at, names) = DOMAIN at \ names
  BY DEF Without
<1>3. \A n \in DOMAIN at \ names : Without(at, names)[n] = at[n]
  BY DEF Without
<1>4. Without(at, names) = [n \in DOMAIN Without(at, names) |-> Without(at, names)[n]]
  BY <1>2 DEF Without
<1> QED
  BY <1>1, <1>2, <1>3, <1>4, IsListing

-----------------------------------------------------------------------------
(* What a step does to the directories *)

LEMMA SceneFacts ==
    ASSUME FilesTypeOK
    PROVE  /\ Hands = DOMAIN desk.jobs /\ Hands \subseteq Nat \ {0}
           /\ \A w \in Hands : Job(w) \in Jobs /\ hands[w] \in Hand
           /\ desk.leaf \in Leaves
<1>1. desk.jobs \in Seq(Jobs) /\ desk.leaf \in Leaves
  BY SceneAssumption DEF FilesTypeOK
<1>2. Hands = DOMAIN desk.jobs
  BY DEF FilesTypeOK, Hands
<1>3. DOMAIN desk.jobs = 1..Len(desk.jobs) /\ Len(desk.jobs) \in Nat
  BY <1>1
<1> QED
  BY <1>1, <1>2, <1>3 DEF FilesTypeOK, Job

LEMMA DirFacts ==
    ASSUME FilesTypeOK, NEW d \in DOMAIN dirs
    PROVE  /\ d \in Nat \ {0} /\ d \in 1..Len(dirs) /\ dirs[d] \in Directory
           /\ dirs[d].at \in Listings /\ dirs[d].live \in BOOLEAN
           /\ Live(d) <=> dirs[d].live
<1>1. d \in 1..Len(dirs) /\ d \in Nat \ {0} /\ dirs[d] \in Directory
  BY DEF FilesTypeOK
<1>2. dirs[d].at \in Listings /\ dirs[d].live \in BOOLEAN
  BY <1>1 DEF Directory
<1> QED
  BY <1>1, <1>2 DEF Live

LEMMA ListingFacts ==
    ASSUME FilesTypeOK, DirAccount
    PROVE  /\ Listing \in Listings /\ DOMAIN Listing \subseteq Nat
           /\ Len(dirs) \in Nat /\ DOMAIN dirs = 1..Len(dirs)
           /\ Len(inodes) \in Nat /\ DOMAIN inodes = 1..Len(inodes)
           /\ \A n \in DOMAIN Listing : Listing[n] \in Nat \ {0}
           /\ \A d \in 0..Len(dirs) : Live(d) <=> d # 0 /\ d = folder
           /\ \A d \in 0..Len(dirs) : \A n \in Nat :
                 Lookup(d, n) = IF d = folder /\ n \in DOMAIN Listing THEN Listing[n] ELSE 0
<1>1. Len(dirs) \in Nat /\ DOMAIN dirs = 1..Len(dirs) /\ folder \in 0..Len(dirs)
      /\ Len(inodes) \in Nat /\ DOMAIN inodes = 1..Len(inodes)
  BY DEF FilesTypeOK
<1>2. Listing \in Listings
  <2>1. CASE folder = 0
    BY <2>1, NoNamesIsListing DEF Listing
  <2>2. CASE folder # 0
    BY <1>1, <2>2, DirFacts DEF Listing
  <2> QED
    BY <2>1, <2>2
<1>3. \A d \in 0..Len(dirs) : Live(d) <=> d # 0 /\ d = folder
  BY <1>1, DirFacts DEF DirAccount, Live
<1>4. \A d \in 0..Len(dirs) : \A n \in Nat :
         Lookup(d, n) = IF d = folder /\ n \in DOMAIN Listing THEN Listing[n] ELSE 0
  BY <1>1, <1>3, NoNamesIsListing DEF Lookup, Listing
<1>5. DOMAIN Listing \subseteq Nat /\ \A n \in DOMAIN Listing : Listing[n] \in Nat \ {0}
  BY <1>2, IsListing
<1> QED
  BY <1>1, <1>2, <1>3, <1>4, <1>5

(* The directories are the same, but for what the one with the name lists. *)
KeptDirs ==
    /\ dirs' \in Seq(Directory) /\ Len(dirs') = Len(dirs) /\ folder' = folder
    /\ \A d \in 1..Len(dirs) : /\ dirs'[d].live = dirs[d].live /\ dirs'[d].mode = dirs[d].mode
                               /\ d # folder => dirs'[d].at = dirs[d].at

LEMMA RelistedDirs ==
    ASSUME FilesTypeOK, NEW at \in Listings, folder # 0, folder' = folder,
           dirs' = [dirs EXCEPT ![folder].at = at]
    PROVE  KeptDirs /\ Listing' = at
<1>1. folder \in 1..Len(dirs) /\ dirs \in Seq(Directory) /\ dirs[folder] \in Directory
  BY DEF FilesTypeOK
<1>2. [dirs[folder] EXCEPT !.at = at] \in Directory
  BY <1>1 DEF Directory
<1>3. dirs' = [dirs EXCEPT ![folder] = [dirs[folder] EXCEPT !.at = at]]
  OBVIOUS
<1>4. /\ dirs' \in Seq(Directory) /\ Len(dirs') = Len(dirs)
      /\ \A d \in 1..Len(dirs) : d # folder => dirs'[d] = dirs[d]
      /\ dirs'[folder] = [dirs[folder] EXCEPT !.at = at]
  BY <1>1, <1>2, <1>3
<1>5. /\ dirs'[folder].live = dirs[folder].live /\ dirs'[folder].mode = dirs[folder].mode
      /\ dirs'[folder].at = at
  BY <1>1, <1>4 DEF Directory
<1> QED
  BY <1>4, <1>5 DEF KeptDirs, Listing

LEMMA EnteredDirs ==
    ASSUME FilesTypeOK, DirAccount, NEW d \in 0..Len(dirs), Live(d),
           NEW name \in Nat, NEW f \in Nat \ {0}, folder' = folder,
           dirs' = Entered(d, name, f)
    PROVE  /\ KeptDirs /\ d = folder /\ DOMAIN Listing' = DOMAIN Listing \cup {name}
           /\ Listing'[name] = f
           /\ \A n \in DOMAIN Listing : n # name => Listing'[n] = Listing[n]
<1>1. d = folder /\ folder # 0 /\ Listing \in Listings /\ Listing = dirs[folder].at
  BY ListingFacts DEF Listing
<1> DEFINE at == [n \in DOMAIN Listing \cup {name} |-> IF n = name THEN f ELSE Listing[n]]
<1>2. at \in Listings
  BY <1>1, EnteredListing
<1>3. dirs' = [dirs EXCEPT ![folder].at = at]
  BY <1>1 DEF Entered
<1>4. KeptDirs /\ Listing' = at
  BY <1>1, <1>2, <1>3, RelistedDirs
<1> QED
  BY <1>1, <1>4

LEMMA CleanedDirs ==
    ASSUME FilesTypeOK, DirAccount, NEW w \in Hands, hands[w].dir \in 0..Len(dirs),
           dirs' = Cleaned(w), folder' = folder
    PROVE  /\ KeptDirs
           /\ DOMAIN Listing' = DOMAIN Listing \ (IF hands[w].dir = folder THEN {Mine(w)} ELSE {})
           /\ \A n \in DOMAIN Listing' : Listing'[n] = Listing[n]
<1>1. CASE Live(hands[w].dir)
  <2>1. hands[w].dir = folder /\ folder # 0 /\ Listing \in Listings /\ Listing = dirs[folder].at
    BY <1>1, ListingFacts DEF Listing
  <2>2. dirs' = [dirs EXCEPT ![folder].at = Without(Listing, {Mine(w)})]
    BY <1>1, <2>1 DEF Cleaned
  <2>3. KeptDirs /\ Listing' = Without(Listing, {Mine(w)})
    BY <2>1, <2>2, WithoutListing, RelistedDirs
  <2> QED
    BY <2>1, <2>3 DEF Without
<1>2. CASE ~ Live(hands[w].dir)
  <2>1. dirs' = dirs /\ Listing' = Listing
    BY <1>2 DEF Cleaned, Listing
  <2>2. hands[w].dir = folder => DOMAIN Listing = {}
    BY <1>2, ListingFacts, NoNamesIsListing DEF Listing
  <2> QED
    BY <2>1, <2>2 DEF KeptDirs, FilesTypeOK
<1> QED
  BY <1>1, <1>2

LEMMA RenamedDirs ==
    ASSUME FilesTypeOK, DirAccount, NEW w \in Hands, hands[w].dir \in 0..Len(dirs),
           Live(hands[w].dir), hands[w].name \in Nat, hands[w].fd \in Nat \ {0},
           hands[w].name # Mine(w), folder' = folder,
           dirs' = [Entered(hands[w].dir, hands[w].name, hands[w].fd) EXCEPT
                       ![hands[w].dir].at = Without(@, {Mine(w)})]
    PROVE  /\ KeptDirs /\ hands[w].dir = folder
           /\ DOMAIN Listing' = (DOMAIN Listing \cup {hands[w].name}) \ {Mine(w)}
           /\ Listing'[hands[w].name] = hands[w].fd
           /\ \A n \in DOMAIN Listing \ {Mine(w)} :
                 n # hands[w].name => Listing'[n] = Listing[n]
<1> DEFINE d == hands[w].dir
           name == hands[w].name
           new == [n \in DOMAIN Listing \cup {name} |-> IF n = name THEN hands[w].fd ELSE Listing[n]]
           at == Without(new, {Mine(w)})
<1>1. d = folder /\ folder # 0 /\ Listing \in Listings /\ Listing = dirs[folder].at
      /\ folder \in DOMAIN dirs /\ dirs \in Seq(Directory)
  BY ListingFacts DEF Listing, FilesTypeOK
<1>2. new \in Listings /\ at \in Listings
  <2>1. new \in Listings
    BY <1>1, EnteredListing
  <2> QED
    BY <2>1, WithoutListing
<1>3. dirs' = [dirs EXCEPT ![folder].at = at]
  <2>1. Entered(d, name, hands[w].fd) = [dirs EXCEPT ![folder].at = new]
    BY <1>1 DEF Entered
  <2>2. [dirs EXCEPT ![folder].at = new][folder].at = new
    <3>1. dirs[folder] \in Directory
      BY <1>1
    <3> QED
      BY <1>1, <3>1 DEF Directory
  <2>3. dirs' = [[dirs EXCEPT ![folder].at = new] EXCEPT ![folder].at = at]
    BY <1>1, <2>1, <2>2
  <2> HIDE DEF new, at
  <2> QED
    BY <1>1, <2>3
<1>4. KeptDirs /\ Listing' = at
  BY <1>1, <1>2, <1>3, RelistedDirs
<1> QED
  BY <1>1, <1>4 DEF Without

LEMMA TightenedDirs ==
    ASSUME FilesTypeOK, DirAccount, folder # 0, folder' = folder, NEW mode \in Modes,
           dirs' = [dirs EXCEPT ![folder].mode = mode]
    PROVE  /\ dirs' \in Seq(Directory) /\ Len(dirs') = Len(dirs) /\ Listing' = Listing
           /\ \A d \in 1..Len(dirs) : /\ dirs'[d].live = dirs[d].live /\ dirs'[d].at = dirs[d].at
                                      /\ d # folder => dirs'[d].mode = dirs[d].mode
<1>1. folder \in 1..Len(dirs) /\ dirs \in Seq(Directory) /\ dirs[folder] \in Directory
  BY DEF FilesTypeOK
<1> DEFINE new == [dirs[folder] EXCEPT !.mode = mode]
<1>2. new \in Directory
  BY <1>1 DEF Directory
<1>3. dirs' = [dirs EXCEPT ![folder] = new]
  OBVIOUS
<1>4. /\ dirs' \in Seq(Directory) /\ Len(dirs') = Len(dirs) /\ dirs'[folder] = new
      /\ \A d \in 1..Len(dirs) : d # folder => dirs'[d] = dirs[d]
  <2> HIDE DEF new
  <2> QED
    BY <1>1, <1>2, <1>3
<1>5. new.live = dirs[folder].live /\ new.at = dirs[folder].at
  BY <1>1 DEF Directory
<1> QED
  BY <1>1, <1>4, <1>5 DEF Listing

LEMMA NewDir ==
    ASSUME FilesTypeOK, DirAccount, folder = 0, NEW mode \in Modes,
           dirs' = Append(dirs, FreshDir(mode)), folder' = Len(dirs')
    PROVE  /\ dirs' \in Seq(Directory) /\ Len(dirs') = Len(dirs) + 1 /\ folder' = Len(dirs) + 1
           /\ DOMAIN Listing' = {} /\ DOMAIN Listing = {} /\ dirs'[folder'].live
           /\ \A d \in 1..Len(dirs) : dirs'[d] = dirs[d]
<1>1. dirs \in Seq(Directory) /\ Len(dirs) \in Nat
  BY DEF FilesTypeOK
<1>2. FreshDir(mode) \in Directory /\ FreshDir(mode).live /\ FreshDir(mode).at = NoNames
  BY NoNamesIsListing DEF FreshDir, Directory
<1>3. /\ dirs' \in Seq(Directory) /\ Len(dirs') = Len(dirs) + 1
      /\ dirs'[Len(dirs) + 1] = FreshDir(mode)
      /\ \A d \in 1..Len(dirs) : dirs'[d] = dirs[d]
  BY <1>1, <1>2
<1> QED
  BY <1>1, <1>2, <1>3, NoNamesIsListing DEF Listing

LEMMA RemovedDir ==
    ASSUME FilesTypeOK, DirAccount, folder # 0, DOMAIN dirs[folder].at = {},
           NEW no \in BOOLEAN, ~ no,
           dirs' = [dirs EXCEPT ![folder].live = no], folder' = 0
    PROVE  /\ dirs' \in Seq(Directory) /\ Len(dirs') = Len(dirs)
           /\ DOMAIN Listing' = {} /\ DOMAIN Listing = {}
           /\ \A d \in 1..Len(dirs) : /\ ~ dirs'[d].live /\ DOMAIN dirs'[d].at = {}
                                      /\ dirs'[d].mode = dirs[d].mode
<1>1. folder \in 1..Len(dirs) /\ dirs \in Seq(Directory) /\ dirs[folder] \in Directory
  BY DEF FilesTypeOK
<1> DEFINE new == [dirs[folder] EXCEPT !.live = no]
<1>2. new \in Directory
  BY <1>1 DEF Directory
<1>3. dirs' = [dirs EXCEPT ![folder] = new]
  OBVIOUS
<1>4. /\ dirs' \in Seq(Directory) /\ Len(dirs') = Len(dirs) /\ dirs'[folder] = new
      /\ \A d \in 1..Len(dirs) : d # folder => dirs'[d] = dirs[d]
  <2> HIDE DEF new
  <2> QED
    BY <1>1, <1>2, <1>3
<1>5. new.live = no /\ new.at = dirs[folder].at /\ new.mode = dirs[folder].mode
  BY <1>1 DEF Directory
<1>6. \A d \in 1..Len(dirs) : d # folder => ~ dirs[d].live /\ DOMAIN dirs[d].at = {}
  BY <1>1, ListingFacts DEF DirAccount
<1> HIDE DEF new
<1> QED
  BY <1>1, <1>4, <1>5, <1>6, NoNamesIsListing DEF Listing

-----------------------------------------------------------------------------
(* What a step does to the processes *)

(* The steps of one process, and of what is around it.                     *)
Names(w) == NameTarget(w) \/ Mkdir(w) \/ Make(w) \/ Tighten(w) \/ Walk(w)
Replaces(w) == Check(w) \/ Create(w) \/ Chmod(w) \/ WriteAll(w) \/ Recheck(w) \/ Rename(w)
StreamsOn(w) == Open(w) \/ Own(w) \/ EmitNext(w)
Locks(w) == Claim(w) \/ Rewalk(w) \/ Reopen(w) \/ Acquire(w) \/ Release(w)
Ends(w) == Fault(w) \/ Killed(w)
StepOf(w) == Names(w) \/ Replaces(w) \/ StreamsOn(w) \/ Locks(w) \/ Ends(w)
Around == EmptyFolder \/ RemoveFolder \/ Remake \/ Relink

LEMMA AnyStep ==
    ASSUME [FilesNext]_fileVars
    PROVE  (\E w \in Hands : StepOf(w)) \/ Around \/ UNCHANGED fileVars
BY DEF FilesNext, Written, StepOf, Names, Replaces, StreamsOn, Locks, Ends, Around

(* The free name an automatic name is.                                     *)
LEMMA FreeName ==
    ASSUME NEW free \in SUBSET ReportNames, free # {}
    PROVE  (CHOOSE n \in free : \A m \in free : n <= m) \in free
<1>1. \E n \in free : \A m \in free : n <= m
  <2>1. free \subseteq {0, 1, 2}
    BY DEF ReportNames, Report, LastName
  <2>2. CASE 0 \in free
    BY <2>1, <2>2
  <2>3. CASE 0 \notin free /\ 1 \in free
    BY <2>1, <2>3
  <2>4. CASE 0 \notin free /\ 1 \notin free
    <3>1. free = {2}
      BY <2>1, <2>4
    <3> QED
      BY <3>1
  <2> QED
    BY <2>2, <2>3, <2>4
<1> QED
  BY <1>1

(* What a name is and what it avoids.                                      *)
Named(w, step, name, saw) ==
    /\ hands' = [hands EXCEPT ![w].step = step, ![w].name = name, ![w].saw = saw]
    /\ IF Job(w).how = "lock" THEN name = Lock
       ELSE name \in ReportNames /\ (saw # {} => name \notin DOMAIN Listing)
    /\ saw \subseteq {Listing[n] : n \in DOMAIN Listing \cap ReportNames}

LEMMA NamedTarget ==
    ASSUME FilesInv, NEW w \in Hands, NameTarget(w)
    PROVE  \E step \in {"beside", "mkdir"}, name \in Nat, saw \in SUBSET DOMAIN inodes :
              Named(w, step, name, saw)
<1> DEFINE job == Job(w)
           intoFolder == job.asked = "slash" \/ (job.asked = "bare" /\ folder # 0)
           free == {n \in ReportNames : Lookup(folder, n) = 0}
           step == IF job.asked = "bare" /\ ~ intoFolder THEN "beside" ELSE "mkdir"
           name == IF job.how = "lock" THEN Lock
                   ELSE IF intoFolder THEN CHOOSE n \in free : \A m \in free : n <= m
                   ELSE Report
           saw == IF intoFolder THEN {Lookup(folder, n) : n \in ReportNames} \ {0} ELSE {}
<1>0. FilesTypeOK /\ DirAccount /\ folder \in 0..Len(dirs) /\ ReportNames \subseteq Nat
  BY DEF FilesInv, FilesTypeOK, ReportNames, Report, LastName
<1>1. /\ hands' = [hands EXCEPT ![w].step = step, ![w].name = name, ![w].saw = saw]
      /\ intoFolder => free # {}
  BY DEF NameTarget
<1>2. \A n \in ReportNames :
         Lookup(folder, n) = IF n \in DOMAIN Listing THEN Listing[n] ELSE 0
  BY <1>0, ListingFacts
<1>3. saw \subseteq {Listing[n] : n \in DOMAIN Listing \cap ReportNames}
  BY <1>2
<1>4. {Listing[n] : n \in DOMAIN Listing \cap ReportNames} \subseteq DOMAIN inodes
  BY <1>0 DEF DirAccount
<1>5. CASE job.how = "lock"
  <2>1. name = Lock /\ Lock \in Nat /\ step \in {"beside", "mkdir"}
    BY <1>5 DEF Lock
  <2> HIDE DEF name, saw, step
  <2> QED
    BY <1>1, <1>3, <1>4, <1>5, <2>1 DEF Named
<1>6. CASE job.how # "lock" /\ intoFolder
  <2>1. name \in free
    <3>1. free \subseteq ReportNames /\ free # {}
      BY <1>1, <1>6
    <3>2. name = CHOOSE n \in free : \A m \in free : n <= m
      BY <1>6
    <3> QED
      BY <3>1, <3>2, FreeName
  <2>2. name \notin DOMAIN Listing
    <3>1. name \in ReportNames /\ Lookup(folder, name) = 0
      BY <2>1
    <3>2. \A n \in DOMAIN Listing : Listing[n] # 0
      BY <1>0, ListingFacts
    <3> HIDE DEF name
    <3> QED
      BY <1>2, <3>1, <3>2
  <2>3. step \in {"beside", "mkdir"} /\ name \in Nat /\ name \in ReportNames
    BY <1>0, <2>1
  <2> HIDE DEF name, saw, step
  <2> QED
    BY <1>1, <1>3, <1>4, <1>6, <2>2, <2>3 DEF Named
<1>7. CASE job.how # "lock" /\ ~ intoFolder
  <2>1. name = Report /\ saw = {} /\ Report \in ReportNames /\ Report \in Nat
    BY <1>7 DEF ReportNames, Report, LastName
  <2>2. step \in {"beside", "mkdir"}
    OBVIOUS
  <2> HIDE DEF name, saw, step
  <2> QED
    BY <1>1, <1>3, <1>7, <2>1, <2>2 DEF Named
<1> QED
  BY <1>5, <1>6, <1>7

(* A process's step changes what is known of that process alone.           *)
SameOthers(w) ==
    hands' \in [Hands -> Hand] /\ \A v \in Hands : v # w => hands'[v] = hands[v]

(* The literal steps and modes.                                            *)
LEMMA Literals ==
    /\ \A s \in Ahead \cup Over \cup {"walk"} \cup Replacing \cup Streaming \cup Locking : s \in Steps
    /\ \A m \in {"none", "umask", "theirs", "0600", "0640", "0644", "0700"} : m \in Modes
BY DEF Steps, Modes

(* The shapes of such a change.                                            *)
LEMMA HandEdits ==
    ASSUME hands \in [Hands -> Hand], NEW w \in Hands, NEW step \in Steps
    PROVE  /\ hands' = [hands EXCEPT ![w].step = step] => SameOthers(w)
           /\ \A f \in Nat : hands' = [hands EXCEPT ![w].step = step, ![w].fd = f] => SameOthers(w)
           /\ \A d \in Nat : hands' = [hands EXCEPT ![w].dir = d, ![w].step = step] => SameOthers(w)
           /\ \A t \in {0, 1} : hands' = [hands EXCEPT ![w].step = step, ![w].try = t] => SameOthers(w)
           /\ \A m \in Modes : hands' = [hands EXCEPT ![w].step = step, ![w].existing = m] => SameOthers(w)
           /\ \A n \in Nat, saw \in SUBSET Nat :
                 hands' = [hands EXCEPT ![w].step = step, ![w].name = n, ![w].saw = saw] => SameOthers(w)
           /\ hands' = Retried(w) => SameOthers(w)
<1> DEFINE Edit(k) == k \in [Hands -> Hand] /\ \A v \in Hands : v # w => k[v] = hands[v]
<1>0. Edit(hands') => SameOthers(w)
  BY DEF SameOthers
<1>1. ASSUME hands' = [hands EXCEPT ![w].step = step]
      PROVE  SameOthers(w)
  <2>1. Edit([hands EXCEPT ![w].step = step])
    BY DEF Hand
  <2> HIDE DEF Edit
  <2> QED
    BY <1>0, <1>1, <2>1, Zenon
<1>2. ASSUME NEW f \in Nat, hands' = [hands EXCEPT ![w].step = step, ![w].fd = f]
      PROVE  SameOthers(w)
  <2>1. Edit([hands EXCEPT ![w].step = step, ![w].fd = f])
    BY DEF Hand
  <2> HIDE DEF Edit
  <2> QED
    BY <1>0, <1>2, <2>1, Zenon
<1>3. ASSUME NEW d \in Nat, hands' = [hands EXCEPT ![w].dir = d, ![w].step = step]
      PROVE  SameOthers(w)
  <2>1. Edit([hands EXCEPT ![w].dir = d, ![w].step = step])
    BY DEF Hand
  <2> HIDE DEF Edit
  <2> QED
    BY <1>0, <1>3, <2>1, Zenon
<1>4. ASSUME NEW t \in {0, 1}, hands' = [hands EXCEPT ![w].step = step, ![w].try = t]
      PROVE  SameOthers(w)
  <2>1. Edit([hands EXCEPT ![w].step = step, ![w].try = t])
    BY DEF Hand
  <2> HIDE DEF Edit
  <2> QED
    BY <1>0, <1>4, <2>1, Zenon
<1>5. ASSUME NEW m \in Modes, hands' = [hands EXCEPT ![w].step = step, ![w].existing = m]
      PROVE  SameOthers(w)
  <2>1. Edit([hands EXCEPT ![w].step = step, ![w].existing = m])
    BY DEF Hand
  <2> HIDE DEF Edit
  <2> QED
    BY <1>0, <1>5, <2>1, Zenon
<1>6. ASSUME NEW n \in Nat, NEW saw \in SUBSET Nat,
             hands' = [hands EXCEPT ![w].step = step, ![w].name = n, ![w].saw = saw]
      PROVE  SameOthers(w)
  <2>1. Edit([hands EXCEPT ![w].step = step, ![w].name = n, ![w].saw = saw])
    BY DEF Hand
  <2> HIDE DEF Edit
  <2> QED
    BY <1>0, <1>6, <2>1, Zenon
<1>7. ASSUME hands' = Retried(w) PROVE SameOthers(w)
  <2>1. ASSUME NEW walk \in Steps, NEW one \in {0, 1}
        PROVE  Edit([hands EXCEPT ![w].try = one, ![w].step = walk])
    BY DEF Hand
  <2>2. "walk" \in Steps /\ "gone" \in Steps /\ 1 \in {0, 1}
    BY Literals DEF Over
  <2>3. ASSUME NEW gone \in Steps
        PROVE  Edit([hands EXCEPT ![w].step = gone])
    BY DEF Hand
  <2> HIDE DEF Edit
  <2>4. Edit([hands EXCEPT ![w].try = 1, ![w].step = "walk"]) /\ Edit([hands EXCEPT ![w].step = "gone"])
    BY <2>1, <2>2, <2>3, Zenon
  <2> QED
    BY <1>0, <1>7, <2>4, Zenon DEF Retried
<1> QED
  BY <1>1, <1>2, <1>3, <1>4, <1>5, <1>6, <1>7

LEMMA InodeFacts ==
    ASSUME FilesTypeOK, NEW f \in DOMAIN inodes
    PROVE  /\ inodes[f] \in Inode /\ f \in Nat \ {0} /\ f \in 1..Len(inodes)
           /\ inodes[f].kind \in {"file", "link", "fifo"} /\ inodes[f].by \in Int
           /\ inodes[f].n \in Nat /\ inodes[f].mode \in Modes
<1>1. inodes \in Seq(Inode)
  BY DEF FilesTypeOK
<1>2. inodes[f] \in Inode /\ f \in Nat \ {0} /\ f \in 1..Len(inodes)
  BY <1>1
<1> QED
  BY <1>2 DEF Inode

LEMMA HandsTyped ==
    ASSUME FilesInv, NEW w \in Hands
    PROVE  /\ hands \in [Hands -> Hand] /\ hands[w] \in Hand /\ Job(w) \in Jobs
           /\ hands[w].dir \in 0..Len(dirs) /\ hands[w].name \in Nat /\ w \in Nat \ {0}
           /\ hands[w].step \in StepsOf(Job(w).how)
           /\ folder \in Nat /\ Len(inodes) \in Nat /\ DOMAIN inodes = 1..Len(inodes)
           /\ FilesTypeOK /\ DirAccount
           /\ Lookup(hands[w].dir, hands[w].name) \in DOMAIN inodes \cup {0}
           /\ Lookup(hands[w].dir, Lock) \in DOMAIN inodes \cup {0}
<1>1. FilesTypeOK /\ DirAccount /\ Hands = DOMAIN desk.jobs /\ Job(w) \in Jobs
      /\ Hands \subseteq Nat \ {0} /\ hands[w] \in Hand
  BY SceneFacts DEF FilesInv
<1>2. hands[w].dir \in 0..Len(dirs) /\ hands[w].step \in StepsOf(Job(w).how)
  BY DEF FilesInv, HandAccount
<1>3. hands[w].name \in Nat /\ Lock \in Nat
  BY <1>1 DEF Hand, Lock
<1>4. \A n \in Nat : Lookup(hands[w].dir, n) \in DOMAIN inodes \cup {0}
  BY <1>1, <1>2, ListingFacts DEF DirAccount
<1> QED
  BY <1>1, <1>2, <1>3, <1>4 DEF FilesTypeOK

LEMMA HandsFrame ==
    ASSUME FilesInv, NEW w \in Hands, StepOf(w)
    PROVE  SameOthers(w)
<1>1. /\ hands \in [Hands -> Hand] /\ folder \in Nat /\ Len(inodes) \in Nat
      /\ Lookup(hands[w].dir, hands[w].name) \in Nat /\ Lookup(hands[w].dir, Lock) \in Nat
  BY HandsTyped
<1> DEFINE GoesTo(s) == hands' = [hands EXCEPT ![w].step = s]
           OpensTo(s, f) == hands' = [hands EXCEPT ![w].step = s, ![w].fd = f]
           FindsTo(s) == hands' = [hands EXCEPT ![w].dir = folder, ![w].step = s]
           TriesTo(s, t) == hands' = [hands EXCEPT ![w].step = s, ![w].try = t]
<1>2. ASSUME NEW s \in Steps, GoesTo(s) PROVE SameOthers(w)
  BY <1>1, <1>2, HandEdits
<1>3. ASSUME NEW s \in Steps, NEW f \in Nat, OpensTo(s, f) PROVE SameOthers(w)
  BY <1>1, <1>3, HandEdits
<1>4. ASSUME NEW s \in Steps, FindsTo(s) PROVE SameOthers(w)
  BY <1>1, <1>4, HandEdits
<1>5. ASSUME NEW s \in Steps, NEW t \in {0, 1}, TriesTo(s, t) PROVE SameOthers(w)
  BY <1>1, <1>5, HandEdits
<1>6. ASSUME hands' = Retried(w) PROVE SameOthers(w)
  BY <1>1, <1>6, Literals, HandEdits DEF Over
<1>7. \A s \in {"walk", "make", "tighten", "gone", "refused", "check", "open", "claim", "chmod",
                "write", "recheck", "rename", "done", "own", "emit", "rewalk", "reopen", "queue",
                "hold", "failed", "died"} : s \in Steps
  BY Literals DEF Ahead, Over, Replacing, Filling, Streaming, Locking
<1> HIDE DEF GoesTo, OpensTo, FindsTo, TriesTo
<1>8. CASE NameTarget(w)
  <2>1. PICK step \in {"beside", "mkdir"}, name \in Nat, saw \in SUBSET DOMAIN inodes :
           Named(w, step, name, saw)
    BY <1>8, NamedTarget
  <2>2. saw \in SUBSET Nat /\ step \in Steps
    BY HandsTyped, Literals DEF Over, Ahead
  <2> QED
    BY <1>1, <2>1, <2>2, HandEdits DEF Named
<1>9. CASE Mkdir(w) \/ Make(w) \/ Tighten(w)
  <2>1. GoesTo("walk") \/ GoesTo("make") \/ GoesTo("tighten") \/ GoesTo("gone")
    BY <1>9 DEF Mkdir, Make, Tighten, Go, GoesTo
  <2> QED
    BY <1>2, <1>7, <2>1
<1>10. CASE Walk(w)
  <2>1. Job(w).how \in {"replace", "stream", "lock"}
    BY HandsTyped DEF Jobs
  <2>2. hands' = Retried(w) \/ GoesTo("gone") \/ GoesTo("refused")
        \/ \E to \in {"check", "open", "claim"} : FindsTo(to)
    <3>1. [replace |-> "check", stream |-> "open", lock |-> "claim"][Job(w).how]
             \in {"check", "open", "claim"}
      BY <2>1
    <3> QED
      BY <1>10, <3>1, Zenon DEF Walk, GoesTo, FindsTo
  <2> QED
    BY <1>2, <1>4, <1>6, <1>7, <2>2
<1>11. CASE Check(w)
  <2>1. \A f \in DOMAIN inodes : inodes[f].mode \in Modes
    <3>1. FilesTypeOK
      BY HandsTyped
    <3> QED
      BY <3>1, InodeFacts
  <2>2. PICK step \in {"refused", "create"}, m \in Modes :
           hands' = [hands EXCEPT ![w].step = step, ![w].existing = m]
    <3>1. (IF Lookup(hands[w].dir, hands[w].name) = 0 THEN "none"
           ELSE inodes[Lookup(hands[w].dir, hands[w].name)].mode) \in Modes
      BY <2>1, HandsTyped, Literals
    <3> QED
      BY <1>11, <3>1, Zenon DEF Check
  <2>3. step \in Steps
    BY Literals DEF Over, Replacing
  <2> QED
    BY <1>1, <2>2, <2>3, HandEdits
<1>12. CASE Create(w) \/ Open(w) \/ Claim(w)
  <2>1. \A e : Len(Append(inodes, e)) \in Nat
    BY HandsTyped DEF FilesTypeOK
  <2>2. hands' = Retried(w) \/ GoesTo("refused") \/ TriesTo("rewalk", 0)
        \/ \E f \in Nat : OpensTo("chmod", f) \/ OpensTo("own", f) \/ OpensTo("queue", f)
    BY <1>1, <1>12, <2>1, Zenon DEF Create, Open, Claim, Go, GoesTo, OpensTo, TriesTo
  <2> QED
    BY <1>2, <1>3, <1>5, <1>6, <1>7, <2>2
<1>13. CASE Chmod(w) \/ Recheck(w) \/ Own(w) \/ Acquire(w) \/ Release(w) \/ Killed(w) \/ Fault(w)
  <2>1. \E s \in {"write", "refused", "rename", "emit", "hold", "done", "died", "failed"} : GoesTo(s)
    BY <1>13 DEF Chmod, Recheck, Own, Acquire, Release, Killed, Fault, Go, GoesTo
  <2> QED
    BY <1>2, <1>7, <2>1
<1>14. CASE WriteAll(w) \/ EmitNext(w)
  <2>1. \E s \in {"recheck", "done", "write", "emit"} : GoesTo(s)
    BY <1>14 DEF WriteAll, EmitNext, Chunk, Go, Stands, GoesTo
  <2> QED
    BY <1>2, <1>7, <2>1
<1>15. CASE Rename(w) \/ Rewalk(w) \/ Reopen(w)
  <2>1. hands' = Retried(w) \/ GoesTo("done") \/ GoesTo("gone") \/ FindsTo("reopen") \/ TriesTo("rewalk", 1)
        \/ \E f \in Nat : OpensTo("queue", f)
    BY <1>1, <1>15, Zenon DEF Rename, Rewalk, Reopen, Go, GoesTo, OpensTo, FindsTo, TriesTo
  <2> QED
    BY <1>2, <1>3, <1>4, <1>5, <1>6, <1>7, <2>1
<1> QED
  BY <1>8, <1>9, <1>10, <1>11, <1>12, <1>13, <1>14, <1>15
     DEF StepOf, Names, Replaces, StreamsOn, Locks, Ends

(* What a step does to its process, field by field.                        *)
Same(w) ==
    /\ hands'[w].name = hands[w].name /\ hands'[w].dir = hands[w].dir /\ hands'[w].fd = hands[w].fd
    /\ hands'[w].existing = hands[w].existing /\ hands'[w].try = hands[w].try
    /\ hands'[w].saw = hands[w].saw
Goes(w, s) == hands'[w].step = s /\ Same(w)
Opens(w, s, f) ==
    /\ hands'[w].step = s /\ hands'[w].fd = f
    /\ hands'[w].name = hands[w].name /\ hands'[w].dir = hands[w].dir
    /\ hands'[w].existing = hands[w].existing /\ hands'[w].try = hands[w].try
    /\ hands'[w].saw = hands[w].saw
Finds(w, s) ==
    /\ hands'[w].step = s /\ hands'[w].dir = folder
    /\ hands'[w].name = hands[w].name /\ hands'[w].fd = hands[w].fd
    /\ hands'[w].existing = hands[w].existing /\ hands'[w].try = hands[w].try
    /\ hands'[w].saw = hands[w].saw
Tries(w, s, t) ==
    /\ hands'[w].step = s /\ hands'[w].try = t
    /\ hands'[w].name = hands[w].name /\ hands'[w].dir = hands[w].dir /\ hands'[w].fd = hands[w].fd
    /\ hands'[w].existing = hands[w].existing /\ hands'[w].saw = hands[w].saw
Meets(w, s, m) ==
    /\ hands'[w].step = s /\ hands'[w].existing = m
    /\ hands'[w].name = hands[w].name /\ hands'[w].dir = hands[w].dir /\ hands'[w].fd = hands[w].fd
    /\ hands'[w].try = hands[w].try /\ hands'[w].saw = hands[w].saw
Aims(w, s, n, saw) ==
    /\ hands'[w].step = s /\ hands'[w].name = n /\ hands'[w].saw = saw
    /\ hands'[w].dir = hands[w].dir /\ hands'[w].fd = hands[w].fd
    /\ hands'[w].existing = hands[w].existing /\ hands'[w].try = hands[w].try
Retries(w) == IF hands[w].try = 0 THEN Tries(w, "walk", 1) ELSE Goes(w, "gone")

LEMMA Fields ==
    ASSUME FilesInv, NEW w \in Hands, NEW s
    PROVE  /\ hands' = [hands EXCEPT ![w].step = s] => Goes(w, s)
           /\ \A f : hands' = [hands EXCEPT ![w].step = s, ![w].fd = f] => Opens(w, s, f)
           /\ hands' = [hands EXCEPT ![w].dir = folder, ![w].step = s] => Finds(w, s)
           /\ \A t : hands' = [hands EXCEPT ![w].step = s, ![w].try = t] => Tries(w, s, t)
           /\ \A m : hands' = [hands EXCEPT ![w].step = s, ![w].existing = m] => Meets(w, s, m)
           /\ \A n, saw : hands' = [hands EXCEPT ![w].step = s, ![w].name = n, ![w].saw = saw] => Aims(w, s, n, saw)
           /\ hands' = Retried(w) => Retries(w)
<1>0. hands \in [Hands -> Hand]
  BY HandsTyped
<1>1. ASSUME hands' = [hands EXCEPT ![w].step = s]
      PROVE  Goes(w, s)
  <2> DEFINE k == [hands EXCEPT ![w].step = s]
  <2>1. /\ k[w].step = s /\ k[w].name = hands[w].name /\ k[w].dir = hands[w].dir
        /\ k[w].fd = hands[w].fd /\ k[w].existing = hands[w].existing
        /\ k[w].try = hands[w].try /\ k[w].saw = hands[w].saw
    BY <1>0 DEF Hand
  <2> HIDE DEF k
  <2>2. hands' = k
    BY <1>1 DEF k
  <2> QED
    BY <2>1, <2>2 DEF Goes, Same
<1>2. ASSUME NEW f, hands' = [hands EXCEPT ![w].step = s, ![w].fd = f]
      PROVE  Opens(w, s, f)
  <2> DEFINE k == [hands EXCEPT ![w].step = s, ![w].fd = f]
  <2>1. /\ k[w].step = s /\ k[w].name = hands[w].name /\ k[w].dir = hands[w].dir
        /\ k[w].fd = f /\ k[w].existing = hands[w].existing
        /\ k[w].try = hands[w].try /\ k[w].saw = hands[w].saw
    BY <1>0 DEF Hand
  <2> HIDE DEF k
  <2>2. hands' = k
    BY <1>2 DEF k
  <2> QED
    BY <2>1, <2>2 DEF Opens
<1>3. ASSUME hands' = [hands EXCEPT ![w].dir = folder, ![w].step = s]
      PROVE  Finds(w, s)
  <2> DEFINE k == [hands EXCEPT ![w].dir = folder, ![w].step = s]
  <2>1. /\ k[w].step = s /\ k[w].name = hands[w].name /\ k[w].dir = folder
        /\ k[w].fd = hands[w].fd /\ k[w].existing = hands[w].existing
        /\ k[w].try = hands[w].try /\ k[w].saw = hands[w].saw
    BY <1>0 DEF Hand
  <2> HIDE DEF k
  <2>2. hands' = k
    BY <1>3 DEF k
  <2> QED
    BY <2>1, <2>2 DEF Finds
<1>4. ASSUME NEW t, hands' = [hands EXCEPT ![w].step = s, ![w].try = t]
      PROVE  Tries(w, s, t)
  <2> DEFINE k == [hands EXCEPT ![w].step = s, ![w].try = t]
  <2>1. /\ k[w].step = s /\ k[w].name = hands[w].name /\ k[w].dir = hands[w].dir
        /\ k[w].fd = hands[w].fd /\ k[w].existing = hands[w].existing
        /\ k[w].try = t /\ k[w].saw = hands[w].saw
    BY <1>0 DEF Hand
  <2> HIDE DEF k
  <2>2. hands' = k
    BY <1>4 DEF k
  <2> QED
    BY <2>1, <2>2 DEF Tries
<1>5. ASSUME NEW m, hands' = [hands EXCEPT ![w].step = s, ![w].existing = m]
      PROVE  Meets(w, s, m)
  <2> DEFINE k == [hands EXCEPT ![w].step = s, ![w].existing = m]
  <2>1. /\ k[w].step = s /\ k[w].name = hands[w].name /\ k[w].dir = hands[w].dir
        /\ k[w].fd = hands[w].fd /\ k[w].existing = m
        /\ k[w].try = hands[w].try /\ k[w].saw = hands[w].saw
    BY <1>0 DEF Hand
  <2> HIDE DEF k
  <2>2. hands' = k
    BY <1>5 DEF k
  <2> QED
    BY <2>1, <2>2 DEF Meets
<1>6. ASSUME NEW n, NEW saw, hands' = [hands EXCEPT ![w].step = s, ![w].name = n, ![w].saw = saw]
      PROVE  Aims(w, s, n, saw)
  <2> DEFINE k == [hands EXCEPT ![w].step = s, ![w].name = n, ![w].saw = saw]
  <2>1. /\ k[w].step = s /\ k[w].name = n /\ k[w].dir = hands[w].dir
        /\ k[w].fd = hands[w].fd /\ k[w].existing = hands[w].existing
        /\ k[w].try = hands[w].try /\ k[w].saw = saw
    BY <1>0 DEF Hand
  <2> HIDE DEF k
  <2>2. hands' = k
    BY <1>6 DEF k
  <2> QED
    BY <2>1, <2>2 DEF Aims
<1>7. ASSUME hands' = Retried(w) PROVE Retries(w)
  <2>1. ASSUME NEW walk, NEW one, hands' = [hands EXCEPT ![w].try = one, ![w].step = walk]
        PROVE  Tries(w, walk, one)
    <3> DEFINE k == [hands EXCEPT ![w].try = one, ![w].step = walk]
    <3>1. /\ k[w].step = walk /\ k[w].name = hands[w].name /\ k[w].dir = hands[w].dir
          /\ k[w].fd = hands[w].fd /\ k[w].existing = hands[w].existing
          /\ k[w].try = one /\ k[w].saw = hands[w].saw
      BY <1>0 DEF Hand
    <3> HIDE DEF k
    <3>2. hands' = k
      BY <2>1 DEF k
    <3> QED
      BY <3>1, <3>2 DEF Tries
  <2>2. ASSUME NEW gone, hands' = [hands EXCEPT ![w].step = gone]
        PROVE  Goes(w, gone)
    <3> DEFINE k == [hands EXCEPT ![w].step = gone]
    <3>1. /\ k[w].step = gone /\ k[w].name = hands[w].name /\ k[w].dir = hands[w].dir
          /\ k[w].fd = hands[w].fd /\ k[w].existing = hands[w].existing
          /\ k[w].try = hands[w].try /\ k[w].saw = hands[w].saw
      BY <1>0 DEF Hand
    <3> HIDE DEF k
    <3>2. hands' = k
      BY <2>2 DEF k
    <3> QED
      BY <3>1, <3>2 DEF Goes, Same
  <2> QED
    BY <1>7, <2>1, <2>2, Zenon DEF Retried, Retries
<1> QED
  BY <1>1, <1>2, <1>3, <1>4, <1>5, <1>6, <1>7

(* What a step does to the files.                                          *)
EditsInode(f, b, n, m) ==
    /\ inodes' \in Seq(Inode) /\ Len(inodes') = Len(inodes)
    /\ \A g \in DOMAIN inodes : g # f => inodes'[g] = inodes[g]
    /\ inodes'[f].kind = inodes[f].kind
    /\ inodes'[f].by = b /\ inodes'[f].n = n /\ inodes'[f].mode = m
AddsInode(w, m) ==
    /\ inodes' \in Seq(Inode) /\ Len(inodes') = Len(inodes) + 1
    /\ \A g \in DOMAIN inodes : inodes'[g] = inodes[g]
    /\ inodes'[Len(inodes) + 1] = [kind |-> "file", by |-> w, n |-> 0, mode |-> m]

LEMMA OneChanged ==
    ASSUME NEW S, NEW s \in Seq(S), NEW i \in 1..Len(s), NEW e \in S
    PROVE  LET t == [s EXCEPT ![i] = e] IN
           /\ t \in Seq(S) /\ Len(t) = Len(s) /\ t[i] = e
           /\ \A j \in DOMAIN s : j # i => t[j] = s[j]
OBVIOUS

LEMMA InodeEdits ==
    ASSUME FilesTypeOK, NEW f \in DOMAIN inodes, NEW b \in Int, NEW n \in Nat, NEW m \in Modes
    PROVE  /\ inodes' = [inodes EXCEPT ![f].mode = m] => EditsInode(f, inodes[f].by, inodes[f].n, m)
           /\ inodes' = [inodes EXCEPT ![f].n = n, ![f].by = b] => EditsInode(f, b, n, inodes[f].mode)
           /\ inodes' = [inodes EXCEPT ![f].by = b, ![f].n = n] => EditsInode(f, b, n, inodes[f].mode)
<1>0. inodes \in Seq(Inode) /\ inodes[f] \in Inode
  BY InodeFacts DEF FilesTypeOK
<1> DEFINE Is(k, c, i, o) ==
              /\ k \in Seq(Inode) /\ Len(k) = Len(inodes)
              /\ \A g \in DOMAIN inodes : g # f => k[g] = inodes[g]
              /\ k[f].kind = inodes[f].kind /\ k[f].by = c /\ k[f].n = i /\ k[f].mode = o
<1>9. ASSUME NEW e \in Inode, e.kind = inodes[f].kind
      PROVE  Is([inodes EXCEPT ![f] = e], e.by, e.n, e.mode)
  BY <1>0, <1>9, InodeFacts, OneChanged
<1>1. Is([inodes EXCEPT ![f].mode = m], inodes[f].by, inodes[f].n, m)
  <2> DEFINE e == [inodes[f] EXCEPT !.mode = m]
  <2>1. /\ e \in Inode /\ e.kind = inodes[f].kind
        /\ e.by = inodes[f].by /\ e.n = inodes[f].n /\ e.mode = m
    BY <1>0 DEF Inode
  <2>2. [inodes EXCEPT ![f].mode = m] = [inodes EXCEPT ![f] = e]
    OBVIOUS
  <2> HIDE DEF e, Is
  <2> QED
    BY <1>9, <2>1, <2>2
<1>2. Is([inodes EXCEPT ![f].n = n, ![f].by = b], b, n, inodes[f].mode)
  <2> DEFINE e == [inodes[f] EXCEPT !.n = n, !.by = b]
  <2>1. /\ e \in Inode /\ e.kind = inodes[f].kind
        /\ e.by = b /\ e.n = n /\ e.mode = inodes[f].mode
    BY <1>0 DEF Inode
  <2>2. [inodes EXCEPT ![f].n = n, ![f].by = b] = [inodes EXCEPT ![f] = e]
    OBVIOUS
  <2> HIDE DEF e, Is
  <2> QED
    BY <1>9, <2>1, <2>2
<1>3. Is([inodes EXCEPT ![f].by = b, ![f].n = n], b, n, inodes[f].mode)
  <2> DEFINE e == [inodes[f] EXCEPT !.by = b, !.n = n]
  <2>1. /\ e \in Inode /\ e.kind = inodes[f].kind
        /\ e.by = b /\ e.n = n /\ e.mode = inodes[f].mode
    BY <1>0 DEF Inode
  <2>2. [inodes EXCEPT ![f].by = b, ![f].n = n] = [inodes EXCEPT ![f] = e]
    OBVIOUS
  <2> HIDE DEF e, Is
  <2> QED
    BY <1>9, <2>1, <2>2
<1>4. \A c, i, o : Is(inodes', c, i, o) => EditsInode(f, c, i, o)
  BY DEF EditsInode
<1> HIDE DEF Is
<1> QED
  BY <1>1, <1>2, <1>3, <1>4, Zenon

LEMMA InodeAdded ==
    ASSUME FilesTypeOK, NEW w \in Nat \ {0}, NEW m \in Modes
    PROVE  inodes' = Append(inodes, [kind |-> "file", by |-> w, n |-> 0, mode |-> m]) => AddsInode(w, m)
<1> DEFINE e == [kind |-> "file", by |-> w, n |-> 0, mode |-> m]
<1>1. inodes \in Seq(Inode) /\ e \in Inode
  BY DEF FilesTypeOK, Inode
<1> HIDE DEF e
<1>2. ASSUME inodes' = Append(inodes, e)
      PROVE  /\ inodes' \in Seq(Inode) /\ Len(inodes') = Len(inodes) + 1
             /\ \A g \in DOMAIN inodes : inodes'[g] = inodes[g]
             /\ inodes'[Len(inodes) + 1] = e
  BY <1>1, <1>2
<1> QED
  BY <1>2 DEF e, AddsInode

-----------------------------------------------------------------------------
(* What each step does *)

LEMMA NamesDigest ==
    ASSUME FilesInv, NEW w \in Hands
    PROVE  /\ NameTarget(w) =>
                 /\ Stands(w, "resolve") /\ UNCHANGED <<desk, folder, dirs, inodes, chance>>
                 /\ \E step \in {"beside", "mkdir"}, name \in Nat, saw \in SUBSET DOMAIN inodes :
                       /\ Aims(w, step, name, saw)
                       /\ IF Job(w).how = "lock" THEN name = Lock
                          ELSE name \in ReportNames /\ (saw # {} => name \notin DOMAIN Listing)
                       /\ saw \subseteq {Listing[n] : n \in DOMAIN Listing \cap ReportNames}
           /\ Mkdir(w) =>
                 /\ Stands(w, "mkdir") /\ UNCHANGED <<desk, folder, dirs, inodes, chance>>
                 /\ IF folder # 0 THEN Goes(w, "walk") ELSE Goes(w, "make")
           /\ Make(w) =>
                 /\ Stands(w, "make") /\ UNCHANGED <<desk, inodes, chance>>
                 /\ \/ folder # 0 /\ Goes(w, "walk") /\ UNCHANGED <<folder, dirs>>
                    \/ /\ folder = 0 /\ Goes(w, "tighten")
                       /\ dirs' = Append(dirs, FreshDir("umask")) /\ folder' = Len(dirs')
           /\ Tighten(w) =>
                 /\ Stands(w, "tighten") /\ UNCHANGED <<desk, folder, inodes, chance>>
                 /\ \/ folder = 0 /\ Goes(w, "gone") /\ UNCHANGED dirs
                    \/ folder # 0 /\ Goes(w, "walk") /\ UNCHANGED dirs
                    \/ folder # 0 /\ Goes(w, "walk") /\ dirs' = [dirs EXCEPT ![folder].mode = "0700"]
           /\ Walk(w) =>
                 /\ Stands(w, "walk") /\ UNCHANGED <<desk, folder, dirs, inodes, chance>>
                 /\ \/ folder = 0 /\ Job(w).how = "replace" /\ Retries(w)
                    \/ folder = 0 /\ Goes(w, "gone")
                    \/ folder # 0 /\ Goes(w, "refused")
                    \/ folder # 0 /\ Job(w).how = "replace" /\ Finds(w, "check")
                    \/ folder # 0 /\ Job(w).how = "stream" /\ Finds(w, "open")
                    \/ folder # 0 /\ Job(w).how = "lock" /\ Finds(w, "claim")
<1>1. ASSUME NameTarget(w)
      PROVE  \E step \in {"beside", "mkdir"}, name \in Nat, saw \in SUBSET DOMAIN inodes :
                /\ Aims(w, step, name, saw)
                /\ IF Job(w).how = "lock" THEN name = Lock
                   ELSE name \in ReportNames /\ (saw # {} => name \notin DOMAIN Listing)
                /\ saw \subseteq {Listing[n] : n \in DOMAIN Listing \cap ReportNames}
  <2>1. \A step, name, saw : Named(w, step, name, saw) => Aims(w, step, name, saw)
    BY Fields DEF Named
  <2>2. PICK step \in {"beside", "mkdir"}, name \in Nat, saw \in SUBSET DOMAIN inodes :
           Named(w, step, name, saw)
    BY <1>1, NamedTarget
  <2> QED
    BY <2>1, <2>2 DEF Named
<1>2. ASSUME NameTarget(w)
      PROVE  Stands(w, "resolve") /\ UNCHANGED <<desk, folder, dirs, inodes, chance>>
  BY <1>2 DEF NameTarget
<1>3. \A s : Go(w, s) => Goes(w, s)
  BY Fields DEF Go
<1>4. Mkdir(w) =>
         /\ Stands(w, "mkdir") /\ UNCHANGED <<desk, folder, dirs, inodes, chance>>
         /\ IF folder # 0 THEN Goes(w, "walk") ELSE Goes(w, "make")
  BY <1>3, Zenon DEF Mkdir
<1>5. Make(w) =>
         /\ Stands(w, "make") /\ UNCHANGED <<desk, inodes, chance>>
         /\ \/ folder # 0 /\ Goes(w, "walk") /\ UNCHANGED <<folder, dirs>>
            \/ /\ folder = 0 /\ Goes(w, "tighten")
               /\ dirs' = Append(dirs, FreshDir("umask")) /\ folder' = Len(dirs')
  BY <1>3, Zenon DEF Make
<1>6. Tighten(w) =>
         /\ Stands(w, "tighten") /\ UNCHANGED <<desk, folder, inodes, chance>>
         /\ \/ folder = 0 /\ Goes(w, "gone") /\ UNCHANGED dirs
            \/ folder # 0 /\ Goes(w, "walk") /\ UNCHANGED dirs
            \/ folder # 0 /\ Goes(w, "walk") /\ dirs' = [dirs EXCEPT ![folder].mode = "0700"]
  BY <1>3, Zenon DEF Tighten
<1>7. ASSUME Walk(w)
      PROVE  \/ folder = 0 /\ Job(w).how = "replace" /\ Retries(w)
             \/ folder = 0 /\ Goes(w, "gone")
             \/ folder # 0 /\ Goes(w, "refused")
             \/ folder # 0 /\ Job(w).how = "replace" /\ Finds(w, "check")
             \/ folder # 0 /\ Job(w).how = "stream" /\ Finds(w, "open")
             \/ folder # 0 /\ Job(w).how = "lock" /\ Finds(w, "claim")
  <2> DEFINE to == [replace |-> "check", stream |-> "open", lock |-> "claim"]
  <2>1. Job(w).how \in {"replace", "stream", "lock"}
    BY HandsTyped DEF Jobs
  <2>2. /\ Job(w).how = "replace" => to[Job(w).how] = "check"
        /\ Job(w).how = "stream" => to[Job(w).how] = "open"
        /\ Job(w).how = "lock" => to[Job(w).how] = "claim"
    OBVIOUS
  <2>3. \/ folder = 0 /\ Job(w).how = "replace" /\ hands' = Retried(w)
        \/ folder = 0 /\ hands' = [hands EXCEPT ![w].step = "gone"]
        \/ folder # 0 /\ hands' = [hands EXCEPT ![w].step = "refused"]
        \/ folder # 0 /\ hands' = [hands EXCEPT ![w].dir = folder, ![w].step = to[Job(w).how]]
    BY <1>7, Zenon DEF Walk
  <2> HIDE DEF to
  <2>4. /\ \A s : hands' = [hands EXCEPT ![w].step = s] => Goes(w, s)
        /\ \A s : hands' = [hands EXCEPT ![w].dir = folder, ![w].step = s] => Finds(w, s)
        /\ hands' = Retried(w) => Retries(w)
    BY Fields
  <2>5. \/ folder = 0 /\ Job(w).how = "replace" /\ Retries(w)
        \/ folder = 0 /\ Goes(w, "gone")
        \/ folder # 0 /\ Goes(w, "refused")
        \/ folder # 0 /\ Finds(w, to[Job(w).how])
    BY <2>3, <2>4, Zenon
  <2> QED
    BY <2>1, <2>2, <2>5
<1>8. Walk(w) => Stands(w, "walk") /\ UNCHANGED <<desk, folder, dirs, inodes, chance>>
  BY DEF Walk
<1> QED
  BY <1>1, <1>2, <1>4, <1>5, <1>6, <1>7, <1>8

(* What a step does to the listing.                                        *)
Enters(n, f) ==
    /\ KeptDirs /\ DOMAIN Listing' = DOMAIN Listing \cup {n} /\ Listing'[n] = f
    /\ \A m \in DOMAIN Listing : m # n => Listing'[m] = Listing[m]
Cleans(w) ==
    /\ KeptDirs
    /\ DOMAIN Listing' = DOMAIN Listing \ (IF hands[w].dir = folder THEN {Mine(w)} ELSE {})
    /\ \A n \in DOMAIN Listing' : Listing'[n] = Listing[n]
Renames(w) ==
    /\ KeptDirs
    /\ DOMAIN Listing' = (DOMAIN Listing \cup {hands[w].name}) \ {Mine(w)}
    /\ Listing'[hands[w].name] = hands[w].fd
    /\ \A n \in DOMAIN Listing \ {Mine(w)} : n # hands[w].name => Listing'[n] = Listing[n]

LEMMA EnteredListed ==
    ASSUME FilesInv, NEW w \in Hands, Live(hands[w].dir), NEW n \in Nat, NEW f \in Nat \ {0},
           folder' = folder, dirs' = Entered(hands[w].dir, n, f)
    PROVE  Enters(n, f) /\ hands[w].dir = folder /\ folder # 0
<1>1. hands[w].dir \in 0..Len(dirs) /\ FilesTypeOK /\ DirAccount
  BY HandsTyped
<1>2. hands[w].dir = folder /\ folder # 0
  BY <1>1, ListingFacts
<1> QED
  BY <1>1, <1>2, EnteredDirs DEF Enters

LEMMA MineIsName ==
    ASSUME FilesInv, NEW w \in Hands
    PROVE  /\ Mine(w) \in Nat /\ Mine(w) \notin ReportNames /\ Mine(w) # Lock
           /\ hands[w].try \in {0, 1}
           /\ \A v \in Hands : \A t \in {0, 1} : Temporary(v, t) = Mine(w) => v = w /\ t = hands[w].try
<1>1. Hands \subseteq Nat \ {0} /\ hands[w].try \in {0, 1}
  BY HandsTyped, SceneFacts DEF Hand
<1> QED
  BY <1>1, TemporaryNames DEF Mine

LEMMA ReplacesDigest ==
    ASSUME FilesInv, NEW w \in Hands
    PROVE  /\ Check(w) =>
                 /\ Stands(w, "check") /\ UNCHANGED <<desk, folder, dirs, inodes, chance>>
                 /\ \E m \in Modes : Meets(w, "create", m) \/ Meets(w, "refused", m)
           /\ Create(w) =>
                 /\ Stands(w, "create") /\ UNCHANGED <<desk, folder, chance>>
                 /\ \/ hands[w].dir # folder /\ Retries(w) /\ UNCHANGED <<dirs, inodes>>
                    \/ /\ hands[w].dir = folder /\ folder # 0 /\ Opens(w, "chmod", Len(inodes) + 1)
                       /\ \E m \in Modes : AddsInode(w, m)
                       /\ Enters(Mine(w), Len(inodes) + 1)
           /\ Chmod(w) =>
                 /\ Stands(w, "chmod") /\ UNCHANGED <<desk, folder, dirs, chance>>
                 /\ Goes(w, "write")
                 /\ EditsInode(hands[w].fd, w, inodes[hands[w].fd].n, ModeFor(w))
           /\ WriteAll(w) =>
                 /\ Stands(w, "write") /\ UNCHANGED <<desk, folder, dirs, chance>>
                 /\ IF inodes[hands[w].fd].n + 1 >= Chunks THEN Goes(w, "recheck") ELSE Goes(w, "write")
                 /\ EditsInode(hands[w].fd, w, inodes[hands[w].fd].n + 1, inodes[hands[w].fd].mode)
           /\ Recheck(w) =>
                 /\ Stands(w, "recheck") /\ UNCHANGED <<desk, folder, inodes, chance>>
                 /\ \/ Goes(w, "refused") /\ Cleans(w)
                    \/ Goes(w, "rename") /\ UNCHANGED dirs
           /\ Rename(w) =>
                 /\ Stands(w, "rename") /\ UNCHANGED <<desk, folder, inodes, chance>>
                 /\ \/ /\ hands[w].dir = folder => Mine(w) \notin DOMAIN Listing
                       /\ Retries(w) /\ Cleans(w)
                    \/ /\ hands[w].dir = folder /\ Mine(w) \in DOMAIN Listing
                       /\ Goes(w, "done") /\ Renames(w)
<1>0. /\ FilesTypeOK /\ DirAccount /\ hands[w].dir \in 0..Len(dirs) /\ w \in Nat \ {0}
      /\ hands[w].name \in Nat /\ Len(inodes) \in Nat /\ Mine(w) \in Nat /\ inodes \in Seq(Inode)
  BY HandsTyped, MineIsName DEF FilesTypeOK
<1>1. \A s : Go(w, s) => Goes(w, s)
  BY Fields DEF Go
<1>2. ASSUME hands[w].step \in Filling
      PROVE  /\ hands[w].fd \in DOMAIN inodes /\ hands[w].fd \in Nat \ {0} /\ inodes[hands[w].fd].by = w
             /\ inodes[hands[w].fd].n \in Nat
             /\ inodes[hands[w].fd].mode \in Modes /\ inodes[hands[w].fd].by \in Int
  <2>1. hands[w].fd \in 3..Len(inodes) /\ inodes[hands[w].fd].by = w
    BY <1>2 DEF FilesInv, FillAccount
  <2>2. hands[w].fd \in DOMAIN inodes
    BY <1>0, <2>1
  <2> QED
    BY <1>0, <2>1, <2>2, InodeFacts
<1>3. ASSUME Check(w)
      PROVE  /\ Stands(w, "check") /\ UNCHANGED <<desk, folder, dirs, inodes, chance>>
             /\ \E m \in Modes : Meets(w, "create", m) \/ Meets(w, "refused", m)
  <2> DEFINE m == IF Lookup(hands[w].dir, hands[w].name) = 0 THEN "none"
                  ELSE inodes[Lookup(hands[w].dir, hands[w].name)].mode
  <2>1. m \in Modes
    BY <1>0, InodeFacts, HandsTyped, Literals
  <2>2. \E s \in {"refused", "create"} : hands' = [hands EXCEPT ![w].step = s, ![w].existing = m]
    BY <1>3, Zenon DEF Check
  <2> HIDE DEF m
  <2> QED
    BY <1>3, <2>1, <2>2, Fields DEF Check
<1>4. ASSUME Create(w)
      PROVE  /\ Stands(w, "create") /\ UNCHANGED <<desk, folder, chance>>
             /\ \/ hands[w].dir # folder /\ Retries(w) /\ UNCHANGED <<dirs, inodes>>
                \/ /\ hands[w].dir = folder /\ folder # 0 /\ Opens(w, "chmod", Len(inodes) + 1)
                   /\ \E m \in Modes : AddsInode(w, m)
                   /\ Enters(Mine(w), Len(inodes) + 1)
  <2>1. Stands(w, "create") /\ UNCHANGED <<desk, folder, chance>> /\ hands[w].dir # 0
    BY <1>4 DEF Create, FilesInv, HandAccount, Stands, Replacing
  <2>2. CASE ~ Live(hands[w].dir)
    <3>1. hands' = Retried(w) /\ UNCHANGED <<dirs, inodes>>
      BY <1>4, <2>2 DEF Create
    <3> QED
      BY <1>0, <2>1, <2>2, <3>1, ListingFacts, Fields
  <2>3. CASE Live(hands[w].dir)
    <3>1. /\ inodes' = Append(inodes, FreshFile(w))
          /\ dirs' = Entered(hands[w].dir, Mine(w), Len(inodes'))
          /\ hands' = [hands EXCEPT ![w].step = "chmod", ![w].fd = Len(inodes')]
      BY <1>4, <2>3 DEF Create
    <3>2. \E m \in Modes : AddsInode(w, m)
      BY <1>0, <3>1, InodeAdded, Literals DEF FreshFile
    <3>3. Len(inodes') = Len(inodes) + 1
      BY <3>2 DEF AddsInode
    <3>4. Opens(w, "chmod", Len(inodes) + 1)
      BY <3>1, <3>3, Fields
    <3>5. Enters(Mine(w), Len(inodes) + 1) /\ hands[w].dir = folder /\ folder # 0
      <4>1. dirs' = Entered(hands[w].dir, Mine(w), Len(inodes) + 1) /\ folder' = folder
        BY <2>1, <3>1, <3>3, Zenon
      <4>2. Len(inodes) + 1 \in Nat \ {0}
        BY <1>0
      <4> QED
        BY <1>0, <2>3, <4>1, <4>2, EnteredListed
    <3> QED
      BY <2>1, <3>2, <3>4, <3>5
  <2> QED
    BY <2>2, <2>3
<1>5. ASSUME Chmod(w)
      PROVE  /\ Stands(w, "chmod") /\ UNCHANGED <<desk, folder, dirs, chance>> /\ Goes(w, "write")
             /\ EditsInode(hands[w].fd, w, inodes[hands[w].fd].n, ModeFor(w))
  <2>1. /\ Stands(w, "chmod") /\ UNCHANGED <<desk, folder, dirs, chance>> /\ Go(w, "write")
        /\ inodes' = [inodes EXCEPT ![hands[w].fd].mode = ModeFor(w)]
    BY <1>5 DEF Chmod
  <2>2. ModeFor(w) \in Modes
    BY HandsTyped, Literals DEF ModeFor, Jobs, Hand
  <2>3. hands[w].step \in Filling
    BY <2>1 DEF Stands, Filling
  <2> QED
    BY <1>0, <1>1, <1>2, <2>1, <2>2, <2>3, InodeEdits
<1>6. ASSUME WriteAll(w)
      PROVE  /\ Stands(w, "write") /\ UNCHANGED <<desk, folder, dirs, chance>>
             /\ IF inodes[hands[w].fd].n + 1 >= Chunks THEN Goes(w, "recheck") ELSE Goes(w, "write")
             /\ EditsInode(hands[w].fd, w, inodes[hands[w].fd].n + 1, inodes[hands[w].fd].mode)
  <2> DEFINE f == hands[w].fd
             n == inodes[f].n + 1
             b == IF inodes[f].by = w THEN w ELSE Several
  <2>1. /\ Stands(w, "write") /\ UNCHANGED <<desk, folder, dirs, chance>>
        /\ Go(w, IF n >= Chunks THEN "recheck" ELSE hands[w].step)
        /\ inodes' = [inodes EXCEPT ![f].n = n, ![f].by = b]
    BY <1>6 DEF WriteAll, Chunk
  <2>2. hands[w].step \in Filling /\ hands[w].step = "write"
    BY <2>1 DEF Stands, Filling
  <2>3. b = w /\ b \in Int /\ n \in Nat /\ f \in DOMAIN inodes
    BY <1>0, <1>2, <2>2
  <2>4. inodes[f].mode \in Modes
    BY <1>2, <2>2
  <2> HIDE DEF b, f, n
  <2>5. EditsInode(f, b, n, inodes[f].mode)
    BY <1>0, <2>1, <2>3, <2>4, InodeEdits
  <2> QED
    BY <1>1, <2>1, <2>2, <2>3, <2>5 DEF f, n
<1>7. ASSUME Recheck(w)
      PROVE  /\ Stands(w, "recheck") /\ UNCHANGED <<desk, folder, inodes, chance>>
             /\ \/ Goes(w, "refused") /\ Cleans(w)
                \/ Goes(w, "rename") /\ UNCHANGED dirs
  <2>1. /\ Stands(w, "recheck") /\ UNCHANGED <<desk, folder, inodes, chance>>
        /\ \/ Go(w, "refused") /\ dirs' = Cleaned(w)
           \/ Go(w, "rename") /\ UNCHANGED dirs
    BY <1>7 DEF Recheck
  <2> QED
    BY <1>0, <1>1, <2>1, CleanedDirs DEF Cleans
<1>8. ASSUME Rename(w)
      PROVE  /\ Stands(w, "rename") /\ UNCHANGED <<desk, folder, inodes, chance>>
             /\ \/ /\ hands[w].dir = folder => Mine(w) \notin DOMAIN Listing
                   /\ Retries(w) /\ Cleans(w)
                \/ /\ hands[w].dir = folder /\ Mine(w) \in DOMAIN Listing
                   /\ Goes(w, "done") /\ Renames(w)
  <2>1. Stands(w, "rename") /\ UNCHANGED <<desk, folder, inodes, chance>>
    BY <1>8 DEF Rename
  <2>2. Lookup(hands[w].dir, Mine(w)) # 0 <=> hands[w].dir = folder /\ Mine(w) \in DOMAIN Listing
    BY <1>0, ListingFacts
  <2>3. CASE Lookup(hands[w].dir, Mine(w)) = 0
    <3>1. hands' = Retried(w) /\ dirs' = Cleaned(w)
      BY <1>8, <2>3 DEF Rename
    <3> QED
      BY <1>0, <2>1, <2>2, <2>3, <3>1, Fields, CleanedDirs DEF Cleans
  <2>4. CASE Lookup(hands[w].dir, Mine(w)) # 0
    <3>1. /\ Go(w, "done")
          /\ dirs' = [Entered(hands[w].dir, hands[w].name, hands[w].fd) EXCEPT
                         ![hands[w].dir].at = Without(@, {Mine(w)})]
      BY <1>8, <2>4 DEF Rename
    <3>2. Live(hands[w].dir)
      BY <2>4 DEF Lookup
    <3>3. hands[w].fd \in Nat \ {0}
      BY <1>2, <2>1 DEF Stands, Filling
    <3>4. hands[w].name # Mine(w)
      <4>1. hands[w].name = Lock \/ hands[w].name \in ReportNames
        BY <2>1 DEF FilesInv, HandAccount, Stands
      <4> QED
        BY <4>1, MineIsName
    <3>5. Renames(w)
      BY <1>0, <2>1, <3>1, <3>2, <3>3, <3>4, RenamedDirs DEF Renames
    <3> QED
      BY <1>1, <2>1, <2>2, <2>4, <3>1, <3>5
  <2> QED
    BY <2>3, <2>4
<1> QED
  BY <1>3, <1>4, <1>5, <1>6, <1>7, <1>8

LEMMA StreamsDigest ==
    ASSUME FilesInv, NEW w \in Hands
    PROVE  /\ Open(w) =>
                 /\ Stands(w, "open") /\ UNCHANGED <<desk, folder, chance>>
                 /\ \/ hands[w].dir # folder /\ Retries(w) /\ UNCHANGED <<dirs, inodes>>
                    \/ Goes(w, "refused") /\ UNCHANGED <<dirs, inodes>>
                    \/ /\ hands[w].dir = folder /\ folder # 0 /\ Opens(w, "own", Len(inodes) + 1)
                       /\ hands[w].name \notin DOMAIN Listing
                       /\ \E m \in Modes : AddsInode(w, m)
                       /\ Enters(hands[w].name, Len(inodes) + 1)
                    \/ /\ hands[w].dir = folder /\ folder # 0 /\ hands[w].name \in DOMAIN Listing
                       /\ inodes[Listing[hands[w].name]].kind \notin Blocking
                       /\ Opens(w, "own", Listing[hands[w].name]) /\ UNCHANGED dirs
                       /\ EditsInode(Listing[hands[w].name], w, 0, inodes[Listing[hands[w].name]].mode)
           /\ Own(w) =>
                 /\ Stands(w, "own") /\ UNCHANGED <<desk, folder, dirs, chance>> /\ Goes(w, "emit")
                 /\ \/ UNCHANGED inodes
                    \/ EditsInode(hands[w].fd, inodes[hands[w].fd].by, inodes[hands[w].fd].n, "0600")
           /\ EmitNext(w) =>
                 /\ Stands(w, "emit") /\ UNCHANGED <<desk, folder, dirs, chance>>
                 /\ Goes(w, "done") \/ Goes(w, "emit")
                 /\ \E b \in {w, Several} :
                       /\ b = w => inodes[hands[w].fd].by = w
                       /\ EditsInode(hands[w].fd, b, inodes[hands[w].fd].n + 1, inodes[hands[w].fd].mode)
<1>0. /\ FilesTypeOK /\ DirAccount /\ hands[w].dir \in 0..Len(dirs) /\ w \in Nat \ {0}
      /\ hands[w].name \in Nat /\ Len(inodes) \in Nat /\ inodes \in Seq(Inode)
      /\ Several \in Int /\ DOMAIN inodes = 1..Len(inodes)
  BY HandsTyped DEF FilesTypeOK, Several
<1>1. \A s : Go(w, s) => Goes(w, s)
  BY Fields DEF Go
<1>2. ASSUME hands[w].step \in {"own", "emit"}
      PROVE  /\ hands[w].fd \in DOMAIN inodes /\ inodes[hands[w].fd].by \in Int
             /\ inodes[hands[w].fd].n \in Nat /\ inodes[hands[w].fd].mode \in Modes
  <2>1. hands[w].fd \in DOMAIN inodes
    BY <1>2 DEF FilesInv, FillAccount
  <2> QED
    BY <1>0, <2>1, InodeFacts
<1>3. ASSUME Open(w)
      PROVE  /\ Stands(w, "open") /\ UNCHANGED <<desk, folder, chance>>
             /\ \/ hands[w].dir # folder /\ Retries(w) /\ UNCHANGED <<dirs, inodes>>
                \/ Goes(w, "refused") /\ UNCHANGED <<dirs, inodes>>
                \/ /\ hands[w].dir = folder /\ folder # 0 /\ Opens(w, "own", Len(inodes) + 1)
                   /\ hands[w].name \notin DOMAIN Listing
                   /\ \E m \in Modes : AddsInode(w, m)
                   /\ Enters(hands[w].name, Len(inodes) + 1)
                \/ /\ hands[w].dir = folder /\ folder # 0 /\ hands[w].name \in DOMAIN Listing
                   /\ inodes[Listing[hands[w].name]].kind \notin Blocking
                   /\ Opens(w, "own", Listing[hands[w].name]) /\ UNCHANGED dirs
                   /\ EditsInode(Listing[hands[w].name], w, 0, inodes[Listing[hands[w].name]].mode)
  <2> DEFINE f == Lookup(hands[w].dir, hands[w].name)
  <2>1. Stands(w, "open") /\ UNCHANGED <<desk, folder, chance>> /\ hands[w].dir # 0
    BY <1>3 DEF Open, FilesInv, HandAccount, Stands
  <2>2. /\ f = IF hands[w].dir = folder /\ hands[w].name \in DOMAIN Listing
               THEN Listing[hands[w].name] ELSE 0
        /\ Live(hands[w].dir) <=> hands[w].dir = folder
        /\ \A n \in DOMAIN Listing : Listing[n] \in DOMAIN inodes /\ Listing[n] # 0
    BY <1>0, <2>1, ListingFacts DEF DirAccount
  <2>3. CASE ~ Live(hands[w].dir) /\ hands' = Retried(w) /\ UNCHANGED <<inodes, dirs>>
    BY <2>1, <2>2, <2>3, Fields
  <2>4. CASE Go(w, "refused") /\ UNCHANGED <<inodes, dirs>>
    BY <1>1, <2>1, <2>4
  <2>5. CASE /\ Live(hands[w].dir) /\ f = 0
             /\ inodes' = Append(inodes, FreshFile(w))
             /\ dirs' = Entered(hands[w].dir, hands[w].name, Len(inodes'))
             /\ hands' = [hands EXCEPT ![w].step = "own", ![w].fd = Len(inodes')]
    <3>2. \E m \in Modes : AddsInode(w, m)
      BY <1>0, <2>5, InodeAdded, Literals DEF FreshFile
    <3>3. Len(inodes') = Len(inodes) + 1
      BY <3>2 DEF AddsInode
    <3>4. Opens(w, "own", Len(inodes) + 1)
      BY <2>5, <3>3, Fields
    <3>5. Enters(hands[w].name, Len(inodes) + 1) /\ hands[w].dir = folder /\ folder # 0
      <4>1. dirs' = Entered(hands[w].dir, hands[w].name, Len(inodes) + 1) /\ folder' = folder
        BY <2>1, <2>5, <3>3, Zenon
      <4>2. Len(inodes) + 1 \in Nat \ {0}
        BY <1>0
      <4> QED
        BY <1>0, <2>5, <4>1, <4>2, EnteredListed
    <3>6. hands[w].name \notin DOMAIN Listing
      BY <2>2, <2>5, <3>5
    <3> QED
      BY <2>1, <3>2, <3>4, <3>5, <3>6
  <2>6. CASE /\ f # 0 /\ KindAt(hands[w].dir, hands[w].name) \notin Blocking
             /\ inodes' = [inodes EXCEPT ![f].by = w, ![f].n = 0] /\ UNCHANGED dirs
             /\ hands' = [hands EXCEPT ![w].step = "own", ![w].fd = f]
    <3>1. /\ hands[w].dir = folder /\ folder # 0 /\ hands[w].name \in DOMAIN Listing
          /\ f = Listing[hands[w].name] /\ f \in DOMAIN inodes
      BY <2>1, <2>2, <2>6
    <3>2. inodes[f].kind \notin Blocking
      BY <2>6 DEF KindAt
    <3> HIDE DEF f
    <3>3. Opens(w, "own", f)
      BY <2>6, Fields
    <3>4. EditsInode(f, w, 0, inodes[f].mode)
      <4>1. w \in Int /\ 0 \in Nat /\ inodes[f].mode \in Modes
        BY <1>0, <3>1, InodeFacts
      <4> QED
        BY <1>0, <2>6, <3>1, <4>1, InodeEdits
    <3> QED
      BY <2>1, <2>6, <3>1, <3>2, <3>3, <3>4
  <2> QED
    BY <1>3, <2>3, <2>4, <2>5, <2>6 DEF Open
<1>4. ASSUME Own(w)
      PROVE  /\ Stands(w, "own") /\ UNCHANGED <<desk, folder, dirs, chance>> /\ Goes(w, "emit")
             /\ \/ UNCHANGED inodes
                \/ EditsInode(hands[w].fd, inodes[hands[w].fd].by, inodes[hands[w].fd].n, "0600")
  <2>1. /\ Stands(w, "own") /\ UNCHANGED <<desk, folder, dirs, chance>> /\ Go(w, "emit")
        /\ \/ UNCHANGED inodes
           \/ inodes' = [inodes EXCEPT ![hands[w].fd].mode = "0600"]
    BY <1>4 DEF Own
  <2>2. hands[w].step \in {"own", "emit"} /\ "0600" \in Modes
    BY <2>1, Literals DEF Stands
  <2> QED
    BY <1>0, <1>1, <1>2, <2>1, <2>2, InodeEdits
<1>5. ASSUME EmitNext(w)
      PROVE  /\ Stands(w, "emit") /\ UNCHANGED <<desk, folder, dirs, chance>>
             /\ Goes(w, "done") \/ Goes(w, "emit")
             /\ \E b \in {w, Several} :
                   /\ b = w => inodes[hands[w].fd].by = w
                   /\ EditsInode(hands[w].fd, b, inodes[hands[w].fd].n + 1, inodes[hands[w].fd].mode)
  <2> DEFINE f == hands[w].fd
             n == inodes[f].n + 1
             b == IF inodes[f].by = w THEN w ELSE Several
  <2>1. /\ Stands(w, "emit") /\ UNCHANGED <<desk, folder, dirs, chance>>
        /\ Go(w, IF n >= Chunks THEN "done" ELSE hands[w].step)
        /\ inodes' = [inodes EXCEPT ![f].n = n, ![f].by = b]
    BY <1>5 DEF EmitNext, Chunk
  <2>2. hands[w].step \in {"own", "emit"} /\ hands[w].step = "emit"
    BY <2>1 DEF Stands
  <2>3. /\ b \in {w, Several} /\ b \in Int /\ n \in Nat /\ f \in DOMAIN inodes
        /\ b = w => inodes[f].by = w
    BY <1>0, <1>2, <2>2 DEF Several
  <2>4. inodes[f].mode \in Modes
    BY <1>2, <2>2
  <2> HIDE DEF b, f, n
  <2>5. EditsInode(f, b, n, inodes[f].mode)
    BY <1>0, <2>1, <2>3, <2>4, InodeEdits
  <2> QED
    BY <1>1, <2>1, <2>2, <2>3, <2>5 DEF f, n
<1> QED
  BY <1>3, <1>4, <1>5

LEMMA LocksDigest ==
    ASSUME FilesInv, NEW w \in Hands
    PROVE  /\ Claim(w) =>
                 /\ Stands(w, "claim") /\ UNCHANGED <<desk, folder, chance>>
                 /\ \/ hands[w].dir # folder /\ Retries(w) /\ UNCHANGED <<dirs, inodes>>
                    \/ /\ hands[w].dir = folder /\ Lock \in DOMAIN Listing
                       /\ Tries(w, "rewalk", 0) /\ UNCHANGED <<dirs, inodes>>
                    \/ /\ hands[w].dir = folder /\ folder # 0 /\ Opens(w, "queue", Len(inodes) + 1)
                       /\ Lock \notin DOMAIN Listing
                       /\ \E m \in Modes : AddsInode(w, m)
                       /\ Enters(Lock, Len(inodes) + 1)
           /\ Rewalk(w) =>
                 /\ Stands(w, "rewalk") /\ UNCHANGED <<desk, folder, dirs, inodes, chance>>
                 /\ \/ folder = 0 /\ Goes(w, "gone")
                    \/ folder # 0 /\ Finds(w, "reopen")
           /\ Reopen(w) =>
                 /\ Stands(w, "reopen") /\ UNCHANGED <<desk, folder, dirs, inodes, chance>>
                 /\ \/ /\ hands[w].dir = folder /\ Lock \in DOMAIN Listing
                       /\ Opens(w, "queue", Listing[Lock])
                    \/ /\ hands[w].dir = folder => Lock \notin DOMAIN Listing
                       /\ Tries(w, "rewalk", 1) \/ Goes(w, "gone")
           /\ Acquire(w) =>
                 /\ Stands(w, "queue") /\ UNCHANGED <<desk, folder, dirs, inodes, chance>>
                 /\ \A v \in Hands : Stands(v, "hold") => hands[v].fd # hands[w].fd
                 /\ Goes(w, "hold")
           /\ Release(w) =>
                 /\ Stands(w, "hold") /\ UNCHANGED <<desk, folder, dirs, inodes, chance>>
                 /\ Goes(w, "done")
<1>0. /\ FilesTypeOK /\ DirAccount /\ hands[w].dir \in 0..Len(dirs) /\ w \in Nat \ {0}
      /\ Len(inodes) \in Nat /\ inodes \in Seq(Inode) /\ Lock \in Nat /\ folder \in 0..Len(dirs)
  BY HandsTyped DEF FilesTypeOK, Lock
<1>1. \A s : Go(w, s) => Goes(w, s)
  BY Fields DEF Go
<1>2. /\ Lookup(hands[w].dir, Lock) = IF hands[w].dir = folder /\ Lock \in DOMAIN Listing
                                      THEN Listing[Lock] ELSE 0
      /\ hands[w].dir # 0 => (Live(hands[w].dir) <=> hands[w].dir = folder)
      /\ \A n \in DOMAIN Listing : Listing[n] \in DOMAIN inodes /\ Listing[n] # 0
  BY <1>0, ListingFacts DEF DirAccount
<1>3. ASSUME Claim(w)
      PROVE  /\ Stands(w, "claim") /\ UNCHANGED <<desk, folder, chance>>
             /\ \/ hands[w].dir # folder /\ Retries(w) /\ UNCHANGED <<dirs, inodes>>
                \/ /\ hands[w].dir = folder /\ Lock \in DOMAIN Listing
                   /\ Tries(w, "rewalk", 0) /\ UNCHANGED <<dirs, inodes>>
                \/ /\ hands[w].dir = folder /\ folder # 0 /\ Opens(w, "queue", Len(inodes) + 1)
                   /\ Lock \notin DOMAIN Listing
                   /\ \E m \in Modes : AddsInode(w, m)
                   /\ Enters(Lock, Len(inodes) + 1)
  <2>1. Stands(w, "claim") /\ UNCHANGED <<desk, folder, chance>> /\ hands[w].dir # 0
    BY <1>3 DEF Claim, FilesInv, HandAccount, Stands
  <2>2. CASE ~ Live(hands[w].dir) /\ hands' = Retried(w) /\ UNCHANGED <<inodes, dirs>>
    BY <1>2, <2>1, <2>2, Fields
  <2>3. CASE /\ Lookup(hands[w].dir, Lock) # 0 /\ UNCHANGED <<inodes, dirs>>
             /\ hands' = [hands EXCEPT ![w].step = "rewalk", ![w].try = 0]
    BY <1>2, <2>1, <2>3, Fields
  <2>4. CASE /\ Live(hands[w].dir) /\ Lookup(hands[w].dir, Lock) = 0
             /\ inodes' = Append(inodes, [FreshFile(w) EXCEPT !.mode = "0600"])
             /\ dirs' = Entered(hands[w].dir, Lock, Len(inodes'))
             /\ hands' = [hands EXCEPT ![w].step = "queue", ![w].fd = Len(inodes')]
    <3>1. [FreshFile(w) EXCEPT !.mode = "0600"] = [kind |-> "file", by |-> w, n |-> 0, mode |-> "0600"]
      BY DEF FreshFile
    <3>2. \E m \in Modes : AddsInode(w, m)
      BY <1>0, <2>4, <3>1, InodeAdded, Literals
    <3>3. Len(inodes') = Len(inodes) + 1
      BY <3>2 DEF AddsInode
    <3>4. Opens(w, "queue", Len(inodes) + 1)
      BY <2>4, <3>3, Fields
    <3>5. Enters(Lock, Len(inodes) + 1) /\ hands[w].dir = folder /\ folder # 0
      <4>1. dirs' = Entered(hands[w].dir, Lock, Len(inodes) + 1) /\ folder' = folder
        BY <2>1, <2>4, <3>3, Zenon
      <4>2. Len(inodes) + 1 \in Nat \ {0}
        BY <1>0
      <4> QED
        BY <1>0, <2>4, <4>1, <4>2, EnteredListed
    <3>6. Lock \notin DOMAIN Listing
      BY <1>2, <2>4, <3>5
    <3> QED
      BY <2>1, <3>2, <3>4, <3>5, <3>6
  <2> QED
    BY <1>3, <2>2, <2>3, <2>4 DEF Claim
<1>4. ASSUME Rewalk(w)
      PROVE  /\ Stands(w, "rewalk") /\ UNCHANGED <<desk, folder, dirs, inodes, chance>>
             /\ \/ folder = 0 /\ Goes(w, "gone")
                \/ folder # 0 /\ Finds(w, "reopen")
  <2>1. /\ Stands(w, "rewalk") /\ UNCHANGED <<desk, folder, dirs, inodes, chance>>
        /\ \/ folder = 0 /\ hands' = [hands EXCEPT ![w].step = "gone"]
           \/ folder # 0 /\ hands' = [hands EXCEPT ![w].dir = folder, ![w].step = "reopen"]
    BY <1>4, Zenon DEF Rewalk
  <2> QED
    BY <2>1, Fields
<1>5. ASSUME Reopen(w)
      PROVE  /\ Stands(w, "reopen") /\ UNCHANGED <<desk, folder, dirs, inodes, chance>>
             /\ \/ /\ hands[w].dir = folder /\ Lock \in DOMAIN Listing
                   /\ Opens(w, "queue", Listing[Lock])
                \/ /\ hands[w].dir = folder => Lock \notin DOMAIN Listing
                   /\ Tries(w, "rewalk", 1) \/ Goes(w, "gone")
  <2> DEFINE f == Lookup(hands[w].dir, Lock)
  <2>1. /\ Stands(w, "reopen") /\ UNCHANGED <<desk, folder, dirs, inodes, chance>>
        /\ \/ f # 0 /\ hands' = [hands EXCEPT ![w].step = "queue", ![w].fd = f]
           \/ /\ f = 0
              /\ \/ hands' = [hands EXCEPT ![w].step = "rewalk", ![w].try = 1]
                 \/ hands' = [hands EXCEPT ![w].step = "gone"]
    BY <1>5, Zenon DEF Reopen
  <2>2. /\ f # 0 <=> hands[w].dir = folder /\ Lock \in DOMAIN Listing
        /\ f # 0 => f = Listing[Lock]
    BY <1>2
  <2> HIDE DEF f
  <2> QED
    BY <2>1, <2>2, Fields
<1>6. ASSUME Acquire(w)
      PROVE  /\ Stands(w, "queue") /\ UNCHANGED <<desk, folder, dirs, inodes, chance>>
             /\ \A v \in Hands : Stands(v, "hold") => hands[v].fd # hands[w].fd
             /\ Goes(w, "hold")
  BY <1>1, <1>6 DEF Acquire
<1>7. ASSUME Release(w)
      PROVE  /\ Stands(w, "hold") /\ UNCHANGED <<desk, folder, dirs, inodes, chance>>
             /\ Goes(w, "done")
  BY <1>1, <1>7 DEF Release
<1> QED
  BY <1>3, <1>4, <1>5, <1>6, <1>7

LEMMA EndsDigest ==
    ASSUME FilesInv, NEW w \in Hands
    PROVE  /\ Fault(w) =>
                 /\ UNCHANGED <<desk, folder, inodes>> /\ Goes(w, "failed")
                 /\ \/ Stands(w, "write") /\ Cleans(w)
                    \/ Stands(w, "emit") /\ UNCHANGED dirs
           /\ Killed(w) =>
                 /\ hands[w].step \notin Over \cup {"resolve"}
                 /\ UNCHANGED <<desk, folder, dirs, inodes>> /\ Goes(w, "died")
<1>0. FilesTypeOK /\ DirAccount /\ hands[w].dir \in 0..Len(dirs)
  BY HandsTyped
<1>1. \A s : Go(w, s) => Goes(w, s)
  BY Fields DEF Go
<1>2. ASSUME Fault(w)
      PROVE  /\ UNCHANGED <<desk, folder, inodes>> /\ Goes(w, "failed")
             /\ \/ Stands(w, "write") /\ Cleans(w)
                \/ Stands(w, "emit") /\ UNCHANGED dirs
  <2>1. /\ UNCHANGED <<desk, folder, inodes>> /\ Go(w, "failed")
        /\ \/ Stands(w, "write") /\ dirs' = Cleaned(w)
           \/ Stands(w, "emit") /\ UNCHANGED dirs
    BY <1>2 DEF Fault, Stands
  <2> QED
    BY <1>0, <1>1, <2>1, CleanedDirs DEF Cleans
<1>3. ASSUME Killed(w)
      PROVE  /\ hands[w].step \notin Over \cup {"resolve"}
             /\ UNCHANGED <<desk, folder, dirs, inodes>> /\ Goes(w, "died")
  BY <1>1, <1>3 DEF Killed
<1> QED
  BY <1>2, <1>3

(* Around the processes: the directory is emptied, taken away or made      *)
(* again, or a link is put in the report's place.                          *)
Empties == KeptDirs /\ DOMAIN Listing' = {} /\ chance'.touched
Removes ==
    /\ folder # 0 /\ folder' = 0 /\ dirs' \in Seq(Directory) /\ Len(dirs') = Len(dirs)
    /\ DOMAIN Listing' = {} /\ DOMAIN Listing = {} /\ chance'.touched
    /\ \A d \in 1..Len(dirs) : /\ ~ dirs'[d].live /\ DOMAIN dirs'[d].at = {}
                               /\ dirs'[d].mode = dirs[d].mode
Makes ==
    /\ folder = 0 /\ folder' = Len(dirs) + 1
    /\ dirs' \in Seq(Directory) /\ Len(dirs') = Len(dirs) + 1
    /\ DOMAIN Listing' = {} /\ DOMAIN Listing = {} /\ dirs'[folder'].live
    /\ \A d \in 1..Len(dirs) : dirs'[d] = dirs[d]
Relinks == desk.leaf = "swapped" /\ chance'.touched /\ Enters(Report, 2)

LEMMA AroundDigest ==
    ASSUME FilesInv, Around
    PROVE  /\ UNCHANGED <<desk, inodes, hands>>
           /\ chance' \in [removals : Nat, faults : Nat, deaths : Nat, touched : BOOLEAN]
           /\ chance.touched => chance'.touched
           /\ Empties \/ Removes \/ (Makes /\ chance.touched) \/ Relinks
<1> DEFINE Chances == [removals : Nat, faults : Nat, deaths : Nat, touched : BOOLEAN]
<1>0. FilesTypeOK /\ DirAccount /\ folder \in 0..Len(dirs) /\ chance \in Chances
  BY DEF FilesInv, FilesTypeOK
<1>1. ASSUME NEW yes \in BOOLEAN, yes
      PROVE  LET c == [chance EXCEPT !.touched = yes] IN c \in Chances /\ c.touched
  BY <1>0, <1>1
<1>2. ASSUME NEW yes \in BOOLEAN, yes, NEW r \in Nat
      PROVE  LET c == [chance EXCEPT !.removals = r, !.touched = yes] IN c \in Chances /\ c.touched
  BY <1>0, <1>2
<1>3. CASE EmptyFolder
  <2>1. folder # 0 /\ folder' = folder /\ dirs' = [dirs EXCEPT ![folder].at = NoNames]
    BY <1>3 DEF EmptyFolder, Live
  <2>2. KeptDirs /\ DOMAIN Listing' = {}
    BY <1>0, <2>1, RelistedDirs, NoNamesIsListing
  <2>3. chance' \in Chances /\ chance'.touched
    BY <1>1, <1>3, Zenon DEF EmptyFolder
  <2> QED
    BY <1>3, <2>2, <2>3 DEF EmptyFolder, Empties
<1>4. CASE RemoveFolder
  <2>1. folder # 0 /\ folder' = 0 /\ DOMAIN dirs[folder].at = {}
    BY <1>4 DEF RemoveFolder, Live
  <2>2. \E no \in BOOLEAN : ~ no /\ dirs' = [dirs EXCEPT ![folder].live = no]
    BY <1>4, Zenon DEF RemoveFolder
  <2>3. /\ dirs' \in Seq(Directory) /\ Len(dirs') = Len(dirs)
        /\ DOMAIN Listing' = {} /\ DOMAIN Listing = {}
        /\ \A d \in 1..Len(dirs) : /\ ~ dirs'[d].live /\ DOMAIN dirs'[d].at = {}
                                   /\ dirs'[d].mode = dirs[d].mode
    BY <1>0, <2>1, <2>2, RemovedDir
  <2>4. chance' \in Chances /\ chance'.touched
    <3>1. chance.removals - 1 \in Nat
      <4>1. chance.removals \in Nat /\ chance.removals > 0
        BY <1>0, <1>4 DEF RemoveFolder
      <4> QED
        BY <4>1
    <3> QED
      BY <1>2, <1>4, <3>1, Zenon DEF RemoveFolder
  <2> QED
    BY <1>4, <2>1, <2>3, <2>4 DEF RemoveFolder, Removes
<1>5. CASE Remake
  <2>1. folder = 0 /\ dirs' = Append(dirs, FreshDir("theirs")) /\ folder' = Len(dirs')
    BY <1>5 DEF Remake
  <2>2. Makes
    BY <1>0, <2>1, NewDir, Literals DEF Makes
  <2> QED
    BY <1>0, <1>5, <2>2 DEF Remake
<1>6. CASE Relink
  <2>1. /\ folder # 0 /\ folder' = folder /\ dirs' = Entered(folder, Report, 2)
        /\ Live(folder) /\ desk.leaf = "swapped" /\ Report \in Nat /\ 2 \in Nat \ {0}
    BY <1>6 DEF Relink, Live, Report
  <2>2. Enters(Report, 2)
    BY <1>0, <2>1, EnteredDirs DEF Enters
  <2>3. chance' \in Chances /\ chance'.touched
    BY <1>1, <1>6, Zenon DEF Relink
  <2> QED
    BY <1>6, <2>1, <2>2, <2>3 DEF Relink, Relinks
<1> QED
  BY <1>3, <1>4, <1>5, <1>6 DEF Around

-----------------------------------------------------------------------------
(* A process's step, by what it does.  Nothing but its process changes     *)
(* when it aims at a name, advances, misses its directory or stops.        *)
Still == UNCHANGED <<folder, dirs, inodes>> /\ Listing' = Listing
Aimed(w) ==
    /\ Still /\ Stands(w, "resolve")
    /\ \E step \in {"beside", "mkdir"}, name \in Nat, saw \in SUBSET DOMAIN inodes :
          /\ Aims(w, step, name, saw)
          /\ IF Job(w).how = "lock" THEN name = Lock
             ELSE name \in ReportNames /\ (saw # {} => name \notin DOMAIN Listing)
          /\ saw \subseteq {Listing[n] : n \in DOMAIN Listing \cap ReportNames}
Advanced(w) ==
    /\ Still
    /\ \/ Stands(w, "mkdir") /\ (Goes(w, "make") \/ (folder # 0 /\ Goes(w, "walk")))
       \/ Stands(w, "make") /\ folder # 0 /\ Goes(w, "walk")
       \/ Stands(w, "tighten") /\ folder # 0 /\ Goes(w, "walk")
       \/ Stands(w, "walk") /\ folder # 0 /\ Job(w).how = "replace" /\ Finds(w, "check")
       \/ Stands(w, "walk") /\ folder # 0 /\ Job(w).how = "stream" /\ Finds(w, "open")
       \/ Stands(w, "walk") /\ folder # 0 /\ Job(w).how = "lock" /\ Finds(w, "claim")
       \/ Stands(w, "check") /\ \E m \in Modes : Meets(w, "create", m)
       \/ Stands(w, "recheck") /\ Goes(w, "rename")
       \/ Stands(w, "own") /\ Goes(w, "emit")
       \/ /\ Stands(w, "claim") /\ hands[w].dir = folder /\ Lock \in DOMAIN Listing
          /\ Tries(w, "rewalk", 0)
       \/ Stands(w, "rewalk") /\ folder # 0 /\ Finds(w, "reopen")
       \/ /\ Stands(w, "reopen") /\ hands[w].dir = folder /\ Lock \in DOMAIN Listing
          /\ Opens(w, "queue", Listing[Lock])
       \/ /\ Stands(w, "queue") /\ \A v \in Hands : Stands(v, "hold") => hands[v].fd # hands[w].fd
          /\ Goes(w, "hold")
       \/ Stands(w, "hold") /\ Goes(w, "done")
Missed(w) ==
    /\ Still
    /\ \/ Stands(w, "tighten") /\ folder = 0 /\ Goes(w, "gone")
       \/ Stands(w, "walk") /\ folder = 0 /\ Job(w).how = "replace" /\ Retries(w)
       \/ Stands(w, "walk") /\ folder = 0 /\ Goes(w, "gone")
       \/ hands[w].step \in {"create", "open", "claim"} /\ hands[w].dir # folder /\ Retries(w)
       \/ Stands(w, "rewalk") /\ folder = 0 /\ Goes(w, "gone")
       \/ /\ Stands(w, "reopen") /\ (hands[w].dir = folder => Lock \notin DOMAIN Listing)
          /\ Tries(w, "rewalk", 1) \/ Goes(w, "gone")
Stopped(w) ==
    /\ Still
    /\ \/ hands[w].step \in {"walk", "open"} /\ Goes(w, "refused")
       \/ Stands(w, "check") /\ \E m \in Modes : Meets(w, "refused", m)
       \/ Stands(w, "emit") /\ Goes(w, "failed")
       \/ hands[w].step \notin Over \cup {"resolve"} /\ Goes(w, "died")

(* The other steps change the directories or the files too.                *)
MadeDir(w) == Makes /\ UNCHANGED inodes /\ Stands(w, "make") /\ Goes(w, "tighten")
Tightens ==
    /\ dirs' \in Seq(Directory) /\ Len(dirs') = Len(dirs) /\ UNCHANGED folder /\ Listing' = Listing
    /\ \A d \in 1..Len(dirs) : /\ dirs'[d].live = dirs[d].live /\ dirs'[d].at = dirs[d].at
                               /\ d # folder => dirs'[d].mode = dirs[d].mode
TightenedDir(w) == Tightens /\ UNCHANGED inodes /\ Stands(w, "tighten") /\ folder # 0 /\ Goes(w, "walk")
Created(w) ==
    /\ Stands(w, "create") /\ hands[w].dir = folder /\ folder # 0
    /\ Opens(w, "chmod", Len(inodes) + 1) /\ Enters(Mine(w), Len(inodes) + 1)
    /\ \E m \in Modes : AddsInode(w, m)
Filled(w) ==
    /\ UNCHANGED <<folder, dirs>> /\ Listing' = Listing
    /\ \/ /\ Stands(w, "chmod") /\ Goes(w, "write")
          /\ EditsInode(hands[w].fd, w, inodes[hands[w].fd].n, ModeFor(w))
       \/ /\ Stands(w, "write")
          /\ IF inodes[hands[w].fd].n + 1 >= Chunks THEN Goes(w, "recheck") ELSE Goes(w, "write")
          /\ EditsInode(hands[w].fd, w, inodes[hands[w].fd].n + 1, inodes[hands[w].fd].mode)
Cleared(w) ==
    /\ Cleans(w) /\ UNCHANGED inodes
    /\ \/ Stands(w, "write") /\ Goes(w, "failed")
       \/ Stands(w, "recheck") /\ Goes(w, "refused")
       \/ /\ Stands(w, "rename") /\ Retries(w)
          /\ hands[w].dir = folder => Mine(w) \notin DOMAIN Listing
PutInPlace(w) ==
    /\ Renames(w) /\ UNCHANGED inodes /\ Stands(w, "rename") /\ Goes(w, "done")
    /\ hands[w].dir = folder /\ Mine(w) \in DOMAIN Listing
OpenedNew(w) ==
    /\ Stands(w, "open") /\ hands[w].dir = folder /\ folder # 0
    /\ hands[w].name \notin DOMAIN Listing
    /\ Opens(w, "own", Len(inodes) + 1) /\ Enters(hands[w].name, Len(inodes) + 1)
    /\ \E m \in Modes : AddsInode(w, m)
OpenedOld(w) ==
    /\ UNCHANGED <<folder, dirs>> /\ Listing' = Listing
    /\ Stands(w, "open") /\ hands[w].dir = folder /\ hands[w].name \in DOMAIN Listing
    /\ inodes[Listing[hands[w].name]].kind \notin Blocking
    /\ Opens(w, "own", Listing[hands[w].name])
    /\ EditsInode(Listing[hands[w].name], w, 0, inodes[Listing[hands[w].name]].mode)
Emitted(w) ==
    /\ UNCHANGED <<folder, dirs>> /\ Listing' = Listing
    /\ \/ Stands(w, "own") /\ Goes(w, "emit")
       \/ Stands(w, "emit") /\ (Goes(w, "done") \/ Goes(w, "emit"))
    /\ \E b \in Int, n \in Nat, m \in Modes :
          /\ b \in {inodes[hands[w].fd].by, Several}
          /\ EditsInode(hands[w].fd, b, n, m)
ClaimedNew(w) ==
    /\ Stands(w, "claim") /\ hands[w].dir = folder /\ folder # 0 /\ Lock \notin DOMAIN Listing
    /\ Opens(w, "queue", Len(inodes) + 1) /\ Enters(Lock, Len(inodes) + 1)
    /\ \E m \in Modes : AddsInode(w, m)

Effect(w) ==
    \/ Aimed(w) \/ Advanced(w) \/ Missed(w) \/ Stopped(w) \/ MadeDir(w) \/ TightenedDir(w)
    \/ Created(w) \/ Filled(w) \/ Cleared(w) \/ PutInPlace(w)
    \/ OpenedNew(w) \/ OpenedOld(w) \/ Emitted(w) \/ ClaimedNew(w)

LEMMA Effects ==
    ASSUME FilesInv, NEW w \in Hands, StepOf(w)
    PROVE  Effect(w)
<1>0. UNCHANGED <<folder, dirs>> => Listing' = Listing
  BY DEF Listing
<1>1. CASE NameTarget(w)
  BY <1>0, <1>1, NamesDigest DEF Aimed, Still, Effect
<1>2. CASE Mkdir(w)
  <2>1. Stands(w, "mkdir") /\ UNCHANGED <<desk, folder, dirs, inodes, chance>>
        /\ IF folder # 0 THEN Goes(w, "walk") ELSE Goes(w, "make")
    BY <1>2, NamesDigest
  <2> QED
    BY <1>0, <2>1 DEF Advanced, Still, Effect
<1>3. CASE Make(w)
  <2>1. /\ Stands(w, "make") /\ UNCHANGED <<desk, inodes, chance>>
        /\ \/ folder # 0 /\ Goes(w, "walk") /\ UNCHANGED <<folder, dirs>>
           \/ /\ folder = 0 /\ Goes(w, "tighten")
              /\ dirs' = Append(dirs, FreshDir("umask")) /\ folder' = Len(dirs')
    BY <1>3, NamesDigest
  <2>2. folder = 0 /\ dirs' = Append(dirs, FreshDir("umask")) /\ folder' = Len(dirs') => Makes
    BY HandsTyped, NewDir, Literals DEF Makes
  <2> QED
    BY <1>0, <2>1, <2>2 DEF Advanced, MadeDir, Still, Effect
<1>4. CASE Tighten(w)
  <2>1. /\ Stands(w, "tighten") /\ UNCHANGED <<desk, folder, inodes, chance>>
        /\ \/ folder = 0 /\ Goes(w, "gone") /\ UNCHANGED dirs
           \/ folder # 0 /\ Goes(w, "walk") /\ UNCHANGED dirs
           \/ folder # 0 /\ Goes(w, "walk") /\ dirs' = [dirs EXCEPT ![folder].mode = "0700"]
    BY <1>4, NamesDigest
  <2>2. folder # 0 /\ dirs' = [dirs EXCEPT ![folder].mode = "0700"] => Tightens
    BY <2>1, HandsTyped, TightenedDirs, Literals DEF Tightens
  <2> QED
    BY <1>0, <2>1, <2>2 DEF Advanced, Missed, TightenedDir, Still, Effect
<1>5. CASE Walk(w)
  <2>1. /\ Stands(w, "walk") /\ UNCHANGED <<desk, folder, dirs, inodes, chance>>
        /\ \/ folder = 0 /\ Job(w).how = "replace" /\ Retries(w)
           \/ folder = 0 /\ Goes(w, "gone")
           \/ folder # 0 /\ Goes(w, "refused")
           \/ folder # 0 /\ Job(w).how = "replace" /\ Finds(w, "check")
           \/ folder # 0 /\ Job(w).how = "stream" /\ Finds(w, "open")
           \/ folder # 0 /\ Job(w).how = "lock" /\ Finds(w, "claim")
    BY <1>5, NamesDigest
  <2> QED
    BY <1>0, <2>1 DEF Advanced, Missed, Stopped, Still, Stands, Effect
<1>6. CASE Check(w)
  <2>1. /\ Stands(w, "check") /\ UNCHANGED <<desk, folder, dirs, inodes, chance>>
        /\ \E m \in Modes : Meets(w, "create", m) \/ Meets(w, "refused", m)
    BY <1>6, ReplacesDigest
  <2> QED
    BY <1>0, <2>1 DEF Advanced, Stopped, Still, Effect
<1>7. CASE Create(w)
  <2>1. /\ Stands(w, "create") /\ UNCHANGED <<desk, folder, chance>>
        /\ \/ hands[w].dir # folder /\ Retries(w) /\ UNCHANGED <<dirs, inodes>>
           \/ /\ hands[w].dir = folder /\ folder # 0 /\ Opens(w, "chmod", Len(inodes) + 1)
              /\ \E m \in Modes : AddsInode(w, m)
              /\ Enters(Mine(w), Len(inodes) + 1)
    BY <1>7, ReplacesDigest
  <2> QED
    BY <1>0, <2>1 DEF Missed, Created, Still, Stands, Effect
<1>8. CASE Chmod(w) \/ WriteAll(w)
  BY <1>0, <1>8, ReplacesDigest DEF Filled, Effect
<1>9. CASE Recheck(w)
  <2>1. /\ Stands(w, "recheck") /\ UNCHANGED <<desk, folder, inodes, chance>>
        /\ \/ Goes(w, "refused") /\ Cleans(w)
           \/ Goes(w, "rename") /\ UNCHANGED dirs
    BY <1>9, ReplacesDigest
  <2> QED
    BY <1>0, <2>1 DEF Advanced, Cleared, Still, Effect
<1>10. CASE Rename(w)
  <2>1. /\ Stands(w, "rename") /\ UNCHANGED <<desk, folder, inodes, chance>>
        /\ \/ /\ hands[w].dir = folder => Mine(w) \notin DOMAIN Listing
              /\ Retries(w) /\ Cleans(w)
           \/ /\ hands[w].dir = folder /\ Mine(w) \in DOMAIN Listing
              /\ Goes(w, "done") /\ Renames(w)
    BY <1>10, ReplacesDigest
  <2> QED
    BY <2>1 DEF Cleared, PutInPlace, Effect
<1>11. CASE Open(w)
  <2>1. /\ Stands(w, "open") /\ UNCHANGED <<desk, folder, chance>>
        /\ \/ hands[w].dir # folder /\ Retries(w) /\ UNCHANGED <<dirs, inodes>>
           \/ Goes(w, "refused") /\ UNCHANGED <<dirs, inodes>>
           \/ /\ hands[w].dir = folder /\ folder # 0 /\ Opens(w, "own", Len(inodes) + 1)
              /\ hands[w].name \notin DOMAIN Listing
              /\ \E m \in Modes : AddsInode(w, m)
              /\ Enters(hands[w].name, Len(inodes) + 1)
           \/ /\ hands[w].dir = folder /\ folder # 0 /\ hands[w].name \in DOMAIN Listing
              /\ inodes[Listing[hands[w].name]].kind \notin Blocking
              /\ Opens(w, "own", Listing[hands[w].name]) /\ UNCHANGED dirs
              /\ EditsInode(Listing[hands[w].name], w, 0, inodes[Listing[hands[w].name]].mode)
    BY <1>11, StreamsDigest
  <2> QED
    BY <1>0, <2>1 DEF Missed, Stopped, OpenedNew, OpenedOld, Still, Stands, Effect
<1>12. CASE Own(w)
  <2>1. /\ Stands(w, "own") /\ UNCHANGED <<desk, folder, dirs, chance>> /\ Goes(w, "emit")
        /\ \/ UNCHANGED inodes
           \/ EditsInode(hands[w].fd, inodes[hands[w].fd].by, inodes[hands[w].fd].n, "0600")
    BY <1>12, StreamsDigest
  <2>2. hands[w].fd \in DOMAIN inodes /\ FilesTypeOK
    BY <2>1 DEF FilesInv, FillAccount, Stands
  <2>3. inodes[hands[w].fd].by \in Int /\ inodes[hands[w].fd].n \in Nat /\ "0600" \in Modes
    BY <2>2, InodeFacts, Literals
  <2>4. CASE UNCHANGED inodes
    BY <1>0, <2>1, <2>4 DEF Advanced, Still, Effect
  <2>5. CASE EditsInode(hands[w].fd, inodes[hands[w].fd].by, inodes[hands[w].fd].n, "0600")
    BY <1>0, <2>1, <2>3, <2>5 DEF Emitted, Effect
  <2> QED
    BY <2>1, <2>4, <2>5
<1>13. CASE EmitNext(w)
  <2>1. /\ Stands(w, "emit") /\ UNCHANGED <<desk, folder, dirs, chance>>
        /\ Goes(w, "done") \/ Goes(w, "emit")
        /\ \E b \in {w, Several} :
              /\ b = w => inodes[hands[w].fd].by = w
              /\ EditsInode(hands[w].fd, b, inodes[hands[w].fd].n + 1, inodes[hands[w].fd].mode)
    BY <1>13, StreamsDigest
  <2>2. hands[w].fd \in DOMAIN inodes /\ FilesTypeOK
    BY <2>1 DEF FilesInv, FillAccount, Stands
  <2>3. /\ inodes[hands[w].fd].by \in Int /\ inodes[hands[w].fd].n + 1 \in Nat
        /\ inodes[hands[w].fd].mode \in Modes /\ Several \in Int /\ w \in Int
    BY <2>2, InodeFacts, HandsTyped DEF Several
  <2>4. PICK b \in {w, Several} :
           /\ b = w => inodes[hands[w].fd].by = w
           /\ EditsInode(hands[w].fd, b, inodes[hands[w].fd].n + 1, inodes[hands[w].fd].mode)
    BY <2>1
  <2>5. b \in Int /\ b \in {inodes[hands[w].fd].by, Several}
    BY <2>3, <2>4
  <2> QED
    BY <1>0, <2>1, <2>3, <2>4, <2>5 DEF Emitted, Effect
<1>14. CASE Claim(w)
  <2>1. /\ Stands(w, "claim") /\ UNCHANGED <<desk, folder, chance>>
        /\ \/ hands[w].dir # folder /\ Retries(w) /\ UNCHANGED <<inodes, dirs>>
           \/ /\ hands[w].dir = folder /\ Lock \in DOMAIN Listing
              /\ Tries(w, "rewalk", 0) /\ UNCHANGED <<dirs, inodes>>
           \/ /\ hands[w].dir = folder /\ folder # 0 /\ Opens(w, "queue", Len(inodes) + 1)
              /\ Lock \notin DOMAIN Listing
              /\ \E m \in Modes : AddsInode(w, m)
              /\ Enters(Lock, Len(inodes) + 1)
    BY <1>14, LocksDigest
  <2> QED
    BY <1>0, <2>1 DEF Missed, Advanced, ClaimedNew, Still, Stands, Effect
<1>15. CASE Rewalk(w) \/ Reopen(w)
  BY <1>0, <1>15, LocksDigest DEF Missed, Advanced, Still, Effect
<1>16. CASE Acquire(w) \/ Release(w)
  BY <1>0, <1>16, LocksDigest DEF Advanced, Still, Effect
<1>17. CASE Fault(w) \/ Killed(w)
  BY <1>0, <1>17, EndsDigest DEF Stopped, Cleared, Still, Effect
<1> QED
  BY <1>1, <1>2, <1>3, <1>4, <1>5, <1>6, <1>7, <1>8, <1>9, <1>10, <1>11, <1>12, <1>13, <1>14,
     <1>15, <1>16, <1>17 DEF StepOf, Names, Replaces, StreamsOn, Locks, Ends

(* What a process's step leaves alone.                                     *)
LEMMA StepFrame ==
    ASSUME FilesInv, NEW w \in Hands, StepOf(w)
    PROVE  /\ hands' \in [Hands -> Hand] /\ Hands' = Hands /\ desk' = desk
           /\ \A v \in Hands : v # w => hands'[v] = hands[v] /\ Mine(v)' = Mine(v) /\ ModeFor(v)' = ModeFor(v)
           /\ \A v \in Hands : Job(v)' = Job(v)
           /\ Streams' = Streams /\ Writers' = Writers /\ SecondFile' = SecondFile
           /\ chance' \in [removals : Nat, faults : Nat, deaths : Nat, touched : BOOLEAN]
           /\ chance'.touched = chance.touched
           /\ hands[w].step \notin Over /\ hands'[w].step # "resolve"
<1>1. SameOthers(w)
  BY HandsFrame
<1>2. hands' \in [Hands -> Hand] /\ Hands' = Hands
  <2>1. hands' \in [Hands -> Hand]
    BY <1>1 DEF SameOthers
  <2> QED
    BY <2>1 DEF Hands
<1>3. desk' = desk
  BY DEF StepOf, Names, Replaces, StreamsOn, Locks, Ends, NameTarget, Mkdir, Make, Tighten, Walk,
         Check, Create, Chmod, WriteAll, Recheck, Rename, Open, Own, EmitNext,
         Claim, Rewalk, Reopen, Acquire, Release, Fault, Killed
<1>4. \A v \in Hands : Job(v)' = Job(v)
  BY <1>3 DEF Job
<1>5. \A v \in Hands : v # w => hands'[v] = hands[v] /\ Mine(v)' = Mine(v) /\ ModeFor(v)' = ModeFor(v)
  BY <1>1, <1>4 DEF SameOthers, Mine, ModeFor
<1>6. Streams' = Streams /\ Writers' = Writers /\ SecondFile' = SecondFile
  BY <1>2, <1>3, <1>4 DEF Streams, Writers, SecondFile
<1>7. /\ chance' \in [removals : Nat, faults : Nat, deaths : Nat, touched : BOOLEAN]
      /\ chance'.touched = chance.touched
  <2> DEFINE Chances == [removals : Nat, faults : Nat, deaths : Nat, touched : BOOLEAN]
  <2>1. chance \in Chances
    BY DEF FilesInv, FilesTypeOK
  <2>2. \/ UNCHANGED chance
        \/ chance.faults > 0 /\ chance' = [chance EXCEPT !.faults = @ - 1]
        \/ chance.deaths > 0 /\ chance' = [chance EXCEPT !.deaths = @ - 1]
    BY DEF StepOf, Names, Replaces, StreamsOn, Locks, Ends, NameTarget, Mkdir, Make, Tighten, Walk,
           Check, Create, Chmod, WriteAll, Recheck, Rename, Open, Own, EmitNext,
           Claim, Rewalk, Reopen, Acquire, Release, Fault, Killed
  <2> QED
    BY <2>1, <2>2
<1>8. hands[w].step \notin Over /\ hands'[w].step # "resolve"
  BY Effects DEF Effect, Aimed, Advanced, Missed, Stopped, MadeDir, TightenedDir, Created, Filled, Cleared,
     PutInPlace, OpenedNew, OpenedOld, Emitted, ClaimedNew, Stands, Over, Goes, Opens, Finds, Tries, Meets,
     Aims, Retries
<1> QED
  BY <1>2, <1>3, <1>4, <1>5, <1>6, <1>7, <1>8

(* Every step leaves the files and the directories what they can be.       *)
LEMMA InodesStay ==
    ASSUME FilesInv, NEW w \in Hands, Effect(w)
    PROVE  /\ inodes' \in Seq(Inode) /\ Len(inodes') \in Nat /\ Len(inodes') >= Len(inodes)
           /\ DOMAIN inodes' = 1..Len(inodes') /\ DOMAIN inodes \subseteq DOMAIN inodes'
           /\ \A g \in DOMAIN inodes : inodes'[g].kind = inodes[g].kind
<1>0. inodes \in Seq(Inode) /\ DOMAIN inodes = 1..Len(inodes) /\ Len(inodes) \in Nat
  BY HandsTyped DEF FilesTypeOK
<1>1. CASE UNCHANGED inodes
  BY <1>0, <1>1
<1>2. ASSUME NEW f, NEW b, NEW n, NEW m, EditsInode(f, b, n, m)
      PROVE  /\ inodes' \in Seq(Inode) /\ Len(inodes') = Len(inodes)
             /\ \A g \in DOMAIN inodes : inodes'[g].kind = inodes[g].kind
  BY <1>0, <1>2 DEF EditsInode
<1>3. ASSUME NEW m, AddsInode(w, m)
      PROVE  /\ inodes' \in Seq(Inode) /\ Len(inodes') = Len(inodes) + 1
             /\ \A g \in DOMAIN inodes : inodes'[g].kind = inodes[g].kind
  BY <1>0, <1>3 DEF AddsInode
<1>4. \/ UNCHANGED inodes
      \/ \E f, b, n, m : EditsInode(f, b, n, m)
      \/ \E m : AddsInode(w, m)
  BY Zenon DEF Effect, Aimed, Advanced, Missed, Stopped, MadeDir, TightenedDir, Created, Filled, Cleared,
     PutInPlace, OpenedNew, OpenedOld, Emitted, ClaimedNew, Still
<1>5. /\ inodes' \in Seq(Inode) /\ Len(inodes') >= Len(inodes)
      /\ \A g \in DOMAIN inodes : inodes'[g].kind = inodes[g].kind
  BY <1>0, <1>1, <1>2, <1>3, <1>4
<1>6. Len(inodes') \in Nat /\ DOMAIN inodes' = 1..Len(inodes')
  BY <1>5
<1> QED
  BY <1>0, <1>5, <1>6

LEMMA DirsStay ==
    ASSUME FilesInv, NEW w \in Hands, Effect(w)
    PROVE  /\ dirs' \in Seq(Directory) /\ Len(dirs') \in Nat /\ Len(dirs') >= Len(dirs)
           /\ DOMAIN dirs' = 1..Len(dirs') /\ folder' \in 0..Len(dirs')
           /\ folder' # folder => folder = 0 /\ folder' = Len(dirs) + 1 /\ MadeDir(w)
           /\ \A d \in 1..Len(dirs) :
                 /\ dirs'[d].live = dirs[d].live
                 /\ dirs'[d].mode # dirs[d].mode => d = folder /\ Stands(w, "tighten")
                 /\ d # folder => dirs'[d].at = dirs[d].at
           /\ folder' = folder => Len(dirs') = Len(dirs)
           /\ \A n \in DOMAIN Listing' : Listing'[n] \in DOMAIN inodes'
<1>0. dirs \in Seq(Directory) /\ DOMAIN dirs = 1..Len(dirs) /\ Len(dirs) \in Nat /\ folder \in 0..Len(dirs)
      /\ DOMAIN inodes \subseteq DOMAIN inodes' /\ DOMAIN inodes' = 1..Len(inodes') /\ Len(inodes) \in Nat
      /\ \A n \in DOMAIN Listing : Listing[n] \in DOMAIN inodes
  BY HandsTyped, InodesStay DEF FilesTypeOK, DirAccount
<1> DEFINE Kept == folder' = folder /\ dirs' = dirs /\ Listing' = Listing
           Places == /\ dirs' \in Seq(Directory) /\ Len(dirs') >= Len(dirs)
                     /\ folder' \in 0..Len(dirs')
                     /\ folder' # folder => folder = 0 /\ folder' = Len(dirs) + 1 /\ MadeDir(w)
           Each == \A d \in 1..Len(dirs) :
                      /\ dirs'[d].live = dirs[d].live
                      /\ dirs'[d].mode # dirs[d].mode => d = folder /\ Stands(w, "tighten")
                      /\ d # folder => dirs'[d].at = dirs[d].at
           Added == folder' = folder => Len(dirs') = Len(dirs)
           Listed == \A n \in DOMAIN Listing' : Listing'[n] \in DOMAIN inodes'
           Goal == Places /\ Each /\ Added /\ Listed
<1>1. CASE Kept
  <2>1. Places
    BY <1>0, <1>1
  <2>2. Each
    BY <1>0, <1>1
  <2>3. Added
    BY <1>0, <1>1
  <2>4. Listed
    BY <1>0, <1>1
  <2> QED
    BY <2>1, <2>2, <2>3, <2>4
<1>2. CASE MadeDir(w)
  <2>1. /\ folder = 0 /\ folder' = Len(dirs) + 1 /\ dirs' \in Seq(Directory)
        /\ Len(dirs') = Len(dirs) + 1 /\ DOMAIN Listing' = {}
        /\ \A d \in 1..Len(dirs) : dirs'[d] = dirs[d]
    BY <1>2, Zenon DEF MadeDir, Makes
  <2>2. Places
    BY <1>0, <1>2, <2>1
  <2>3. Each
    BY <2>1, Zenon
  <2>4. folder' # folder
    <3>1. Len(dirs) \in Nat /\ folder = 0 /\ folder' = Len(dirs) + 1
      BY <1>0, <2>1, Zenon
    <3> HIDE DEF Each, Places, Added, Listed, Goal, Kept
    <3> QED
      BY <3>1
  <2>5. Listed
    BY <2>1, Zenon
  <2> QED
    BY <2>2, <2>3, <2>4, <2>5
<1>3. CASE TightenedDir(w)
  BY <1>0, <1>3 DEF TightenedDir, Tightens
<1>4. CASE Created(w) \/ OpenedNew(w) \/ ClaimedNew(w)
  <2>1. \E n : Enters(n, Len(inodes) + 1)
    BY <1>4 DEF Created, OpenedNew, ClaimedNew
  <2>2. Len(inodes') = Len(inodes) + 1
    BY <1>4 DEF Created, OpenedNew, ClaimedNew, AddsInode
  <2> QED
    BY <1>0, <2>1, <2>2 DEF Enters, KeptDirs
<1>5. CASE Cleared(w)
  <2>1. DOMAIN Listing' \subseteq DOMAIN Listing
    BY <1>5 DEF Cleared, Cleans
  <2> QED
    BY <1>0, <1>5, <2>1 DEF Cleared, Cleans, KeptDirs
<1>6. CASE PutInPlace(w)
  <2>1. hands[w].fd \in 3..Len(inodes)
    BY <1>6 DEF PutInPlace, FilesInv, FillAccount, Stands, Filling
  <2> QED
    BY <1>0, <1>6, <2>1 DEF PutInPlace, Renames, KeptDirs
<1>7. Kept \/ MadeDir(w) \/ TightenedDir(w) \/ Created(w) \/ OpenedNew(w) \/ ClaimedNew(w)
      \/ Cleared(w) \/ PutInPlace(w)
  BY DEF Effect, Aimed, Advanced, Missed, Stopped, Filled, OpenedOld, Emitted, Still
<1>8. Goal
  BY <1>1, <1>2, <1>3, <1>4, <1>5, <1>6, <1>7
<1>9. Len(dirs') \in Nat /\ DOMAIN dirs' = 1..Len(dirs')
  BY <1>8
<1> QED
  BY <1>8, <1>9

LEMMA TypeKept ==
    ASSUME FilesInv, NEW w \in Hands, StepOf(w)
    PROVE  FilesTypeOK'
<1>1. Effect(w) /\ desk \in FileScenes
  BY Effects DEF FilesInv, FilesTypeOK
<1>2. Hands = DOMAIN desk.jobs
  BY SceneFacts DEF FilesInv
<1> QED
  BY <1>1, <1>2, StepFrame, InodesStay, DirsStay DEF FilesTypeOK

LEMMA DirsKept ==
    ASSUME FilesInv, NEW w \in Hands, StepOf(w)
    PROVE  DirAccount'
<1>0. /\ Effect(w) /\ FilesTypeOK /\ DirAccount /\ Len(dirs) \in Nat /\ folder \in 0..Len(dirs)
      /\ DOMAIN dirs = 1..Len(dirs)
  BY Effects DEF FilesInv, FilesTypeOK
<1>1. \A d \in DOMAIN dirs' : (dirs'[d].live <=> d = folder') /\ (d # folder' => DOMAIN dirs'[d].at = {})
  <2>1. CASE folder' = folder
    <3>1. Len(dirs') = Len(dirs)
      BY <1>0, <2>1, DirsStay
    <3> QED
      BY <1>0, <2>1, <3>1, DirsStay DEF DirAccount
  <2>2. CASE folder' # folder
    <3>1. folder = 0 /\ folder' = Len(dirs) + 1 /\ MadeDir(w)
      BY <1>0, <2>2, DirsStay
    <3>2. /\ Len(dirs') = Len(dirs) + 1 /\ \A d \in 1..Len(dirs) : dirs'[d] = dirs[d]
      BY <3>1, Zenon DEF MadeDir, Makes
    <3>3. dirs'[folder'].live
      BY <3>1, Zenon DEF MadeDir, Makes
    <3>4. ASSUME NEW d \in 1..Len(dirs)
          PROVE  d # folder' /\ ~ dirs'[d].live /\ DOMAIN dirs'[d].at = {}
      <4>1. d # folder /\ d # folder' /\ dirs'[d] = dirs[d]
        BY <1>0, <3>1, <3>2
      <4> QED
        BY <1>0, <4>1 DEF DirAccount
    <3>5. DOMAIN dirs' = 1..(Len(dirs) + 1)
      BY <1>0, <3>2, DirsStay
    <3>6. ASSUME NEW d \in DOMAIN dirs' PROVE d = folder' \/ d \in 1..Len(dirs)
      BY <1>0, <3>1, <3>5
    <3> QED
      BY <3>3, <3>4, <3>6, Zenon
  <2> QED
    BY <2>1, <2>2
<1>2. Len(inodes') >= 2 /\ \A n \in DOMAIN Listing' : Listing'[n] \in DOMAIN inodes'
  <2>1. Len(inodes') >= Len(inodes) /\ Len(inodes) >= 2 /\ Len(inodes) \in Nat /\ Len(inodes') \in Nat
    BY <1>0, HandsTyped, InodesStay DEF DirAccount
  <2> QED
    BY <1>0, <2>1, DirsStay
<1>3. ASSUME desk.leaf # "missing"
      PROVE  /\ Len(dirs') >= 1 /\ dirs'[1].mode = "theirs"
             /\ \A v \in Hands : hands'[v].step = "tighten" => folder' # 1
  <2>1. Len(dirs) >= 1 /\ dirs[1].mode = "theirs" /\ \A v \in Hands : Stands(v, "tighten") => folder # 1
    BY <1>0, <1>3 DEF DirAccount
  <2>2. Len(dirs') >= 1 /\ dirs'[1].mode = "theirs"
    BY <1>0, <2>1, DirsStay
  <2>3. CASE folder' # folder
    BY <1>0, <2>1, <2>3, DirsStay
  <2>4. CASE folder' = folder
    <3>1. ASSUME NEW v \in Hands, hands'[v].step = "tighten"
          PROVE  Stands(v, "tighten")
      <4>1. CASE v # w
        BY <3>1, <4>1, StepFrame DEF Stands
      <4>2. ~ MadeDir(w)
        BY <2>4, <1>0 DEF MadeDir, Makes
      <4>3. CASE v = w
        BY <1>0, <3>1, <4>2, <4>3 DEF Effect, Aimed, Advanced, Missed, Stopped, TightenedDir, Created,
           Filled, Cleared, PutInPlace, OpenedNew, OpenedOld, Emitted, ClaimedNew, Stands, Over,
           Goes, Opens, Finds, Tries, Meets, Aims, Retries
      <4> QED
        BY <4>1, <4>3
    <3> QED
      BY <2>1, <2>2, <2>4, <3>1
  <2> QED
    BY <2>2, <2>3, <2>4
<1> QED
  BY <1>1, <1>2, <1>3, StepFrame DEF DirAccount, Stands

(* The way a step belongs to.                                              *)
LEMMA WayOfStep ==
    ASSUME FilesInv, NEW w \in Hands
    PROVE  /\ Job(w).how \in {"replace", "stream", "lock"}
           /\ hands[w].step \in Replacing => Job(w).how = "replace"
           /\ hands[w].step \in Streaming => Job(w).how = "stream" /\ w \in Streams
           /\ hands[w].step \in Locking => Job(w).how = "lock"
           /\ hands[w].step \in Filling => w \notin Streams /\ w \notin Writers /\ w \notin Finished
<1>1. hands[w].step \in StepsOf(Job(w).how) /\ Job(w).how \in {"replace", "stream", "lock"}
  BY HandsTyped DEF Jobs
<1>2. hands[w].step \in Replacing => Job(w).how = "replace"
  BY <1>1 DEF StepsOf, Replacing, Streaming, Locking, Filling, Ahead, Over
<1>3. hands[w].step \in Streaming => Job(w).how = "stream"
  BY <1>1 DEF StepsOf, Replacing, Streaming, Locking, Filling, Ahead, Over
<1>4. hands[w].step \in Locking => Job(w).how = "lock"
  BY <1>1 DEF StepsOf, Replacing, Streaming, Locking, Filling, Ahead, Over
<1>5. hands[w].step \in Filling =>
         hands[w].step \in Replacing /\ hands[w].step # "done" /\ Job(w).how # "stream"
  BY <1>2 DEF Replacing, Filling
<1>6. w # Several
  BY HandsTyped DEF Several
<1> QED
  BY <1>1, <1>2, <1>3, <1>4, <1>5, <1>6 DEF Streams, Writers, Finished, Stands

LEMMA HandMoves ==
    ASSUME FilesInv, NEW w \in Hands, Effect(w)
    PROVE  /\ hands'[w].step \in StepsOf(Job(w).how)
           /\ hands'[w].dir \in {hands[w].dir, folder}
           /\ hands'[w].step \in Replacing \cup {"open", "claim", "reopen"} => hands'[w].dir # 0
           /\ IF Job(w).how = "lock" THEN hands'[w].name = Lock ELSE hands'[w].name \in ReportNames
<1>0. /\ Job(w).how \in {"replace", "stream", "lock"}
      /\ hands[w].step \in Replacing \cup {"open", "claim", "reopen"} => hands[w].dir # 0
      /\ hands[w].step # "resolve" =>
            IF Job(w).how = "lock" THEN hands[w].name = Lock ELSE hands[w].name \in ReportNames
  BY WayOfStep DEF FilesInv, HandAccount
<1> DEFINE Moved ==
        /\ hands'[w].dir \in {hands[w].dir, folder}
        /\ hands'[w].step \in StepsOf(Job(w).how)
        /\ hands'[w].step \in Replacing \cup {"open", "claim", "reopen"} => hands'[w].dir # 0
<1>1. Aimed(w) => Moved
  BY <1>0 DEF Aimed, Aims, StepsOf, Ahead, Over, Replacing, Filling
<1>2. Advanced(w) => Moved
  BY <1>0, WayOfStep DEF Advanced, Stands, Goes, Same, Finds, Meets, Tries, Opens, StepsOf, Ahead, Over,
     Replacing, Filling, Streaming, Locking
<1>3. Missed(w) => Moved
  BY <1>0, WayOfStep DEF Missed, Stands, Goes, Same, Tries, Retries, StepsOf, Ahead, Over,
     Replacing, Filling, Streaming, Locking
<1>4. Stopped(w) => Moved
  BY <1>0 DEF Stopped, Stands, Goes, Same, Meets, StepsOf, Ahead, Over, Replacing, Filling
<1>5. MadeDir(w) \/ TightenedDir(w) => Moved
  BY <1>0 DEF MadeDir, TightenedDir, Stands, Goes, Same, StepsOf, Ahead, Over, Replacing, Filling
<1>6. Created(w) \/ Filled(w) \/ Cleared(w) \/ PutInPlace(w) => Moved
  BY <1>0, WayOfStep DEF Created, Filled, Cleared, PutInPlace, Stands, Goes, Same, Opens, Retries, Tries,
     StepsOf, Ahead, Over, Replacing, Filling
<1>7. OpenedNew(w) \/ OpenedOld(w) \/ Emitted(w) => Moved
  BY <1>0, WayOfStep DEF OpenedNew, OpenedOld, Emitted, Stands, Goes, Same, Opens,
     StepsOf, Ahead, Over, Streaming, Replacing, Filling
<1>8. ClaimedNew(w) => Moved
  BY <1>0, WayOfStep DEF ClaimedNew, Stands, Opens, StepsOf, Ahead, Over, Locking, Replacing, Filling
<1>9. IF Job(w).how = "lock" THEN hands'[w].name = Lock ELSE hands'[w].name \in ReportNames
  <2>1. CASE Aimed(w)
    BY <2>1 DEF Aimed, Aims
  <2>2. CASE ~ Aimed(w)
    <3>1. hands'[w].name = hands[w].name /\ hands[w].step # "resolve"
      BY <2>2 DEF Effect, Advanced, Missed, Stopped, MadeDir, TightenedDir, Created, Filled, Cleared,
         PutInPlace, OpenedNew, OpenedOld, Emitted, ClaimedNew, Stands, Goes, Same, Opens, Finds, Tries,
         Meets, Retries
    <3> QED
      BY <1>0, <3>1
  <2> QED
    BY <2>1, <2>2
<1> QED
  BY <1>1, <1>2, <1>3, <1>4, <1>5, <1>6, <1>7, <1>8, <1>9 DEF Effect

LEMMA HandsKept ==
    ASSUME FilesInv, NEW w \in Hands, StepOf(w)
    PROVE  HandAccount'
<1>0. Effect(w) /\ Hands' = Hands /\ Len(dirs) \in Nat /\ folder \in 0..Len(dirs)
  BY Effects, StepFrame DEF FilesInv, FilesTypeOK
<1>1. Len(dirs') \in Nat /\ Len(dirs') >= Len(dirs)
  BY <1>0, DirsStay
<1>2. ASSUME NEW v \in Hands
      PROVE  /\ hands'[v].step \in StepsOf(Job(v).how) /\ hands'[v].dir \in 0..Len(dirs')
             /\ hands'[v].step # "resolve" =>
                   IF Job(v).how = "lock" THEN hands'[v].name = Lock ELSE hands'[v].name \in ReportNames
             /\ hands'[v].step \in Replacing \cup {"open", "claim", "reopen"} => hands'[v].dir # 0
  <2>0. hands[v].dir \in 0..Len(dirs')
    <3>1. hands[v].dir \in 0..Len(dirs)
      BY HandsTyped
    <3> QED
      BY <1>0, <1>1, <3>1
  <2>1. CASE v # w
    BY <2>0, <2>1, StepFrame DEF FilesInv, HandAccount
  <2>2. CASE v = w
    <3>1. folder \in 0..Len(dirs')
      BY <1>0, <1>1
    <3> QED
      BY <1>0, <2>0, <2>2, <3>1, HandMoves
  <2> QED
    BY <2>1, <2>2
<1>3. \A v \in Hands : Job(v)' = Job(v)
  BY StepFrame
<1> QED
  BY <1>0, <1>2, <1>3 DEF HandAccount

-----------------------------------------------------------------------------
(* A file that changes is a temporary of the process that changes it, or   *)
(* one that only streams write.                                            *)
LEMMA WhoseFile ==
    ASSUME FilesInv, NEW w \in Hands, Effect(w), NEW g \in DOMAIN inodes
    PROVE  \/ inodes'[g] = inodes[g]
           \/ /\ Filled(w) /\ g = hands[w].fd /\ g >= 3 /\ inodes[g].by = w /\ inodes'[g].by = w
           \/ /\ w \in Streams /\ g # 2 /\ inodes[g].kind = "file"
              /\ inodes[g].by \in Writers \cup Finished \cup {Before}
              /\ inodes'[g].by \in Writers
              /\ \/ inodes'[g].by \in {Several, inodes[g].by}
                 \/ inodes'[g].by = w /\ g \notin hands[w].saw
<1>0. /\ FilesTypeOK /\ DirAccount /\ DOMAIN inodes = 1..Len(inodes) /\ Len(inodes) \in Nat
      /\ \A n \in DOMAIN Listing : Listing[n] \in DOMAIN inodes
  BY HandsTyped DEF DirAccount
<1>1. CASE Filled(w)
  <2>1. hands[w].step \in Filling
    BY <1>1 DEF Filled, Stands, Filling
  <2>2. hands[w].fd \in 3..Len(inodes) /\ inodes[hands[w].fd].by = w
    BY <2>1 DEF FilesInv, FillAccount
  <2>3. \E n, m : EditsInode(hands[w].fd, w, n, m)
    BY <1>1 DEF Filled
  <2> QED
    BY <1>0, <1>1, <2>2, <2>3 DEF EditsInode
<1>2. CASE OpenedOld(w)
  <2> DEFINE f == Listing[hands[w].name]
  <2>1. /\ hands[w].step = "open" /\ hands[w].name \in DOMAIN Listing /\ inodes[f].kind \notin Blocking
        /\ EditsInode(f, w, 0, inodes[f].mode)
    BY <1>2 DEF OpenedOld, Stands
  <2>2. Job(w).how = "stream" /\ w \in Streams /\ hands[w].name \in ReportNames
    <3>1. Job(w).how = "stream" /\ w \in Streams
      BY <2>1, WayOfStep DEF Streaming
    <3> QED
      BY <2>1, <3>1 DEF FilesInv, HandAccount
  <2>3. f \in DOMAIN inodes /\ inodes[f].kind \in {"file", "link", "fifo"}
    BY <1>0, <2>1, InodeFacts
  <2>4. inodes[f].kind = "file"
    BY <2>1, <2>3 DEF Blocking
  <2>5. f # 2 /\ inodes[f].by \in Writers \cup Finished \cup {Before}
    BY <2>1, <2>2, <2>4 DEF FilesInv, ReportAccount, Blocking
  <2>6. f \notin hands[w].saw
    BY <2>1, <2>2 DEF FilesInv, AvoidAccount, Stands
  <2>7. w \in Writers
    BY <2>2 DEF Writers
  <2> HIDE DEF f
  <2> QED
    BY <2>1, <2>2, <2>3, <2>4, <2>5, <2>6, <2>7 DEF EditsInode
<1>3. CASE Emitted(w)
  <2> DEFINE f == hands[w].fd
  <2>1. hands[w].step \in {"own", "emit"}
    BY <1>3 DEF Emitted, Stands
  <2>2. w \in Streams
    BY <2>1, WayOfStep DEF Streaming
  <2>3. f \in DOMAIN inodes \ {2} /\ inodes[f].by \in Writers /\ inodes[f].kind = "file"
    BY <2>1 DEF FilesInv, FillAccount
  <2>4. PICK b \in {inodes[f].by, Several} : \E n, m : EditsInode(f, b, n, m)
    BY <1>3 DEF Emitted
  <2>5. b \in Writers
    BY <2>3, <2>4 DEF Writers
  <2> HIDE DEF f
  <2> QED
    BY <2>2, <2>3, <2>4, <2>5 DEF EditsInode
<1>4. CASE Created(w) \/ OpenedNew(w) \/ ClaimedNew(w)
  BY <1>4 DEF Created, OpenedNew, ClaimedNew, AddsInode
<1>5. CASE UNCHANGED inodes
  BY <1>5
<1> QED
  BY <1>1, <1>2, <1>3, <1>4, <1>5
     DEF Effect, Aimed, Advanced, Missed, Stopped, MadeDir, TightenedDir, Cleared, PutInPlace, Still

LEMMA NewFile ==
    ASSUME FilesInv, NEW w \in Hands, Effect(w), NEW g \in DOMAIN inodes' \ DOMAIN inodes
    PROVE  /\ g = Len(inodes) + 1 /\ g > 2 /\ hands'[w].fd = g
           /\ inodes'[g].by = w /\ inodes'[g].kind = "file" /\ inodes'[g].n = 0
           /\ Created(w) \/ OpenedNew(w) \/ ClaimedNew(w)
<1>0. Len(inodes) \in Nat /\ DOMAIN inodes = 1..Len(inodes) /\ Len(inodes) >= 2
      /\ DOMAIN inodes' = 1..Len(inodes')
  BY HandsTyped, InodesStay DEF DirAccount
<1>1. CASE Created(w) \/ OpenedNew(w) \/ ClaimedNew(w)
  <2>1. PICK m : AddsInode(w, m)
    BY <1>1 DEF Created, OpenedNew, ClaimedNew
  <2>2. hands'[w].fd = Len(inodes) + 1
    BY <1>1 DEF Created, OpenedNew, ClaimedNew, Opens
  <2>3. Len(inodes') = Len(inodes) + 1
        /\ inodes'[Len(inodes) + 1] = [kind |-> "file", by |-> w, n |-> 0, mode |-> m]
    BY <2>1 DEF AddsInode
  <2>4. g = Len(inodes) + 1 /\ g > 2
    BY <1>0, <2>3
  <2> QED
    BY <1>1, <2>2, <2>3, <2>4
<1>2. CASE ~ (Created(w) \/ OpenedNew(w) \/ ClaimedNew(w))
  <2>1. UNCHANGED inodes \/ \E f, b, n, m : EditsInode(f, b, n, m)
    BY <1>2, Zenon DEF Effect, Aimed, Advanced, Missed, Stopped, MadeDir, TightenedDir, Filled, Cleared,
       PutInPlace, OpenedOld, Emitted, Still
  <2>2. Len(inodes') = Len(inodes)
    BY <2>1 DEF EditsInode
  <2> QED
    BY <1>0, <2>2
<1> QED
  BY <1>1, <1>2

(* FillAccount, for one process.                                           *)
FillsWell(w) ==
    hands[w].step \in Filling =>
        LET f == inodes[hands[w].fd] IN
        /\ hands[w].fd \in 3..Len(inodes) /\ f.kind = "file" /\ f.by = w
        /\ Stands(w, "chmod") => f.n = 0
        /\ ~ Stands(w, "chmod") => f.mode = ModeFor(w)
        /\ Stands(w, "write") => f.n < Chunks
        /\ hands[w].step \in {"recheck", "rename"} => f.n = Chunks
EmitsWell(w) ==
    hands[w].step \in {"own", "emit"} =>
        /\ hands[w].fd \in DOMAIN inodes \ {2}
        /\ inodes[hands[w].fd].by \in Writers /\ inodes[hands[w].fd].kind = "file"
TempsWell(w) ==
    \A t \in {0, 1} :
        Temporary(w, t) \in DOMAIN Listing =>
            /\ hands[w].try = t /\ hands[w].dir = folder /\ Job(w).how = "replace"
            /\ hands[w].step \in Filling \cup {"died"}
            /\ Listing[Temporary(w, t)] = hands[w].fd

LEMMA FillByHand ==
    FillAccount <=> \A w \in Hands : FillsWell(w) /\ EmitsWell(w) /\ TempsWell(w)
BY DEF FillAccount, FillsWell, EmitsWell, TempsWell

LEMMA OthersFill ==
    ASSUME FilesInv, NEW w \in Hands, StepOf(w), NEW v \in Hands, v # w
    PROVE  FillsWell(v)' /\ EmitsWell(v)'
<1>0. /\ Effect(w) /\ hands'[v] = hands[v] /\ ModeFor(v)' = ModeFor(v) /\ Writers' = Writers
      /\ FillsWell(v) /\ EmitsWell(v) /\ Len(inodes) \in Nat /\ DOMAIN inodes = 1..Len(inodes)
  BY Effects, StepFrame, FillByHand, HandsTyped DEF FilesInv
<1>1. Len(inodes') \in Nat /\ Len(inodes') >= Len(inodes) /\ DOMAIN inodes \subseteq DOMAIN inodes'
      /\ \A g \in DOMAIN inodes : inodes'[g].kind = inodes[g].kind
  BY <1>0, InodesStay
<1>2. ASSUME hands[v].step \in Filling
      PROVE  hands[v].fd \in 3..Len(inodes') /\ inodes'[hands[v].fd] = inodes[hands[v].fd]
  <2>1. hands[v].fd \in 3..Len(inodes) /\ inodes[hands[v].fd].by = v /\ hands[v].fd \in DOMAIN inodes
    BY <1>0, <1>2 DEF FillsWell
  <2>2. v \notin Writers \cup Finished \cup {Before}
    BY <1>2, WayOfStep, HandsTyped DEF Before
  <2> QED
    BY <1>0, <1>1, <2>1, <2>2, WhoseFile
<1>3. ASSUME hands[v].step \in {"own", "emit"}
      PROVE  hands[v].fd \in DOMAIN inodes' \ {2} /\ inodes'[hands[v].fd].by \in Writers
             /\ inodes'[hands[v].fd].kind = "file"
  <2>1. hands[v].fd \in DOMAIN inodes \ {2} /\ inodes[hands[v].fd].by \in Writers
        /\ inodes[hands[v].fd].kind = "file"
    BY <1>0, <1>3 DEF EmitsWell
  <2>2. Filled(w) => w \notin Writers
    BY WayOfStep DEF Filled, Stands, Filling
  <2> QED
    BY <1>0, <1>1, <2>1, <2>2, WhoseFile
<1>4. FillsWell(v)'
  BY <1>0, <1>2 DEF FillsWell, Stands
<1>5. EmitsWell(v)'
  BY <1>0, <1>3 DEF EmitsWell
<1> QED
  BY <1>4, <1>5

LEMMA OwnFill ==
    ASSUME FilesInv, NEW w \in Hands, StepOf(w)
    PROVE  FillsWell(w)' /\ EmitsWell(w)'
<1>0. /\ Effect(w) /\ Writers' = Writers /\ Job(w)' = Job(w) /\ FillsWell(w) /\ EmitsWell(w)
      /\ Len(inodes) \in Nat /\ Len(inodes) >= 2 /\ DOMAIN inodes = 1..Len(inodes) /\ Chunks \in Nat \ {0}
      /\ FilesTypeOK
  BY Effects, StepFrame, FillByHand, HandsTyped, ChunksAssumption DEF FilesInv, DirAccount
<1>1. Len(inodes') \in Nat /\ Len(inodes') >= Len(inodes) /\ DOMAIN inodes' = 1..Len(inodes')
  BY <1>0, InodesStay
<1>2. hands[w].step \in Filling =>
         hands[w].fd \in 3..Len(inodes) /\ hands[w].fd \in DOMAIN inodes /\ inodes[hands[w].fd].n \in Nat
  BY <1>0, InodeFacts DEF FillsWell
<1>3. CASE Created(w)
  <2>1. hands'[w].step = "chmod" /\ hands'[w].fd = Len(inodes) + 1
    BY <1>3 DEF Created, Opens
  <2>2. hands'[w].fd \in DOMAIN inodes' \ DOMAIN inodes
    <3>1. Len(inodes') = Len(inodes) + 1
      BY <1>3 DEF Created, AddsInode
    <3> QED
      BY <1>0, <1>1, <2>1, <3>1
  <2>3. /\ hands'[w].fd \in 3..Len(inodes') /\ inodes'[hands'[w].fd].by = w
        /\ inodes'[hands'[w].fd].kind = "file" /\ inodes'[hands'[w].fd].n = 0
    BY <1>0, <1>1, <2>2, NewFile
  <2> QED
    BY <2>1, <2>3 DEF FillsWell, EmitsWell, Stands
<1>4. CASE Filled(w)
  <2>1. ModeFor(w)' = ModeFor(w) /\ hands'[w].fd = hands[w].fd
    BY <1>0, <1>4 DEF Filled, Goes, Same, ModeFor
  <2>2. hands[w].step \in Filling /\ hands'[w].step \notin {"own", "emit"}
    BY <1>4 DEF Filled, Stands, Goes, Filling
  <2>3. CASE /\ Stands(w, "chmod") /\ Goes(w, "write")
             /\ EditsInode(hands[w].fd, w, inodes[hands[w].fd].n, ModeFor(w))
    <3>1. /\ hands'[w].step = "write" /\ inodes[hands[w].fd].n = 0 /\ inodes[hands[w].fd].kind = "file"
      BY <1>0, <2>2, <2>3 DEF FillsWell, Goes
    <3>2. /\ inodes'[hands[w].fd].n = 0 /\ inodes'[hands[w].fd].mode = ModeFor(w)
          /\ inodes'[hands[w].fd].by = w /\ inodes'[hands[w].fd].kind = "file"
          /\ Len(inodes') = Len(inodes)
      BY <2>3, <3>1 DEF EditsInode
    <3> QED
      BY <1>0, <1>2, <2>1, <2>2, <3>1, <3>2 DEF FillsWell, EmitsWell, Stands
  <2>4. CASE /\ Stands(w, "write")
             /\ IF inodes[hands[w].fd].n + 1 >= Chunks THEN Goes(w, "recheck") ELSE Goes(w, "write")
             /\ EditsInode(hands[w].fd, w, inodes[hands[w].fd].n + 1, inodes[hands[w].fd].mode)
    <3>1. /\ inodes[hands[w].fd].n < Chunks /\ inodes[hands[w].fd].kind = "file"
          /\ inodes[hands[w].fd].mode = ModeFor(w)
      BY <1>0, <2>2, <2>4 DEF FillsWell, Stands
    <3>2. /\ inodes'[hands[w].fd].n = inodes[hands[w].fd].n + 1
          /\ inodes'[hands[w].fd].mode = ModeFor(w)
          /\ inodes'[hands[w].fd].by = w /\ inodes'[hands[w].fd].kind = "file"
          /\ Len(inodes') = Len(inodes)
      BY <2>4, <3>1 DEF EditsInode
    <3>3. IF inodes[hands[w].fd].n + 1 >= Chunks
          THEN hands'[w].step = "recheck" /\ inodes'[hands[w].fd].n = Chunks
          ELSE hands'[w].step = "write" /\ inodes'[hands[w].fd].n < Chunks
      BY <1>0, <1>2, <2>2, <2>4, <3>1, <3>2 DEF Goes
    <3> QED
      BY <1>2, <2>1, <2>2, <3>2, <3>3 DEF FillsWell, EmitsWell, Stands
  <2> QED
    BY <1>4, <2>3, <2>4 DEF Filled
<1>5. CASE OpenedNew(w)
  <2>1. hands'[w].step = "own" /\ hands'[w].fd = Len(inodes) + 1 /\ hands[w].step = "open"
    BY <1>5 DEF OpenedNew, Opens, Stands
  <2>2. hands'[w].fd \in DOMAIN inodes' \ DOMAIN inodes
    <3>1. Len(inodes') = Len(inodes) + 1
      BY <1>5 DEF OpenedNew, AddsInode
    <3> QED
      BY <1>0, <1>1, <2>1, <3>1
  <2>3. /\ hands'[w].fd \in DOMAIN inodes' \ {2} /\ inodes'[hands'[w].fd].by = w
        /\ inodes'[hands'[w].fd].kind = "file" /\ w \in Writers
    BY <1>0, <1>1, <2>1, <2>2, NewFile, WayOfStep DEF Streaming, Writers
  <2> QED
    BY <1>0, <2>1, <2>3 DEF FillsWell, EmitsWell, Filling
<1>6. CASE OpenedOld(w)
  <2> DEFINE f == Listing[hands[w].name]
  <2>1. /\ hands'[w].step = "own" /\ hands'[w].fd = f /\ hands[w].step = "open"
        /\ hands[w].name \in DOMAIN Listing /\ inodes[f].kind \notin Blocking
        /\ inodes'[f].by = w /\ inodes'[f].kind = inodes[f].kind
    BY <1>6 DEF OpenedOld, Opens, Stands, EditsInode
  <2>2. w \in Writers /\ hands[w].name \in ReportNames
    BY <2>1, WayOfStep DEF Streaming, Writers, FilesInv, HandAccount
  <2>3. f \in DOMAIN inodes /\ inodes[f].kind \in {"file", "link", "fifo"}
    BY <1>0, <2>1, InodeFacts DEF FilesInv, DirAccount
  <2>4. inodes[f].kind = "file" /\ f # 2
    <3>1. inodes[f].kind = "file"
      BY <2>1, <2>3 DEF Blocking
    <3> QED
      BY <2>1, <2>2, <3>1 DEF FilesInv, ReportAccount, Blocking
  <2>5. f \in DOMAIN inodes' \ {2}
    BY <1>0, <1>1, <2>3, <2>4
  <2> HIDE DEF f
  <2> QED
    BY <1>0, <2>1, <2>2, <2>4, <2>5 DEF FillsWell, EmitsWell, Filling
<1>7. CASE Emitted(w)
  <2>1. /\ hands'[w].step \in {"done", "emit"} /\ hands'[w].fd = hands[w].fd
        /\ hands[w].step \in {"own", "emit"}
    BY <1>7 DEF Emitted, Stands, Goes, Same
  <2>2. hands[w].fd \in DOMAIN inodes \ {2} /\ inodes[hands[w].fd].by \in Writers
        /\ inodes[hands[w].fd].kind = "file"
    BY <1>0, <2>1 DEF EmitsWell
  <2>3. inodes'[hands[w].fd].by \in {inodes[hands[w].fd].by, Several}
        /\ inodes'[hands[w].fd].kind = "file"
    BY <1>7, <2>2 DEF Emitted, EditsInode
  <2>4. hands[w].fd \in DOMAIN inodes' \ {2} /\ inodes'[hands[w].fd].by \in Writers
    BY <1>0, <1>1, <2>2, <2>3 DEF Writers
  <2> QED
    BY <1>0, <2>1, <2>3, <2>4 DEF FillsWell, EmitsWell, Filling
<1>8. CASE Advanced(w)
  <2>1. inodes' = inodes
    BY <1>8 DEF Advanced, Still
  <2>2. hands'[w].step \in Filling \cup {"own", "emit"} =>
           /\ hands'[w].fd = hands[w].fd /\ hands'[w].existing = hands[w].existing
           /\ \/ hands[w].step = "recheck" /\ hands'[w].step = "rename"
              \/ hands[w].step = "own" /\ hands'[w].step = "emit"
    BY <1>8 DEF Advanced, Stands, Goes, Same, Finds, Meets, Tries, Opens, Filling
  <2>3. CASE hands'[w].step \notin Filling \cup {"own", "emit"}
    BY <2>3 DEF FillsWell, EmitsWell
  <2>4. CASE hands[w].step = "recheck" /\ hands'[w].step = "rename" /\ hands'[w].fd = hands[w].fd
             /\ hands'[w].existing = hands[w].existing
    <3>1. ModeFor(w)' = ModeFor(w)
      BY <1>0, <2>4 DEF ModeFor
    <3>2. /\ hands[w].fd \in 3..Len(inodes) /\ inodes[hands[w].fd].kind = "file"
          /\ inodes[hands[w].fd].by = w /\ inodes[hands[w].fd].mode = ModeFor(w)
          /\ inodes[hands[w].fd].n = Chunks
      BY <1>0, <2>4 DEF FillsWell, Filling, Stands
    <3> QED
      BY <2>1, <2>4, <3>1, <3>2 DEF FillsWell, EmitsWell, Filling, Stands
  <2>5. CASE hands[w].step = "own" /\ hands'[w].step = "emit" /\ hands'[w].fd = hands[w].fd
    BY <1>0, <2>1, <2>5 DEF FillsWell, EmitsWell, Filling
  <2> QED
    BY <2>2, <2>3, <2>4, <2>5
<1>9. CASE \/ Aimed(w) \/ Missed(w) \/ Stopped(w) \/ MadeDir(w) \/ TightenedDir(w) \/ Cleared(w)
           \/ PutInPlace(w) \/ ClaimedNew(w)
  <2>1. hands'[w].step \notin Filling \cup {"own", "emit"}
    BY <1>9 DEF Aimed, Missed, Stopped, MadeDir, TightenedDir, Cleared, PutInPlace, ClaimedNew,
       Goes, Aims, Tries, Retries, Meets, Opens, Filling
  <2> QED
    BY <2>1 DEF FillsWell, EmitsWell
<1> QED
  BY <1>0, <1>3, <1>4, <1>5, <1>6, <1>7, <1>8, <1>9 DEF Effect

(* A step changes the listing at the names it works with.                  *)
LEMMA ListingMoves ==
    ASSUME FilesInv, NEW w \in Hands, Effect(w)
    PROVE  /\ \A n \in DOMAIN Listing' :
                 /\ folder' = folder
                 /\ \/ n \in DOMAIN Listing /\ Listing'[n] = Listing[n]
                    \/ Created(w) /\ n = Mine(w) /\ Listing'[n] = Len(inodes) + 1
                    \/ OpenedNew(w) /\ n = hands[w].name /\ Listing'[n] = Len(inodes) + 1
                    \/ ClaimedNew(w) /\ n = Lock /\ Listing'[n] = Len(inodes) + 1
                    \/ PutInPlace(w) /\ n = hands[w].name /\ Listing'[n] = hands[w].fd
           /\ \A n \in DOMAIN Listing :
                 n \in DOMAIN Listing' \/ (n = Mine(w) /\ (Cleared(w) \/ PutInPlace(w)))
           /\ Cleared(w) \/ PutInPlace(w) =>
                 (hands[w].dir = folder => Mine(w) \notin DOMAIN Listing')
<1>1. CASE Listing' = Listing /\ folder' = folder
  <2>1. Cleared(w) \/ PutInPlace(w) => (hands[w].dir = folder => Mine(w) \notin DOMAIN Listing')
    BY DEF Cleared, PutInPlace, Cleans, Renames
  <2> QED
    BY <1>1, <2>1
<1>2. CASE MadeDir(w)
  <2>1. DOMAIN Listing' = {} /\ DOMAIN Listing = {}
    BY <1>2 DEF MadeDir, Makes
  <2> QED
    BY <2>1
<1>3. CASE Created(w)
  BY <1>3, MineIsName DEF Created, Enters, KeptDirs, Cleared, PutInPlace, Stands
<1>4. CASE OpenedNew(w)
  BY <1>4, MineIsName DEF OpenedNew, Enters, KeptDirs, Cleared, PutInPlace, Stands
<1>5. CASE ClaimedNew(w)
  BY <1>5, MineIsName DEF ClaimedNew, Enters, KeptDirs, Cleared, PutInPlace, Stands
<1>6. CASE Cleared(w)
  BY <1>6 DEF Cleared, Cleans, KeptDirs
<1>7. CASE PutInPlace(w)
  BY <1>7 DEF PutInPlace, Renames, KeptDirs
<1> QED
  BY <1>1, <1>2, <1>3, <1>4, <1>5, <1>6, <1>7
     DEF Effect, Aimed, Advanced, Missed, Stopped, TightenedDir, Tightens, Filled, OpenedOld, Emitted, Still

LEMMA TempsKept ==
    ASSUME FilesInv, NEW w \in Hands, StepOf(w), NEW v \in Hands
    PROVE  TempsWell(v)'
<1>0. /\ Effect(w) /\ Job(v)' = Job(v) /\ TempsWell(v) /\ v \in Nat \ {0} /\ w \in Nat \ {0}
      /\ v # w => hands'[v] = hands[v]
  BY Effects, StepFrame, FillByHand, HandsTyped DEF FilesInv
<1>1. SUFFICES ASSUME NEW t \in {0, 1}, Temporary(v, t) \in DOMAIN Listing'
               PROVE  /\ hands'[v].try = t /\ hands'[v].dir = folder' /\ Job(v).how = "replace"
                      /\ hands'[v].step \in Filling \cup {"died"}
                      /\ Listing'[Temporary(v, t)] = hands'[v].fd
  <2>1. Temporary(v, 0)' = Temporary(v, 0) /\ Temporary(v, 1)' = Temporary(v, 1)
    BY DEF Temporary
  <2> QED
    BY <1>0, <1>1, <2>1 DEF TempsWell
<1> DEFINE n == Temporary(v, t)
<1>2. folder' = folder /\ n \notin ReportNames /\ n # Lock
  BY <1>0, <1>1, ListingMoves, TemporaryNames
<1>3. hands[w].name \in ReportNames \cup {Lock} \/ Stands(w, "resolve")
  BY DEF FilesInv, HandAccount, Stands
<1>4. \/ n \in DOMAIN Listing /\ Listing'[n] = Listing[n]
      \/ Created(w) /\ n = Mine(w) /\ Listing'[n] = Len(inodes) + 1
  <2>1. OpenedNew(w) \/ PutInPlace(w) => hands[w].step # "resolve"
    BY DEF OpenedNew, PutInPlace, Stands
  <2> HIDE DEF n
  <2> QED
    BY <1>0, <1>1, <1>2, <1>3, <2>1, ListingMoves DEF n, Stands
<1>5. CASE Created(w) /\ n = Mine(w) /\ Listing'[n] = Len(inodes) + 1
  <2>1. v = w /\ t = hands[w].try
    BY <1>5, MineIsName
  <2>2. Job(w).how = "replace"
    BY <1>5, WayOfStep DEF Created, Stands, Replacing
  <2> HIDE DEF n
  <2> QED
    BY <1>2, <1>5, <2>1, <2>2 DEF n, Created, Opens, Filling
<1>6. CASE n \in DOMAIN Listing /\ Listing'[n] = Listing[n]
  <2>1. /\ hands[v].try = t /\ hands[v].dir = folder /\ Job(v).how = "replace"
        /\ hands[v].step \in Filling \cup {"died"} /\ Listing[n] = hands[v].fd
    BY <1>0, <1>6 DEF TempsWell
  <2>2. CASE v # w
    BY <1>0, <1>2, <1>6, <2>1, <2>2
  <2>3. CASE v = w
    <3>1. hands[w].step \in Filling
      BY <2>1, <2>3, StepFrame DEF Over
    <3>2. n = Mine(w)
      BY <2>1, <2>3 DEF Mine
    <3>3. ~ Cleared(w) /\ ~ PutInPlace(w)
      BY <1>0, <1>1, <2>1, <2>3, <3>2, ListingMoves
    <3>4. /\ hands'[w].step \in Filling \cup {"died"} /\ hands'[w].try = hands[w].try
          /\ hands'[w].dir = hands[w].dir /\ hands'[w].fd = hands[w].fd
      BY <1>0, <3>1, <3>3 DEF Effect, Aimed, Advanced, Missed, Stopped, MadeDir, TightenedDir, Created,
         Filled, OpenedNew, OpenedOld, Emitted, ClaimedNew, Stands, Filling, Goes, Same
    <3> QED
      BY <1>2, <1>6, <2>1, <2>3, <3>4
  <2> QED
    BY <2>2, <2>3
<1> QED
  BY <1>4, <1>5, <1>6

LEMMA FillKept ==
    ASSUME FilesInv, NEW w \in Hands, StepOf(w)
    PROVE  FillAccount'
<1>1. \A v \in Hands : FillsWell(v)' /\ EmitsWell(v)' /\ TempsWell(v)'
  BY OthersFill, OwnFill, TempsKept
<1>2. Hands' = Hands
  BY StepFrame
<1>3. \A v \in Hands' : FillsWell(v)' /\ EmitsWell(v)' /\ TempsWell(v)'
  BY <1>1, <1>2
<1> QED
  BY <1>3 DEF FillAccount, FillsWell, EmitsWell, TempsWell

-----------------------------------------------------------------------------
(* A report stays a file from before, a stream or a whole replacement.     *)
LEMMA FinishedStay ==
    ASSUME FilesInv, NEW w \in Hands, StepOf(w)
    PROVE  /\ Finished \subseteq Finished'
           /\ \A v \in Finished : v # w /\ hands'[v] = hands[v] /\ ModeFor(v)' = ModeFor(v)
           /\ w \in Finished' => PutInPlace(w)
           /\ PutInPlace(w) => w \in Finished' /\ ModeFor(w)' = ModeFor(w) /\ hands'[w].fd = hands[w].fd
           /\ \A v \in Finished' : v \in Finished \/ (v = w /\ PutInPlace(w))
<1>0. /\ Effect(w) /\ Hands' = Hands /\ hands[w].step # "done"
      /\ \A v \in Hands : Job(v)' = Job(v)
      /\ \A v \in Hands : v # w => hands'[v] = hands[v] /\ ModeFor(v)' = ModeFor(v)
  BY Effects, StepFrame DEF Over
<1>1. \A v \in Finished : v \in Hands /\ v # w /\ hands'[v] = hands[v] /\ ModeFor(v)' = ModeFor(v)
  BY <1>0 DEF Finished, Stands
<1>2. Finished \subseteq Finished'
  BY <1>0, <1>1 DEF Finished, Stands
<1>3. w \in Finished' => PutInPlace(w)
  <2>1. w \in Finished' => Job(w).how = "replace" /\ hands'[w].step = "done"
    BY <1>0 DEF Finished, Stands
  <2> QED
    BY <1>0, <2>1, WayOfStep DEF Effect, Aimed, Advanced, Missed, Stopped, MadeDir, TightenedDir, Created,
       Filled, Cleared, OpenedNew, OpenedOld, Emitted, ClaimedNew, Stands, Goes, Opens, Finds, Tries,
       Meets, Aims, Retries, Locking, Streaming
<1>4. PutInPlace(w) => w \in Finished' /\ ModeFor(w)' = ModeFor(w) /\ hands'[w].fd = hands[w].fd
  <2>1. PutInPlace(w) => /\ Job(w).how = "replace" /\ hands'[w].step = "done"
                         /\ hands'[w].fd = hands[w].fd /\ hands'[w].existing = hands[w].existing
    BY WayOfStep DEF PutInPlace, Stands, Goes, Same, Replacing, Filling
  <2> QED
    BY <1>0, <2>1 DEF Finished, Stands, ModeFor
<1>5. \A v \in Finished' : v \in Finished \/ (v = w /\ PutInPlace(w))
  BY <1>0, <1>3 DEF Finished, Stands
<1> QED
  BY <1>1, <1>2, <1>3, <1>4, <1>5

(* What a step finishes is whole.                                          *)
LEMMA PutWhole ==
    ASSUME FilesInv, NEW w \in Hands, PutInPlace(w)
    PROVE  /\ hands[w].fd \in DOMAIN inodes /\ hands[w].fd > 2 /\ inodes' = inodes
           /\ inodes[hands[w].fd] = [kind |-> "file", by |-> w, n |-> Chunks, mode |-> ModeFor(w)]
           /\ inodes[hands[w].fd].by = w /\ inodes[hands[w].fd].n = Chunks
<1>1. hands[w].step \in Filling /\ hands[w].step = "rename" /\ FillsWell(w) /\ inodes' = inodes
  BY FillByHand DEF PutInPlace, Stands, Filling, FilesInv
<1>2. /\ hands[w].fd \in 3..Len(inodes) /\ inodes[hands[w].fd].kind = "file" /\ inodes[hands[w].fd].by = w
      /\ inodes[hands[w].fd].mode = ModeFor(w) /\ inodes[hands[w].fd].n = Chunks
  BY <1>1 DEF FillsWell, Stands
<1>3. hands[w].fd \in DOMAIN inodes /\ hands[w].fd > 2
  BY <1>2, HandsTyped
<1>4. inodes[hands[w].fd] \in Inode
  BY <1>3, InodeFacts, HandsTyped
<1> QED
  BY <1>1, <1>2, <1>3, <1>4 DEF Inode

LEMMA ReportsKept ==
    ASSUME FilesInv, NEW w \in Hands, StepOf(w)
    PROVE  ReportAccount'
<1>0. /\ Effect(w) /\ Hands' = Hands /\ Streams' = Streams /\ Writers' = Writers /\ SecondFile' = SecondFile
      /\ FilesTypeOK /\ DirAccount /\ ReportAccount /\ FillAccount
      /\ DOMAIN inodes = 1..Len(inodes) /\ Len(inodes) \in Nat /\ Len(inodes) >= 2
      /\ \A n \in DOMAIN Listing : Listing[n] \in DOMAIN inodes
  BY Effects, StepFrame, HandsTyped DEF FilesInv, DirAccount
<1>1. DOMAIN inodes' = 1..Len(inodes') /\ DOMAIN inodes \subseteq DOMAIN inodes'
      /\ \A g \in DOMAIN inodes : inodes'[g].kind = inodes[g].kind
  BY <1>0, InodesStay
<1>2. 1 \in DOMAIN inodes /\ 2 \in DOMAIN inodes
  BY <1>0
<1>3. Filled(w) => w \notin Writers /\ w \notin Finished
  BY WayOfStep DEF Filled, Stands, Filling
<1>4. w # Several /\ w # Before /\ Several # Before
  BY HandsTyped DEF Several, Before
<1>5. \A g \in DOMAIN inodes :
         inodes[g].by \in Writers \cup Finished => inodes'[g].by \in Writers \cup Finished
  BY <1>0, <1>3, WhoseFile
<1>6. inodes'[1].by \in Writers \cup {Before} /\ inodes'[1].kind = "file"
  <2>1. inodes[1].by \in Writers \cup {Before} /\ inodes[1].kind = "file"
    BY <1>0 DEF ReportAccount
  <2> QED
    BY <1>0, <1>1, <1>2, <2>1, WhoseFile
<1>7. inodes'[2] = SecondFile
  <2>1. inodes[2] = SecondFile
    BY <1>0 DEF ReportAccount
  <2> QED
    BY <1>0, <1>2, <2>1, WhoseFile
<1>8. ASSUME NEW n \in ReportNames \cap DOMAIN Listing'
      PROVE  \/ n \in DOMAIN Listing /\ Listing'[n] = Listing[n]
             \/ OpenedNew(w) /\ Listing'[n] = Len(inodes) + 1
             \/ PutInPlace(w) /\ Listing'[n] = hands[w].fd
  BY <1>0, ListingMoves, MineIsName DEF ReportNames, Report, LastName, Lock
<1>9. ASSUME NEW n \in ReportNames \cap DOMAIN Listing'
      PROVE  LET f == Listing'[n] IN
             \/ f = 1
             \/ f = 2 /\ inodes'[2].kind \in Blocking
             \/ f > 2 /\ inodes'[f].by \in Writers \cup Finished'
  <2>1. CASE n \in DOMAIN Listing /\ Listing'[n] = Listing[n]
    <3>1. \/ Listing[n] = 1
          \/ Listing[n] = 2 /\ inodes[2].kind \in Blocking
          \/ Listing[n] > 2 /\ inodes[Listing[n]].by \in Writers \cup Finished
      BY <1>0, <1>9, <2>1 DEF ReportAccount
    <3> QED
      BY <1>0, <1>1, <1>2, <1>5, <2>1, <3>1, FinishedStay
  <2>2. CASE OpenedNew(w) /\ Listing'[n] = Len(inodes) + 1
    <3>1. Len(inodes) + 1 \in DOMAIN inodes' \ DOMAIN inodes
      <4>1. Len(inodes') = Len(inodes) + 1
        BY <2>2 DEF OpenedNew, AddsInode
      <4> QED
        BY <1>0, <1>1, <4>1
    <3>2. Listing'[n] > 2 /\ inodes'[Listing'[n]].by = w
      BY <1>0, <2>2, <3>1, NewFile
    <3>3. w \in Writers
      BY <2>2, WayOfStep DEF OpenedNew, Stands, Streaming, Writers
    <3> QED
      BY <3>2, <3>3
  <2>3. CASE PutInPlace(w) /\ Listing'[n] = hands[w].fd
    <3>1. hands[w].fd > 2 /\ inodes'[hands[w].fd].by = w
      BY <2>3, PutWhole
    <3> QED
      BY <2>3, <3>1, FinishedStay
  <2> QED
    BY <1>8, <1>9, <2>1, <2>2, <2>3
<1>10. ASSUME Streams = {}
       PROVE  /\ \A n \in ReportNames \cap DOMAIN Listing' : inodes'[Listing'[n]].n = Chunks
              /\ inodes'[1] = Old("file")
              /\ \A v \in Finished' :
                    /\ hands'[v].fd \in DOMAIN inodes'
                    /\ inodes'[hands'[v].fd] =
                          [kind |-> "file", by |-> v, n |-> Chunks, mode |-> ModeFor(v)']
  <2>0. /\ \A n \in ReportNames \cap DOMAIN Listing : inodes[Listing[n]].n = Chunks
        /\ inodes[1] = Old("file")
        /\ \A v \in Finished :
              /\ hands[v].fd \in DOMAIN inodes
              /\ inodes[hands[v].fd] = [kind |-> "file", by |-> v, n |-> Chunks, mode |-> ModeFor(v)]
    BY <1>0, <1>10 DEF ReportAccount
  <2>1. w \notin Streams /\ ~ OpenedNew(w)
    <3>1. OpenedNew(w) => w \in Streams
      BY WayOfStep DEF OpenedNew, Stands, Streaming
    <3> QED
      BY <1>10, <3>1
  <2>2. \A g \in DOMAIN inodes : inodes'[g] = inodes[g] \/ (g >= 3 /\ inodes[g].by = w /\ Filled(w))
    BY <1>0, <2>1, WhoseFile
  <2>3. inodes'[1] = Old("file")
    BY <1>2, <2>0, <2>2
  <2>4. ASSUME NEW n \in ReportNames \cap DOMAIN Listing'
        PROVE  inodes'[Listing'[n]].n = Chunks
    <3>1. CASE n \in DOMAIN Listing /\ Listing'[n] = Listing[n]
      <4>1. /\ Listing[n] \in DOMAIN inodes /\ inodes[Listing[n]].n = Chunks
            /\ Listing[n] <= 2 \/ inodes[Listing[n]].by \in Writers \cup Finished
        BY <1>0, <2>0, <2>4, <3>1 DEF ReportAccount
      <4>2. inodes'[Listing[n]] = inodes[Listing[n]]
        BY <1>0, <1>3, <2>2, <4>1
      <4> QED
        BY <3>1, <4>1, <4>2
    <3>2. CASE PutInPlace(w) /\ Listing'[n] = hands[w].fd
      BY <3>2, PutWhole
    <3> QED
      BY <1>8, <2>1, <2>4, <3>1, <3>2
  <2>5. ASSUME NEW v \in Finished'
        PROVE  /\ hands'[v].fd \in DOMAIN inodes'
               /\ inodes'[hands'[v].fd] =
                     [kind |-> "file", by |-> v, n |-> Chunks, mode |-> ModeFor(v)']
    <3>1. CASE v \in Finished
      <4>1. v # w /\ hands'[v] = hands[v] /\ ModeFor(v)' = ModeFor(v)
        BY <3>1, FinishedStay
      <4>2. hands[v].fd \in DOMAIN inodes /\ inodes[hands[v].fd].by = v
        <5>1. /\ hands[v].fd \in DOMAIN inodes
              /\ inodes[hands[v].fd] = [kind |-> "file", by |-> v, n |-> Chunks, mode |-> ModeFor(v)]
          BY <2>0, <3>1, Zenon
        <5>2. PICK k : inodes[hands[v].fd] = [kind |-> k, by |-> v, n |-> Chunks, mode |-> ModeFor(v)]
          BY <5>1, Zenon
        <5> QED
          BY <5>1, <5>2
      <4>3. inodes'[hands[v].fd] = inodes[hands[v].fd]
        BY <2>2, <4>1, <4>2
      <4> QED
        BY <1>1, <2>0, <3>1, <4>1, <4>2, <4>3
    <3>2. CASE v = w /\ PutInPlace(w)
      <4>1. ModeFor(w)' = ModeFor(w) /\ hands'[w].fd = hands[w].fd
        BY <3>2, FinishedStay
      <4> QED
        BY <1>1, <3>2, <4>1, PutWhole
    <3> QED
      BY <3>1, <3>2, FinishedStay
  <2> QED
    BY <2>3, <2>4, <2>5
<1>11. Old("file")' = Old("file")
  BY DEF Old
<1> QED
  BY <1>0, <1>6, <1>7, <1>9, <1>10, <1>11 DEF ReportAccount

-----------------------------------------------------------------------------
(* A process never writes what its name has avoided.                       *)
AvoidsWell(w) ==
    /\ hands[w].saw \subseteq DOMAIN inodes
    /\ \A f \in hands[w].saw : inodes[f].by # w
    /\ Stands(w, "resolve") => \A f \in DOMAIN inodes : inodes[f].by # w
    /\ \A v \in Hands : hands[v].step \in Filling => hands[v].fd \notin hands[w].saw
    /\ Job(w).how = "stream" /\ hands[w].name \in DOMAIN Listing =>
          \/ Listing[hands[w].name] \notin hands[w].saw \/ Stands(w, "resolve")
          \/ inodes[Listing[hands[w].name]].kind \in Blocking

LEMMA AvoidByHand == AvoidAccount <=> \A w \in Hands : AvoidsWell(w)
BY DEF AvoidAccount, AvoidsWell

LEMMA SawMoves ==
    ASSUME FilesInv, NEW w \in Hands, Effect(w)
    PROVE  \/ Aimed(w)
           \/ hands'[w].saw = hands[w].saw /\ hands'[w].name = hands[w].name /\ hands[w].step # "resolve"
BY DEF Effect, Advanced, Missed, Stopped, MadeDir, TightenedDir, Created, Filled, Cleared,
   PutInPlace, OpenedNew, OpenedOld, Emitted, ClaimedNew, Stands, Goes, Same, Opens, Finds, Tries,
   Meets, Retries

(* What a name avoids is no temporary.                                     *)
LEMMA SawNoTemporary ==
    ASSUME FilesInv, NEW v \in Hands, hands[v].step \in Filling, NEW n \in ReportNames \cap DOMAIN Listing
    PROVE  Listing[n] # hands[v].fd
<1>1. hands[v].fd \in 3..Len(inodes) /\ inodes[hands[v].fd].by = v
  BY FillByHand DEF FilesInv, FillsWell
<1>2. v \notin Writers /\ v \notin Finished
  BY WayOfStep
<1>3. \/ Listing[n] = 1 \/ Listing[n] = 2
      \/ Listing[n] > 2 /\ inodes[Listing[n]].by \in Writers \cup Finished
  BY DEF FilesInv, ReportAccount
<1> QED
  BY <1>1, <1>2, <1>3

LEMMA AvoidKept ==
    ASSUME FilesInv, NEW w \in Hands, StepOf(w)
    PROVE  AvoidAccount'
<1>0. /\ Effect(w) /\ Hands' = Hands /\ FilesTypeOK /\ DirAccount
      /\ DOMAIN inodes = 1..Len(inodes) /\ Len(inodes) \in Nat
      /\ \A n \in DOMAIN Listing : Listing[n] \in DOMAIN inodes
      /\ DOMAIN inodes' = 1..Len(inodes') /\ DOMAIN inodes \subseteq DOMAIN inodes'
      /\ \A g \in DOMAIN inodes : inodes'[g].kind = inodes[g].kind
      /\ \A v \in Hands : v # w => hands'[v] = hands[v]
      /\ \A v \in Hands : Job(v)' = Job(v)
  BY Effects, StepFrame, HandsTyped, InodesStay DEF DirAccount
<1>1. SUFFICES ASSUME NEW u \in Hands PROVE AvoidsWell(u)'
  <2>1. \A u \in Hands' : AvoidsWell(u)'
    BY <1>0, <1>1
  <2> QED
    BY <2>1 DEF AvoidAccount, AvoidsWell
<1>2. AvoidsWell(u) /\ u # Several /\ u # Before
  BY AvoidByHand, HandsTyped DEF FilesInv, Several, Before
<1> DEFINE saw == hands'[u].saw
<1>3. saw \subseteq DOMAIN inodes
  <2>1. CASE u = w /\ Aimed(w)
    BY <2>1 DEF Aimed, Aims
  <2>2. CASE ~ (u = w /\ Aimed(w))
    <3>1. saw = hands[u].saw
      BY <1>0, <2>2, SawMoves
    <3> QED
      BY <1>2, <3>1 DEF AvoidsWell
  <2> QED
    BY <2>1, <2>2
<1>4. ~ Aimed(w) \/ u # w => hands'[u].saw = hands[u].saw /\ hands'[u].name = hands[u].name
  BY <1>0, SawMoves
<1>5. Aimed(w) => inodes' = inodes /\ Listing' = Listing /\ hands[w].step = "resolve"
  BY DEF Aimed, Still, Stands
<1>6. \A f \in saw : inodes'[f].by # u
  <2>1. CASE u = w /\ Aimed(w)
    <3>1. \A f \in DOMAIN inodes : inodes[f].by # u
      BY <1>2, <1>5, <2>1 DEF AvoidsWell, Stands
    <3> QED
      BY <1>3, <1>5, <2>1, <3>1
  <2>2. CASE ~ (u = w /\ Aimed(w))
    <3>1. saw = hands[u].saw
      BY <1>4, <2>2
    <3>2. \A f \in hands[u].saw : f \in DOMAIN inodes /\ inodes[f].by # u
      BY <1>2 DEF AvoidsWell
    <3> HIDE DEF saw
    <3> QED
      BY <1>0, <1>2, <3>1, <3>2, WhoseFile
  <2> QED
    BY <2>1, <2>2
<1>7. ASSUME hands'[u].step = "resolve", NEW f \in DOMAIN inodes' PROVE inodes'[f].by # u
  <2>1. u # w /\ hands[u].step = "resolve"
    BY <1>0, <1>7, StepFrame
  <2>2. CASE f \in DOMAIN inodes
    <3>1. inodes[f].by # u
      BY <1>2, <2>1, <2>2 DEF AvoidsWell, Stands
    <3> QED
      BY <1>0, <1>2, <2>1, <2>2, <3>1, WhoseFile
  <2>3. CASE f \notin DOMAIN inodes
    BY <1>0, <1>7, <2>1, <2>3, NewFile
  <2> QED
    BY <2>2, <2>3
<1>8. ASSUME NEW v \in Hands, hands'[v].step \in Filling PROVE hands'[v].fd \notin saw
  <2>1. \/ hands'[v].fd = Len(inodes) + 1
        \/ hands[v].step \in Filling /\ hands'[v].fd = hands[v].fd
    <3>1. CASE v # w
      BY <1>0, <1>8, <3>1
    <3>2. CASE v = w
      BY <1>0, <1>8, <3>2 DEF Effect, Aimed, Advanced, Missed, Stopped, MadeDir, TightenedDir, Created, Filled,
         Cleared, PutInPlace, OpenedNew, OpenedOld, Emitted, ClaimedNew, Stands, Goes, Same, Opens, Finds,
         Tries, Meets, Aims, Retries, Filling
    <3> QED
      BY <3>1, <3>2
  <2>2. CASE hands'[v].fd = Len(inodes) + 1
    BY <1>0, <1>3, <2>2
  <2>3. CASE hands[v].step \in Filling /\ hands'[v].fd = hands[v].fd
    <3>1. CASE u = w /\ Aimed(w)
      <4>1. saw \subseteq {Listing[n] : n \in DOMAIN Listing \cap ReportNames}
        BY <3>1 DEF Aimed, Aims
      <4> HIDE DEF saw
      <4> QED
        BY <2>3, <4>1, SawNoTemporary
    <3>2. CASE ~ (u = w /\ Aimed(w))
      BY <1>2, <1>4, <2>3, <3>2 DEF AvoidsWell
    <3> QED
      BY <3>1, <3>2
  <2> QED
    BY <2>1, <2>2, <2>3
<1>9. ASSUME Job(u).how = "stream", hands'[u].name \in DOMAIN Listing', hands'[u].step # "resolve"
      PROVE  \/ Listing'[hands'[u].name] \notin saw
             \/ inodes'[Listing'[hands'[u].name]].kind \in Blocking
  <2>1. CASE u = w /\ Aimed(w)
    <3>1. saw # {} => hands'[w].name \notin DOMAIN Listing
      BY <1>9, <2>1 DEF Aimed, Aims
    <3> QED
      BY <1>5, <1>9, <2>1, <3>1
  <2>2. CASE ~ (u = w /\ Aimed(w))
    <3> DEFINE n == hands[u].name
    <3>1. saw = hands[u].saw /\ hands'[u].name = n /\ hands[u].step # "resolve"
      BY <1>0, <1>4, <1>9, <2>2, SawMoves
    <3>2. n \in ReportNames
      BY <1>9, <3>1 DEF FilesInv, HandAccount
    <3>3. n # Lock /\ n # Mine(w)
      BY <3>2, MineIsName DEF ReportNames, Report, LastName, Lock
    <3>4. n \in DOMAIN Listing'
      BY <1>9, <3>1
    <3> HIDE DEF n
    <3>5. CASE n \in DOMAIN Listing /\ Listing'[n] = Listing[n]
      <4>1. Listing[n] \notin hands[u].saw \/ inodes[Listing[n]].kind \in Blocking
        BY <1>2, <1>9, <3>1, <3>5 DEF AvoidsWell, Stands, n
      <4> HIDE DEF saw
      <4> QED
        BY <1>0, <3>1, <3>5, <4>1
    <3>6. CASE Listing'[n] = Len(inodes) + 1
      BY <1>0, <1>3, <3>1, <3>6
    <3>7. CASE PutInPlace(w) /\ Listing'[n] = hands[w].fd
      <4>1. hands[w].step \in Filling
        BY <3>7 DEF PutInPlace, Stands, Filling
      <4>2. hands[w].fd \notin hands[u].saw
        BY <1>2, <4>1 DEF AvoidsWell
      <4> QED
        BY <3>1, <3>7, <4>2
    <3> QED
      BY <1>0, <3>3, <3>4, <3>5, <3>6, <3>7, ListingMoves
  <2> QED
    BY <2>1, <2>2
<1>10. saw \subseteq DOMAIN inodes'
  BY <1>0, <1>3
<1> QED
  BY <1>0, <1>6, <1>7, <1>8, <1>9, <1>10 DEF AvoidsWell, Stands

-----------------------------------------------------------------------------
(* Nothing is missed that nobody took away.                                *)
LosesNothing(w) ==
    /\ hands[w].step \notin {"resolve", "mkdir", "make"} \cup Over => folder # 0
    /\ hands[w].step \in Replacing \cup {"open", "claim", "reopen"} => hands[w].dir = folder
    /\ hands[w].step \in Filling => Mine(w) \in DOMAIN Listing
    /\ hands[w].step \in {"rewalk", "reopen"} => Lock \in DOMAIN Listing
    /\ hands[w].step \in {"queue", "hold"} => Lock \in DOMAIN Listing /\ Listing[Lock] = hands[w].fd
    /\ ~ Stands(w, "gone")
OneHolds ==
    \A v, w \in Hands : v # w /\ Stands(v, "hold") /\ Stands(w, "hold") => hands[v].fd # hands[w].fd
LinkIsAway == 2 \notin {Listing[n] : n \in ReportNames \cap DOMAIN Listing}

LEMMA LostByHand ==
    NothingLost <=>
        /\ ~ chance.touched => \A w \in Hands : LosesNothing(w)
        /\ OneHolds
        /\ desk.leaf = "swapped" /\ ~ chance.touched => LinkIsAway
BY DEF NothingLost, LosesNothing, OneHolds, LinkIsAway

LEMMA OthersLoseNothing ==
    ASSUME FilesInv, NEW w \in Hands, StepOf(w), NEW v \in Hands, v # w, LosesNothing(v)
    PROVE  LosesNothing(v)'
<1>0. /\ Effect(w) /\ hands'[v] = hands[v] /\ Mine(v)' = Mine(v)
      /\ hands[v].step \in StepsOf(Job(v).how) /\ Job(v).how \in {"replace", "stream", "lock"}
  BY Effects, StepFrame, HandsTyped, WayOfStep
<1>1. folder # 0 => folder' = folder
  <2>1. FilesTypeOK
    BY DEF FilesInv
  <2> QED
    BY <1>0, <2>1, DirsStay
<1>2. Mine(v) # Mine(w) /\ Mine(w) # Lock /\ Mine(v) # Lock /\ Mine(v) \notin ReportNames
  <2>1. Mine(v) # Mine(w)
    <3>1. Mine(v) = Temporary(v, hands[v].try) /\ hands[v].try \in {0, 1}
      BY MineIsName DEF Mine
    <3> QED
      BY <3>1, MineIsName
  <2> QED
    BY <2>1, MineIsName
<1>3. Mine(v) \in DOMAIN Listing => Mine(v) \in DOMAIN Listing'
  BY <1>0, <1>2, ListingMoves
<1>4. Lock \in DOMAIN Listing => Lock \in DOMAIN Listing' /\ Listing'[Lock] = Listing[Lock]
  <2>1. OpenedNew(w) \/ PutInPlace(w) => hands[w].name # Lock
    <3>1. OpenedNew(w) \/ PutInPlace(w) => Job(w).how # "lock" /\ hands[w].step # "resolve"
      BY WayOfStep DEF OpenedNew, PutInPlace, Stands, Streaming, Replacing, Filling
    <3>2. Lock \notin ReportNames
      BY DEF Lock, ReportNames, Report, LastName
    <3> QED
      BY <3>1, <3>2 DEF FilesInv, HandAccount
  <2>2. ClaimedNew(w) => Lock \notin DOMAIN Listing
    BY DEF ClaimedNew
  <2> QED
    BY <1>0, <1>2, <2>1, <2>2, ListingMoves
<1>5. hands[v].step \in Replacing \cup {"open", "claim", "reopen"} => folder # 0
  BY DEF LosesNothing, Replacing, Filling, Over
<1> QED
  BY <1>0, <1>1, <1>3, <1>4, <1>5 DEF LosesNothing, Stands

LEMMA OwnLosesNothing ==
    ASSUME FilesInv, NEW w \in Hands, StepOf(w), LosesNothing(w)
    PROVE  LosesNothing(w)'
<1>0. Effect(w)
  BY Effects
<1>1. Mine(w)' = Mine(w) \/ hands'[w].try # hands[w].try
  BY DEF Mine, Temporary
<1>2. CASE Aimed(w)
  BY <1>2 DEF LosesNothing, Aimed, Aims, Stands, Over, Replacing, Filling
<1>3. CASE Missed(w)
  <2>1. ~ Missed(w)
    BY DEF LosesNothing, Missed, Stands, Over, Replacing, Filling
  <2> QED
    BY <1>3, <2>1
<1>4. CASE Stopped(w)
  BY <1>4 DEF LosesNothing, Stopped, Stands, Goes, Meets, Over, Replacing, Filling
<1>5. CASE MadeDir(w)
  <2>2. folder' # 0 /\ hands'[w].step = "tighten"
    <3>1. folder' = Len(dirs) + 1
      BY <1>5, Zenon DEF MadeDir, Makes
    <3>2. Len(dirs) \in Nat
      BY DEF FilesInv, FilesTypeOK
    <3>3. hands'[w].step = "tighten"
      BY <1>5 DEF MadeDir, Goes
    <3> QED
      BY <3>1, <3>2, <3>3
  <2> QED
    BY <2>2 DEF LosesNothing, Stands, Over, Replacing, Filling
<1>6. CASE TightenedDir(w)
  <2>1. hands'[w].step = "walk" /\ folder' = folder /\ folder # 0
    BY <1>6 DEF TightenedDir, Tightens, Goes
  <2> QED
    BY <2>1 DEF LosesNothing, Stands, Over, Replacing, Filling
<1>7. CASE Created(w)
  <2>1. /\ hands'[w].step = "chmod" /\ hands'[w].dir = folder' /\ folder' # 0
        /\ Mine(w)' = Mine(w) /\ Mine(w) \in DOMAIN Listing'
    BY <1>1, <1>7 DEF Created, Opens, Enters, KeptDirs
  <2> QED
    BY <2>1 DEF LosesNothing, Stands, Over, Replacing, Filling
<1>8. CASE Filled(w)
  <2>1. /\ hands[w].step \in {"chmod", "write"} /\ hands'[w].step \in {"write", "recheck"}
        /\ hands'[w].dir = hands[w].dir /\ Mine(w)' = Mine(w) /\ folder' = folder /\ Listing' = Listing
    BY <1>1, <1>8 DEF Filled, Stands, Goes, Same
  <2> QED
    BY <2>1 DEF LosesNothing, Stands, Over, Replacing, Filling
<1>9. CASE Cleared(w)
  <2>1. hands'[w].step \in {"failed", "refused"}
    BY <1>9 DEF Cleared, Stands, Goes, LosesNothing, Replacing, Filling
  <2> QED
    BY <2>1 DEF LosesNothing, Stands, Over, Replacing, Filling
<1>10. CASE PutInPlace(w)
  BY <1>10 DEF LosesNothing, PutInPlace, Stands, Goes, Over, Replacing, Filling
<1>11. CASE OpenedNew(w)
  <2>1. hands'[w].step = "own" /\ folder' # 0
    BY <1>11 DEF OpenedNew, Opens, Enters, KeptDirs
  <2> QED
    BY <2>1 DEF LosesNothing, Stands, Over, Replacing, Filling
<1>12. CASE OpenedOld(w)
  <2>1. hands'[w].step = "own" /\ folder' = folder /\ hands[w].step = "open"
    BY <1>12 DEF OpenedOld, Opens, Stands
  <2> QED
    BY <2>1 DEF LosesNothing, Stands, Over, Replacing, Filling
<1>13. CASE Emitted(w)
  <2>1. /\ hands[w].step \in {"own", "emit"} /\ hands'[w].step \in {"emit", "done"} /\ folder' = folder
    BY <1>13 DEF Emitted, Goes, Stands
  <2> QED
    BY <2>1 DEF LosesNothing, Stands, Over, Replacing, Filling
<1>14. CASE ClaimedNew(w)
  <2>1. /\ hands'[w].step = "queue" /\ hands'[w].fd = Len(inodes) + 1 /\ folder' # 0
        /\ Lock \in DOMAIN Listing' /\ Listing'[Lock] = Len(inodes) + 1
    BY <1>14 DEF ClaimedNew, Opens, Enters, KeptDirs
  <2> QED
    BY <2>1 DEF LosesNothing, Stands, Over, Replacing, Filling
<1>15. CASE Advanced(w)
  <2>1. Listing' = Listing /\ folder' = folder
    BY <1>15 DEF Advanced, Still
  <2>2. hands'[w].step \in Filling => hands[w].step \in Filling /\ hands'[w].try = hands[w].try
    BY <1>15 DEF Advanced, Stands, Goes, Same, Finds, Meets, Tries, Opens, Filling
  <2>3. hands'[w].step \in Filling => Mine(w)' \in DOMAIN Listing
    BY <1>1, <2>2 DEF LosesNothing
  <2>4. hands'[w].step \notin {"resolve", "mkdir", "make"} \cup Over => folder # 0
    BY <1>15 DEF Advanced, Stands, Goes, Finds, Meets, Tries, Opens, LosesNothing, Over
  <2>5. hands'[w].step \in Replacing \cup {"open", "claim", "reopen"} => hands'[w].dir = folder
    BY <1>15 DEF Advanced, Stands, Goes, Same, Finds, Meets, Tries, Opens, LosesNothing, Replacing, Filling
  <2>6. hands'[w].step \in {"rewalk", "reopen"} => Lock \in DOMAIN Listing
    BY <1>15 DEF Advanced, Stands, Goes, Same, Finds, Meets, Tries, Opens, LosesNothing
  <2>7. hands'[w].step \in {"queue", "hold"} => Lock \in DOMAIN Listing /\ Listing[Lock] = hands'[w].fd
    BY <1>15 DEF Advanced, Stands, Goes, Same, Finds, Meets, Tries, Opens, LosesNothing
  <2>8. hands'[w].step # "gone"
    BY <1>15 DEF Advanced, Stands, Goes, Same, Finds, Meets, Tries, Opens
  <2> QED
    BY <2>1, <2>3, <2>4, <2>5, <2>6, <2>7, <2>8 DEF LosesNothing, Stands
<1> QED
  BY <1>0, <1>2, <1>3, <1>4, <1>5, <1>6, <1>7, <1>8, <1>9, <1>10, <1>11, <1>12, <1>13, <1>14, <1>15
     DEF Effect

LEMMA LostKept ==
    ASSUME FilesInv, NEW w \in Hands, StepOf(w)
    PROVE  NothingLost'
<1>0. /\ Effect(w) /\ Hands' = Hands /\ desk' = desk /\ chance'.touched = chance.touched
      /\ \A v \in Hands : v # w => hands'[v] = hands[v]
      /\ Len(inodes) \in Nat /\ Len(inodes) >= 2
  BY Effects, StepFrame, HandsTyped DEF DirAccount
<1>1. ASSUME ~ chance.touched PROVE \A v \in Hands : LosesNothing(v)'
  <2>1. \A v \in Hands : LosesNothing(v)
    BY <1>1, LostByHand DEF FilesInv
  <2> QED
    BY <2>1, OthersLoseNothing, OwnLosesNothing
<1>2. ASSUME NEW u \in Hands, NEW v \in Hands, u # v,
             hands'[u].step = "hold", hands'[v].step = "hold"
      PROVE  hands'[u].fd # hands'[v].fd
  <2>1. ASSUME NEW x \in Hands, hands'[x].step = "hold"
        PROVE  /\ hands'[x].fd = hands[x].fd
               /\ \/ hands[x].step = "hold" /\ x # w
                  \/ /\ x = w
                     /\ \A y \in Hands : hands[y].step = "hold" => hands[y].fd # hands[x].fd
    <3>1. CASE x # w
      BY <1>0, <2>1, <3>1
    <3>2. CASE x = w
      BY <1>0, <2>1, <3>2 DEF Effect, Aimed, Advanced, Missed, Stopped, MadeDir, TightenedDir, Created, Filled,
         Cleared, PutInPlace, OpenedNew, OpenedOld, Emitted, ClaimedNew, Stands, Goes, Same, Opens, Finds,
         Tries, Meets, Aims, Retries
    <3> QED
      BY <3>1, <3>2
  <2>2. hands[u].step = "hold" /\ hands[v].step = "hold" => hands[u].fd # hands[v].fd
    BY <1>2 DEF FilesInv, NothingLost, Stands
  <2> QED
    BY <1>2, <2>1, <2>2
<1>3. ASSUME desk.leaf = "swapped", ~ chance.touched
      PROVE  2 \notin {Listing'[n] : n \in ReportNames \cap DOMAIN Listing'}
  <2>1. \A n \in ReportNames \cap DOMAIN Listing : Listing[n] # 2
    BY <1>3 DEF FilesInv, NothingLost
  <2>2. PutInPlace(w) => hands[w].fd > 2
    BY PutWhole
  <2>3. \A n \in ReportNames \cap DOMAIN Listing' : Listing'[n] # 2
    BY <1>0, <2>1, <2>2, ListingMoves
  <2> QED
    BY <2>3
<1>4. \A v \in Hands' : chance'.touched \/ LosesNothing(v)'
  BY <1>0, <1>1
<1>5. OneHolds'
  BY <1>0, <1>2 DEF OneHolds, Stands
<1>6. desk'.leaf = "swapped" /\ ~ chance'.touched => LinkIsAway'
  BY <1>0, <1>3 DEF LinkIsAway
<1> QED
  BY <1>4, <1>5, <1>6 DEF NothingLost, LosesNothing, OneHolds, LinkIsAway

-----------------------------------------------------------------------------
(* What happens around the processes keeps all of it.                      *)
LEMMA AroundListing ==
    ASSUME FilesInv, Empties \/ Removes \/ Makes \/ Relinks
    PROVE  /\ dirs' \in Seq(Directory) /\ Len(dirs') \in Nat /\ DOMAIN dirs' = 1..Len(dirs')
           /\ Len(dirs') >= Len(dirs) /\ folder' \in 0..Len(dirs')
           /\ \A n \in DOMAIN Listing' :
                 /\ folder' = folder
                 /\ \/ n \in DOMAIN Listing /\ Listing'[n] = Listing[n]
                    \/ Relinks /\ n = Report /\ Listing'[n] = 2
           /\ \A d \in 1..Len(dirs) : dirs'[d].mode = dirs[d].mode
           /\ folder' \in {0, folder} \/ (folder = 0 /\ folder' = Len(dirs) + 1)
<1>0. dirs \in Seq(Directory) /\ Len(dirs) \in Nat /\ folder \in 0..Len(dirs)
  BY DEF FilesInv, FilesTypeOK
<1>1. CASE Empties
  BY <1>0, <1>1 DEF Empties, KeptDirs
<1>2. CASE Removes
  BY <1>0, <1>2 DEF Removes
<1>3. CASE Makes
  <2>1. /\ folder = 0 /\ folder' = Len(dirs) + 1 /\ dirs' \in Seq(Directory)
        /\ Len(dirs') = Len(dirs) + 1 /\ DOMAIN Listing' = {}
    BY <1>3, Zenon DEF Makes
  <2>2. \A d \in 1..Len(dirs) : dirs'[d].mode = dirs[d].mode
    BY <1>3, Zenon DEF Makes
  <2>3. \A n \in DOMAIN Listing' : FALSE
    BY <2>1, Zenon
  <2>4. Len(dirs') \in Nat /\ DOMAIN dirs' = 1..Len(dirs') /\ Len(dirs') >= Len(dirs) /\ folder' \in 0..Len(dirs')
    BY <1>0, <2>1
  <2> QED
    BY <2>1, <2>2, <2>3, <2>4, Zenon
<1>4. CASE Relinks
  <2>1. /\ KeptDirs /\ \A n \in DOMAIN Listing' :
              (n \in DOMAIN Listing /\ Listing'[n] = Listing[n]) \/ (n = Report /\ Listing'[n] = 2)
    BY <1>4 DEF Relinks, Enters
  <2> QED
    BY <1>0, <1>4, <2>1 DEF KeptDirs
<1> QED
  BY <1>1, <1>2, <1>3, <1>4

LEMMA AroundDirs ==
    ASSUME FilesInv, Empties \/ Removes \/ Makes \/ Relinks
    PROVE  \A d \in DOMAIN dirs' :
              (dirs'[d].live <=> d = folder') /\ (d # folder' => DOMAIN dirs'[d].at = {})
<1>0. /\ Len(dirs) \in Nat /\ DOMAIN dirs = 1..Len(dirs) /\ DOMAIN dirs' = 1..Len(dirs')
      /\ \A d \in DOMAIN dirs : (dirs[d].live <=> d = folder) /\ (d # folder => DOMAIN dirs[d].at = {})
  BY AroundListing DEF FilesInv, FilesTypeOK, DirAccount
<1>1. CASE Empties \/ Relinks
  <2>1. KeptDirs
    BY <1>1 DEF Empties, Relinks, Enters
  <2> QED
    BY <1>0, <2>1 DEF KeptDirs
<1>2. CASE Removes
  BY <1>0, <1>2 DEF Removes
<1>3. CASE Makes
  <2>1. folder = 0 /\ folder' = Len(dirs) + 1 /\ Len(dirs') = Len(dirs) + 1
    BY <1>3, Zenon DEF Makes
  <2>2. dirs'[folder'].live /\ \A d \in 1..Len(dirs) : dirs'[d] = dirs[d]
    BY <1>3, Zenon DEF Makes
  <2>3. ASSUME NEW d \in 1..Len(dirs)
        PROVE  d # folder' /\ ~ dirs'[d].live /\ DOMAIN dirs'[d].at = {}
    <3>1. d # folder /\ d # folder'
      BY <1>0, <2>1
    <3>2. dirs'[d] = dirs[d]
      BY <2>2, Zenon
    <3> QED
      BY <1>0, <3>1, <3>2
  <2>4. ASSUME NEW d \in DOMAIN dirs' PROVE d = folder' \/ d \in 1..Len(dirs)
    BY <1>0, <2>1
  <2> QED
    BY <2>2, <2>3, <2>4, Zenon
<1> QED
  BY <1>1, <1>2, <1>3

LEMMA AroundKept ==
    ASSUME FilesInv, Around
    PROVE  FilesInv'
<1>0. /\ desk' = desk /\ inodes' = inodes /\ hands' = hands /\ Hands' = Hands
      /\ chance' \in [removals : Nat, faults : Nat, deaths : Nat, touched : BOOLEAN]
      /\ chance.touched => chance'.touched
      /\ Empties \/ Removes \/ (Makes /\ chance.touched) \/ Relinks
  BY AroundDigest DEF Hands
<1>1. /\ \A v \in Hands : Job(v)' = Job(v) /\ Mine(v)' = Mine(v) /\ ModeFor(v)' = ModeFor(v)
      /\ \A v \in Hands : \A s : Stands(v, s)' = Stands(v, s)
      /\ Streams' = Streams /\ Writers' = Writers /\ SecondFile' = SecondFile /\ Finished' = Finished
  BY <1>0 DEF Job, Mine, ModeFor, Streams, Writers, SecondFile, Finished, Stands
<1>2. chance'.touched
  BY <1>0 DEF Empties, Removes, Relinks
<1>3. /\ FilesTypeOK /\ DirAccount /\ HandAccount /\ FillAccount /\ ReportAccount /\ AvoidAccount
      /\ NothingLost /\ Len(dirs) \in Nat
      /\ Len(inodes) >= 2 /\ Len(inodes) \in Nat /\ DOMAIN inodes = 1..Len(inodes)
  BY DEF FilesInv, FilesTypeOK, DirAccount
<1>4. /\ dirs' \in Seq(Directory) /\ Len(dirs') \in Nat /\ DOMAIN dirs' = 1..Len(dirs')
      /\ Len(dirs') >= Len(dirs) /\ folder' \in 0..Len(dirs')
      /\ \A d \in 1..Len(dirs) : dirs'[d].mode = dirs[d].mode
      /\ folder' \in {0, folder} \/ (folder = 0 /\ folder' = Len(dirs) + 1)
  BY <1>0, AroundListing
<1>5. \A n \in DOMAIN Listing' :
         /\ folder' = folder
         /\ \/ n \in DOMAIN Listing /\ Listing'[n] = Listing[n]
            \/ Relinks /\ n = Report /\ Listing'[n] = 2
  BY <1>0, AroundListing
<1>6. Relinks => inodes[2].kind \in Blocking /\ inodes[2].n = Chunks
  <2>1. Relinks => inodes[2] = Old("link")
    BY <1>3 DEF Relinks, ReportAccount, SecondFile, Blocking
  <2>2. Old("link").kind = "link" /\ Old("link").n = Chunks
    BY DEF Old
  <2> QED
    BY <2>1, <2>2 DEF Blocking
<1>7. FilesTypeOK'
  BY <1>0, <1>3, <1>4 DEF FilesTypeOK
<1>8. DirAccount'
  <2>1. \A n \in DOMAIN Listing' : Listing'[n] \in DOMAIN inodes
    BY <1>3, <1>5 DEF DirAccount
  <2>2. ASSUME desk.leaf # "missing"
        PROVE  /\ Len(dirs') >= 1 /\ dirs'[1].mode = "theirs"
               /\ \A v \in Hands : Stands(v, "tighten") => folder' # 1
    BY <1>3, <1>4, <2>2 DEF DirAccount
  <2>3. \A d \in DOMAIN dirs' : (dirs'[d].live <=> d = folder') /\ (d # folder' => DOMAIN dirs'[d].at = {})
    BY <1>0, AroundDirs
  <2> QED
    BY <1>0, <1>3, <2>1, <2>2, <2>3 DEF DirAccount, Stands
<1>9. HandAccount'
  BY <1>0, <1>1, <1>3, <1>4 DEF HandAccount, Stands
<1>10. FillAccount'
  <2>1. \A v \in Hands : FillsWell(v)' /\ EmitsWell(v)'
    BY <1>0, <1>1, <1>3, FillByHand DEF FillsWell, EmitsWell, Stands
  <2>2. ASSUME NEW v \in Hands PROVE TempsWell(v)'
    <3>1. \A t \in {0, 1} : Temporary(v, t) # Report /\ Temporary(v, t)' = Temporary(v, t)
      BY HandsTyped, TemporaryNames DEF ReportNames, Report, LastName, Temporary
    <3>2. TempsWell(v)
      BY <1>3, FillByHand
    <3> QED
      BY <1>0, <1>1, <1>5, <3>1, <3>2 DEF TempsWell
  <2>3. \A v \in Hands' : FillsWell(v)' /\ EmitsWell(v)' /\ TempsWell(v)'
    BY <1>0, <2>1, <2>2
  <2> QED
    BY <2>3 DEF FillAccount, FillsWell, EmitsWell, TempsWell
<1>11. ReportAccount'
  <2>1. \A n \in ReportNames \cap DOMAIN Listing' :
           \/ n \in DOMAIN Listing /\ Listing'[n] = Listing[n]
           \/ Listing'[n] = 2 /\ inodes[2].kind \in Blocking /\ inodes[2].n = Chunks
    BY <1>5, <1>6
  <2>2. \A n \in ReportNames \cap DOMAIN Listing' :
           LET f == Listing'[n] IN
           \/ f = 1
           \/ f = 2 /\ inodes[2].kind \in Blocking
           \/ f > 2 /\ inodes[f].by \in Writers \cup Finished
    BY <1>3, <2>1 DEF ReportAccount
  <2>3. Streams = {} => \A n \in ReportNames \cap DOMAIN Listing' : inodes[Listing'[n]].n = Chunks
    BY <1>3, <2>1 DEF ReportAccount
  <2>4. Old("file")' = Old("file") /\ Finished \subseteq Hands
    BY DEF Old, Finished
  <2> QED
    BY <1>0, <1>1, <1>3, <2>2, <2>3, <2>4 DEF ReportAccount
<1>12. AvoidAccount'
  <2>1. ASSUME NEW v \in Hands PROVE AvoidsWell(v)'
    BY <1>0, <1>1, <1>3, <1>5, <1>6, AvoidByHand DEF AvoidsWell, Stands
  <2>2. \A v \in Hands' : AvoidsWell(v)'
    BY <1>0, <2>1
  <2> QED
    BY <2>2 DEF AvoidAccount, AvoidsWell
<1>13. NothingLost'
  BY <1>0, <1>1, <1>2, <1>3 DEF NothingLost, Stands
<1> QED
  BY <1>7, <1>8, <1>9, <1>10, <1>11, <1>12, <1>13 DEF FilesInv

LEMMA StutterKept ==
    ASSUME FilesInv, UNCHANGED fileVars
    PROVE  FilesInv'
<1>0. /\ desk' = desk /\ folder' = folder /\ dirs' = dirs /\ inodes' = inodes /\ hands' = hands
      /\ chance' = chance
  BY DEF fileVars
<1>1. /\ Hands' = Hands /\ Listing' = Listing /\ Streams' = Streams /\ Writers' = Writers
      /\ SecondFile' = SecondFile /\ Finished' = Finished
  BY <1>0 DEF Hands, Listing, Streams, Writers, Job, SecondFile, Finished, Stands
<1>2. /\ FilesTypeOK /\ DirAccount /\ HandAccount /\ FillAccount /\ ReportAccount /\ AvoidAccount
      /\ NothingLost
  BY DEF FilesInv
<1>3. FilesTypeOK'
  BY <1>0, <1>2 DEF FilesTypeOK
<1>4. DirAccount'
  BY <1>0, <1>1, <1>2 DEF DirAccount, Stands
<1>5. HandAccount'
  BY <1>0, <1>1, <1>2 DEF HandAccount, Stands, Job
<1>6. FillAccount'
  BY <1>0, <1>1, <1>2 DEF FillAccount, Stands, Job, ModeFor
<1>7. ReportAccount'
  BY <1>0, <1>1, <1>2 DEF ReportAccount, ModeFor, Job
<1>8. AvoidAccount'
  BY <1>0, <1>1, <1>2 DEF AvoidAccount, Stands, Job
<1>9. NothingLost'
  BY <1>0, <1>1, <1>2 DEF NothingLost, Stands, Mine
<1> QED
  BY <1>3, <1>4, <1>5, <1>6, <1>7, <1>8, <1>9 DEF FilesInv

-----------------------------------------------------------------------------
(* How it starts.                                                          *)
LEMMA OldFile ==
    ASSUME NEW kind \in {"file", "link", "fifo"}
    PROVE  /\ Old(kind) \in Inode /\ Old(kind).kind = kind
           /\ Old(kind).by = Before /\ Old(kind).n = Chunks
<1>1. Before \in Int /\ Chunks \in Nat
  BY ChunksAssumption DEF Before
<1>2. ASSUME NEW m \in Modes
      PROVE  LET r == [kind |-> kind, by |-> Before, n |-> Chunks, mode |-> m] IN
             r \in Inode /\ r.kind = kind /\ r.by = Before /\ r.n = Chunks
  BY <1>1 DEF Inode
<1>3. "0644" \in Modes
  BY Literals
<1> QED
  BY <1>2, <1>3, Zenon DEF Old

LEMMA FirstListed ==
    ASSUME NEW leaf, NEW locked
    PROVE  /\ FirstListing(leaf, locked) \in Listings
           /\ DOMAIN FirstListing(leaf, locked) \subseteq {Report, OtherName, Lock}
           /\ \A n \in DOMAIN FirstListing(leaf, locked) : FirstListing(leaf, locked)[n] \in {1, 2}
           /\ Report \in DOMAIN FirstListing(leaf, locked) /\ FirstListing(leaf, locked)[Report] # 1 =>
                 leaf \in Blocking
<1> DEFINE at == FirstListing(leaf, locked)
           first == FirstNames(leaf)
           second == SecondNames(leaf, locked)
<1>1. /\ first \subseteq {Report, OtherName} /\ second \subseteq {Report, Lock}
      /\ Report \in second => leaf \in Blocking
  BY DEF FirstNames, SecondNames, Report, OtherName, Lock
<1>2. at = [n \in first \cup second |-> IF n \in first THEN 1 ELSE 2]
  BY DEF FirstListing
<1> HIDE DEF first, second, at
<1>3. /\ DOMAIN at = first \cup second /\ \A n \in DOMAIN at : at[n] = IF n \in first THEN 1 ELSE 2
      /\ at = [n \in DOMAIN at |-> at[n]]
  BY <1>2
<1>4. {Report, OtherName, Lock} \subseteq Nat
  BY DEF Report, OtherName, Lock
<1>5. at \in Listings
  BY <1>1, <1>3, <1>4, IsListing
<1> QED
  BY <1>1, <1>3, <1>5 DEF at

LEMMA FirstDirs ==
    ASSUME FilesInit
    PROVE  /\ desk \in FileScenes /\ desk.leaf \in Leaves
           /\ dirs \in Seq(Directory) /\ Len(dirs) \in {0, 1} /\ folder = Len(dirs)
           /\ \A d \in DOMAIN dirs : d = folder /\ dirs[d].live
           /\ desk.leaf # "missing" => Len(dirs) = 1 /\ dirs[1].mode = "theirs"
           /\ DOMAIN Listing \subseteq {Report, OtherName, Lock}
           /\ \A n \in DOMAIN Listing : Listing[n] \in {1, 2}
           /\ Report \in DOMAIN Listing /\ Listing[Report] # 1 => desk.leaf \in Blocking
<1>1. desk \in FileScenes /\ desk.leaf \in Leaves /\ folder = Len(dirs)
  BY SceneAssumption DEF FilesInit
<1>2. CASE desk.leaf = "missing"
  <2>1. dirs = <<>> /\ folder = 0
    BY <1>2 DEF FilesInit
  <2>2. DOMAIN Listing = {}
    BY <2>1, NoNamesIsListing DEF Listing
  <2> QED
    BY <1>1, <1>2, <2>1, <2>2
<1>3. CASE desk.leaf # "missing"
  <2> DEFINE at == FirstListing(desk.leaf, desk.locked)
             dir == [FreshDir("theirs") EXCEPT !.at = at]
  <2>1. dirs = <<dir>>
    BY <1>3 DEF FilesInit
  <2>2. at \in Listings
    BY FirstListed
  <2>3. ASSUME NEW m \in Modes
        PROVE  /\ [FreshDir(m) EXCEPT !.at = at] \in Directory
               /\ [FreshDir(m) EXCEPT !.at = at].live /\ [FreshDir(m) EXCEPT !.at = at].at = at
               /\ [FreshDir(m) EXCEPT !.at = at].mode = m
    <3> HIDE DEF at
    <3> QED
      BY <2>2 DEF FreshDir, Directory
  <2>4. dir \in Directory /\ dir.live /\ dir.at = at /\ dir.mode = "theirs"
    BY <2>3, Literals, Zenon
  <2> HIDE DEF dir
  <2>5. Len(dirs) = 1 /\ dirs[1] = dir /\ dirs \in Seq(Directory) /\ DOMAIN dirs = {1} /\ folder = 1
    BY <1>1, <2>1, <2>4
  <2>6. Listing = at
    BY <2>4, <2>5 DEF Listing
  <2>7. \A d \in DOMAIN dirs : d = folder /\ dirs[d].live
    BY <2>4, <2>5, Zenon
  <2> QED
    BY <1>1, <1>3, <2>4, <2>5, <2>6, <2>7, FirstListed
<1> QED
  BY <1>2, <1>3

LEMMA FirstHands ==
    ASSUME FilesInit
    PROVE  /\ Hands = DOMAIN desk.jobs /\ Hands \subseteq Nat \ {0} /\ hands \in [Hands -> Hand]
           /\ \A w \in Hands : /\ hands[w].step = "resolve" /\ hands[w].dir = 0 /\ hands[w].saw = {}
                               /\ Job(w) \in Jobs
<1> DEFINE idle == [step |-> "resolve", name |-> Report, dir |-> 0, fd |-> 0, existing |-> "none",
                    try |-> 0, saw |-> {}]
<1>1. desk.jobs \in Seq(Jobs)
  BY SceneAssumption DEF FilesInit
<1>2. hands = [w \in DOMAIN desk.jobs |-> idle] /\ Hands = DOMAIN desk.jobs
  BY DEF FilesInit, Hands
<1>3. ASSUME NEW s \in Steps, NEW m \in Modes
      PROVE  LET r == [step |-> s, name |-> Report, dir |-> 0, fd |-> 0, existing |-> m,
                       try |-> 0, saw |-> {}] IN
             r \in Hand /\ r.step = s /\ r.dir = 0 /\ r.saw = {}
  BY DEF Hand, Report
<1>4. "resolve" \in Steps /\ "none" \in Modes
  BY Literals DEF Ahead
<1>5. idle \in Hand /\ idle.step = "resolve" /\ idle.dir = 0 /\ idle.saw = {}
  BY <1>3, <1>4, Zenon
<1> HIDE DEF idle
<1>6. \A w \in Hands : hands[w] = idle /\ Job(w) \in Jobs
  BY <1>1, <1>2 DEF Job
<1>7. Hands \subseteq Nat \ {0}
  <2>1. DOMAIN desk.jobs = 1..Len(desk.jobs) /\ Len(desk.jobs) \in Nat
    BY <1>1
  <2> QED
    BY <1>2, <2>1
<1> QED
  BY <1>2, <1>5, <1>6, <1>7

LEMMA FirstInodes ==
    ASSUME FilesInit
    PROVE  /\ inodes \in Seq(Inode) /\ Len(inodes) = 2 /\ DOMAIN inodes = {1, 2}
           /\ inodes[1] = Old("file") /\ inodes[2] = SecondFile
           /\ \A f \in DOMAIN inodes : inodes[f].by = Before /\ inodes[f].n = Chunks
           /\ inodes[1].kind = "file" /\ (desk.leaf \in Blocking => inodes[2].kind \in Blocking)
<1>1. PICK kind \in {"file", "link", "fifo"} :
         SecondFile = Old(kind) /\ (desk.leaf \in Blocking => kind \in Blocking)
  BY DEF SecondFile, Blocking
<1>2. /\ Old("file") \in Inode /\ Old("file").by = Before /\ Old("file").n = Chunks
      /\ Old("file").kind = "file"
  BY OldFile
<1>3. /\ Old(kind) \in Inode /\ Old(kind).by = Before /\ Old(kind).n = Chunks
      /\ Old(kind).kind = kind
  BY OldFile
<1>4. inodes = <<Old("file"), Old(kind)>> /\ inodes[2] = SecondFile
  BY <1>1 DEF FilesInit
<1> QED
  BY <1>1, <1>2, <1>3, <1>4

LEMMA StartsWell ==
    ASSUME FilesInit
    PROVE  FilesInv
<1>1. Hands = DOMAIN desk.jobs /\ \A w \in Hands : w \in Nat \ {0} /\ w # Before
  BY FirstHands DEF Before
<1>2. /\ Report = 0 /\ ReportNames = 0..2 /\ Report \notin {OtherName, Lock}
      /\ OtherName \notin ReportNames /\ Lock \notin ReportNames
  BY DEF ReportNames, Report, LastName, OtherName, Lock
<1>3. FilesTypeOK
  <2>1. desk.removals \in Nat /\ desk.faults \in Nat /\ desk.deaths \in Nat
    BY FirstDirs, SceneAssumption
  <2>2. chance \in [removals : Nat, faults : Nat, deaths : Nat, touched : BOOLEAN]
    BY <2>1 DEF FilesInit
  <2> QED
    BY <2>2, FirstDirs, FirstHands, FirstInodes DEF FilesTypeOK
<1>4. DirAccount
  <2>1. \A d \in DOMAIN dirs : (dirs[d].live <=> d = folder) /\ (d # folder => DOMAIN dirs[d].at = {})
    BY FirstDirs, Zenon
  <2>2. Len(inodes) >= 2 /\ \A n \in DOMAIN Listing : Listing[n] \in DOMAIN inodes
    BY FirstDirs, FirstInodes
  <2>3. \A w \in Hands : ~ Stands(w, "tighten")
    BY FirstHands DEF Stands
  <2>4. desk.leaf # "missing" => Len(dirs) >= 1 /\ dirs[1].mode = "theirs"
    BY FirstDirs
  <2> QED
    BY <2>1, <2>2, <2>3, <2>4 DEF DirAccount
<1>5. HandAccount
  <2>1. \A how : "resolve" \in StepsOf(how) /\ "resolve" \notin Replacing \cup {"open", "claim", "reopen"}
    BY DEF StepsOf, Ahead, Replacing, Filling
  <2>2. 0 \in 0..Len(dirs)
    BY FirstDirs
  <2> QED
    BY <2>1, <2>2, FirstHands DEF HandAccount
<1>6. FillAccount
  <2>1. \A w \in Hands : \A t \in {0, 1} : Temporary(w, t) \notin DOMAIN Listing
    <3>1. ASSUME NEW w \in Hands, NEW t \in {0, 1}
          PROVE  Temporary(w, t) \notin {Report, OtherName, Lock}
      BY <1>1 DEF Temporary, Report, OtherName, Lock
    <3> QED
      BY <3>1, FirstDirs
  <2>2. \A w \in Hands : hands[w].step \notin Filling \cup {"own", "emit"}
    BY FirstHands DEF Filling
  <2> QED
    BY <2>1, <2>2 DEF FillAccount
<1>7. ReportAccount
  <2>1. \A n \in ReportNames \cap DOMAIN Listing :
           n = Report /\ Listing[n] \in {1, 2} /\ (Listing[n] = 2 => inodes[2].kind \in Blocking)
    BY <1>2, FirstDirs, FirstInodes
  <2>2. Finished = {}
    BY FirstHands DEF Finished, Stands
  <2>3. \A n \in ReportNames \cap DOMAIN Listing : inodes[Listing[n]].n = Chunks
    BY <2>1, FirstInodes
  <2>4. inodes[1].by = Before /\ inodes[1].kind = "file"
    BY FirstInodes
  <2> QED
    BY <2>1, <2>2, <2>3, <2>4, FirstInodes DEF ReportAccount
<1>8. AvoidAccount
  <2>1. \A w \in Hands : hands[w].saw = {} /\ Stands(w, "resolve") /\ hands[w].step \notin Filling
    BY FirstHands DEF Stands, Filling
  <2>2. \A w \in Hands : \A f \in DOMAIN inodes : inodes[f].by # w
    BY <1>1, FirstInodes
  <2> QED
    BY <2>1, <2>2 DEF AvoidAccount
<1>9. NothingLost
  <2>1. /\ "resolve" \notin Replacing \cup {"open", "claim", "reopen"} \cup Filling
        /\ "resolve" \notin {"rewalk", "reopen"} \cup {"queue", "hold"}
    BY DEF Replacing, Filling
  <2>2. \A w \in Hands : hands[w].step = "resolve"
    BY FirstHands
  <2>3. desk.leaf = "swapped" => 2 \notin {Listing[n] : n \in ReportNames \cap DOMAIN Listing}
    <3>1. desk.leaf = "swapped" => desk.leaf \notin Blocking
      BY DEF Blocking
    <3> QED
      BY <1>2, <3>1, FirstDirs
  <2> QED
    BY <2>1, <2>2, <2>3 DEF NothingLost, Stands
<1> QED
  BY <1>3, <1>4, <1>5, <1>6, <1>7, <1>8, <1>9 DEF FilesInv

-----------------------------------------------------------------------------
(* FilesInv holds in every state: temporaries are their makers', reports   *)
(* are files from before, streams or whole replacements, and nothing is    *)
(* missed that nobody took away.                                           *)
THEOREM FilesInvariant == FilesSpec => []FilesInv
<1>1. FilesInit => FilesInv
  BY StartsWell
<1>2. FilesInv /\ [FilesNext]_fileVars => FilesInv'
  <2> SUFFICES ASSUME FilesInv, [FilesNext]_fileVars PROVE FilesInv'
    OBVIOUS
  <2>1. CASE \E w \in Hands : StepOf(w)
    <3>1. PICK w \in Hands : StepOf(w)
      BY <2>1
    <3>2. FilesTypeOK' /\ DirAccount' /\ HandAccount'
      BY <3>1, TypeKept, DirsKept, HandsKept
    <3>3. FillAccount' /\ ReportAccount'
      BY <3>1, FillKept, ReportsKept
    <3>4. AvoidAccount' /\ NothingLost'
      BY <3>1, AvoidKept, LostKept
    <3> QED
      BY <3>2, <3>3, <3>4 DEF FilesInv
  <2>2. CASE Around
    BY <2>2, AroundKept
  <2>3. CASE UNCHANGED fileVars
    BY <2>3, StutterKept
  <2> QED
    BY <2>1, <2>2, <2>3, AnyStep
<1> QED
  BY <1>1, <1>2, PTL DEF FilesSpec

LEMMA LeftoversAreMine ==
    ASSUME FilesInv, NEW w \in Hands
    PROVE  /\ Leftovers(w) \subseteq {Mine(w)} /\ Cardinality(Leftovers(w)) <= 1
           /\ hands[w].step \notin Filling \cup {"died"} => Leftovers(w) = {}
<1>1. TempsWell(w) /\ FilesTypeOK /\ DirAccount /\ w \in Nat \ {0}
  BY FillByHand, HandsTyped DEF FilesInv
<1>2. \A n \in Leftovers(w) : n \in DOMAIN Listing /\ \E t \in {0, 1} : n = Temporary(w, t)
  <2>1. \A d \in DOMAIN dirs : Live(d) => dirs[d].at = Listing
    <3>1. \A d \in DOMAIN dirs : d \in 0..Len(dirs) /\ d # 0
      BY <1>1, ListingFacts
    <3> QED
      BY <1>1, <3>1, ListingFacts DEF Listing
  <2> QED
    BY <2>1 DEF Leftovers
<1>3. Leftovers(w) \subseteq {Mine(w)}
  BY <1>1, <1>2 DEF TempsWell, Mine
<1>4. hands[w].step \notin Filling \cup {"died"} => Leftovers(w) = {}
  BY <1>1, <1>2 DEF TempsWell
<1>5. Cardinality(Leftovers(w)) <= 1
  <2>1. IsFiniteSet({Mine(w)}) /\ Cardinality({Mine(w)}) = 1
    BY FS_Singleton
  <2>2. Cardinality(Leftovers(w)) <= Cardinality({Mine(w)})
    BY <1>3, <2>1, FS_Subset
  <2> QED
    BY <2>1, <2>2
<1> QED
  BY <1>3, <1>4, <1>5

(* Every write is whole or not there, whoever else writes and whatever     *)
(* happens to the directory: the property the run checks.                  *)
THEOREM EveryWriteIsWhole == FilesSpec => []WritesAreWhole
<1>1. FilesInv => WritesAreWhole
  <2> SUFFICES ASSUME FilesInv PROVE WritesAreWhole
    OBVIOUS
  <2>0. /\ FilesTypeOK /\ DirAccount /\ ReportAccount /\ AvoidAccount /\ NothingLost
        /\ ReportNames \subseteq Nat
    BY DEF FilesInv, ReportNames, Report, LastName
  <2>1. \A d \in DOMAIN dirs : \A n \in ReportNames :
           Lookup(d, n) # 0 => n \in DOMAIN Listing /\ Lookup(d, n) = Listing[n]
    <3>1. \A d \in DOMAIN dirs : d \in 0..Len(dirs)
      BY <2>0, ListingFacts
    <3> QED
      BY <2>0, <3>1, ListingFacts
  <2>2. ASSUME Streams = {}
        PROVE  /\ \A d \in DOMAIN dirs : \A n \in ReportNames :
                     Lookup(d, n) # 0 => inodes[Lookup(d, n)].n = Chunks
               /\ inodes[1] = Old("file")
               /\ \A w \in Hands : Stands(w, "done") /\ Job(w).how = "replace" =>
                     inodes[hands[w].fd] = [kind |-> "file", by |-> w, n |-> Chunks, mode |-> ModeFor(w)]
    <3>1. \A n \in ReportNames \cap DOMAIN Listing : inodes[Listing[n]].n = Chunks
      BY <2>0, <2>2 DEF ReportAccount
    <3>2. inodes[1] = Old("file")
      BY <2>0, <2>2 DEF ReportAccount
    <3>3. \A w \in Hands : Stands(w, "done") /\ Job(w).how = "replace" =>
             inodes[hands[w].fd] = [kind |-> "file", by |-> w, n |-> Chunks, mode |-> ModeFor(w)]
      BY <2>0, <2>2 DEF ReportAccount, Finished
    <3>4. \A d \in DOMAIN dirs : \A n \in ReportNames :
             Lookup(d, n) # 0 => inodes[Lookup(d, n)].n = Chunks
      BY <2>1, <3>1
    <3> QED
      BY <3>2, <3>3, <3>4
  <2>3. inodes[2] = SecondFile
    BY <2>0 DEF ReportAccount
  <2>4. ASSUME NEW w \in Hands
        PROVE  /\ hands[w].step \in Over \ {"died"} => Leftovers(w) = {}
               /\ Cardinality(Leftovers(w)) <= 1
               /\ \A f \in hands[w].saw : inodes[f].by # w
               /\ Stands(w, "gone") => chance.touched
    <3>1. hands[w].step \in Over \ {"died"} => hands[w].step \notin Filling \cup {"died"}
      BY DEF Over, Filling
    <3> QED
      BY <2>0, <3>1, LeftoversAreMine DEF AvoidAccount, NothingLost
  <2>5. ASSUME NEW w \in Hands, Job(w).how = "replace", ~ Stands(w, "done"),
               NEW d \in DOMAIN dirs, NEW n \in ReportNames, Lookup(d, n) # 0
        PROVE  inodes[Lookup(d, n)].by # w
    <3>1. n \in DOMAIN Listing /\ Lookup(d, n) = Listing[n]
      BY <2>1, <2>5
    <3>2. w \notin Writers /\ w \notin Finished /\ w # Before
      BY <2>5, HandsTyped DEF Writers, Streams, Finished, Several, Before
    <3>3. inodes[2].by = Before
      <4>1. \E kind \in {"file", "link", "fifo"} : SecondFile = Old(kind)
        BY DEF SecondFile, Blocking
      <4> QED
        BY <2>3, <4>1, OldFile
    <3>4. /\ inodes[1].by \in Writers \cup {Before}
          /\ \/ Listing[n] = 1 \/ Listing[n] = 2
             \/ inodes[Listing[n]].by \in Writers \cup Finished
      BY <2>0, <3>1 DEF ReportAccount
    <3> QED
      BY <3>1, <3>2, <3>3, <3>4
  <2>6. ASSUME NEW v \in Hands, NEW w \in Hands, v # w, Stands(v, "hold"), Stands(w, "hold")
        PROVE  hands[v].fd # hands[w].fd /\ chance.touched
    BY <2>0, <2>6 DEF NothingLost, Stands
  <2>7. desk.leaf # "missing" => dirs[1].mode = "theirs"
    BY <2>0 DEF DirAccount
  <2> QED
    BY <2>2, <2>3, <2>4, <2>5, <2>6, <2>7 DEF WritesAreWhole
<1> QED
  BY <1>1, FilesInvariant, PTL

=============================================================================
