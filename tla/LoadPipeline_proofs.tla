------------------------ MODULE LoadPipeline_proofs ------------------------
(***************************************************************************)
(* Peek-pruning is safe for every archive: the files a load leaves unread  *)
(* hold no row of the window, whatever the number of files, families, days *)
(* and rows; the two cuts of the default window make one; and an empty     *)
(* table is explained by what really happened.                             *)
(***************************************************************************)
EXTENDS LoadPipeline, FiniteSetTheorems, TLAPS

-----------------------------------------------------------------------------
(* A finite set has a greatest element, by any measure of its elements.    *)
LEMMA Greatest ==
    ASSUME NEW T, IsFiniteSet(T), T # {}, NEW v \in [T -> Int]
    PROVE  \E t \in T : \A u \in T : v[u] <= v[t]
<1> DEFINE Bad == {U \in SUBSET T : U # {} /\ ~ \E t \in U : \A u \in U : v[u] <= v[t]}
<1>1. IsWellFoundedOn(StrictSubsetOrdering(T), SUBSET T)
  BY FS_StrictSubsetOrderingWellFounded, FS_FiniteSubsetsOfFinite
<1>2. Bad = {}
  <2> SUFFICES ASSUME Bad # {} PROVE FALSE
    OBVIOUS
  <2>1. PICK U \in Bad : \A W \in Bad : ~ (<<W, U>> \in StrictSubsetOrdering(T))
    <3>1. Bad \subseteq SUBSET T
      OBVIOUS
    <3> HIDE DEF Bad
    <3> QED
      BY <1>1, <3>1, WFMin
  <2>2. PICK x \in U : TRUE
    OBVIOUS
  <2>3. U \ {x} \notin Bad
    BY <2>1, <2>2 DEF StrictSubsetOrdering
  <2>4. CASE U \ {x} = {}
    BY <2>2, <2>4
  <2>5. CASE U \ {x} # {}
    <3>1. PICK t \in U \ {x} : \A u \in U \ {x} : v[u] <= v[t]
      BY <2>3, <2>5
    <3>2. v[t] \in Int /\ v[x] \in Int /\ \A u \in U : v[u] \in Int
      BY <2>2, <3>1
    <3>3. CASE v[x] <= v[t]
      BY <3>1, <3>3
    <3>4. CASE v[t] <= v[x]
      <4>1. \A u \in U : v[u] <= v[x]
        BY <3>1, <3>2, <3>4
      <4> QED
        BY <2>2, <4>1
    <3> QED
      BY <3>2, <3>3, <3>4
  <2> QED
    BY <2>4, <2>5
<1> QED
  BY <1>2

LEMMA NewestIsLast ==
    ASSUME NEW T \in SUBSET Int, IsFiniteSet(T), T # {}
    PROVE  Newest(T) \in T /\ \A u \in T : u <= Newest(T)
<1> DEFINE v == [t \in T |-> t]
<1>1. PICK t \in T : \A u \in T : v[u] <= v[t]
  <2>1. v \in [T -> Int]
    OBVIOUS
  <2> HIDE DEF v
  <2> QED
    BY <2>1, Greatest
<1> QED
  BY <1>1 DEF Newest

LEMMA LeastExists ==
    ASSUME NEW T, IsFiniteSet(T), T # {}, NEW v \in [T -> Int]
    PROVE  \E t \in T : \A u \in T : v[t] <= v[u]
<1> DEFINE w == [t \in T |-> 0 - v[t]]
<1>1. w \in [T -> Int]
  OBVIOUS
<1>2. PICK t \in T : \A u \in T : w[u] <= w[t]
  <2> HIDE DEF w
  <2> QED
    BY <1>1, Greatest
<1> QED
  BY <1>2

LEMMA FiniteImage ==
    ASSUME NEW S, IsFiniteSet(S), NEW f, DOMAIN f = S
    PROVE  IsFiniteSet({f[x] : x \in S})
<1> DEFINE T == {f[x] : x \in S}
           g == [x \in S |-> f[x]]
<1>1. g \in Surjection(S, T)
  BY DEF Surjection
<1> QED
  BY <1>1, FS_Surjection

-----------------------------------------------------------------------------
(* Peek-pruning.  A file whose first line has a time begins with it.       *)
LEMMA PeekIsFirst ==
    ASSUME NEW f, f.rows \in Seq(Nat), Peekable(f)
    PROVE  1 \in Timed(f) /\ Peek(f) = f.rows[1]
BY DEF Peekable, Peek, Timed, NoTime

(* A file left out of an orderly family holds no row of the window: the    *)
(* walk ends behind a file that begins before the window, and what it      *)
(* leaves at the other end begins after it (_rotation_windowed_files).     *)
THEOREM PruningIsLossless ==
    ASSUME NEW files, NEW since \in Int, NEW until \in Int,
           \A g \in files : g.rows \in Seq(Nat),
           \A g \in files : \A i, j \in Timed(g) : i < j => g.rows[i] <= g.rows[j],
           \A g, h \in files :
              (h \in Group(files, g) /\ Newer(g, h)) =>
                  \A i \in Timed(g), j \in Timed(h) : g.rows[i] >= h.rows[j],
           NEW f \in files, NEW i \in Timed(f),
           InBounds(f.rows[i], [since |-> since, until |-> until])
    PROVE  f \in RotationSelect(files, since, until)
<1> DEFINE group == Group(files, f)
<1>0. /\ f.rows[i] \in Nat /\ i \in 1..Len(f.rows) /\ group \subseteq files
      /\ f \in group /\ group \in Groups(files)
  BY DEF Timed, Group, Groups
<1>1. ~ BeyondWindow(f, until)
  <2> SUFFICES ASSUME until # NoTime, Peekable(f), Peek(f) > until PROVE FALSE
    BY DEF BeyondWindow
  <2>1. 1 \in Timed(f) /\ Peek(f) = f.rows[1] /\ f.rows[1] \in Nat
    BY PeekIsFirst DEF Timed
  <2>2. f.rows[1] <= f.rows[i]
    BY <1>0, <2>1
  <2> QED
    BY <1>0, <2>1, <2>2 DEF InBounds
<1>2. Reached(group, f, since)
  <2> SUFFICES ASSUME NEW g \in group, Straddles(g, since), Newer(g, f) PROVE FALSE
    BY DEF Reached
  <2>1. 1 \in Timed(g) /\ Peek(g) = g.rows[1] /\ g.rows[1] \in Nat
    BY <1>0, PeekIsFirst DEF Straddles, Timed
  <2>2. f \in Group(files, g)
    BY <1>0 DEF Group
  <2>3. g.rows[1] >= f.rows[i]
    BY <1>0, <2>1, <2>2
  <2> QED
    BY <1>0, <2>1, <2>3 DEF Straddles, InBounds
<1>3. f \in SelectGroup(group, since, until)
  BY <1>0, <1>1, <1>2 DEF SelectGroup
<1> HIDE DEF group
<1> QED
  BY <1>0, <1>3 DEF RotationSelect

(* Later moments are on later days, and a day that the window prunes has   *)
(* none of its moments.                                                    *)
LEMMA DaysAreInOrder ==
    ASSUME NEW a \in Nat, NEW b \in Nat, a <= b
    PROVE  DayOf(a) \in Nat /\ DayOf(b) \in Nat /\ DayOf(a) <= DayOf(b)
BY CalendarAssumption DEF DayOf

(* The floor of a dated input is a time.                                   *)
LEMMA DatedFloorIsTime ==
    ASSUME NEW layouts, IsFiniteSet(layouts), PurelyDated(layouts), NEW n \in Nat \ {0},
           \A l \in layouts : IsFiniteSet(l.days) /\ l.days \subseteq Nat \ {0}
    PROVE  DatedFloor(layouts, n) \in Nat
<1> DEFINE readable == {k \in layouts : k.kind # "denied"}
           byLayout == [l \in readable |-> l.days]
           days == UNION {l.days : l \in readable}
<1>1. IsFiniteSet(days) /\ days # {} /\ days \subseteq Nat \ {0}
  <2>1. IsFiniteSet(readable)
    BY FS_Subset
  <2>2. IsFiniteSet({byLayout[l] : l \in readable})
    BY <2>1, FiniteImage
  <2>3. {byLayout[l] : l \in readable} = {l.days : l \in readable}
    OBVIOUS
  <2>4. \A T \in {l.days : l \in readable} : IsFiniteSet(T)
    OBVIOUS
  <2>5. IsFiniteSet(days)
    BY <2>2, <2>3, <2>4, FS_UNION
  <2>6. days # {}
    BY DEF PurelyDated, IsDated
  <2> QED
    BY <2>5, <2>6
<1> HIDE DEF days
<1>2. NewestDays(days, n) # {}
  <2>1. PICK last \in days : \A d \in days : d <= last
    <3>1. days \in SUBSET Int /\ IsFiniteSet(days) /\ days # {}
      BY <1>1
    <3>2. Newest(days) \in days /\ \A d \in days : d <= Newest(days)
      BY <3>1, NewestIsLast
    <3> QED
      BY <3>2
  <2>2. {e \in days : e > last} = {}
    <3> SUFFICES ASSUME NEW e \in days, e > last PROVE FALSE
      OBVIOUS
    <3>1. e \in Nat /\ last \in Nat
      BY <1>1
    <3>2. e <= last
      BY <2>1
    <3> QED
      BY <3>1, <3>2
  <2>3. Cardinality({e \in days : e > last}) = 0
    BY <2>2, FS_EmptySet
  <2> QED
    BY <2>1, <2>3 DEF NewestDays
<1>3. \E d \in NewestDays(days, n) : \A e \in NewestDays(days, n) : d <= e
  <2> DEFINE late == NewestDays(days, n)
             v == [d \in late |-> d]
  <2>1. late \subseteq days
    BY DEF NewestDays
  <2>2. IsFiniteSet(late) /\ late \subseteq Int
    <3>1. IsFiniteSet(days) /\ days \subseteq Int
      BY <1>1
    <3> HIDE DEF late
    <3> QED
      BY <2>1, <3>1, FS_Subset
  <2>3. v \in [late -> Int]
    BY <2>2
  <2>4. late # {}
    BY <1>2
  <2>5. \E d \in late : \A e \in late : v[d] <= v[e]
    <3> HIDE DEF v, late
    <3> QED
      BY <2>2, <2>3, <2>4, LeastExists
  <2> HIDE DEF late
  <2>6. PICK d \in late : \A e \in late : v[d] <= v[e]
    BY <2>5
  <2>7. \A e \in late : d <= e
    BY <2>6
  <2> QED
    BY <2>7 DEF late
<1>4. NewestDays(days, n) \subseteq Nat
  BY <1>1 DEF NewestDays
<1>5. DatedFloor(layouts, n)
         = Midnight(CHOOSE d \in NewestDays(days, n) : \A e \in NewestDays(days, n) : d <= e)
  BY DEF DatedFloor, days
<1>6. (CHOOSE d \in NewestDays(days, n) : \A e \in NewestDays(days, n) : d <= e) \in Nat
  BY <1>3, <1>4
<1> QED
  BY <1>5, <1>6, CalendarAssumption DEF Midnight

-----------------------------------------------------------------------------
(* What the plan decides, of an archive and a request that the program can *)
(* meet.                                                                   *)
Input == archive \in Archives /\ request \in Requests

LEMMA SomeDays ==
    (Span + DayLength - 1) \div DayLength \in Nat \ {0}
  BY WindowAssumption, CalendarAssumption
LEMMA FirstLines ==
    ASSUME Input
    PROVE  LET peeks == {Peek(f) : f \in Candidates} \ {NoTime}
           IN  /\ IsFiniteSet(peeks) /\ peeks \in SUBSET Int
               /\ \A t \in peeks : t > Span + History
<1> DEFINE peek == [f \in Candidates |-> Peek(f)]
           lines == {peek[f] : f \in Candidates}
<1>1. IsFiniteSet(Candidates) /\ Candidates \subseteq archive.files
  BY ArchiveAssumption, FS_Subset DEF Input, Candidates
<1>2. IsFiniteSet(lines)
  BY <1>1, FiniteImage
<1>3. lines = {Peek(f) : f \in Candidates}
  OBVIOUS
<1>4. IsFiniteSet({Peek(f) : f \in Candidates} \ {NoTime})
  BY <1>2, <1>3, FS_Subset
<1>5. \A f \in Candidates : Peek(f) # NoTime => Peek(f) \in Nat /\ Peek(f) > Span + History
  <2> SUFFICES ASSUME NEW f \in Candidates, Peek(f) # NoTime
               PROVE  Peek(f) \in Nat /\ Peek(f) > Span + History
    OBVIOUS
  <2>1. f \in archive.files /\ archive \in Archives /\ f.rows \in Seq(Nat)
    BY <1>1, ArchiveAssumption DEF Input
  <2>2. 1 \in Timed(f) /\ Peek(f) = f.rows[1]
    BY <2>1, PeekIsFirst DEF Peekable
  <2> QED
    BY <2>1, <2>2, WindowAssumption DEF Timed
<1> QED
  BY <1>4, <1>5

LEMMA PlannedWindow ==
    ASSUME Input
    PROVE  /\ PlanWindows.select = [since |-> PlanWindows.select.since,
                                    until |-> PlanWindows.select.until]
           /\ PlanWindows.select.since \in Int /\ PlanWindows.select.until \in Nat
           /\ ~ Flat => PlanWindows.select.since \in Nat
           /\ PlanWindows.trim \in BOOLEAN
           /\ ~ PlanWindows.trim => PlanWindows.precise = PlanWindows.select
           /\ PlanWindows.trim =>
                 /\ PlanWindows.precise = NoWindow
                 /\ PlanWindows.select.until = NoTime
                 /\ \/ PlanWindows.select.since = NoTime
                    \/ /\ Flat /\ FlatFloor # NoTime
                       /\ PlanWindows.select.since <= FlatFloor
<1> USE DEF Input
<1>1. request.since \in Nat /\ request.until \in Nat
  BY RequestAssumption
<1>2. Flat => FlatFloor \in Int
  <2>1. SUFFICES ASSUME Flat PROVE FlatFloor \in Int
    OBVIOUS
  <2> DEFINE peeks == {Peek(f) : f \in Candidates} \ {NoTime}
  <2>2. peeks \in SUBSET Int /\ IsFiniteSet(peeks)
    BY FirstLines
  <2>3. peeks # {} => Newest(peeks) \in Int
    <3> HIDE DEF peeks
    <3> QED
      BY <2>2, NewestIsLast
  <2> QED
    BY <2>3, WindowAssumption DEF FlatFloor, NoTime
<1>3. archive.family = "zeek" /\ PurelyDated(archive.layouts) =>
          DatedFloor(archive.layouts, (Span + DayLength - 1) \div DayLength) \in Nat
  BY DatedFloorIsTime, SomeDays, ArchiveAssumption
<1>4. SelectFloor \in Int /\ (~ Flat => SelectFloor \in Nat)
  BY <1>2, <1>3 DEF SelectFloor, Flat, NoTime
<1> DEFINE operator == [since |-> request.since, until |-> request.until]
           exact == archive.family = "zeek" /\ PurelyDated(archive.layouts)
<1>5. CASE Policy = "explicit"
  <2>1. PlanWindows = [select |-> operator, precise |-> operator, trim |-> FALSE]
    BY <1>5 DEF PlanWindows
  <2> QED
    BY <1>1, <2>1
<1>6. CASE Policy = "resolved" /\ exact
  <2>1. CASE SelectFloor = NoTime
    <3>1. PlanWindows = [select |-> NoWindow, precise |-> NoWindow, trim |-> FALSE]
      BY <1>6, <2>1 DEF PlanWindows
    <3> QED
      BY <3>1 DEF NoWindow, NoTime
  <2>2. CASE SelectFloor # NoTime
    <3> DEFINE floor == [since |-> SelectFloor, until |-> NoTime]
    <3>1. PlanWindows = [select |-> floor, precise |-> floor, trim |-> FALSE]
      BY <1>6, <2>2 DEF PlanWindows
    <3>2. SelectFloor \in Nat
      BY <1>4, <1>6 DEF Flat
    <3> QED
      BY <3>1, <3>2 DEF NoTime
  <2> QED
    BY <2>1, <2>2
<1>7. CASE Policy = "resolved" /\ ~ exact
  <2>1. CASE SelectFloor = NoTime
    <3>1. PlanWindows = [select |-> NoWindow, precise |-> NoWindow, trim |-> TRUE]
      BY <1>7, <2>1 DEF PlanWindows, NoWindow
    <3> QED
      BY <1>7, <3>1 DEF NoWindow, NoTime
  <2>2. CASE SelectFloor # NoTime
    <3>1. Flat
      BY <1>7, <2>2 DEF SelectFloor
    <3>2. PICK since \in {SelectFloor, SelectFloor - History} :
             PlanWindows = [select |-> [since |-> since, until |-> NoTime],
                            precise |-> NoWindow, trim |-> TRUE]
      BY <1>7, <2>2 DEF PlanWindows
    <3>3. SelectFloor = FlatFloor
      BY <3>1 DEF SelectFloor, Flat
    <3>4. since \in Int /\ since <= FlatFloor /\ FlatFloor # NoTime
      BY <1>4, <2>2, <3>1, <3>3, WindowAssumption
    <3> QED
      BY <1>7, <3>1, <3>2, <3>4 DEF NoTime
  <2> QED
    BY <2>1, <2>2
<1>8. CASE Policy \notin {"explicit", "resolved"}
  <2>1. PlanWindows = [select |-> NoWindow, precise |-> NoWindow, trim |-> FALSE]
    BY <1>8 DEF PlanWindows
  <2> QED
    BY <2>1 DEF NoWindow, NoTime
<1> QED
  BY <1>5, <1>6, <1>7, <1>8


-----------------------------------------------------------------------------
(* The files read.  A row of the window is in a file that is read: for a   *)
(* flat family by PruningIsLossless, for Zeek because a day is pruned only *)
(* when all of it is outside the window.                                   *)
LEMMA SelectedAreFiles ==
    ASSUME NEW w
    PROVE  /\ Selected(w) \subseteq archive.files
           /\ \A f \in Selected(w) : Reachable(f)
<1>1. RotationSelect(Candidates, w.since, w.until) \subseteq Candidates
  BY DEF RotationSelect, Groups, Group, SelectGroup
<1>2. Selected(w) \subseteq archive.files
  BY <1>1 DEF Selected, Named, Candidates
<1>3. ASSUME NEW f \in Selected(w), archive.family = "zeek" PROVE Reachable(f)
  <2>1. \/ f.named
        \/ \E l \in archive.layouts : ReadByLayout(l, f, w.since, w.until)
    BY <1>3 DEF Selected, Flat
  <2> QED
    BY <2>1 DEF Reachable, ReadByLayout, ReadDays
<1> QED
  BY <1>2, <1>3 DEF Reachable

LEMMA WindowIsSelected ==
    ASSUME Input, Orderly, NEW w, w = [since |-> w.since, until |-> w.until],
           w.since \in Int, w.until \in Nat, ~ Flat => w.since \in Nat,
           NEW f \in archive.files, NEW i \in Timed(f), Reachable(f),
           archive.family = "zeek" /\ Bounded(w) => Filed(f, i),
           InBounds(f.rows[i], w)
    PROVE  f \in Selected(w)
<1>0. /\ archive.family \in {"flat", "zeek", "cloudtrail"}
      /\ \A g \in archive.files : g.rows \in Seq(Nat)
      /\ i \in 1..Len(f.rows) /\ f.rows[i] \in Nat
      /\ \A l \in archive.layouts : l.days \cup l.links \subseteq Nat \ {0}
  BY ArchiveAssumption DEF Input, Timed
<1>1. CASE Flat
  <2>1. SUFFICES ASSUME f \in Candidates PROVE f \in Selected(w)
    BY <1>1 DEF Candidates, Selected, Flat
  <2>2. f \in RotationSelect(Candidates, w.since, w.until)
    <3>1. Candidates \subseteq archive.files
      BY DEF Candidates
    <3>2. \A g \in Candidates : g.rows \in Seq(Nat)
      BY <1>0, <3>1
    <3>3. \A g \in Candidates : \A j, k \in Timed(g) : j < k => g.rows[j] <= g.rows[k]
      BY <3>1 DEF Orderly
    <3>4. \A g, h \in Candidates :
             (h \in Group(Candidates, g) /\ Newer(g, h)) =>
                 \A j \in Timed(g), k \in Timed(h) : g.rows[j] >= h.rows[k]
      BY DEF Orderly
    <3> QED
      BY <2>1, <3>2, <3>3, <3>4, PruningIsLossless
  <2> QED
    BY <1>1, <2>1, <2>2 DEF Selected, Candidates, Flat
<1>2. CASE archive.family = "zeek"
  <2>1. SUFFICES ASSUME NEW l \in archive.layouts, l.kind = "directory", l.dir = f.dir,
                        IF IsDated(l) THEN f.day \in l.days \cup l.links \cup {Undated}
                                      ELSE f.day = Root
                 PROVE  ReadByLayout(l, f, w.since, w.until)
    BY <1>2 DEF Reachable, Selected, Flat
  <2>2. CASE f.day \in {Undated, Root} \/ ~ IsDated(l)
    BY <1>0, <2>1, <2>2 DEF ReadByLayout, ReadDays, Undated, Root
  <2>3. CASE IsDated(l) /\ f.day \notin {Undated, Root}
    <3>1. f.day \in l.days \cup l.links /\ f.day \in Nat
      BY <1>0, <2>1, <2>3
    <3>2. f.day \notin PrunedDays(l.days, w.since, w.until)
      <4>1. CASE Bounded(w)
        <5>1. f.day = DayOf(f.rows[i])
          BY <1>2, <2>3, <4>1 DEF Filed
        <5>2. w.since \in Nat /\ w.until \in Nat
          BY <1>2 DEF Flat
        <5>3. w.since # NoTime => DayOf(w.since) <= DayOf(f.rows[i])
          BY <1>0, <5>2, DaysAreInOrder DEF InBounds
        <5>4. w.until # NoTime => DayOf(f.rows[i]) <= DayOf(w.until)
          BY <1>0, <5>2, DaysAreInOrder DEF InBounds
        <5>5. /\ DayOf(w.since) \in Nat /\ DayOf(w.until) \in Nat
              /\ DayOf(f.rows[i]) \in Nat
          BY <1>0, <5>2, DaysAreInOrder
        <5> QED
          BY <5>1, <5>3, <5>4, <5>5 DEF PrunedDays
      <4>2. CASE ~ Bounded(w)
        BY <4>2 DEF Bounded, PrunedDays
      <4> QED
        BY <4>1, <4>2
    <3> QED
      BY <2>1, <2>3, <3>1, <3>2 DEF ReadByLayout, ReadDays
  <2> QED
    BY <2>2, <2>3
<1>3. CASE archive.family = "cloudtrail"
  BY <1>3 DEF Selected, Flat
<1> QED
  BY <1>0, <1>1, <1>2, <1>3 DEF Flat

-----------------------------------------------------------------------------
(* The invariant: each step in turn.                                       *)
Fields == {"attempted", "committed", "denied", "warned", "quiet"}

LEMMA AccountType ==
    /\ DOMAIN EmptyAccount = Fields
    /\ EmptyAccount \in [Fields -> SUBSET archive.files]
    /\ \A k \in Fields : EmptyAccount[k] = {}
BY DEF EmptyAccount, Fields

(* What the input decides does not change while the input does not.        *)
LEMMA InputFrame ==
    ASSUME archive' = archive, request' = request
    PROVE  /\ Policy' = Policy /\ PlanWindows' = PlanWindows
           /\ \A w : Selected(w)' = Selected(w)
           /\ Orderly' = Orderly
           /\ \A f : Reachable(f)' = Reachable(f)
           /\ Flat' = Flat
<1>1. Flat' = Flat /\ Policy' = Policy /\ Named' = Named
  BY DEF Flat, Policy, Named
<1>2. Candidates' = Candidates
  BY <1>1 DEF Candidates
<1>3. FlatFloor' = FlatFloor
  BY <1>2 DEF FlatFloor
<1>4. SelectFloor' = SelectFloor
  BY <1>1, <1>3 DEF SelectFloor
<1>5. PlanWindows' = PlanWindows
  BY <1>1, <1>4 DEF PlanWindows
<1>6. \A w : Selected(w)' = Selected(w)
  BY <1>1, <1>2 DEF Selected
<1>7. Orderly' = Orderly
  BY <1>2 DEF Orderly
<1>8. \A f : Reachable(f)' = Reachable(f)
  BY DEF Reachable
<1> QED
  BY <1>1, <1>5, <1>6, <1>7, <1>8

LEMMA InitLoad ==
    ASSUME LoadInit PROVE LoadInv
<1>1. LoadTypeOK /\ FilesAccount /\ CoverageAccount
  BY AccountType DEF LoadInit, LoadTypeOK, FilesAccount, CoverageAccount, Fields
<1>2. TableAccount
  BY AccountType DEF LoadInit, TableAccount, Fields
<1>3. TrackerAccount
  BY AccountType DEF LoadInit, TrackerAccount, Fields
<1> QED
  BY <1>1, <1>2, <1>3 DEF LoadInit, LoadInv, NoWindowRowIsLost,
     DefaultWindowIsTheArchiveTail, EmptinessIsExplained

LEMMA PlanKeeps ==
    ASSUME LoadInv, Plan PROVE LoadInv'
<1>0. /\ LoadTypeOK /\ FilesAccount /\ TrackerAccount /\ CoverageAccount
      /\ archive' = archive /\ request' = request
  BY DEF LoadInv, Plan
<1>1. LoadTypeOK'
  <2>1. todo' \in SUBSET archive.files
    BY SelectedAreFiles DEF Plan
  <2>2. policy' = Policy' /\ windows' = PlanWindows'
    BY <1>0, InputFrame DEF Plan
  <2> QED
    BY <1>0, <2>1, <2>2 DEF Plan, LoadTypeOK
<1>2. FilesAccount'
  <2>1. /\ stage' = "read" /\ account' = EmptyAccount
        /\ Selected(windows.select)' = todo'
    BY <1>0, InputFrame DEF Plan, FilesAccount
  <2> QED
    BY <2>1, AccountType DEF FilesAccount, Fields
<1>3. TableAccount'
  BY <1>0, AccountType DEF Plan, FilesAccount, TableAccount, Fields
<1>4. TrackerAccount' /\ CoverageAccount'
  BY <1>0, AccountType DEF Plan, FilesAccount, TrackerAccount, CoverageAccount, Fields
<1> QED
  BY <1>1, <1>2, <1>3, <1>4 DEF Plan, LoadInv, NoWindowRowIsLost,
     DefaultWindowIsTheArchiveTail, EmptinessIsExplained

(* The next file is one of those left to read.                             *)
LEMMA NextFileIsThere ==
    ASSUME LoadTypeOK, todo # {}
    PROVE  NextSelected \in todo
<1> DEFINE v == [f \in todo |-> f.pos]
<1>1. todo \subseteq archive.files /\ archive \in Archives
  BY DEF LoadTypeOK
<1>2. IsFiniteSet(todo)
  BY <1>1, ArchiveAssumption, FS_Subset
<1>3. v \in [todo -> Int]
  BY <1>1, ArchiveAssumption
<1>4. \E f \in todo : \A g \in todo : v[f] <= v[g]
  <2> HIDE DEF v
  <2> QED
    BY <1>2, <1>3, LeastExists
<1> QED
  BY <1>4 DEF NextSelected

(* What the read of one file does to the accounts.                         *)
LEMMA OneFile ==
    ASSUME LoadTypeOK, FilesAccount, ReadFile
    PROVE  \E f \in todo :
             /\ todo' = todo \ {f}
             /\ account' \in [Fields -> SUBSET archive.files]
             /\ account.attempted \subseteq account'.attempted
             /\ account.warned \subseteq account'.warned
             /\ \/ /\ f.health = "ok" /\ CommitRows(f)
                   /\ account'.committed = account.committed \cup {f}
                   /\ f \in account'.attempted
                \/ /\ f.health # "ok" /\ table' = table
                   /\ account'.committed = account.committed
                   /\ account'.warned # {} \/ tracker'.kept = tracker.kept
                   /\ tracker.read => tracker'.read
                   /\ tracker.valid => tracker'.valid
                   /\ tracker' \in [read : BOOLEAN, valid : BOOLEAN, kept : BOOLEAN]
                   /\ tracker'.valid =>
                         tracker.valid \/ (f \in account'.attempted /\ Timed(f) # {})
<1> DEFINE f == NextSelected
<1>0. /\ f \in todo /\ todo \subseteq archive.files
      /\ account \in [Fields -> SUBSET archive.files]
      /\ tracker \in [read : BOOLEAN, valid : BOOLEAN, kept : BOOLEAN]
      /\ archive \in Archives /\ f.rows \in Seq(Nat)
  BY NextFileIsThere, AccountType, ArchiveAssumption DEF ReadFile, LoadTypeOK
<1> HIDE DEF f
<1>1. /\ todo' = todo \ {f}
      /\ \/ SniffedOut(f) \/ DeniedRead(f) \/ SniffCorrupt(f)
         \/ TornRead(f) \/ Malformed(f) \/ CommitRows(f)
  BY DEF ReadFile, f
<1>2. ASSUME NEW fields \in SUBSET Fields, account' = Account(fields, f)
      PROVE  /\ account' \in [Fields -> SUBSET archive.files]
             /\ \A k \in Fields : account'[k] = IF k \in fields THEN account[k] \cup {f}
                                                ELSE account[k]
  BY <1>0, <1>2 DEF Account
<1>3. CASE SniffedOut(f)
  <2>1. PICK fields \in {{"warned"}, {"quiet"}} : account' = Account(fields, f)
    BY <1>3 DEF SniffedOut
  <2>2. fields \in SUBSET Fields
    BY DEF Fields
  <2> QED
    BY <1>0, <1>1, <1>2, <1>3, <2>1, <2>2 DEF SniffedOut, Fields
<1>4. CASE DeniedRead(f)
  <2>1. account' = Account({"attempted", "denied", "warned"}, f)
    BY <1>4 DEF DeniedRead
  <2>2. {"attempted", "denied", "warned"} \in SUBSET Fields
    BY DEF Fields
  <2> QED
    BY <1>0, <1>1, <1>2, <1>4, <2>1, <2>2 DEF DeniedRead, Fields
<1>5. CASE SniffCorrupt(f)
  <2>1. {"warned"} \in SUBSET Fields
    BY DEF Fields
  <2> QED
    BY <1>0, <1>1, <1>2, <1>5, <2>1 DEF SniffCorrupt, Fields
<1>6. CASE TornRead(f)
  <2>1. {"attempted", "warned"} \in SUBSET Fields
    BY DEF Fields
  <2>2. /\ account' \in [Fields -> SUBSET archive.files]
        /\ \A k \in Fields : account'[k] = IF k \in {"attempted", "warned"}
                                           THEN account[k] \cup {f} ELSE account[k]
    BY <1>2, <1>6, <2>1 DEF TornRead
  <2>3. PICK n \in {0} \cup 0..Len(f.rows) : tracker' = Observe(f, n)
    BY <1>6 DEF TornRead
  <2>4. 1..n \subseteq 1..Len(f.rows)
    BY <1>0, <2>3
  <2>5. /\ tracker' \in [read : BOOLEAN, valid : BOOLEAN, kept : BOOLEAN]
        /\ tracker'.read
        /\ tracker.valid => tracker'.valid
        /\ tracker'.valid => tracker.valid \/ Timed(f) # {}
    BY <1>0, <2>3, <2>4 DEF Observe, Timed
  <2> QED
    BY <1>0, <1>1, <1>6, <2>2, <2>5 DEF TornRead, Fields
<1>7. CASE Malformed(f)
  <2>1. {"attempted", "warned"} \in SUBSET Fields
    BY DEF Fields
  <2> QED
    BY <1>0, <1>1, <1>2, <1>7, <2>1 DEF Malformed, Fields
<1>8. CASE CommitRows(f)
  <2>1. {"attempted", "committed"} \in SUBSET Fields
    BY DEF Fields
  <2> QED
    BY <1>0, <1>1, <1>2, <1>8, <2>1 DEF CommitRows, Fields
<1> QED
  BY <1>1, <1>3, <1>4, <1>5, <1>6, <1>7, <1>8

LEMMA ReadKeeps ==
    ASSUME LoadInv, ReadFile PROVE LoadInv'
<1>0. /\ LoadTypeOK /\ FilesAccount /\ TableAccount /\ TrackerAccount /\ CoverageAccount
      /\ stage = "read" /\ stage' = "read"
      /\ UNCHANGED <<archive, request, policy, windows, coverage>>
      /\ account \in [Fields -> SUBSET archive.files]
  BY AccountType DEF LoadInv, ReadFile, LoadTypeOK
<1>1. PICK f \in todo :
        /\ todo' = todo \ {f}
        /\ account' \in [Fields -> SUBSET archive.files]
        /\ account.attempted \subseteq account'.attempted
        /\ account.warned \subseteq account'.warned
        /\ \/ /\ f.health = "ok" /\ CommitRows(f)
              /\ account'.committed = account.committed \cup {f}
              /\ f \in account'.attempted
           \/ /\ f.health # "ok" /\ table' = table
              /\ account'.committed = account.committed
              /\ account'.warned # {} \/ tracker'.kept = tracker.kept
              /\ tracker.read => tracker'.read
              /\ tracker.valid => tracker'.valid
              /\ tracker' \in [read : BOOLEAN, valid : BOOLEAN, kept : BOOLEAN]
              /\ tracker'.valid =>
                    tracker.valid \/ (f \in account'.attempted /\ Timed(f) # {})
  BY <1>0, OneFile
<1>2. f \in archive.files /\ f \in Selected(windows.select) /\ todo \subseteq archive.files
  BY <1>0, <1>1 DEF LoadTypeOK, FilesAccount
<1>3. f.health = "ok" =>
         /\ table' = table \cup {<<f, i>> : i \in {j \in 1..Len(f.rows) : KeepsRow(f, j)}}
         /\ tracker' = Observe(f, Len(f.rows))
         /\ tracker' \in [read : BOOLEAN, valid : BOOLEAN, kept : BOOLEAN]
         /\ tracker'.read
         /\ tracker'.valid <=> tracker.valid \/ Timed(f) # {}
         /\ tracker'.kept => tracker.kept \/ \E i \in 1..Len(f.rows) : KeepsRow(f, i)
  <2> SUFFICES ASSUME f.health = "ok"
               PROVE  /\ table' = table
                            \cup {<<f, i>> : i \in {j \in 1..Len(f.rows) : KeepsRow(f, j)}}
                      /\ tracker' = Observe(f, Len(f.rows))
                      /\ tracker' \in [read : BOOLEAN, valid : BOOLEAN, kept : BOOLEAN]
                      /\ tracker'.read
                      /\ tracker'.valid <=> tracker.valid \/ Timed(f) # {}
                      /\ tracker'.kept =>
                            tracker.kept \/ \E i \in 1..Len(f.rows) : KeepsRow(f, i)
    OBVIOUS
  <2>1. CommitRows(f)
    BY <1>1
  <2>2. tracker \in [read : BOOLEAN, valid : BOOLEAN, kept : BOOLEAN]
    BY <1>0 DEF LoadTypeOK
  <2> QED
    BY <2>1, <2>2 DEF CommitRows, Observe, Timed
<1>4. \A g, i : KeepsRow(g, i)' <=> KeepsRow(g, i)
  BY <1>0, InputFrame DEF KeepsRow, KeepNull
<1>5. LoadTypeOK'
  <2>1. policy' = Policy' /\ windows' = PlanWindows'
    BY <1>0, InputFrame DEF LoadTypeOK
  <2>2. tracker' \in [read : BOOLEAN, valid : BOOLEAN, kept : BOOLEAN]
    BY <1>1, <1>3
  <2> QED
    BY <1>0, <1>1, <1>2, <2>1, <2>2, AccountType DEF LoadTypeOK
<1>6. FilesAccount'
  <2>1. Selected(windows.select)' = Selected(windows.select)
    BY <1>0, InputFrame
  <2>2. account'.committed \subseteq account'.attempted
    BY <1>0, <1>1 DEF FilesAccount
  <2>3. \A g \in account'.committed : g.health = "ok" /\ g \in Selected(windows.select)
    BY <1>0, <1>1, <1>2 DEF FilesAccount
  <2>4. \A g \in Selected(windows.select) \ todo' :
           g.health = "ok" => g \in account'.committed
    BY <1>0, <1>1 DEF FilesAccount
  <2> QED
    BY <1>0, <1>1, <1>2, <2>1, <2>2, <2>3, <2>4 DEF FilesAccount
<1>7. TableAccount'
  <2>1. CASE f.health = "ok"
    <3>1. \A r \in table' :
             \E g \in account'.committed : \E i \in 1..Len(g.rows) :
                 r = <<g, i>> /\ KeepsRow(g, i)
      BY <1>0, <1>1, <1>3, <2>1 DEF TableAccount
    <3>2. \A g \in account'.committed : \A i \in 1..Len(g.rows) :
             KeepsRow(g, i) => <<g, i>> \in table'
      BY <1>0, <1>1, <1>3, <2>1 DEF TableAccount
    <3> QED
      BY <1>4, <3>1, <3>2 DEF TableAccount
  <2>2. CASE f.health # "ok"
    BY <1>0, <1>1, <1>4, <2>2 DEF TableAccount
  <2> QED
    BY <2>1, <2>2
<1>8. TrackerAccount'
  <2>1. CASE f.health = "ok"
    <3>1. tracker'.valid => \E g \in account'.attempted : Timed(g) # {}
      BY <1>0, <1>1, <1>3, <2>1 DEF TrackerAccount
    <3>2. ~ tracker'.valid => \A g \in account'.committed : Timed(g) = {}
      BY <1>0, <1>1, <1>3, <2>1 DEF TrackerAccount
    <3>3. tracker'.kept => table' # {} \/ account'.warned # {}
      <4>1. (\E i \in 1..Len(f.rows) : KeepsRow(f, i)) => table' # {}
        <5> SUFFICES ASSUME NEW i \in 1..Len(f.rows), KeepsRow(f, i)
                     PROVE  <<f, i>> \in table'
          OBVIOUS
        <5> QED
          BY <1>3, <2>1
      <4>2. tracker.kept => table' # {} \/ account'.warned # {}
        BY <1>0, <1>1, <1>3, <2>1 DEF TrackerAccount
      <4> QED
        BY <1>3, <2>1, <4>1, <4>2
    <3> QED
      BY <1>3, <2>1, <3>1, <3>2, <3>3 DEF TrackerAccount
  <2>2. CASE f.health # "ok"
    <3>1. tracker'.read \/ account'.committed = {}
      BY <1>0, <1>1, <2>2 DEF TrackerAccount
    <3>2. tracker'.valid => \E g \in account'.attempted : Timed(g) # {}
      BY <1>0, <1>1, <2>2 DEF TrackerAccount
    <3>3. ~ tracker'.valid => \A g \in account'.committed : Timed(g) = {}
      BY <1>0, <1>1, <2>2 DEF TrackerAccount
    <3>4. tracker'.kept => table' # {} \/ account'.warned # {}
      BY <1>0, <1>1, <2>2 DEF TrackerAccount
    <3> QED
      BY <3>1, <3>2, <3>3, <3>4 DEF TrackerAccount
  <2> QED
    BY <2>1, <2>2
<1> QED
  BY <1>0, <1>5, <1>6, <1>7, <1>8 DEF LoadInv, CoverageAccount, NoWindowRowIsLost,
     DefaultWindowIsTheArchiveTail, EmptinessIsExplained

LEMMA EndKeeps ==
    ASSUME LoadInv, EndOfRead PROVE LoadInv'
<1>0. /\ LoadTypeOK /\ FilesAccount /\ TableAccount /\ TrackerAccount /\ CoverageAccount
      /\ stage = "read" /\ todo = {} /\ Input
      /\ stage' = IF windows.trim THEN "trim" ELSE "done"
      /\ coverage' = Explanation(table = {}, tracker)
      /\ UNCHANGED <<archive, request, policy, windows, todo, table, account, tracker>>
  BY DEF LoadInv, EndOfRead, LoadTypeOK, Input
<1>1. windows = PlanWindows
  BY <1>0 DEF LoadTypeOK
<1>2. \A g, i : KeepsRow(g, i)' <=> KeepsRow(g, i)
  BY <1>0, InputFrame DEF KeepsRow, KeepNull
<1>3. LoadTypeOK'
  <2>1. policy' = Policy' /\ windows' = PlanWindows'
    BY <1>0, InputFrame DEF LoadTypeOK
  <2> QED
    BY <1>0, <2>1 DEF LoadTypeOK, Explanation
<1>4. FilesAccount'
  <2>1. Selected(windows.select)' = Selected(windows.select)
    BY <1>0, InputFrame
  <2> QED
    BY <1>0, <2>1 DEF FilesAccount
<1>5. TableAccount'
  BY <1>0, <1>2 DEF TableAccount
<1>6. TrackerAccount'
  BY <1>0 DEF TrackerAccount
<1>7. /\ table = {} => coverage' # "none" \/ account.warned # {}
      /\ coverage' # "none" => table = {}
      /\ coverage' = "no files read" => account.committed = {}
      /\ coverage' = "no valid rows" => \A f \in account.committed : Timed(f) = {}
      /\ coverage' = "all excluded" => \E f \in account.attempted : Timed(f) # {}
  BY <1>0 DEF Explanation, TrackerAccount
<1>8. CoverageAccount' /\ EmptinessIsExplained'
  BY <1>0, <1>7 DEF CoverageAccount, EmptinessIsExplained
<1>9. NoWindowRowIsLost'
  <2> SUFFICES ASSUME stage' = "done", ~ windows.trim, Orderly,
                      NEW f \in archive.files, NEW i \in Timed(f),
                      f.health = "ok", Reachable(f),
                      archive.family = "zeek" => Filed(f, i),
                      InBounds(f.rows[i], windows.precise)
               PROVE  <<f, i>> \in table
    BY <1>0, InputFrame DEF NoWindowRowIsLost
  <2>1. windows.precise = windows.select
    BY <1>0, <1>1, PlannedWindow
  <2>2. f \in Selected(windows.select)
    <3> DEFINE w == PlanWindows.select
    <3>1. /\ w = [since |-> w.since, until |-> w.until]
          /\ w.since \in Int /\ w.until \in Nat /\ (~ Flat => w.since \in Nat)
      BY <1>0, PlannedWindow
    <3>2. InBounds(f.rows[i], w)
      BY <1>1, <2>1
    <3> HIDE DEF w
    <3>3. f \in Selected(w)
      BY <1>0, <3>1, <3>2, WindowIsSelected
    <3> QED
      BY <1>1, <3>3 DEF w
  <2>3. f \in account.committed
    BY <1>0, <2>2 DEF FilesAccount
  <2>4. i \in 1..Len(f.rows) /\ KeepsRow(f, i)
    BY DEF Timed, KeepsRow
  <2> QED
    BY <1>0, <2>3, <2>4 DEF TableAccount
<1>10. DefaultWindowIsTheArchiveTail'
  BY <1>0 DEF DefaultWindowIsTheArchiveTail
<1> QED
  BY <1>3, <1>4, <1>5, <1>6, <1>8, <1>9, <1>10 DEF LoadInv

-----------------------------------------------------------------------------
(* The trim: the whole archive has finitely many rows, so it has a newest. *)
TimedRows == {r \in WholeArchive : r[2] \in Timed(r[1])}
Times == ({Stamp(r) : r \in TimedRows} \cup {archive.sibling}) \ {NoTime}

LEMMA RowsOfTheArchive ==
    ASSUME Input
    PROVE  /\ \A r \in TimedRows :
                 \E f \in archive.files : \E i \in Timed(f) :
                     /\ r = <<f, i>> /\ Stamp(r) = f.rows[i] /\ Stamp(r) \in Nat
                     /\ f.health = "ok" /\ Reachable(f)
           /\ \A f \in archive.files : \A i \in Timed(f) :
                 f.health = "ok" /\ Reachable(f) => <<f, i>> \in TimedRows
           /\ IsFiniteSet(Times) /\ Times \in SUBSET Nat
<1> DEFINE readable == {g \in archive.files : g.health = "ok" /\ Reachable(g)}
           rowsOf == [f \in readable |-> {<<f, i>> : i \in 1..Len(f.rows)}]
           stamps == [r \in TimedRows |-> Stamp(r)]
<1>0. \A f \in archive.files : f.rows \in Seq(Nat)
  BY ArchiveAssumption DEF Input
<1>1. IsFiniteSet(readable)
  BY ArchiveAssumption, FS_Subset DEF Input
<1>2. \A f \in readable : IsFiniteSet(rowsOf[f])
  <2> SUFFICES ASSUME NEW f \in readable PROVE IsFiniteSet(rowsOf[f])
    OBVIOUS
  <2> DEFINE row == [i \in 1..Len(f.rows) |-> <<f, i>>]
  <2>1. Len(f.rows) \in Nat
    BY <1>0
  <2>2. IsFiniteSet(1..Len(f.rows))
    BY <2>1, FS_Interval
  <2>3. IsFiniteSet({row[i] : i \in 1..Len(f.rows)})
    BY <2>2, FiniteImage
  <2>4. {row[i] : i \in 1..Len(f.rows)} = rowsOf[f]
    OBVIOUS
  <2> QED
    BY <2>3, <2>4
<1>3. IsFiniteSet({rowsOf[f] : f \in readable})
  <2>1. DOMAIN rowsOf = readable
    OBVIOUS
  <2> HIDE DEF rowsOf, readable
  <2> QED
    BY <1>1, <2>1, FiniteImage
<1>4. IsFiniteSet(UNION {rowsOf[f] : f \in readable})
  <2> HIDE DEF rowsOf, readable
  <2> QED
    BY <1>2, <1>3, FS_UNION
<1>5. UNION {rowsOf[f] : f \in readable} = WholeArchive
  <2>1. {rowsOf[f] : f \in readable}
           = {{<<f, i>> : i \in 1..Len(f.rows)} : f \in readable}
    OBVIOUS
  <2> QED
    BY <2>1 DEF WholeArchive
<1>6. IsFiniteSet(TimedRows)
  BY <1>4, <1>5, FS_Subset DEF TimedRows
<1>7. \A r \in TimedRows :
         \E f \in archive.files : \E i \in Timed(f) :
             /\ r = <<f, i>> /\ Stamp(r) = f.rows[i] /\ Stamp(r) \in Nat
             /\ f.health = "ok" /\ Reachable(f)
  <2> SUFFICES ASSUME NEW r \in TimedRows
               PROVE  \E f \in archive.files : \E i \in Timed(f) :
                         /\ r = <<f, i>> /\ Stamp(r) = f.rows[i] /\ Stamp(r) \in Nat
                         /\ f.health = "ok" /\ Reachable(f)
    OBVIOUS
  <2>1. PICK f \in readable : \E i \in 1..Len(f.rows) : r = <<f, i>>
    BY DEF TimedRows, WholeArchive
  <2>2. PICK i \in 1..Len(f.rows) : r = <<f, i>>
    BY <2>1
  <2>3. i \in Timed(f) /\ Stamp(r) = f.rows[i] /\ f.rows[i] \in Nat
    BY <1>0, <2>2 DEF TimedRows, Stamp
  <2> QED
    BY <2>2, <2>3
<1>8. \A f \in archive.files : \A i \in Timed(f) :
         f.health = "ok" /\ Reachable(f) => <<f, i>> \in TimedRows
  BY DEF TimedRows, WholeArchive, Timed
<1>9. IsFiniteSet(Times)
  <2>1. IsFiniteSet({stamps[r] : r \in TimedRows})
    <3>1. DOMAIN stamps = TimedRows
      OBVIOUS
    <3> HIDE DEF stamps
    <3> QED
      BY <1>6, <3>1, FiniteImage
  <2>2. {stamps[r] : r \in TimedRows} = {Stamp(r) : r \in TimedRows}
    OBVIOUS
  <2>3. IsFiniteSet({archive.sibling})
    BY FS_Singleton
  <2>4. IsFiniteSet({Stamp(r) : r \in TimedRows} \cup {archive.sibling})
    BY <2>1, <2>2, <2>3, FS_Union
  <2> QED
    BY <2>4, FS_Subset DEF Times
<1>10. Times \in SUBSET Nat
  BY <1>7, ArchiveAssumption DEF Times, Input
<1> QED
  BY <1>7, <1>8, <1>9, <1>10

(* The table before the trim: timed rows of the archive, and all that are  *)
(* at most a span older than its newest.                                   *)
LEMMA BeforeTheTrim ==
    ASSUME LoadInv, stage = "trim", Orderly, Times # {},
           Flat => \E f \in Candidates :
                      f.health = "ok" /\ \A g \in Candidates : Peek(g) <= Peek(f)
    PROVE  /\ \A r \in table : Stamp(r) # NoTime => r \in TimedRows
           /\ \A r \in TimedRows : Stamp(r) >= Newest(Times) - Span => r \in table
<1>0. /\ LoadTypeOK /\ FilesAccount /\ TableAccount /\ Input
      /\ windows.trim /\ todo = {} /\ windows = PlanWindows
  BY DEF LoadInv, LoadTypeOK, FilesAccount, Input
<1>1. \A r \in table : Stamp(r) # NoTime => r \in TimedRows
  <2> SUFFICES ASSUME NEW r \in table, Stamp(r) # NoTime PROVE r \in TimedRows
    OBVIOUS
  <2>1. PICK f \in account.committed : \E i \in 1..Len(f.rows) : r = <<f, i>>
    BY <1>0 DEF TableAccount
  <2>2. PICK i \in 1..Len(f.rows) : r = <<f, i>>
    BY <2>1
  <2>3. f.health = "ok" /\ f \in Selected(windows.select)
    BY <1>0 DEF FilesAccount
  <2>4. f \in archive.files /\ Reachable(f)
    BY <2>3, SelectedAreFiles
  <2>5. i \in Timed(f)
    BY <2>2 DEF Stamp, Timed
  <2> QED
    BY <1>0, <2>2, <2>3, <2>4, <2>5, RowsOfTheArchive
<1>2. Newest(Times) \in Nat /\ \A t \in Times : t <= Newest(Times)
  <2>1. Times \in SUBSET Int /\ IsFiniteSet(Times) /\ Times \subseteq Nat
    BY <1>0, RowsOfTheArchive
  <2> QED
    BY <2>1, NewestIsLast
<1>3. Flat /\ FlatFloor # NoTime => FlatFloor \in Int /\ FlatFloor <= Newest(Times) - Span
  <2> SUFFICES ASSUME Flat, FlatFloor # NoTime
               PROVE  FlatFloor \in Int /\ FlatFloor <= Newest(Times) - Span
    OBVIOUS
  <2> DEFINE peeks == {Peek(f) : f \in Candidates} \ {NoTime}
  <2>1. IsFiniteSet(peeks) /\ peeks \in SUBSET Int /\ \A t \in peeks : t > Span + History
    BY <1>0, FirstLines
  <2>2. peeks # {} /\ FlatFloor = Newest(peeks) - Span
    BY DEF FlatFloor
  <2>3. Newest(peeks) \in peeks
    <3> HIDE DEF peeks
    <3> QED
      BY <2>1, <2>2, NewestIsLast
  <2>4. PICK g \in Candidates : Newest(peeks) = Peek(g)
    BY <2>3
  <2>5. Peek(g) \in Int /\ Peek(g) > Span + History
    BY <2>1, <2>3, <2>4
  <2>6. PICK f \in Candidates : f.health = "ok" /\ Peek(g) <= Peek(f)
    OBVIOUS
  <2>7. f \in archive.files /\ f.rows \in Seq(Nat) /\ Reachable(f)
    BY <1>0, ArchiveAssumption DEF Candidates, Reachable, Flat, Input
  <2>8. Peek(f) # NoTime
    BY <2>5, <2>6, WindowAssumption DEF NoTime
  <2>9. 1 \in Timed(f) /\ Peek(f) = f.rows[1]
    BY <2>7, <2>8, PeekIsFirst DEF Peekable
  <2>10. Peek(f) \in Times
    <3>1. <<f, 1>> \in TimedRows
      BY <1>0, <2>6, <2>7, <2>9, RowsOfTheArchive
    <3>2. Stamp(<<f, 1>>) = Peek(f)
      BY <2>9 DEF Stamp
    <3> QED
      BY <2>8, <3>1, <3>2 DEF Times
  <2>11. Peek(f) \in Nat
    BY <1>0, <2>10, RowsOfTheArchive
  <2> QED
    BY <1>2, <2>2, <2>4, <2>5, <2>6, <2>10, <2>11, WindowAssumption
<1>4. ASSUME NEW r \in TimedRows, Stamp(r) >= Newest(Times) - Span PROVE r \in table
  <2>1. PICK f \in archive.files : \E i \in Timed(f) :
             /\ r = <<f, i>> /\ Stamp(r) = f.rows[i] /\ Stamp(r) \in Nat
             /\ f.health = "ok" /\ Reachable(f)
    BY <1>0, RowsOfTheArchive
  <2>2. PICK i \in Timed(f) :
             /\ r = <<f, i>> /\ Stamp(r) = f.rows[i] /\ Stamp(r) \in Nat
             /\ f.health = "ok" /\ Reachable(f)
    BY <2>1
  <2> DEFINE w == PlanWindows.select
  <2>3. /\ w = [since |-> w.since, until |-> w.until]
        /\ w.since \in Int /\ w.until \in Nat /\ (~ Flat => w.since \in Nat)
        /\ w.until = NoTime
        /\ w.since = NoTime \/ (Flat /\ FlatFloor # NoTime /\ w.since <= FlatFloor)
        /\ windows.precise = NoWindow
    BY <1>0, PlannedWindow
  <2> HIDE DEF w
  <2>4. InBounds(f.rows[i], w)
    BY <1>2, <1>3, <1>4, <2>2, <2>3, WindowAssumption DEF InBounds
  <2>5. ~ (archive.family = "zeek" /\ Bounded(w))
    BY <2>3 DEF Bounded, Flat
  <2>6. f \in Selected(w)
    BY <1>0, <2>2, <2>3, <2>4, <2>5, WindowIsSelected
  <2>7. f \in account.committed
    BY <1>0, <2>2, <2>6 DEF FilesAccount, w
  <2>8. i \in 1..Len(f.rows) /\ KeepsRow(f, i)
    BY <2>3 DEF Timed, KeepsRow, InBounds, NoWindow
  <2> QED
    BY <1>0, <2>2, <2>7, <2>8 DEF TableAccount
<1> QED
  BY <1>1, <1>4

LEMMA TrimKeeps ==
    ASSUME LoadInv, Trim PROVE LoadInv'
<1>0. /\ LoadTypeOK /\ FilesAccount /\ TableAccount /\ TrackerAccount /\ CoverageAccount
      /\ stage = "trim" /\ stage' = "done" /\ todo = {} /\ windows.trim /\ Input
      /\ UNCHANGED <<archive, request, policy, windows, todo, account, tracker>>
  BY DEF LoadInv, Trim, LoadTypeOK, FilesAccount, Input
<1> DEFINE seen == [read |-> TRUE, valid |-> \E r \in table : Stamp(r) # NoTime,
                    kept |-> FALSE]
<1>1. /\ FamilyTimes = {} => UNCHANGED <<table, coverage>>
      /\ FamilyTimes # {} =>
            /\ table' = Trimmed(table, Newest(FamilyTimes))
            /\ coverage' = IF table # {} /\ table' = {}
                           THEN Explanation(TRUE, seen) ELSE coverage
  BY DEF Trim
<1> HIDE DEF seen
<1>2. table' \subseteq table
  BY <1>1 DEF Trimmed
<1>3. \A g, i : KeepsRow(g, i)' <=> KeepsRow(g, i)
  BY <1>0, InputFrame DEF KeepsRow, KeepNull
<1>4. LoadTypeOK'
  <2>1. policy' = Policy' /\ windows' = PlanWindows'
    BY <1>0, InputFrame DEF LoadTypeOK
  <2>2. coverage' \in {"none", "no files read", "no valid rows", "all excluded"}
    BY <1>0, <1>1 DEF LoadTypeOK, Explanation
  <2> QED
    BY <1>0, <2>1, <2>2 DEF LoadTypeOK
<1>5. FilesAccount'
  <2>1. Selected(windows.select)' = Selected(windows.select)
    BY <1>0, InputFrame
  <2> QED
    BY <1>0, <2>1 DEF FilesAccount
<1>6. TableAccount'
  BY <1>0, <1>2, <1>3 DEF TableAccount
<1>7. TrackerAccount' /\ CoverageAccount'
  BY <1>0 DEF TrackerAccount, CoverageAccount
<1>8. EmptinessIsExplained'
  <2>1. CASE FamilyTimes # {} /\ table # {} /\ table' = {}
    <3>1. PICK r \in table : TRUE
      BY <2>1
    <3>2. PICK f \in account.committed : \E i \in 1..Len(f.rows) :
              r = <<f, i>> /\ KeepsRow(f, i)
      BY <1>0 DEF TableAccount
    <3>3. PICK i \in 1..Len(f.rows) : r = <<f, i>> /\ KeepsRow(f, i)
      BY <3>2
    <3>4. r \notin Trimmed(table, Newest(FamilyTimes))
      BY <1>1, <2>1
    <3>5. Stamp(r) # NoTime
      BY <3>3, <3>4 DEF Trimmed, Stamp, KeepsRow
    <3>6. coverage' = "all excluded"
      BY <1>1, <2>1, <3>5 DEF Explanation, seen
    <3>7. f \in account.attempted /\ Timed(f) # {}
      BY <1>0, <3>3, <3>5 DEF FilesAccount, Stamp, Timed
    <3> QED
      BY <1>0, <2>1, <3>6, <3>7 DEF EmptinessIsExplained
  <2>2. CASE ~ (FamilyTimes # {} /\ table # {} /\ table' = {})
    <3>1. coverage' = coverage /\ (table' = {} <=> table = {})
      BY <1>1, <1>2, <2>2
    <3> QED
      BY <1>0, <3>1 DEF CoverageAccount, EmptinessIsExplained
  <2> QED
    BY <2>1, <2>2
<1>9. NoWindowRowIsLost'
  BY <1>0 DEF NoWindowRowIsLost
<1>10. DefaultWindowIsTheArchiveTail'
  <2> DEFINE tail == [since |-> Newest(Times) - Span, until |-> Newest(Times)]
  <2>1. SUFFICES ASSUME Orderly, Times # {},
                        Flat => \E f \in Candidates :
                           f.health = "ok" /\ \A g \in Candidates : Peek(g) <= Peek(f)
                 PROVE  {r \in table' : Stamp(r) # NoTime}
                           = {r \in TimedRows : InBounds(Stamp(r), tail)}
    <3>1. Candidates' = Candidates /\ Flat' = Flat /\ Orderly' = Orderly
      BY <1>0, InputFrame DEF Candidates, Named
    <3>2. WholeArchive' = WholeArchive
      BY <1>0, InputFrame DEF WholeArchive
    <3> QED
      BY <1>0, <3>1, <3>2 DEF DefaultWindowIsTheArchiveTail, TimedRows, Times
  <2>2. /\ \A r \in table : Stamp(r) # NoTime => r \in TimedRows
        /\ \A r \in TimedRows : Stamp(r) >= Newest(Times) - Span => r \in table
    BY <1>0, <2>1, BeforeTheTrim
  <2>3. /\ Newest(Times) \in Times /\ \A t \in Times : t <= Newest(Times)
        /\ Times \subseteq Nat /\ IsFiniteSet(Times) /\ Newest(Times) \in Nat
    <3>1. Times \in SUBSET Int /\ IsFiniteSet(Times) /\ Times \subseteq Nat
      BY <1>0, RowsOfTheArchive
    <3>2. Newest(Times) \in Times /\ \A t \in Times : t <= Newest(Times)
      BY <2>1, <3>1, NewestIsLast
    <3> QED
      BY <3>1, <3>2
  <2>4. FamilyTimes \subseteq Times
    BY <2>2 DEF FamilyTimes, Times
  <2>5. Newest(Times) \in FamilyTimes
    <3>1. CASE Newest(Times) = archive.sibling
      BY <2>3, <3>1 DEF FamilyTimes, Times
    <3>2. CASE Newest(Times) # archive.sibling
      <4>1. PICK r \in TimedRows : Newest(Times) = Stamp(r)
        BY <2>3, <3>2 DEF Times
      <4>2. Stamp(r) >= Newest(Times) - Span
        <5>1. Newest(Times) \in Nat /\ Span \in Nat
          BY <2>3, WindowAssumption
        <5> QED
          BY <4>1, <5>1
      <4>3. r \in table
        BY <2>2, <4>2
      <4> QED
        BY <2>3, <4>1, <4>3 DEF FamilyTimes, Times
    <3> QED
      BY <3>1, <3>2
  <2>6. Newest(FamilyTimes) = Newest(Times)
    <3>1. FamilyTimes \in SUBSET Int /\ IsFiniteSet(FamilyTimes) /\ FamilyTimes # {}
      <4>1. IsFiniteSet(FamilyTimes)
        BY <2>3, <2>4, FS_Subset
      <4>2. FamilyTimes \subseteq Nat
        BY <2>3, <2>4
      <4> QED
        BY <2>5, <4>1, <4>2
    <3>2. /\ Newest(FamilyTimes) \in FamilyTimes
          /\ \A t \in FamilyTimes : t <= Newest(FamilyTimes)
      BY <3>1, NewestIsLast
    <3>3. Newest(FamilyTimes) <= Newest(Times) /\ Newest(Times) <= Newest(FamilyTimes)
      BY <2>3, <2>4, <2>5, <3>2
    <3>4. Newest(FamilyTimes) \in Int /\ Newest(Times) \in Int
      <4>1. Newest(FamilyTimes) \in Int
        BY <3>1, <3>2
      <4>2. Newest(Times) \in Int
        BY <2>3
      <4> QED
        BY <4>1, <4>2
    <3> QED
      BY <3>3, <3>4
  <2>7. table' = Trimmed(table, Newest(Times))
    BY <1>1, <2>5, <2>6
  <2>8. \A r \in table : Stamp(r) # NoTime =>
           (r \in table' <=> InBounds(Stamp(r), tail))
    BY <2>7 DEF Trimmed
  <2>9. \A r \in TimedRows : Stamp(r) # NoTime /\ Stamp(r) \in Nat
    <3>1. \A r \in TimedRows : \E f \in archive.files : \E i \in Timed(f) :
              r = <<f, i>> /\ Stamp(r) = f.rows[i] /\ Stamp(r) \in Nat
      BY <1>0, RowsOfTheArchive
    <3> QED
      BY <3>1 DEF Timed
  <2>10. \A r \in TimedRows : InBounds(Stamp(r), tail) => r \in table
    <3> SUFFICES ASSUME NEW r \in TimedRows, InBounds(Stamp(r), tail) PROVE r \in table
      OBVIOUS
    <3>1. CASE Newest(Times) - Span # NoTime
      BY <2>2, <3>1 DEF InBounds
    <3>2. CASE Newest(Times) - Span = NoTime
      BY <2>2, <2>9, <3>2 DEF NoTime
    <3> QED
      BY <3>1, <3>2
  <2> QED
    BY <1>2, <2>2, <2>8, <2>9, <2>10
<1> QED
  BY <1>4, <1>5, <1>6, <1>7, <1>8, <1>9, <1>10 DEF LoadInv

LEMMA RestKeeps ==
    ASSUME LoadInv, UNCHANGED loadVars PROVE LoadInv'
<1>1. /\ UNCHANGED <<archive, request, stage, policy, windows, todo, table, account,
                     tracker, coverage>>
  BY DEF loadVars
<1>2. /\ Policy' = Policy /\ PlanWindows' = PlanWindows
      /\ Selected(windows.select)' = Selected(windows.select)
  BY <1>1, InputFrame
<1>3. \A g, i : KeepsRow(g, i)' <=> KeepsRow(g, i)
  BY <1>1, InputFrame DEF KeepsRow, KeepNull
<1>4. LoadTypeOK' /\ FilesAccount' /\ TableAccount' /\ TrackerAccount' /\ CoverageAccount'
  <2>1. LoadTypeOK'
    BY <1>1, <1>2 DEF LoadInv, LoadTypeOK
  <2>2. FilesAccount'
    BY <1>1, <1>2 DEF LoadInv, FilesAccount
  <2>3. TableAccount'
    BY <1>1, <1>3 DEF LoadInv, TableAccount
  <2>4. TrackerAccount' /\ CoverageAccount'
    BY <1>1 DEF LoadInv, TrackerAccount, CoverageAccount
  <2> QED
    BY <2>1, <2>2, <2>3, <2>4
<1>5. EmptinessIsExplained'
  BY <1>1 DEF LoadInv, EmptinessIsExplained
<1>6. NoWindowRowIsLost'
  BY <1>1, InputFrame DEF LoadInv, NoWindowRowIsLost
<1>7. DefaultWindowIsTheArchiveTail'
  <2>1. Candidates' = Candidates /\ Flat' = Flat /\ Orderly' = Orderly
    BY <1>1, InputFrame DEF Candidates, Named
  <2>2. WholeArchive' = WholeArchive
    BY <1>1, InputFrame DEF WholeArchive
  <2> QED
    BY <1>1, <2>1, <2>2 DEF LoadInv, DefaultWindowIsTheArchiveTail
<1> QED
  BY <1>4, <1>5, <1>6, <1>7 DEF LoadInv

-----------------------------------------------------------------------------
(* The inductive invariant: what the accounts, the table and the tracker   *)
(* say of each other, at every step of every load (load_pattern).          *)
THEOREM LoadInvariant == LoadSpec => []LoadInv
<1>1. LoadInit => LoadInv
  BY InitLoad
<1>2. LoadInv /\ [LoadNext]_loadVars => LoadInv'
  BY PlanKeeps, ReadKeeps, EndKeeps, TrimKeeps, RestKeeps DEF LoadNext, Loaded
<1> QED
  BY <1>1, <1>2, PTL DEF LoadSpec

(* No pruning loses a row: whatever the names, the rotation and the days,  *)
(* every row of the window in a file that could be read is in the table,   *)
(* if the files are as old as their names say (select_zeek_files,          *)
(* _rotation_windowed_files).                                              *)
THEOREM NoRowIsLost == LoadSpec => []NoWindowRowIsLost
<1>1. LoadInv => NoWindowRowIsLost
  BY DEF LoadInv
<1> QED
  BY <1>1, LoadInvariant, PTL

(* The floor guessed from the first lines and the trim to the newest row   *)
(* cut what one exact cut of the whole archive would                       *)
(* (resolve_load_windows, apply_default_window).                           *)
THEOREM TwoCutsAreOne == LoadSpec => []DefaultWindowIsTheArchiveTail
<1>1. LoadInv => DefaultWindowIsTheArchiveTail
  BY DEF LoadInv
<1> QED
  BY <1>1, LoadInvariant, PTL

(* An empty table has a cause, and the cause stated is the true one        *)
(* (CoverageTracker).                                                      *)
THEOREM EmptyTableHasACause == LoadSpec => []EmptinessIsExplained
<1>1. LoadInv => EmptinessIsExplained
  BY DEF LoadInv
<1> QED
  BY <1>1, LoadInvariant, PTL
=============================================================================
