---------------------------- MODULE LoadPipeline ----------------------------
(***************************************************************************)
(* One pattern's load (common/loader/pipeline.py and windowing.py): the    *)
(* policy that decides its time window, the selection of its files, the    *)
(* read loop with its failures, and the trim of the default window after   *)
(* the load.                                                               *)
(*                                                                         *)
(* The default window of a flat family is cut twice.  Before the load the  *)
(* families are pruned at a floor guessed from the first line of every     *)
(* candidate; after it the rows are trimmed to the newest row that was     *)
(* loaded.  The two anchors are different facts, and files may fail        *)
(* between them.                                                           *)
(***************************************************************************)
EXTENDS ZeekLayout, Sequences

CONSTANTS
    Span,       \* the default window
    History,    \* dnsblock's ARRIVAL_HISTORY: widens the Pi-hole floor
    Archives,   \* inputs: [family, files, layouts, sibling, widen]
    Requests    \* [mode, since, until]

(* Times are above every floor, so that no floor is confused with NoTime. *)
ASSUME WindowAssumption ==
    /\ Span \in Nat \ {0} /\ History \in Nat
    /\ \A a \in Archives : \A f \in a.files : \A i \in 1..Len(f.rows) :
          f.rows[i] = NoTime \/ f.rows[i] > Span + History

(* What discovery hands over: finitely many files in an order, of finitely *)
(* many days.                                                              *)
ASSUME ArchiveAssumption ==
    \A a \in Archives :
        /\ a.family \in {"flat", "zeek", "cloudtrail"}
        /\ a.sibling \in Nat
        /\ IsFiniteSet(a.files) /\ IsFiniteSet(a.layouts)
        /\ \A f \in a.files : f.pos \in Nat /\ f.rows \in Seq(Nat) /\ f.day \in Int
        /\ \A l \in a.layouts :
              IsFiniteSet(l.days) /\ l.days \cup l.links \subseteq Nat \ {0}

ASSUME RequestAssumption ==
    \A r \in Requests : r.since \in Nat /\ r.until \in Nat

VARIABLES
    archive,    \* the input of this load
    request,    \* the operator's window
    stage,      \* "plan", "read", "trim", "done"
    policy,     \* WindowPolicyReason of the family
    windows,    \* [select, precise, trim]: the LoadWindow, split by use
    todo,       \* files selected and not read yet
    table,      \* rows kept: <<file, index>>
    account,    \* [attempted, committed, denied, warned, quiet]: sets of files
    tracker,    \* CoverageTracker: [read, valid, kept]
    coverage    \* SourceCoverage of the pattern, or "none"

loadVars == <<archive, request, stage, policy, windows, todo, table, account,
              tracker, coverage>>

NoWindow == [since |-> NoTime, until |-> NoTime]
Bounded(w) == w.since # NoTime \/ w.until # NoTime

Flat == archive.family = "flat"
KeepNull == Flat                        \* ts_policy of the family's strategy
Named == {f \in archive.files : f.named}
Candidates == archive.files \ Named

-----------------------------------------------------------------------------
(* resolve_load_windows, for one family of the plan. *)
Policy ==
    IF request.mode \in {"all", "explicit", "disabled"} THEN request.mode
    ELSE IF archive.layouts = {} THEN "named files"
    ELSE IF archive.family = "cloudtrail" THEN "exempt" ELSE "resolved"

Newest(times) == CHOOSE t \in times : \A u \in times : u <= t

(* The mutant that anchors the floor on the newest first line itself. *)
FlatFloorUnspanned ==
    LET peeks == {Peek(f) : f \in Candidates} \ {NoTime}
    IN  IF peeks = {} THEN NoTime ELSE Newest(peeks)

(* _flat_default_floor: the newest first line, less the span. *)
FlatFloor ==
    LET peeks == {Peek(f) : f \in Candidates} \ {NoTime}
    IN  IF peeks = {} THEN NoTime ELSE Newest(peeks) - Span

SelectFloor ==
    CASE Flat -> FlatFloor
      [] archive.family = "zeek" /\ PurelyDated(archive.layouts) ->
            DatedFloor(archive.layouts, (Span + DayLength - 1) \div DayLength)
      [] OTHER -> NoTime

(* _resolve_run_windows: an exact selection filters rows, a conservative   *)
(* one (with a trim to follow) only files; dnsblock widens the latter.     *)
PlanWindows ==
    LET operator == [since |-> request.since, until |-> request.until]
        exact == archive.family = "zeek" /\ PurelyDated(archive.layouts)
        floor == IF SelectFloor = NoTime THEN NoWindow
                 ELSE [since |-> SelectFloor, until |-> NoTime]
        widened == IF floor.since # NoTime /\ archive.widen
                   THEN [floor EXCEPT !.since = @ - History] ELSE floor
    IN  CASE Policy = "explicit" -> [select |-> operator, precise |-> operator, trim |-> FALSE]
          [] Policy = "resolved" /\ exact -> [select |-> floor, precise |-> floor, trim |-> FALSE]
          [] Policy = "resolved" /\ ~ exact ->
                [select |-> widened, precise |-> NoWindow, trim |-> TRUE]
          [] OTHER -> [select |-> NoWindow, precise |-> NoWindow, trim |-> FALSE]

(* _select_pattern_files: the files the operator named are always loaded.  *)
Selected(w) ==
    CASE Flat /\ Bounded(w) /\ Candidates # {} ->
            Named \cup RotationSelect(Candidates, w.since, w.until)
      [] archive.family = "zeek" ->
            {f \in archive.files : \/ f.named
                \/ \E l \in archive.layouts : ReadByLayout(l, f, w.since, w.until)}
      [] OTHER -> archive.files

-----------------------------------------------------------------------------
EmptyAccount ==
    [attempted |-> {}, committed |-> {}, denied |-> {}, warned |-> {}, quiet |-> {}]

LoadInit ==
    /\ archive \in Archives /\ request \in Requests
    /\ stage = "plan" /\ policy = "none"
    /\ windows = [select |-> NoWindow, precise |-> NoWindow, trim |-> FALSE]
    /\ todo = {} /\ table = {} /\ account = EmptyAccount
    /\ tracker = [read |-> FALSE, valid |-> FALSE, kept |-> FALSE]
    /\ coverage = "none"

Plan ==
    /\ stage = "plan"
    /\ policy' = Policy /\ windows' = PlanWindows
    /\ todo' = Selected(PlanWindows.select)
    /\ stage' = "read"
    /\ UNCHANGED <<archive, request, table, account, tracker, coverage>>

(* The row filter of the read loop: a missing timestamp is kept or dropped *)
(* by the policy of the source, whatever the window.                       *)
InBounds(t, w) == (w.since # NoTime => t >= w.since) /\ (w.until # NoTime => t <= w.until)

KeepsRow(f, i) ==
    IF f.rows[i] = NoTime THEN KeepNull ELSE InBounds(f.rows[i], windows.precise)

Account(fields, f) ==
    [k \in DOMAIN account |-> IF k \in fields THEN account[k] \cup {f} ELSE account[k]]

(* tracker.observe and mark_kept over the first n rows of a file. *)
Observe(f, n) ==
    [read  |-> TRUE,
     valid |-> tracker.valid \/ \E i \in 1..n : f.rows[i] # NoTime,
     kept  |-> tracker.kept \/ \E i \in 1..n : KeepsRow(f, i)]

(* warn_skip and should_skip come first and count as no read at all. *)
SniffedOut(f) ==
    /\ f.health \in {"binary", "foreign"} /\ Flat
    /\ account' = Account({IF f.health = "binary" THEN "warned" ELSE "quiet"}, f)
    /\ UNCHANGED <<table, tracker>>

(* The head sniff of a flat file meets the failure before the open does. *)
DeniedRead(f) ==
    /\ f.health = "denied"
    /\ account' = Account({"attempted", "denied", "warned"}, f)
    /\ tracker' = IF Flat THEN tracker ELSE [tracker EXCEPT !.read = TRUE]
    /\ UNCHANGED table

SniffCorrupt(f) ==
    /\ f.health = "tornEarly" /\ Flat
    /\ account' = Account({"warned"}, f)
    /\ UNCHANGED <<table, tracker>>

(* Corruption surfaces after some rows were parsed; the file's buffer is   *)
(* dropped, what the tracker saw is not.  A frame parse yields no rows.    *)
TornRead(f) ==
    /\ f.health = "torn" \/ (f.health = "tornEarly" /\ ~ Flat)
    /\ \E n \in IF archive.family = "zeek" \/ f.health = "tornEarly" THEN {0}
                ELSE 0..Len(f.rows) :
          tracker' = Observe(f, n)
    /\ account' = Account({"attempted", "warned"}, f)
    /\ UNCHANGED table

(* A frame-mode parse that raises ValueError skips this file only. *)
Malformed(f) ==
    /\ f.health = "malformed" /\ archive.family = "zeek"
    /\ account' = Account({"attempted", "warned"}, f)
    /\ tracker' = [tracker EXCEPT !.read = TRUE]
    /\ UNCHANGED table

CommitRows(f) ==
    /\ f.health = "ok"
    /\ account' = Account({"attempted", "committed"}, f)
    /\ tracker' = Observe(f, Len(f.rows))
    /\ table' = table \cup {<<f, i>> : i \in {j \in 1..Len(f.rows) : KeepsRow(f, j)}}

NextSelected == CHOOSE f \in todo : \A g \in todo : f.pos <= g.pos

ReadFile ==
    /\ stage = "read"
    /\ todo # {}
    /\ LET f == NextSelected IN
          /\ todo' = todo \ {f}
          /\ \/ SniffedOut(f) \/ DeniedRead(f) \/ SniffCorrupt(f)
             \/ TornRead(f) \/ Malformed(f) \/ CommitRows(f)
    /\ UNCHANGED <<archive, request, stage, policy, windows, coverage>>

(* CoverageTracker.coverage *)
Explanation(empty, seen) ==
    IF ~ empty \/ seen.kept THEN "none"
    ELSE IF ~ seen.read THEN "no files read"
    ELSE IF ~ seen.valid THEN "no valid rows" ELSE "all excluded"

EndOfRead ==
    /\ stage = "read" /\ todo = {}
    /\ coverage' = Explanation(table = {}, tracker)
    /\ stage' = IF windows.trim THEN "trim" ELSE "done"
    /\ UNCHANGED <<archive, request, policy, windows, todo, table, account, tracker>>

Stamp(row) == row[1].rows[row[2]]

(* apply_default_window: the family ends at its newest loaded row, a       *)
(* sibling pattern or a prepared population included.                      *)
FamilyTimes ==
    ({Stamp(r) : r \in table} \cup {archive.sibling}) \ {NoTime}

Trimmed(rows, newest) ==
    {r \in rows : IF Stamp(r) = NoTime THEN KeepNull
                  ELSE InBounds(Stamp(r), [since |-> newest - Span, until |-> newest])}

(* The mutant that keeps the coverage of before the trim. *)
TrimKeepsCoverage ==
    /\ stage = "trim" /\ stage' = "done"
    /\ IF FamilyTimes = {} THEN UNCHANGED table
       ELSE table' = Trimmed(table, Newest(FamilyTimes))
    /\ UNCHANGED <<archive, request, policy, windows, todo, account, tracker, coverage>>

Trim ==
    /\ stage = "trim" /\ stage' = "done"
    /\ IF FamilyTimes = {} THEN UNCHANGED <<table, coverage>>
       ELSE LET seen == [read |-> TRUE, valid |-> \E r \in table : Stamp(r) # NoTime,
                         kept |-> FALSE]
            IN  /\ table' = Trimmed(table, Newest(FamilyTimes))
                /\ coverage' = IF table # {} /\ table' = {}
                               THEN Explanation(TRUE, seen) ELSE coverage
    /\ UNCHANGED <<archive, request, policy, windows, todo, account, tracker>>

Loaded == stage = "done" /\ UNCHANGED loadVars

LoadNext == Plan \/ ReadFile \/ EndOfRead \/ Trim \/ Loaded
LoadSpec == LoadInit /\ [][LoadNext]_loadVars

-----------------------------------------------------------------------------
(* What logrotate promises and the code relies on: within a family the     *)
(* files do not overlap and are as old as their names say, and a file is   *)
(* chronological; a day directory holds what was logged on its day.        *)
Timed(f) == {i \in 1..Len(f.rows) : f.rows[i] # NoTime}

Orderly ==
    /\ \A f \in archive.files : \A i, j \in Timed(f) : i < j => f.rows[i] <= f.rows[j]
    /\ \A f, g \in Candidates :
          (g \in Group(Candidates, f) /\ Newer(f, g)) =>
              \A i \in Timed(f), j \in Timed(g) : f.rows[i] >= g.rows[j]

Filed(f, i) == f.day \in {Undated, Root} \/ DayOf(f.rows[i]) = f.day

Reachable(f) ==
    archive.family = "zeek" =>
        \/ f.named
        \/ \E l \in archive.layouts :
              /\ l.kind = "directory" /\ l.dir = f.dir
              /\ IF IsDated(l) THEN f.day \in l.days \cup l.links \cup {Undated}
                 ELSE f.day = Root

(* Pruning loses nothing: at the end of a load of an orderly archive, a    *)
(* row of a readable file that lies in the precise window is in the table. *)
(* It covers the straddling file, equal timestamps on both bounds, first   *)
(* lines that do not parse, and the days of a dated Zeek input.            *)
NoWindowRowIsLost ==
    (stage = "done" /\ ~ windows.trim /\ Orderly) =>
        \A f \in archive.files : \A i \in Timed(f) :
            (/\ f.health = "ok" /\ Reachable(f)
             /\ archive.family = "zeek" => Filed(f, i)
             /\ InBounds(f.rows[i], windows.precise)) => <<f, i>> \in table

(* The two cuts of the default window agree with no cut and one trim: the  *)
(* rows kept are those of the whole archive within the span of its newest  *)
(* row, provided the file whose first line set the floor could be read.    *)
WholeArchive ==
    UNION {{<<f, i>> : i \in 1..Len(f.rows)} :
              f \in {g \in archive.files : g.health = "ok" /\ Reachable(g)}}

DefaultWindowIsTheArchiveTail ==
    (stage = "done" /\ windows.trim /\ Orderly) =>
        LET rows == {r \in WholeArchive : r[2] \in Timed(r[1])}
            times == ({Stamp(r) : r \in rows} \cup {archive.sibling}) \ {NoTime}
            newest == Newest(times)
            floorRead == \E f \in Candidates :
                            f.health = "ok" /\ \A g \in Candidates : Peek(g) <= Peek(f)
        IN  (Flat => floorRead) /\ times # {} =>
                {r \in table : Stamp(r) # NoTime}
                    = {r \in rows : InBounds(Stamp(r), [since |-> newest - Span, until |-> newest])}

(* An empty result is never silent: it carries a coverage fact or a file   *)
(* of it was reported; and the fact is the truth about the archive.        *)
EmptinessIsExplained ==
    stage = "done" =>
        /\ table = {} => coverage # "none" \/ account.warned # {}
        /\ coverage # "none" => table = {}
        /\ coverage = "no files read" => account.committed = {}
        /\ coverage = "no valid rows" => \A f \in account.committed : Timed(f) = {}
        /\ coverage = "all excluded" => \E f \in account.attempted : Timed(f) # {}

(* The inductive invariant behind the three, in parts.  What a file's read *)
(* left: its kept rows are in the table, and no others.                    *)
LoadTypeOK ==
    /\ archive \in Archives /\ request \in Requests
    /\ stage \in {"plan", "read", "trim", "done"}
    /\ account \in [DOMAIN EmptyAccount -> SUBSET archive.files]
    /\ tracker \in [read : BOOLEAN, valid : BOOLEAN, kept : BOOLEAN]
    /\ coverage \in {"none", "no files read", "no valid rows", "all excluded"}
    /\ todo \in SUBSET archive.files
    /\ stage # "plan" => policy = Policy /\ windows = PlanWindows

FilesAccount ==
    /\ stage = "plan" =>
          account = EmptyAccount /\ table = {} /\ todo = {}
          /\ tracker = [read |-> FALSE, valid |-> FALSE, kept |-> FALSE]
    /\ stage \in {"trim", "done"} => todo = {}
    /\ stage = "trim" => windows.trim
    /\ stage # "plan" =>
          /\ todo \subseteq Selected(windows.select)
          /\ account.committed \subseteq Selected(windows.select)
          /\ \A f \in Selected(windows.select) \ todo :
                f.health = "ok" => f \in account.committed
    /\ account.committed \subseteq account.attempted
    /\ \A f \in account.committed : f.health = "ok"

TableAccount ==
    /\ \A r \in table :
          \E f \in account.committed : \E i \in 1..Len(f.rows) :
              r = <<f, i>> /\ KeepsRow(f, i)
    /\ stage # "done" \/ ~ windows.trim =>
          \A f \in account.committed : \A i \in 1..Len(f.rows) :
              KeepsRow(f, i) => <<f, i>> \in table

(* What the tracker saw is what the accounts and the table can show.       *)
TrackerAccount ==
    /\ tracker.read \/ account.committed = {}
    /\ tracker.valid => \E f \in account.attempted : Timed(f) # {}
    /\ ~ tracker.valid => \A f \in account.committed : Timed(f) = {}
    /\ tracker.kept /\ stage \in {"plan", "read"} => table # {} \/ account.warned # {}

CoverageAccount ==
    /\ stage \in {"plan", "read"} => coverage = "none"
    /\ stage = "trim" =>
          /\ table = {} => coverage # "none" \/ account.warned # {}
          /\ coverage # "none" => table = {}
          /\ coverage = "no files read" => account.committed = {}
          /\ coverage = "no valid rows" => \A f \in account.committed : Timed(f) = {}
          /\ coverage = "all excluded" => \E f \in account.attempted : Timed(f) # {}

LoadInv ==
    /\ LoadTypeOK
    /\ FilesAccount
    /\ TableAccount
    /\ TrackerAccount
    /\ CoverageAccount
    /\ NoWindowRowIsLost
    /\ DefaultWindowIsTheArchiveTail
    /\ EmptinessIsExplained
=============================================================================
