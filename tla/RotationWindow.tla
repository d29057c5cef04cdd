--------------------------- MODULE RotationWindow ---------------------------
(***************************************************************************)
(* Peek-pruning of flat rotation families (common/loader/windowing.py).    *)
(*                                                                         *)
(* A flat source (syslog, Pi-hole) is a directory of rotated files.  A     *)
(* windowed run does not read them all: it classifies the names, orders    *)
(* each family newest to oldest, looks at the first line of a file (its    *)
(* oldest row) and stops at the first file that begins before the window.  *)
(* The saving is safe only when the family is in the order its names say,  *)
(* so names or first lines that contradict it read the whole pattern.      *)
(*                                                                         *)
(* Time is a small natural number; 0 is the missing timestamp (NoTime), as *)
(* a row's timestamp and as an absent bound of a window.                   *)
(***************************************************************************)
EXTENDS Integers, FiniteSets

CONSTANTS
    DayLength,      \* units of time in the calendar day of a file name
    DateRankBase    \* _DATE_RANK_BASE: above every day a name can carry

ASSUME CalendarAssumption == DayLength \in Nat \ {0} /\ DateRankBase \in Nat

NoTime == 0

(***************************************************************************)
(* A file name is what _classify_rotation_name tells apart: the base, the  *)
(* form (live head, ordinal .N, .YYYYMMDD, _YYYYMMDD_Nd,                   *)
(* _YYYYMMDD_to_YYYYMMDD_HHh), its numbers, and whether a compression      *)
(* extension follows.  zeros is the spelling of an ordinal: .2 and .02 are *)
(* different names of one rank.                                            *)
(***************************************************************************)
LiveName(base) ==
    [base |-> base, form |-> "live", start |-> 0, end |-> 0, hour |-> 0, zeros |-> FALSE]
OrdinalName(base, n, zeros) ==
    [base |-> base, form |-> "ordinal", start |-> n, end |-> 0, hour |-> 0, zeros |-> zeros]
DatedName(base, day) ==
    [base |-> base, form |-> "date", start |-> day, end |-> 0, hour |-> 0, zeros |-> FALSE]
DaysName(base, day, n) ==
    [base |-> base, form |-> "days", start |-> day, end |-> n, hour |-> 0, zeros |-> FALSE]
HoursName(base, day, day2, hour) ==
    [base |-> base, form |-> "hours", start |-> day, end |-> day2, hour |-> hour, zeros |-> FALSE]

(* The half-open window an export name declares, the hour rounded up. *)
Declared(name) ==
    IF name.form = "days"
    THEN [from |-> name.start * DayLength, to |-> (name.start + name.end) * DayLength]
    ELSE [from |-> name.start * DayLength, to |-> name.end * DayLength + name.hour + 1]

IsExport(name) == name.form \in {"days", "hours"} /\ Declared(name).to > Declared(name).from

(* What nothing matched is a family of its own: the base is the whole name. *)
IsFloor(name) == name.form \in {"days", "hours"} /\ ~ IsExport(name)

DateRank(day) == DateRankBase - day

AgeRank(name) ==
    CASE name.form = "ordinal" -> name.start
      [] name.form = "date" \/ IsExport(name) -> DateRank(name.start)
      [] OTHER -> 0

FamilyBase(name) ==
    IF IsFloor(name)
    THEN <<name.base, name.form, name.start, name.end, name.hour>>
    ELSE <<name.base, "", 0, 0, 0>>

(***************************************************************************)
(* A candidate file has a name and a flag for its compression, a resolved  *)
(* parent (dir), a place in the candidate list (pos, which breaks ties of  *)
(* the stable sort), rows, the state its bytes are in (health), and what   *)
(* stat says of a first row beyond the window (vet): "plain", "redated"    *)
(* (more than the margin after the mtime) or "nostat".                     *)
(***************************************************************************)
Unpeekable == {"tornEarly", "denied", "binary", "foreign"}

(* _peek_first_ts: the first line's timestamp, the oldest row of the file. *)
Peek(f) == IF f.health \in Unpeekable \/ f.rows = <<>> THEN NoTime ELSE f.rows[1]

Group(files, f) ==
    {g \in files : g.dir = f.dir /\ FamilyBase(g.name) = FamilyBase(f.name)}

Groups(files) == {Group(files, f) : f \in files}

Newer(f, g) ==
    \/ AgeRank(f.name) < AgeRank(g.name)
    \/ AgeRank(f.name) = AgeRank(g.name) /\ f.pos < g.pos

DuplicateSlot(group) ==
    /\ \A f \in group : ~ IsExport(f.name)
    /\ \E f, g \in group : f # g /\ f.name = g.name

Intersect(v, w) == v.from < w.to /\ w.from < v.to

OverlappingExports(group) ==
    /\ \E f \in group : IsExport(f.name)
    /\ \E f, g \in group :
          /\ f # g
          /\ \/ ~ IsExport(f.name)
             \/ IsExport(g.name) /\ Intersect(Declared(f.name), Declared(g.name))

OrderConflict(group) == DuplicateSlot(group) \/ OverlappingExports(group)

Peekable(f) == Peek(f) # NoTime

(* The mutant that leaves the last file for a first row at the floor. *)
StraddlesInclusive(f, since) == since # NoTime /\ Peekable(f) /\ Peek(f) <= since

Straddles(f, since) == since # NoTime /\ Peekable(f) /\ Peek(f) < since

(* The walk goes newest to oldest and ends at the first straddling file. *)
Reached(group, f, since) == \A g \in group : Straddles(g, since) => ~ Newer(g, f)

RisesBackwards(group, since) ==
    \E f, g \in group :
        /\ Reached(group, g, since) /\ Newer(f, g)
        /\ Peekable(f) /\ Peekable(g) /\ Peek(g) > Peek(f)

BeyondWindow(f, until) ==
    until # NoTime /\ Peekable(f) /\ Peek(f) > until /\ f.vet = "plain"

SelectGroup(group, since, until) ==
    {f \in group : Reached(group, f, since) /\ ~ BeyondWindow(f, until)}

FallsBack(files, since) ==
    \E group \in Groups(files) : OrderConflict(group) \/ RisesBackwards(group, since)

(* _rotation_windowed_files: one family out of order costs the whole pattern. *)
RotationSelect(files, since, until) ==
    IF FallsBack(files, since)
    THEN files
    ELSE UNION {SelectGroup(group, since, until) : group \in Groups(files)}
=============================================================================
