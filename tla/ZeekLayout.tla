----------------------------- MODULE ZeekLayout -----------------------------
(***************************************************************************)
(* Zeek inputs (common/loader/discovery.py): a flat directory of logs, or  *)
(* a dated one, with a directory for each day and children without a date  *)
(* (the live spool, often a link to a day).  A window prunes the days by   *)
(* name; the default window of a dated input is its newest days.           *)
(*                                                                         *)
(* A day is a number, day 0 the child directory that carries no date and   *)
(* day -1 the root itself; a layout is one input, [dir, kind, days, links],*)
(* links the days an undated child links to.                               *)
(***************************************************************************)
EXTENDS RotationWindow

DayOf(t) == t \div DayLength
Midnight(d) == d * DayLength

Undated == 0
Root == -1

PrunedDays(days, since, until) ==
    {d \in days : \/ since # NoTime /\ d < DayOf(since)
                  \/ until # NoTime /\ d > DayOf(until)}

(* The day directories select_zeek_files reads: a link to a pruned day is  *)
(* refused, because the pruned days seed the set of directories seen.      *)
ReadDays(layout, since, until) ==
    LET pruned == PrunedDays(layout.days, since, until)
    IN  (layout.days \ pruned) \cup (layout.links \ pruned) \cup {Undated}

IsDated(layout) == layout.kind = "directory" /\ layout.days # {}

(* select_zeek_files: a flat directory reads its own logs, a dated one its *)
(* days and undated children, never the files beside them.                 *)
ReadByLayout(layout, f, since, until) ==
    /\ layout.kind = "directory" /\ f.dir = layout.dir
    /\ IF IsDated(layout) THEN f.day \in ReadDays(layout, since, until) ELSE f.day = Root

(* The window covers the newest n distinct days of all readable inputs. *)
NewestDays(days, n) == {d \in days : Cardinality({e \in days : e > d}) < n}

(* Purely dated: every readable input has day directories, and one is      *)
(* readable.  A file or a flat directory among them has no layout to infer.*)
PurelyDated(layouts) ==
    /\ \A l \in layouts : l.kind # "denied" => IsDated(l)
    /\ \E l \in layouts : l.kind # "denied"

DatedFloor(layouts, n) ==
    LET days   == UNION {l.days : l \in {k \in layouts : k.kind # "denied"}}
        newest == NewestDays(days, n)
    IN  Midnight(CHOOSE d \in newest : \A e \in newest : d <= e)
=============================================================================
