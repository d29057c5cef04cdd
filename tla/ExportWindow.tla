---------------------------- MODULE ExportWindow ----------------------------
(***************************************************************************)
(* One query of an export, from the time flags to the written files        *)
(* (cli.py, exporters/__init__.py, splunk.py, cloudtrail.py).  Splunk is   *)
(* asked hour by hour, CloudTrail's bucket is listed day by day, and both  *)
(* results are cut to the half-open window.  Staging, lock and manifest    *)
(* are ExportProvenance's.                                                 *)
(*                                                                         *)
(* Time is in ticks of UTC.  A datetime is an instant with the offset it   *)
(* is written in; the last tick of a day stands for 23:59:58 and after.    *)
(***************************************************************************)
EXTENDS Integers, Sequences, FiniteSets, SequencesExt, FiniteSetsExt

CONSTANTS
    Exports,    \* [flags, zone, now, backend, unreadable, corrupt, large, limit]
    Hour, Day,  \* ticks
    Horizon     \* there is a record at every tick up to here

ASSUME ClockAssumption == Hour \in Nat \ {0} /\ Day % Hour = 0 /\ Day > 0

VARIABLES
    export,     \* what is asked, and of what
    phase,      \* "asked", "listing", "fetching", "trimming", "writing",
                \* "done", "refused", "declined", "failed"
    window,     \* the resolved <<since, until>>
    pending,    \* chunks or objects still to fetch
    records,    \* what was fetched, in order
    notes,      \* what the user is told was left out
    files       \* [part, lines], part 0 is the bare name

vars == <<export, phase, window, pending, records, notes, files>>

None == [at |-> -1, offset |-> -1]     \* no such flag
At(instant, offset) == [at |-> instant, offset |-> offset]
Utc(d) == At(d.at, 0)
Wall(d) == d.at + d.offset
Plus(d, ticks) == At(d.at + ticks, d.offset)
FloorHour(d) == Plus(d, - (Wall(d) % Hour))
Midnight(d) == Plus(d, - (Wall(d) % Day))
Local(d) == At(d.at, IF d.at < export.zone.jump THEN export.zone.before ELSE export.zone.after)
Flags == export.flags
Now == Local(At(export.now, 0))

-----------------------------------------------------------------------------
(* The time flags: what they ask for, and the datetimes that reach the     *)
(* exporter, each in UTC. *)
DaysBack(n) == Plus(Now, - n * Day)
Timeframe ==
    CASE Flags.kind = "days" ->
            [since |-> Utc(Midnight(DaysBack(Flags.from))),
             until |-> Utc(Plus(Midnight(DaysBack(Flags.to)), Day - 1))]
      [] Flags.kind = "since" -> [since |-> At(Flags.from, 0), until |-> None]
      [] Flags.kind = "until" -> [since |-> None, until |-> At(Flags.to, 0)]
      [] Flags.kind = "both"  -> [since |-> At(Flags.from, 0), until |-> At(Flags.to, 0)]
      [] OTHER                -> [since |-> None, until |-> None]

(* _normalize_end_of_day_until *)
EndOfDay(d) == IF Wall(d) % Day = Day - 1 THEN Plus(d, 1) ELSE d

ResolvedWindow ==
    LET until == IF Timeframe.until = None THEN None ELSE EndOfDay(Timeframe.until)
    IN  IF Timeframe.since # None
        THEN <<Timeframe.since, IF until = None THEN Now ELSE until>>
        ELSE IF until # None THEN <<Plus(until, - Day), until>>
        ELSE <<Plus(Midnight(Now), - Day), Midnight(Now)>>

Inside(instant) == window[1].at <= instant /\ instant < window[2].at

(* Complete hours, counted from the start in the zone of the start. *)
HourChunks(since, until) ==
    LET start == FloorHour(since)
        end == IF FloorHour(until).at = until.at THEN until ELSE Plus(FloorHour(until), Hour)
        hours == (end.at - start.at) \div Hour
    IN  [i \in 1..hours |-> [from |-> start.at + (i - 1) * Hour, to |-> start.at + i * Hour]]

(* Whole days of UTC, the one of the last instant included. *)
UtcDays(since, until) ==
    LET first == since.at \div Day
        last == (until.at - 1) \div Day
    IN  [i \in 1..(last - first + 1) |-> first + i - 1]

-----------------------------------------------------------------------------
(* What the back ends hold: a record at every tick, some without a         *)
(* readable time, in one object per day.                                   *)
Readable(record) == record \notin export.unreadable
InChunk(chunk) == SetToSortSeq({r \in 0..Horizon : chunk.from <= r /\ r < chunk.to}, <)
InObject(day) == SetToSortSeq({r \in 0..Horizon : r \div Day = day}, <)
IsCorrupt(day) == day \in export.corrupt
Objects == SelectSeq(UtcDays(window[1], window[2]), LAMBDA d : InObject(d) # <<>>)

ResolveWindow ==
    /\ phase = "asked"
    /\ window' = ResolvedWindow
    /\ IF window'[2].at <= window'[1].at THEN phase' = "refused" /\ UNCHANGED pending
       ELSE IF export.backend = "splunk"
       THEN phase' = "fetching" /\ pending' = HourChunks(window'[1], window'[2])
       ELSE phase' = "listing" /\ UNCHANGED pending
    /\ UNCHANGED <<export, records, notes, files>>

(* Nothing listed is an error; a large pull is asked about first. *)
ListObjects ==
    /\ phase = "listing"
    /\ IF Objects = <<>> THEN phase' = "failed" /\ UNCHANGED pending
       ELSE /\ pending' = Objects
            /\ phase' \in IF export.large THEN {"fetching", "declined"} ELSE {"fetching"}
    /\ UNCHANGED <<export, window, records, notes, files>>

(* An answer the back end refuses ends the export before a file exists. *)
FetchFails ==
    /\ phase = "fetching" /\ pending # <<>>
    /\ phase' = "failed"
    /\ UNCHANGED <<export, window, pending, records, notes, files>>

FetchChunk ==
    /\ phase = "fetching" /\ pending # <<>> /\ export.backend = "splunk"
    /\ records' = records \o InChunk(Head(pending))
    /\ pending' = Tail(pending)
    /\ UNCHANGED <<export, phase, window, notes, files>>

(* An object that does not decode is skipped whole, and said to be. *)
FetchObject ==
    /\ phase = "fetching" /\ pending # <<>> /\ export.backend = "cloudtrail"
    /\ IF IsCorrupt(Head(pending))
       THEN notes' = notes \cup {"object"} /\ UNCHANGED records
       ELSE records' = records \o InObject(Head(pending)) /\ UNCHANGED notes
    /\ pending' = Tail(pending)
    /\ UNCHANGED <<export, phase, window, files>>

FetchDone ==
    /\ phase = "fetching" /\ pending = <<>>
    /\ phase' = "trimming"
    /\ UNCHANGED <<export, window, pending, records, notes, files>>

(* A mutant: a record at the very end of the window is kept. *)
TrimInclusive ==
    /\ phase = "trimming"
    /\ records' = SelectSeq(records,
           LAMBDA r : Readable(r) /\ window[1].at <= r /\ r <= window[2].at)
    /\ notes' = notes \cup {"timeless"}
    /\ phase' = "writing"
    /\ UNCHANGED <<export, window, pending, files>>
(* Splunk rows none of which has a time are kept as the hours gave them;   *)
(* otherwise, and in CloudTrail always, a record without one is left out.  *)
Trim ==
    /\ phase = "trimming"
    /\ LET unreadable == ~ \A i \in DOMAIN records : Readable(records[i])
           none == ~ \E i \in DOMAIN records : Readable(records[i])
       IN  IF export.backend = "splunk" /\ records # <<>> /\ none
           THEN notes' = notes \cup {"coarse"} /\ UNCHANGED records
           ELSE /\ records' = SelectSeq(records, LAMBDA r : Readable(r) /\ Inside(r))
                /\ notes' = IF unreadable THEN notes \cup {"timeless"} ELSE notes
    /\ phase' = "writing"
    /\ UNCHANGED <<export, window, pending, files>>

(* A line is as long as its record's size; a part that would overflow is   *)
(* closed, and the first one to be closed loses the bare name.             *)
Size(record) == 1 + (record % 2)
Bytes(lines) == FoldLeft(LAMBDA sum, r : sum + Size(r), 0, lines)
AddLine(parts, record) ==
    LET last == parts[Len(parts)]
    IN  IF Bytes(last.lines) > 0 /\ Bytes(last.lines) + Size(record) > export.limit
        THEN LET renamed == IF last.part = 0 THEN <<[last EXCEPT !.part = 1]>> ELSE parts
             IN  Append(renamed, [part |-> Len(renamed) + 1, lines |-> <<record>>])
        ELSE [parts EXCEPT ![Len(parts)].lines = Append(@, record)]

Write ==
    /\ phase = "writing"
    /\ LET bare == <<[part |-> 0, lines |-> <<>>]>>
       IN  files' = IF export.backend = "splunk" THEN <<[part |-> 0, lines |-> records]>>
                    ELSE FoldLeft(AddLine, bare, records)
    /\ phase' = "done"
    /\ UNCHANGED <<export, window, pending, records, notes>>

ExportInit ==
    /\ export \in Exports
    /\ phase = "asked" /\ window = <<>> /\ pending = <<>> /\ records = <<>>
    /\ notes = {} /\ files = <<>>
ExportNext == \/ ResolveWindow \/ ListObjects \/ FetchFails \/ FetchChunk \/ FetchObject
              \/ FetchDone \/ Trim \/ Write
ExportSpec == ExportInit /\ [][ExportNext]_vars

-----------------------------------------------------------------------------
Exported == UNION {Range(files[i].lines) : i \in DOMAIN files}
Lines == FlattenSeq([i \in DOMAIN files |-> files[i].lines])
Lost(record) == export.backend = "cloudtrail" /\ IsCorrupt(record \div Day)

(* The ends of a since-only window are in UTC and in the zone of the user: *)
(* in a zone that is not whole hours from UTC the last, broken hour is not *)
(* asked for.                                                              *)
BrokenHour(record) ==
    /\ export.backend = "splunk" /\ (window[1].offset - window[2].offset) % Hour # 0
    /\ record >= window[2].at - Hour

(* The files hold each record of the window once and in order, nothing     *)
(* from outside, and nothing left out of them is unsaid: a record of the   *)
(* window is missing only if its object was corrupt or it has no readable  *)
(* time, and foreign records come only with the note on coarse rows.  A    *)
(* part exceeds the limit only with a single line, parts are numbered from *)
(* one, and the bare name stands alone.  An export that ends early has no  *)
(* file.                                                                   *)
ExportIsExact ==
    /\ phase \in {"refused", "declined", "failed"} => files = <<>>
    /\ phase = "done" =>
        /\ \A i, j \in DOMAIN Lines : i < j => Lines[i] < Lines[j]
        /\ \A r \in Exported : Inside(r) \/ "coarse" \in notes
        /\ \A r \in 0..Horizon : (Inside(r) /\ r \notin Exported) =>
              BrokenHour(r) \/ (Lost(r) /\ "object" \in notes)
                  \/ (~ Readable(r) /\ "timeless" \in notes)
        /\ \A i \in DOMAIN files :
              /\ files[i].part = IF Len(files) = 1 THEN 0 ELSE i
              /\ export.backend = "cloudtrail" =>
                     Bytes(files[i].lines) <= export.limit \/ Len(files[i].lines) = 1

(* Splunk's hours form a superset of the requested interval, and the last  *)
(* day of --days ends at midnight: what the docstrings of                  *)
(* _build_hour_windows and _normalize_end_of_day_until say.                *)
AskedUntil == IF Flags.kind = "days" THEN Midnight(DaysBack(Flags.to)).at + Day
              ELSE window[2].at
RequestIsExported ==
    phase = "done" =>
        \A r \in 0..Horizon : (window[1].at <= r /\ r < AskedUntil /\ ~ Lost(r) /\ Readable(r)) =>
            r \in Exported
=============================================================================
