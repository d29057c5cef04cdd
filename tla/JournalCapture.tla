--------------------------- MODULE JournalCapture ---------------------------
(***************************************************************************)
(* One run's capture of the system journal (common/loader/journal.py,      *)
(* common/journal_probe.py) and the choice of the local syslog provider    *)
(* that rests on it (arbitrate_syslog_capture).                            *)
(*                                                                         *)
(* The main thread starts a journalctl child in its own process group, and *)
(* two threads that drain the child's pipes; it polls the child and, when  *)
(* a drain reports a failure, ends the group by SIGTERM and SIGKILL.  The  *)
(* records go to a private file that the run may read once the capture is  *)
(* complete, and that is gone when the run ends.  With the default window  *)
(* a one-record probe of the same kind comes first, to find the anchor.    *)
(* The user may press ^C at any step of the main thread.                   *)
(*                                                                         *)
(* Abstractions.  A record is what the drain makes of it: "usable" parses  *)
(* to a row, "unusable" does not, "bad" is over 1 MiB or not UTF-8.  A     *)
(* pipe holds whole records, the tail that a dying child tears off being   *)
(* one more record.  Of the standard error only its presence is kept.      *)
(***************************************************************************)
EXTENDS Integers, Sequences

CONSTANTS
    PipeSize,       \* records, and lines of noise, that fit in a pipe
    MaxRecords,     \* bound: records one capture's child writes
    MaxNoise,       \* bound: lines a child writes to its standard error
    MaxInterrupts   \* bound: ^C pressed

ASSUME PipeAssumption == PipeSize \in Nat \ {0}
ASSUME CaptureBounds ==
    MaxRecords \in Nat /\ MaxNoise \in Nat /\ MaxInterrupts \in Nat

VARIABLES
    mode,       \* --syslog-source: "auto" or "journal"
    windowed,   \* no --since, --until or --all: the default window
    pc,         \* the main thread
    task,       \* which child: the tail "probe" or the "capture"
    error,      \* the exception under way, or "none"
    killed,     \* parent_terminated: a drain's failure made main end the child
    child,      \* the journalctl process
    pipe,       \* records in its standard output
    noise,      \* lines in its standard error
    produced,   \* history: every record the child wrote
    out,        \* the stdout drain thread
    err,        \* the stderr drain thread
    failure,    \* the threading.Event the drains set
    file,       \* records in the private file, or NoFile
    stream,     \* main's handle on it: "none", "open" or "closed"
    registered, \* the file is in _ACTIVE_CAPTURES
    outcome,    \* PreparedJournalCapture.outcome
    provider,   \* the local syslog provider chosen
    interrupts, \* ^C pressed so far
    unguarded,  \* history: a ^C fell where no handler waits for it
    stuck       \* history: the private file could not be unlinked

childVars == <<child, pipe, noise, produced>>
drainVars == <<out, err, failure>>
fileVars == <<file, stream, registered, outcome, provider>>
inputVars == <<mode, windowed>>
historyVars == <<interrupts, unguarded, stuck>>
vars == <<inputVars, pc, task, error, killed, childVars, drainVars, fileVars,
          historyVars>>

-----------------------------------------------------------------------------
Kinds == {"usable", "unusable", "bad"}
NoFile == <<"no file">>
JournalErrors == {"missing", "unavailable", "process", "protocol", "io"}

NoChild == [state |-> "none", next |-> "exit", code |-> "none",
            signal |-> "none", chatter |-> 0]
IdleOut == [state |-> "idle", bad |-> FALSE, io |-> FALSE, records |-> 0,
            usable |-> FALSE]
IdleErr == [state |-> "idle", io |-> FALSE]

Gone == child.state \in {"closed", "exited"}
HasUsable(records) == \E i \in 1..Len(records) : records[i] = "usable"

Init ==
    /\ mode \in {"auto", "journal"}
    /\ windowed \in BOOLEAN
    /\ pc = "begin"
    /\ task = "capture"
    /\ error = "none"
    /\ killed = FALSE
    /\ child = NoChild
    /\ pipe = <<>>
    /\ noise = 0
    /\ produced = <<>>
    /\ out = IdleOut
    /\ err = IdleErr
    /\ failure = FALSE
    /\ file = NoFile
    /\ stream = "none"
    /\ registered = FALSE
    /\ outcome = "none"
    /\ provider = "none"
    /\ interrupts = 0
    /\ unguarded = FALSE
    /\ stuck = FALSE

-----------------------------------------------------------------------------
(* The child (external: journalctl).  It has decided what it does next: it *)
(* is stuck while the pipe it wants to write to is full.                   *)

RecordLimit == IF task = "probe" THEN 1 ELSE MaxRecords

NextStep(records, chatter) ==
    {"exit"} \cup {s \in {"out"} : records < RecordLimit}
             \cup {s \in {"err"} : chatter < MaxNoise}

ChildWrites ==
    /\ child.state = "running"
    /\ child.next = "out"
    /\ Len(pipe) < PipeSize
    /\ \E kind \in Kinds :
          /\ pipe' = Append(pipe, kind)
          /\ produced' = Append(produced, kind)
    /\ \E step \in NextStep(Len(produced) + 1, child.chatter) :
          child' = [child EXCEPT !.next = step]
    /\ UNCHANGED <<inputVars, pc, task, error, killed, noise, drainVars,
                   fileVars, historyVars>>

ChildComplains ==
    /\ child.state = "running"
    /\ child.next = "err"
    /\ noise < PipeSize
    /\ noise' = noise + 1
    /\ \E step \in NextStep(Len(produced), child.chatter + 1) :
          child' = [child EXCEPT !.next = step, !.chatter = @ + 1]
    /\ UNCHANGED <<inputVars, pc, task, error, killed, pipe, produced,
                   drainVars, fileVars, historyVars>>

(* Its descriptors close first; the parent can reap it a moment later.     *)
ChildExits ==
    /\ child.state = "running"
    /\ child.next = "exit"
    /\ \E code \in {"zero", "nonzero"} :
          child' = [child EXCEPT !.state = "closed", !.code = code]
    /\ UNCHANGED <<inputVars, pc, task, error, killed, pipe, noise, produced,
                   drainVars, fileVars, historyVars>>

(* Death by a signal, ours or somebody else's, perhaps in mid-record.      *)
ChildDies ==
    /\ child.state = "running"
    /\ child' = [child EXCEPT !.state = "closed", !.code = "signal"]
    /\ \/ UNCHANGED <<pipe, produced>>
       \/ /\ child.next = "out"
          /\ Len(pipe) < PipeSize
          /\ \E kind \in Kinds :
                /\ pipe' = Append(pipe, kind)
                /\ produced' = Append(produced, kind)
    /\ UNCHANGED <<inputVars, pc, task, error, killed, noise, drainVars,
                   fileVars, historyVars>>

ChildReapable ==
    /\ child.state = "closed"
    /\ child' = [child EXCEPT !.state = "exited"]
    /\ UNCHANGED <<inputVars, pc, task, error, killed, pipe, noise, produced,
                   drainVars, fileVars, historyVars>>

(* SIGTERM may be ignored, SIGKILL may not.                                *)
ChildKilled == child.signal = "kill" /\ ChildDies

ChildStep == ChildWrites \/ ChildComplains \/ ChildExits \/ ChildReapable

-----------------------------------------------------------------------------
(* The drain threads.  After a failure the stdout drain goes on reading,   *)
(* and discards, so that the child never blocks on it.                     *)

ReadRecord ==
    /\ out.state = "reading"
    /\ pipe # <<>>
    /\ pipe' = Tail(pipe)
    /\ UNCHANGED <<inputVars, pc, task, error, killed, child, noise, produced,
                   err, stream, registered, outcome, provider, historyVars>>

Discard ==
    /\ ReadRecord
    /\ out.bad \/ out.io
    /\ out' = [out EXCEPT !.records = @ + 1]
    /\ UNCHANGED <<failure, file>>

RejectRecord ==
    /\ ReadRecord
    /\ ~(out.bad \/ out.io)
    /\ Head(pipe) = "bad"
    /\ out' = [out EXCEPT !.records = @ + 1, !.bad = TRUE]
    /\ failure' = TRUE
    /\ UNCHANGED file

(* The probe keeps its first record in memory; has_usable is the capture's.*)
KeepRecord ==
    /\ ReadRecord
    /\ ~(out.bad \/ out.io)
    /\ Head(pipe) # "bad"
    /\ task = "capture" => stream = "open"
    /\ out' = [out EXCEPT !.records = @ + 1,
                          !.usable = @ \/ Head(pipe) = "usable"]
    /\ file' = IF task = "capture" THEN Append(file, Head(pipe)) ELSE file
    /\ UNCHANGED failure

WriteFails ==
    /\ ReadRecord
    /\ ~(out.bad \/ out.io)
    /\ Head(pipe) # "bad"
    /\ task = "capture" /\ stream = "open"
    /\ out' = [out EXCEPT !.records = @ + 1, !.io = TRUE]
    /\ failure' = TRUE
    /\ UNCHANGED file

(* Main has closed the file under the thread: the write is no OSError, and *)
(* the thread dies of it.                                                  *)
WriteAfterClose ==
    /\ ReadRecord
    /\ ~(out.bad \/ out.io)
    /\ Head(pipe) # "bad"
    /\ task = "capture" /\ stream # "open"
    /\ out' = [out EXCEPT !.records = @ + 1, !.state = "done"]
    /\ UNCHANGED <<failure, file>>

EndOfRecords ==
    /\ out.state = "reading"
    /\ pipe = <<>>
    /\ Gone
    /\ out' = [out EXCEPT !.state = "done"]
    /\ UNCHANGED <<inputVars, pc, task, error, killed, childVars, err, failure,
                   fileVars, historyVars>>

DrainNoise ==
    /\ err.state = "reading"
    /\ noise > 0
    /\ noise' = noise - 1
    /\ UNCHANGED <<inputVars, pc, task, error, killed, child, pipe, produced,
                   drainVars, fileVars, historyVars>>

EndOfNoise ==
    /\ err.state = "reading"
    /\ noise = 0
    /\ Gone
    /\ err' = [err EXCEPT !.state = "done"]
    /\ UNCHANGED <<inputVars, pc, task, error, killed, childVars, out, failure,
                   fileVars, historyVars>>

(* Mutant: the failure is noted but main is not woken.                     *)
ReadFailsQuietly ==
    /\ \/ /\ out.state = "reading"
          /\ out' = [out EXCEPT !.state = "done", !.io = TRUE]
          /\ UNCHANGED err
       \/ /\ err.state = "reading"
          /\ err' = [err EXCEPT !.state = "done", !.io = TRUE]
          /\ UNCHANGED out
    /\ UNCHANGED <<inputVars, pc, task, error, killed, childVars, failure,
                   fileVars, historyVars>>

(* A read of a pipe raises: the thread ends, and drains no more.           *)
ReadFails ==
    /\ \/ /\ out.state = "reading"
          /\ out' = [out EXCEPT !.state = "done", !.io = TRUE]
          /\ UNCHANGED err
       \/ /\ err.state = "reading"
          /\ err' = [err EXCEPT !.state = "done", !.io = TRUE]
          /\ UNCHANGED out
    /\ failure' = TRUE
    /\ UNCHANGED <<inputVars, pc, task, error, killed, childVars, fileVars,
                   historyVars>>

OutStep == Discard \/ RejectRecord \/ KeepRecord \/ WriteFails
               \/ WriteAfterClose \/ EndOfRecords
ErrStep == DrainNoise \/ EndOfNoise

-----------------------------------------------------------------------------
(* The main thread: prepare_journal_capture, _capture_main (or, for the    *)
(* probe, _probe_with_executable), _wait_for_process and                   *)
(* terminate_process_group.                                                *)

MainOnly == UNCHANGED <<inputVars, historyVars>>

(* Leave by an exception: through the finally of prepare_journal_capture.  *)
Raise(e) ==
    /\ error' = e
    /\ pc' = "cleanup"

Begin ==
    /\ pc = "begin"
    /\ \/ Raise("missing") /\ UNCHANGED task
       \/ /\ task' = IF windowed THEN "probe" ELSE "capture"
          /\ pc' = IF windowed THEN "spawn" ELSE "create"
          /\ UNCHANGED error
    /\ UNCHANGED <<killed, childVars, drainVars, fileVars>>
    /\ MainOnly

(* mkdtemp and O_EXCL open; nobody but _create_capture knows the path yet. *)
Create ==
    /\ pc = "create"
    /\ \/ Raise("io") /\ UNCHANGED file
       \/ /\ file' = <<>>
          /\ pc' = "creating"
          /\ UNCHANGED error
    /\ UNCHANGED <<task, killed, childVars, drainVars, stream, registered,
                   outcome, provider>>
    /\ MainOnly

(* The path is returned.  After an empty probe there is nothing to capture.*)
Created ==
    /\ pc = "creating"
    /\ stream' = "open"
    /\ pc' = IF outcome = "clean_empty" THEN "flush" ELSE "spawn"
    /\ task' = "capture"
    /\ UNCHANGED <<error, killed, childVars, drainVars, file, registered,
                   outcome, provider>>
    /\ MainOnly

Spawn ==
    /\ pc = "spawn"
    /\ \/ Raise("unavailable") /\ UNCHANGED <<killed, childVars, drainVars>>
       \/ /\ \E step \in NextStep(0, 0) :
                child' = [NoChild EXCEPT !.state = "running", !.next = step]
          /\ pipe' = <<>>
          /\ noise' = 0
          /\ produced' = <<>>
          /\ out' = IdleOut
          /\ err' = IdleErr
          /\ failure' = FALSE
          /\ killed' = FALSE
          /\ pc' = "spawned"
          /\ UNCHANGED error
    /\ UNCHANGED <<task, fileVars>>
    /\ MainOnly

StartThreads ==
    /\ pc = "spawned"
    /\ out' = [out EXCEPT !.state = "reading"]
    /\ err' = [err EXCEPT !.state = "reading"]
    /\ pc' = "waiting"
    /\ UNCHANGED <<task, error, killed, childVars, failure, fileVars>>
    /\ MainOnly

Poll ==
    /\ pc = "waiting"
    /\ pc' = IF child.state = "exited" THEN "joining" ELSE "polled"
    /\ UNCHANGED <<task, error, killed, childVars, drainVars, fileVars>>
    /\ MainOnly

CheckFailure ==
    /\ pc = "polled"
    /\ killed' = failure
    /\ pc' = IF failure THEN "terminating" ELSE "waiting"
    /\ UNCHANGED <<task, error, childVars, drainVars, fileVars>>
    /\ MainOnly

(* SIGTERM unless the child can be reaped already, SIGKILL a second later. *)
Terminate ==
    /\ \/ pc = "terminating" /\ child.state # "exited"
          /\ child' = [child EXCEPT !.signal = "term"]
          /\ pc' = "termwait"
       \/ pc = "termwait" /\ child.state # "exited"
          /\ child' = [child EXCEPT !.signal = "kill"]
          /\ pc' = "killwait"
       \/ pc \in {"terminating", "termwait", "killwait"}
          /\ child.state = "exited"
          /\ pc' = "joining"
          /\ UNCHANGED child
    /\ UNCHANGED <<task, error, killed, pipe, noise, produced, drainVars,
                   fileVars>>
    /\ MainOnly

(* Both threads are joined, then the child is waited for.                  *)
Join ==
    /\ pc = "joining"
    /\ out.state = "done"
    /\ err.state = "done"
    /\ child.state = "exited"
    /\ pc' = IF error = "interrupt" THEN "cleanup" ELSE "judging"
    /\ UNCHANGED <<task, error, killed, childVars, drainVars, fileVars>>
    /\ MainOnly

IOFailed == out.io \/ err.io

(* The order in which _probe_with_executable looks at what went wrong.     *)
ProbeVerdict ==
    IF killed /\ out.bad THEN "protocol"
    ELSE IF killed /\ IOFailed THEN "unavailable"
    ELSE IF child.code # "zero" THEN "process"
    ELSE IF IOFailed THEN "unavailable"
    ELSE IF out.bad THEN "protocol"
    ELSE "none"

(* Mutant: the exit status of the child is not looked at.                  *)
CaptureVerdictNoStatus ==
    IF IOFailed THEN "io" ELSE IF out.bad THEN "protocol" ELSE "none"

(* Mutant: the exit status first, even of a child that main has ended.     *)
CaptureVerdictStatusFirst ==
    IF child.code # "zero" THEN "process"
    ELSE IF IOFailed THEN "io"
    ELSE IF out.bad THEN "protocol"
    ELSE "none"

(* And _capture_main, where an I/O error comes first.                      *)
CaptureVerdict ==
    IF killed /\ IOFailed THEN "io"
    ELSE IF killed /\ out.bad THEN "protocol"
    ELSE IF child.code # "zero" THEN "process"
    ELSE IF IOFailed THEN "io"
    ELSE IF out.bad THEN "protocol"
    ELSE "none"

(* An empty probe ends the search; a record must yield a usable anchor.    *)
JudgeProbe ==
    /\ pc = "judging"
    /\ task = "probe"
    /\ \/ ProbeVerdict # "none" /\ Raise(ProbeVerdict) /\ UNCHANGED outcome
       \/ /\ ProbeVerdict = "none"
          /\ out.records = 0
          /\ outcome' = "clean_empty"
          /\ pc' = "create"
          /\ UNCHANGED error
       \/ /\ ProbeVerdict = "none"
          /\ out.records > 0
          /\ \/ Raise("protocol")
             \/ pc' = "create" /\ UNCHANGED error
          /\ UNCHANGED outcome
    /\ UNCHANGED <<task, killed, childVars, drainVars, file, stream,
                   registered, provider>>
    /\ MainOnly

JudgeCapture ==
    /\ pc = "judging"
    /\ task = "capture"
    /\ IF CaptureVerdict # "none" THEN Raise(CaptureVerdict)
       ELSE pc' = "flush" /\ UNCHANGED error
    /\ UNCHANGED <<task, killed, childVars, drainVars, fileVars>>
    /\ MainOnly

Outcome ==
    IF outcome = "clean_empty" \/ out.records = 0 THEN "clean_empty"
    ELSE IF out.usable THEN "ready" ELSE "no_usable"

(* The file is closed and registered, and arbitrate_syslog_capture picks:  *)
(* auto takes the journal only for a usable row in it.                     *)
Publish ==
    /\ pc = "flush"
    /\ \/ Raise("io")
          /\ UNCHANGED <<stream, registered, outcome, provider>>
       \/ /\ stream' = "closed"
          /\ outcome' = Outcome
          /\ registered' = TRUE
          /\ provider' = IF mode = "journal" \/ Outcome = "ready"
                         THEN "journal" ELSE "files"
          /\ pc' = "using"
          /\ UNCHANGED error
    /\ UNCHANGED <<task, killed, childVars, drainVars, file>>
    /\ MainOnly

(* The run loads the provider's source, and ends or raises.                *)
EndSession ==
    /\ pc = "using"
    /\ error' \in {"none", "session"}
    /\ pc' = "cleanup"
    /\ UNCHANGED <<task, killed, childVars, drainVars, fileVars>>
    /\ MainOnly

Unregister ==
    /\ pc = "cleanup"
    /\ registered' = FALSE
    /\ stream' = IF stream = "open" THEN "closed" ELSE stream
    /\ pc' = "unlinking"
    /\ UNCHANGED <<task, error, killed, childVars, drainVars, file, outcome,
                   provider>>
    /\ MainOnly

(* Unlink the file, if its path is known.  A failure is the run's error    *)
(* unless it already has one.  In auto mode a journal error means files.   *)
Remove ==
    /\ pc = "unlinking"
    /\ pc' = "closed"
    /\ \/ /\ file' = IF stream = "none" THEN file ELSE NoFile
          /\ UNCHANGED <<error, stuck>>
       \/ /\ stream # "none"
          /\ stuck' = TRUE
          /\ error' = IF error = "none" THEN "io" ELSE error
          /\ UNCHANGED file
    /\ provider' = IF mode = "auto" /\ provider = "none" /\ error \in JournalErrors
                   THEN "files" ELSE provider
    /\ UNCHANGED <<inputVars, task, killed, childVars, drainVars, stream,
                   registered, outcome, interrupts, unguarded>>

(* Mutant: no handler around the wait loop.                                *)
InterruptUnhandled ==
    /\ interrupts < MaxInterrupts
    /\ interrupts' = interrupts + 1
    /\ pc \notin {"begin", "closed"}
    /\ error' = "interrupt"
    /\ pc' = IF pc \in {"cleanup", "unlinking"} THEN "closed" ELSE "cleanup"
    /\ unguarded' = (unguarded \/ pc \in {"creating", "spawned", "joining",
                                          "cleanup", "unlinking"})
    /\ UNCHANGED <<inputVars, task, killed, childVars, drainVars, fileVars,
                   stuck>>

(* ^C.  In the wait loop the handler ends the child; a second one there    *)
(* leaves the child to itself, but still waits for it.  Elsewhere it is an *)
(* exception like others, except where the code has nothing in place yet   *)
(* (a file or child just created, not yet in a try) or nothing any more.   *)
Interrupt ==
    /\ interrupts < MaxInterrupts
    /\ interrupts' = interrupts + 1
    /\ pc \notin {"begin", "closed"}
    /\ error' = "interrupt"
    /\ pc' = CASE pc \in {"waiting", "polled"} -> "terminating"
               [] pc \in {"terminating", "termwait", "killwait"} ->
                      IF error = "interrupt" THEN "joining" ELSE "terminating"
               [] pc \in {"cleanup", "unlinking"} -> "closed"
               [] OTHER -> "cleanup"
    /\ unguarded' = (unguarded \/ pc \in {"creating", "spawned", "joining",
                                          "cleanup", "unlinking"})
    /\ UNCHANGED <<inputVars, task, killed, childVars, drainVars, fileVars,
                   stuck>>

MainStep ==
    \/ Begin
    \/ Create
    \/ Created
    \/ Spawn
    \/ StartThreads
    \/ Poll
    \/ CheckFailure
    \/ Terminate
    \/ Join
    \/ JudgeProbe
    \/ JudgeCapture
    \/ Publish
    \/ EndSession
    \/ Unregister
    \/ Remove

Next ==
    \/ MainStep
    \/ Interrupt
    \/ ChildStep
    \/ ChildDies
    \/ OutStep
    \/ ErrStep
    \/ ReadFails

Spec == Init /\ [][Next]_vars

(* Threads and processes are scheduled; a signal that cannot be ignored    *)
(* takes effect; journalctl without --follow writes what there is and      *)
(* ends, unless a full pipe stops it.                                      *)
Fairness ==
    /\ WF_vars(MainStep)
    /\ WF_vars(OutStep)
    /\ WF_vars(ErrStep)
    /\ WF_vars(ChildStep)
    /\ WF_vars(ChildKilled)

FairSpec == Spec /\ Fairness

-----------------------------------------------------------------------------
Child == [state: {"none", "running", "closed", "exited"},
          next: {"out", "err", "exit"},
          code: {"none", "zero", "nonzero", "signal"},
          signal: {"none", "term", "kill"},
          chatter: 0..MaxNoise]
StdoutDrain == [state: {"idle", "reading", "done"}, bad: BOOLEAN, io: BOOLEAN,
                records: 0..(MaxRecords + 1), usable: BOOLEAN]
StderrDrain == [state: {"idle", "reading", "done"}, io: BOOLEAN]

(* Type invariant; the loader accepts the capture in the run's body only.  *)
CaptureTypeOK ==
    /\ mode \in {"auto", "journal"}
    /\ windowed \in BOOLEAN
    /\ pc \in {"begin", "create", "creating", "spawn", "spawned", "waiting",
               "polled", "terminating", "termwait", "killwait", "joining",
               "judging", "flush", "using", "cleanup", "unlinking", "closed"}
    /\ task \in {"probe", "capture"}
    /\ error \in JournalErrors \cup {"none", "session", "interrupt"}
    /\ killed \in BOOLEAN
    /\ child \in Child
    /\ pipe \in Seq(Kinds) /\ Len(pipe) <= PipeSize
    /\ noise \in 0..PipeSize
    /\ produced \in Seq(Kinds) /\ Len(produced) <= MaxRecords + 1
    /\ out \in StdoutDrain
    /\ err \in StderrDrain
    /\ failure \in BOOLEAN
    /\ file = NoFile \/ file \in Seq(Kinds)
    /\ stream \in {"none", "open", "closed"}
    /\ registered \in BOOLEAN
    /\ registered => pc \in {"using", "cleanup"} \/ unguarded
    /\ outcome \in {"none", "ready", "clean_empty", "no_usable"}
    /\ provider \in {"none", "journal", "files"}
    /\ interrupts \in 0..MaxInterrupts
    /\ unguarded \in BOOLEAN
    /\ stuck \in BOOLEAN

(* A capture the loader can open is the whole of a successful child's      *)
(* output, whatever the timing of a failing drain, the polling main thread *)
(* and a dying child; its outcome says what is in it; and no thread can    *)
(* still write to it (_capture_main, prepare_journal_capture).             *)
RegisteredCaptureIsComplete ==
    registered =>
        /\ file = produced
        /\ child.code = "zero"
        /\ \A i \in 1..Len(file) : file[i] # "bad"
        /\ out.state = "done"
        /\ outcome = "ready" <=> HasUsable(file)
        /\ outcome = "clean_empty" <=> file = <<>>

(* Rows of the journal are used only when there are some, or when the user *)
(* asked for the journal and nothing else; a failed capture and a ^C are   *)
(* never turned into an empty journal (arbitrate_syslog_capture).          *)
ProviderFollowsCapture ==
    /\ provider = "journal" /\ pc = "using" /\ mode = "auto" => HasUsable(file)
    /\ provider = "files" => mode = "auto" /\ outcome # "ready"
    /\ pc = "closed" /\ provider = "none" =>
           error = "interrupt" \/ (mode = "journal" /\ error \in JournalErrors)

(* A child that main ended for a drain's sake is not reported as having    *)
(* failed by itself: the cause is ("parent_terminated" in _capture_main).  *)
OwnKillIsNotBlamed ==
    error = "process" => child.signal = "none"

(* So the reader of the journal is told what became of the capture, and    *)
(* the user why. *)
CaptureIsReportedAsItWas == ProviderFollowsCapture /\ OwnKillIsNotBlamed

(* When the run is over the file is gone, nobody may open it, the child is *)
(* reaped and the threads are at an end - except after a ^C that no        *)
(* handler waited for, or an unlink that failed.                           *)
CaptureLeavesNothing ==
    pc = "closed" /\ ~unguarded =>
        /\ ~registered
        /\ child.state \in {"none", "exited"}
        /\ out.state # "reading" /\ err.state # "reading"
        /\ file = NoFile \/ stuck

(* "Prepare one private journal capture and remove it on every exit": a ^C *)
(* between mkdtemp in _create_capture and the assignment of its result, or *)
(* in the cleanup, leaves the file and its records behind.                 *)
RemovedOnEveryExit == pc = "closed" /\ ~stuck => file = NoFile

(* Nobody waits for ever: not the child on a full pipe, not main on a      *)
(* child that ignores SIGTERM, not main on a drain.                        *)
CaptureEnds == <>(pc = "closed")

(* The inductive invariant behind the safety properties, in parts.  First  *)
(* the child: it writes only what its bound lets it.                       *)
Watching == {"waiting", "polled", "terminating", "termwait", "killwait",
             "joining"}
Leaving == {"cleanup", "unlinking", "closed"}

ChildBound ==
    /\ child.state = "running" /\ child.next = "out" => Len(produced) < RecordLimit
    /\ child.next = "err" => child.chatter < MaxNoise

(* The stdout drain: what it has not read is still in the pipe, in order,  *)
(* and it comes to an end without an error only at the end of the output.  *)
DrainAccount ==
    /\ Len(produced) = out.records + Len(pipe)
    /\ \A i \in 1..Len(pipe) : pipe[i] = produced[out.records + i]
    /\ out.records = 0 => ~out.usable
    /\ failure \/ killed => out.bad \/ IOFailed
    /\ out.state = "done" /\ ~out.io /\ (task = "probe" \/ stream = "open") =>
           pipe = <<>> /\ Gone

(* The private file: what the drain has read, until something is wrong.    *)
FileAccount ==
    /\ stream = "open" => file # NoFile
    /\ pc \in {"spawned", "judging", "flush"} \cup Watching /\ task = "capture" =>
           /\ stream = "open"
           /\ ~out.bad /\ ~out.io =>
                  /\ Len(file) = out.records
                  /\ \A i \in 1..Len(file) : file[i] = produced[i] /\ file[i] # "bad"
                  /\ out.usable <=> HasUsable(file)
    /\ pc \in {"flush", "using"} => stream # "none"
    /\ pc = "unlinking" => stream # "open"
    /\ pc \in {"begin", "create"} => file = NoFile /\ stream = "none"
    /\ pc = "creating" => file = <<>> /\ stream = "none"
    /\ pc = "spawn" /\ task = "capture" => file = <<>> /\ stream = "open"
    /\ pc \in {"spawn", "spawned", "judging"} \cup Watching /\ task = "probe" =>
           file = NoFile /\ stream = "none"
    /\ pc \in {"cleanup", "unlinking"} /\ stream = "none" /\ ~unguarded =>
           file = NoFile

(* Nothing of an earlier or finished child is under way.                   *)
Quiet ==
    /\ child.state \in {"none", "exited"}
    /\ out.state # "reading"
    /\ err.state # "reading"

SucceededChild ==
    /\ child.state = "exited"
    /\ child.code = "zero"
    /\ out.state = "done"
    /\ ~out.io
    /\ ~out.bad

PhaseInv ==
    /\ pc \notin {"spawned"} \cup Watching /\ ~unguarded => Quiet
    /\ pc = "begin" => task = "capture"
    /\ pc \in {"begin", "create", "creating"} /\ task = "capture" =>
           out.state = "idle"
    /\ pc = "judging" => child.state = "exited" /\ out.state = "done"
    /\ pc = "flush" => task = "capture" /\ SucceededChild
    /\ pc \in {"create", "creating", "flush"} /\ outcome = "clean_empty" =>
           SucceededChild /\ out.records = 0 /\ produced = <<>>
    /\ pc \notin Leaving => ~unguarded /\ error \in {"none", "interrupt"}
    /\ pc \notin Leaving /\ error = "interrupt" =>
           pc \in {"terminating", "termwait", "killwait", "joining"}

(* What main did to the child, and what it knows.                          *)
SignalInv ==
    /\ pc \in {"spawned", "waiting", "polled"} => ~killed /\ child.signal = "none"
    /\ pc \in {"terminating", "termwait", "killwait"} =>
           killed \/ error = "interrupt"
    /\ child.signal # "none" => killed \/ error = "interrupt"

ChoiceInv ==
    /\ pc \notin {"using"} \cup Leaving => provider = "none" /\ ~registered
    /\ pc = "using" => provider # "none"
    /\ pc \in {"begin", "spawn", "spawned", "judging"} \cup Watching =>
           outcome = "none"
    /\ provider = "none" => outcome \in {"none", "clean_empty"}
    /\ registered => child.state = "exited"
    /\ pc = "unlinking" => ~registered
    /\ pc \in {"cleanup", "unlinking"} /\ provider = "none" =>
           error \in JournalErrors \cup {"interrupt"}

CaptureInv ==
    /\ CaptureTypeOK
    /\ ChildBound
    /\ DrainAccount
    /\ FileAccount
    /\ PhaseInv
    /\ SignalInv
    /\ ChoiceInv
    /\ RegisteredCaptureIsComplete
    /\ CaptureIsReportedAsItWas
    /\ CaptureLeavesNothing
=============================================================================
