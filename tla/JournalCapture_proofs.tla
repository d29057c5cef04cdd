----------------------- MODULE JournalCapture_proofs -----------------------
(***************************************************************************)
(* Proofs about JournalCapture, for pipes, captures and error outputs of   *)
(* any size and any number of interrupts.  The argument: a drain that ends *)
(* without an error has read all that the child wrote (DrainAccount), and  *)
(* the private file holds what it read (FileAccount); main judges a child  *)
(* only when it is reaped and both drains have ended (PhaseInv), knows by  *)
(* then whether it has ended the child itself (SignalInv), and publishes   *)
(* nothing before (ChoiceInv).                                             *)
(***************************************************************************)
EXTENDS JournalCapture, TLAPS

USE DEF inputVars, childVars, drainVars, fileVars, historyVars, MainOnly, Raise

-----------------------------------------------------------------------------
(* No file is not a file without records.                                  *)
LEMMA NoFileIsNoRecords == NoFile \notin Seq(Kinds) /\ <<>> \in Seq(Kinds)
<1>1. NoFile[1] = "no file"
  BY DEF NoFile
<1>2. "no file" \notin Kinds
  BY DEF Kinds
<1>3. ASSUME NoFile \in Seq(Kinds) PROVE FALSE
  <2>1. Len(NoFile) = 1
    BY DEF NoFile
  <2>2. \A s \in Seq(Kinds) : Len(s) = 1 => s[1] \in Kinds
    OBVIOUS
  <2> QED
    BY <1>1, <1>2, <1>3, <2>1, <2>2
<1> QED
  BY <1>3

-----------------------------------------------------------------------------
(* What the child and the drains leave alone *)

(* A record more in the pipe and in the output.                            *)
LEMMA OneMore ==
    ASSUME CaptureTypeOK, NEW kind \in Kinds, Len(pipe) < PipeSize,
           Len(produced) < MaxRecords + 1,
           pipe' = Append(pipe, kind), produced' = Append(produced, kind)
    PROVE  /\ pipe' \in Seq(Kinds) /\ Len(pipe') = Len(pipe) + 1
           /\ produced' \in Seq(Kinds) /\ Len(produced') = Len(produced) + 1
           /\ Len(pipe') <= PipeSize /\ Len(produced') <= MaxRecords + 1
           /\ \A i \in 1..Len(pipe) : pipe'[i] = pipe[i]
           /\ pipe'[Len(pipe) + 1] = kind
           /\ \A i \in 1..Len(produced) : produced'[i] = produced[i]
           /\ produced'[Len(produced) + 1] = kind
BY PipeAssumption, CaptureBounds DEF CaptureTypeOK

(* The child only lives, writes and dies.                                  *)
LEMMA ChildFrame ==
    ASSUME CaptureInv, ChildStep \/ ChildDies
    PROVE  /\ UNCHANGED <<inputVars, pc, task, error, killed, drainVars, fileVars,
                          historyVars>>
           /\ child' \in Child /\ child'.signal = child.signal
           /\ noise' \in 0..PipeSize
           /\ \/ child.state = "running" /\ child'.state \in {"running", "closed"}
              \/ /\ child.state = "closed" /\ child'.state = "exited"
                 /\ child'.code = child.code
                 /\ UNCHANGED <<pipe, produced>>
           /\ \/ UNCHANGED <<pipe, produced>>
              \/ /\ child.state = "running"
                 /\ Len(pipe) < PipeSize
                 /\ Len(produced) < RecordLimit
                 /\ \E kind \in Kinds : /\ pipe' = Append(pipe, kind)
                                        /\ produced' = Append(produced, kind)
<1>0. child \in Child /\ ChildBound /\ noise \in 0..PipeSize
  BY DEF CaptureInv, CaptureTypeOK
<1>1. CASE ChildWrites
  <2>1. PICK step \in NextStep(Len(produced) + 1, child.chatter) :
           child' = [child EXCEPT !.next = step]
    BY <1>1 DEF ChildWrites
  <2>2. step \in {"out", "err", "exit"}
    BY DEF NextStep
  <2>3. /\ child' \in Child /\ child'.signal = child.signal
        /\ child'.state = child.state
    BY <1>0, <2>1, <2>2 DEF Child
  <2> QED
    BY <1>0, <1>1, <2>3 DEF ChildWrites, ChildBound
<1>2. CASE ChildComplains
  <2>1. PICK step \in NextStep(Len(produced), child.chatter + 1) :
           child' = [child EXCEPT !.next = step, !.chatter = @ + 1]
    BY <1>2 DEF ChildComplains
  <2>2. step \in {"out", "err", "exit"}
    BY DEF NextStep
  <2>3. child.chatter + 1 \in 0..MaxNoise
    BY <1>0, <1>2, CaptureBounds DEF ChildComplains, ChildBound, Child
  <2>4. /\ child' \in Child /\ child'.signal = child.signal
        /\ child'.state = child.state
    BY <1>0, <2>1, <2>2, <2>3 DEF Child
  <2>5. noise' \in 0..PipeSize
    BY <1>0, <1>2, PipeAssumption DEF ChildComplains
  <2> QED
    BY <1>2, <2>4, <2>5 DEF ChildComplains
<1>3. CASE ChildExits \/ ChildReapable
  <2>1. /\ child' \in Child /\ child'.signal = child.signal
        /\ \/ child.state = "running" /\ child'.state = "closed"
           \/ /\ child.state = "closed" /\ child'.state = "exited"
              /\ child'.code = child.code
    BY <1>0, <1>3 DEF ChildExits, ChildReapable, Child
  <2> QED
    BY <1>0, <1>3, <2>1 DEF ChildExits, ChildReapable
<1>4. CASE ChildDies
  <2>1. /\ child' \in Child /\ child'.signal = child.signal
        /\ child.state = "running" /\ child'.state = "closed"
    BY <1>0, <1>4 DEF ChildDies, Child
  <2> QED
    BY <1>0, <1>4, <2>1 DEF ChildDies, ChildBound
<1> QED
  BY <1>1, <1>2, <1>3, <1>4 DEF ChildStep

(* A record read is the next one of the output.                            *)
LEMMA OneRead ==
    ASSUME CaptureInv, ReadRecord
    PROVE  /\ pipe' \in Seq(Kinds) /\ Len(pipe') <= PipeSize
           /\ out.records + 1 \in 0..(MaxRecords + 1)
           /\ Len(produced) = (out.records + 1) + Len(pipe')
           /\ \A i \in 1..Len(pipe') : pipe'[i] = produced[(out.records + 1) + i]
           /\ Head(pipe) \in Kinds
           /\ Head(pipe) = produced[out.records + 1]
<1>1. /\ pipe \in Seq(Kinds) /\ Len(pipe) <= PipeSize /\ pipe # <<>>
      /\ out.records \in 0..(MaxRecords + 1)
      /\ produced \in Seq(Kinds) /\ Len(produced) <= MaxRecords + 1
      /\ Len(produced) = out.records + Len(pipe)
      /\ \A i \in 1..Len(pipe) : pipe[i] = produced[out.records + i]
      /\ pipe' = Tail(pipe)
  BY DEF CaptureInv, CaptureTypeOK, StdoutDrain, DrainAccount, ReadRecord
<1>2. /\ Len(pipe) \in Nat \ {0} /\ Len(pipe') = Len(pipe) - 1
      /\ pipe' \in Seq(Kinds)
      /\ \A i \in 1..Len(pipe') : pipe'[i] = pipe[i + 1]
      /\ Head(pipe) = pipe[1]
  BY <1>1
<1>3. \A i \in 1..Len(pipe') : pipe'[i] = produced[(out.records + 1) + i]
  BY <1>1, <1>2
<1>4. /\ out.records + 1 \in 0..(MaxRecords + 1)
      /\ Len(produced) = (out.records + 1) + Len(pipe')
      /\ Len(pipe') <= PipeSize
  BY <1>1, <1>2, PipeAssumption, CaptureBounds
<1>5. pipe[1] = produced[out.records + 1] /\ pipe[1] \in Kinds
  BY <1>1, <1>2
<1> QED
  BY <1>2, <1>3, <1>4, <1>5

(* The drains only read, and end.                                          *)
LEMMA DrainFrame ==
    ASSUME CaptureInv, OutStep \/ ErrStep \/ ReadFails
    PROVE  /\ UNCHANGED <<inputVars, pc, task, error, killed, child, produced,
                          stream, registered, outcome, provider, historyVars>>
           /\ out' \in StdoutDrain /\ err' \in StderrDrain
           /\ pipe' \in Seq(Kinds) /\ Len(pipe') <= PipeSize
           /\ noise' \in 0..PipeSize
           /\ failure' \in BOOLEAN
           /\ failure' => failure \/ out'.bad \/ out'.io \/ err'.io
           /\ out.bad => out'.bad
           /\ out.io => out'.io
           /\ err.io => err'.io
           /\ out.state # "reading" => UNCHANGED <<out, pipe, file>>
           /\ out.state = "reading" => out'.state \in {"reading", "done"}
           /\ err.state # "reading" => UNCHANGED err
           /\ err.state = "reading" => err'.state \in {"reading", "done"}
<1>0. /\ out \in StdoutDrain /\ err \in StderrDrain /\ noise \in 0..PipeSize
      /\ pipe \in Seq(Kinds) /\ Len(pipe) <= PipeSize /\ failure \in BOOLEAN
  BY DEF CaptureInv, CaptureTypeOK
<1>1. CASE Discard \/ RejectRecord \/ KeepRecord \/ WriteFails \/ WriteAfterClose
  <2>1. /\ ReadRecord /\ out.state = "reading"
    BY <1>1 DEF Discard, RejectRecord, KeepRecord, WriteFails, WriteAfterClose,
                ReadRecord
  <2>2. /\ out.records + 1 \in 0..(MaxRecords + 1)
        /\ pipe' \in Seq(Kinds) /\ Len(pipe') <= PipeSize
    BY <2>1, OneRead
  <2>3. /\ out' \in StdoutDrain
        /\ out'.state \in {"reading", "done"}
        /\ out.bad => out'.bad
        /\ out.io => out'.io
        /\ failure' => failure \/ out'.bad \/ out'.io
        /\ failure' \in BOOLEAN
    <3>1. CASE Discard
      BY <1>0, <2>1, <2>2, <3>1 DEF Discard, StdoutDrain
    <3>2. CASE RejectRecord
      BY <1>0, <2>1, <2>2, <3>2 DEF RejectRecord, StdoutDrain
    <3>3. CASE KeepRecord
      BY <1>0, <2>1, <2>2, <3>3 DEF KeepRecord, StdoutDrain
    <3>4. CASE WriteFails
      BY <1>0, <2>1, <2>2, <3>4 DEF WriteFails, StdoutDrain
    <3>5. CASE WriteAfterClose
      BY <1>0, <2>1, <2>2, <3>5 DEF WriteAfterClose, StdoutDrain
    <3> QED
      BY <1>1, <3>1, <3>2, <3>3, <3>4, <3>5
  <2> QED
    BY <1>0, <2>1, <2>2, <2>3 DEF ReadRecord
<1>2. CASE EndOfRecords
  BY <1>0, <1>2 DEF EndOfRecords, StdoutDrain
<1>3. CASE DrainNoise
  BY <1>0, <1>3, PipeAssumption DEF DrainNoise
<1>4. CASE EndOfNoise
  BY <1>0, <1>4 DEF EndOfNoise, StderrDrain
<1>5. CASE ReadFails
  <2>1. CASE /\ out.state = "reading"
             /\ out' = [out EXCEPT !.state = "done", !.io = TRUE]
             /\ UNCHANGED err
    BY <1>0, <1>5, <2>1 DEF ReadFails, StdoutDrain
  <2>2. CASE /\ err.state = "reading"
             /\ err' = [err EXCEPT !.state = "done", !.io = TRUE]
             /\ UNCHANGED out
    BY <1>0, <1>5, <2>2 DEF ReadFails, StderrDrain
  <2> QED
    BY <1>5, <2>1, <2>2 DEF ReadFails
<1> QED
  BY <1>1, <1>2, <1>3, <1>4, <1>5 DEF OutStep, ErrStep

-----------------------------------------------------------------------------
(* The parts of the invariant, step by step *)

(* Main's steps, by what they are about.                                   *)
Prepares == Begin \/ Create \/ Created \/ StartThreads
Watches == Poll \/ CheckFailure \/ Terminate \/ Join
Judges == JudgeProbe \/ JudgeCapture
Leaves == EndSession \/ Unregister \/ Remove

(* The bounds keep the child in its type.                                  *)
LEMMA NextChildBound ==
    ASSUME CaptureInv, [Next]_vars
    PROVE  ChildBound'
<1>0. ChildBound /\ child \in Child /\ task \in {"probe", "capture"}
  BY DEF CaptureInv, CaptureTypeOK
<1>1. CASE ChildWrites
  <2>1. PICK step \in NextStep(Len(produced) + 1, child.chatter) :
           child' = [child EXCEPT !.next = step]
    BY <1>1 DEF ChildWrites
  <2>2. Len(produced') = Len(produced) + 1 /\ task' = task
    <3>1. produced \in Seq(Kinds)
      BY DEF CaptureInv, CaptureTypeOK
    <3> QED
      BY <1>1, <3>1 DEF ChildWrites
  <2> QED
    BY <1>0, <2>1, <2>2 DEF ChildBound, NextStep, RecordLimit, Child
<1>2. CASE ChildComplains
  <2>1. PICK step \in NextStep(Len(produced), child.chatter + 1) :
           child' = [child EXCEPT !.next = step, !.chatter = @ + 1]
    BY <1>2 DEF ChildComplains
  <2> QED
    BY <1>0, <1>2, <2>1 DEF ChildComplains, ChildBound, NextStep, RecordLimit, Child
<1>3. CASE ChildExits \/ ChildDies \/ ChildReapable
  <2>1. /\ child'.state # "running"
        /\ child'.next = child.next /\ child'.chatter = child.chatter
    BY <1>0, <1>3 DEF ChildExits, ChildDies, ChildReapable, Child
  <2> QED
    BY <1>0, <2>1 DEF ChildBound
<1>4. CASE OutStep \/ ErrStep \/ ReadFails
  <2>1. UNCHANGED <<child, produced, task>>
    BY <1>4, DrainFrame
  <2> QED
    BY <1>0, <2>1 DEF ChildBound, RecordLimit
<1>5. CASE Prepares
  BY <1>0, <1>5 DEF Prepares, Begin, Create, Created, StartThreads, ChildBound,
                    RecordLimit, CaptureInv, PhaseInv, Quiet, Watching, Leaving
<1>6. CASE Spawn
  <2>1. CASE UNCHANGED <<childVars, task>>
    BY <1>0, <2>1 DEF ChildBound, RecordLimit
  <2>2. CASE ~ UNCHANGED <<childVars, task>>
    <3>1. PICK step \in NextStep(0, 0) :
             child' = [NoChild EXCEPT !.state = "running", !.next = step]
      BY <1>6, <2>2 DEF Spawn
    <3> QED
      BY <1>0, <1>6, <2>2, <3>1 DEF Spawn, ChildBound, NextStep, RecordLimit, NoChild
  <2> QED
    BY <2>1, <2>2
<1>7. CASE Watches
  BY <1>0, <1>7 DEF Watches, Poll, CheckFailure, Terminate, Join, ChildBound,
                    RecordLimit, Child
<1>8. CASE Judges \/ Publish \/ Leaves \/ Interrupt \/ UNCHANGED vars
  <2>1. UNCHANGED <<child, produced, task>>
    BY <1>8 DEF Judges, JudgeProbe, JudgeCapture, Publish, Leaves, EndSession,
                Unregister, Remove, Interrupt, vars
  <2> QED
    BY <1>0, <2>1 DEF ChildBound, RecordLimit
<1> QED
  BY <1>1, <1>2, <1>3, <1>4, <1>5, <1>6, <1>7, <1>8
     DEF Next, MainStep, ChildStep, Prepares, Watches, Judges, Leaves

(* What is read was written and what is not read is in the pipe.           *)
LEMMA NextDrain ==
    ASSUME CaptureInv, [Next]_vars
    PROVE  DrainAccount'
<1>0. DrainAccount /\ CaptureTypeOK
  BY DEF CaptureInv
<1>1. CASE ChildStep \/ ChildDies
  <2>1. /\ UNCHANGED <<out, err, failure, killed, task, stream>>
        /\ child.state # "running" =>
              UNCHANGED <<pipe, produced>> /\ child'.state \in {"closed", "exited"}
    BY <1>1, ChildFrame
  <2>2. CASE UNCHANGED <<pipe, produced>>
    BY <1>0, <2>1, <2>2 DEF DrainAccount, IOFailed, Gone
  <2>3. CASE ~ UNCHANGED <<pipe, produced>>
    <3>1. PICK kind \in Kinds :
             /\ pipe' = Append(pipe, kind) /\ produced' = Append(produced, kind)
             /\ child.state = "running" /\ Len(pipe) < PipeSize
             /\ Len(produced) < MaxRecords + 1
      BY <1>1, <2>3, ChildFrame, CaptureBounds DEF RecordLimit, CaptureTypeOK
    <3>2. /\ Len(pipe) \in Nat /\ Len(produced) \in Nat /\ out.records \in Nat
          /\ Len(pipe') = Len(pipe) + 1 /\ Len(produced') = Len(produced) + 1
          /\ \A i \in 1..Len(pipe) : pipe'[i] = pipe[i]
          /\ pipe'[Len(pipe) + 1] = kind
          /\ \A i \in 1..Len(produced) : produced'[i] = produced[i]
          /\ produced'[Len(produced) + 1] = kind
      BY <1>0, <3>1, OneMore DEF CaptureTypeOK, StdoutDrain
    <3>3. Len(produced') = out'.records + Len(pipe')
      BY <1>0, <2>1, <3>2 DEF DrainAccount
    <3>4. ASSUME NEW i \in 1..Len(pipe')
          PROVE  pipe'[i] = produced'[out'.records + i]
      <4>1. CASE i = Len(pipe) + 1
        BY <1>0, <2>1, <3>2, <4>1 DEF DrainAccount
      <4>2. CASE i # Len(pipe) + 1
        <5>1. i \in 1..Len(pipe) /\ out.records + i \in 1..Len(produced)
          BY <1>0, <3>2, <4>2 DEF DrainAccount
        <5> QED
          BY <1>0, <2>1, <3>2, <5>1 DEF DrainAccount
      <4> QED
        BY <4>1, <4>2
    <3> QED
      BY <1>0, <2>1, <3>1, <3>3, <3>4 DEF DrainAccount, IOFailed, Gone
  <2> QED
    BY <2>2, <2>3
<1>2. CASE OutStep \/ ErrStep \/ ReadFails
  <2>1. /\ UNCHANGED <<killed, task, stream, child, produced>>
        /\ out.bad => out'.bad
        /\ IOFailed => IOFailed'
        /\ failure' => failure \/ out'.bad \/ IOFailed'
    BY <1>2, DrainFrame DEF IOFailed
  <2>2. failure' \/ killed' => out'.bad \/ IOFailed'
    BY <1>0, <2>1 DEF DrainAccount
  <2>3. CASE Discard \/ RejectRecord \/ KeepRecord \/ WriteFails \/ WriteAfterClose
    <3>1. /\ ReadRecord
          /\ out'.records = out.records + 1
          /\ out'.state = "done" => stream # "open" /\ task = "capture"
      BY <1>0, <2>3 DEF Discard, RejectRecord, KeepRecord, WriteFails,
              WriteAfterClose, ReadRecord, CaptureTypeOK, StdoutDrain
    <3>2. out'.records # 0
      BY <1>0, <3>1 DEF CaptureTypeOK, StdoutDrain
    <3> QED
      BY <2>1, <2>2, <3>1, <3>2, OneRead DEF DrainAccount
  <2>4. CASE EndOfRecords \/ ErrStep \/ ReadFails
    <3>1. /\ pipe' = pipe
          /\ out'.records = out.records /\ out'.usable = out.usable
          /\ out'.state = "done" => \/ out.state = "done" /\ out'.io = out.io
                                    \/ out'.io
                                    \/ pipe = <<>> /\ Gone
      BY <1>0, <2>4 DEF EndOfRecords, ErrStep, ReadFails, DrainNoise, EndOfNoise,
              CaptureTypeOK, StdoutDrain
    <3> QED
      BY <1>0, <2>1, <2>2, <3>1 DEF DrainAccount, Gone
  <2> QED
    BY <1>2, <2>3, <2>4 DEF OutStep
<1>3. CASE Begin \/ Create \/ Created
  <2>1. /\ UNCHANGED <<childVars, drainVars, killed>>
        /\ UNCHANGED <<task, stream>> \/ task = "probe" \/ out.state = "idle"
    BY <1>0, <1>3 DEF Begin, Create, Created, CaptureInv, PhaseInv, CaptureTypeOK
  <2> QED
    BY <1>0, <2>1 DEF DrainAccount, IOFailed, Gone
<1>4. CASE Spawn
  <2>1. CASE UNCHANGED <<childVars, drainVars, killed, task, stream>>
    BY <1>0, <2>1 DEF DrainAccount, IOFailed, Gone
  <2>2. CASE ~ UNCHANGED <<childVars, drainVars, killed, task, stream>>
    <3>1. /\ pipe' = <<>> /\ produced' = <<>> /\ out' = IdleOut
          /\ ~failure' /\ ~killed'
      BY <1>4, <2>2 DEF Spawn
    <3> QED
      BY <3>1 DEF DrainAccount, IdleOut
  <2> QED
    BY <2>1, <2>2
<1>5. CASE StartThreads
  <2>1. /\ UNCHANGED <<childVars, failure, killed, task, stream>>
        /\ out'.state = "reading" /\ out'.records = out.records
        /\ out'.usable = out.usable /\ out'.bad = out.bad /\ IOFailed' = IOFailed
    BY <1>0, <1>5 DEF StartThreads, CaptureTypeOK, StdoutDrain, StderrDrain, IOFailed
  <2> QED
    BY <1>0, <2>1 DEF DrainAccount
<1>6. CASE Watches
  <2>1. /\ UNCHANGED <<pipe, produced, drainVars, task, stream>>
        /\ killed' => killed \/ failure
        /\ child'.state = child.state
    BY <1>0, <1>6 DEF Watches, Poll, CheckFailure, Terminate, Join, CaptureTypeOK,
                      Child
  <2> QED
    BY <1>0, <2>1 DEF DrainAccount, IOFailed, Gone
<1>7. CASE Judges \/ Publish \/ Leaves \/ Interrupt \/ UNCHANGED vars
  <2>1. /\ UNCHANGED <<childVars, drainVars, killed, task>>
        /\ stream' = "open" => stream = "open"
    BY <1>7 DEF Judges, JudgeProbe, JudgeCapture, Publish, Leaves, EndSession,
                Unregister, Remove, Interrupt, vars
  <2> QED
    BY <1>0, <2>1 DEF DrainAccount, IOFailed, Gone
<1> QED
  BY <1>1, <1>2, <1>3, <1>4, <1>5, <1>6, <1>7
     DEF Next, MainStep, Prepares, Watches, Judges, Leaves

(* The file has what the drain has read, while it is main's to close.      *)
LEMMA NextFile ==
    ASSUME CaptureInv, [Next]_vars
    PROVE  FileAccount'
<1>0. FileAccount /\ PhaseInv /\ CaptureTypeOK /\ DrainAccount
  BY DEF CaptureInv
<1>1. CASE ChildStep \/ ChildDies
  <2>1. UNCHANGED <<pc, task, out, file, stream, unguarded>>
    BY <1>1, ChildFrame
  <2>2. ASSUME NEW i \in 1..out.records
        PROVE  i \in 1..Len(produced) /\ produced'[i] = produced[i]
    <3>1. out.records \in Nat /\ Len(pipe) \in Nat /\ i \in 1..Len(produced)
      BY <1>0 DEF CaptureTypeOK, StdoutDrain, DrainAccount
    <3>2. CASE UNCHANGED <<pipe, produced>>
      BY <3>1, <3>2
    <3>3. CASE ~ UNCHANGED <<pipe, produced>>
      <4>1. PICK kind \in Kinds : produced' = Append(produced, kind)
        BY <1>1, <3>3, ChildFrame
      <4> QED
        BY <1>0, <3>1, <4>1 DEF CaptureTypeOK
    <3> QED
      BY <3>2, <3>3
  <2> QED
    BY <1>0, <2>1, <2>2 DEF FileAccount, HasUsable, Watching
<1>2. CASE KeepRecord /\ task = "capture"
  <2>1. /\ UNCHANGED <<pc, task, produced, stream, unguarded, produced>>
        /\ out.state = "reading" /\ stream = "open" /\ ReadRecord
        /\ ~out.bad /\ ~out.io /\ Head(pipe) # "bad"
        /\ file' = Append(file, Head(pipe))
    BY <1>2 DEF KeepRecord, ReadRecord
  <2>2. /\ out'.records = out.records + 1
        /\ out'.bad = out.bad /\ out'.io = out.io
        /\ out'.usable <=> out.usable \/ Head(pipe) = "usable"
    BY <1>0, <1>2 DEF KeepRecord, CaptureTypeOK, StdoutDrain
  <2>3. /\ file \in Seq(Kinds) /\ file # NoFile /\ Head(pipe) \in Kinds
        /\ Head(pipe) = produced[out.records + 1]
    BY <1>0, <2>1, OneRead DEF FileAccount, CaptureTypeOK
  <2>4. /\ Len(file') = Len(file) + 1
        /\ file' \in Seq(Kinds)
        /\ \A i \in 1..Len(file) : file'[i] = file[i]
        /\ file'[Len(file) + 1] = Head(pipe)
        /\ Len(file) \in Nat
    BY <2>1, <2>3
  <2>5. file' # NoFile
    BY <2>4, NoFileIsNoRecords
  <2>6. HasUsable(file') <=> HasUsable(file) \/ Head(pipe) = "usable"
    BY <2>4 DEF HasUsable
  <2>7. ASSUME Len(file) = out.records,
               \A i \in 1..Len(file) : file[i] = produced[i] /\ file[i] # "bad"
        PROVE  /\ Len(file') = out'.records
               /\ \A i \in 1..Len(file') : file'[i] = produced'[i] /\ file'[i] # "bad"
    BY <2>1, <2>2, <2>3, <2>4, <2>7
  <2>8. pc # "begin" /\ pc # "create" /\ pc # "creating" /\ pc # "spawn"
    BY <1>0, <2>1 DEF PhaseInv, FileAccount, Quiet, Watching, Leaving
  <2> QED
    BY <1>0, <1>2, <2>1, <2>2, <2>5, <2>6, <2>7, <2>8 DEF FileAccount, Watching
<1>3. CASE /\ OutStep \/ ErrStep \/ ReadFails
           /\ ~(KeepRecord /\ task = "capture")
  <2>1. UNCHANGED <<pc, task, produced, stream, unguarded>>
    BY <1>3, DrainFrame
  <2>2. /\ file' = file
        /\ ~out'.bad /\ ~out'.io => ~out.bad /\ ~out.io
    BY <1>3, DrainFrame DEF OutStep, ErrStep, ReadFails, Discard, RejectRecord,
       KeepRecord, WriteFails, WriteAfterClose, EndOfRecords, DrainNoise, EndOfNoise
  <2>3. task = "capture" /\ stream = "open" /\ ~out'.bad /\ ~out'.io =>
           out'.records = out.records /\ out'.usable = out.usable
    BY <1>0, <1>3 DEF OutStep, ErrStep, ReadFails, Discard, RejectRecord,
       KeepRecord, WriteFails, WriteAfterClose, EndOfRecords, DrainNoise,
       EndOfNoise, CaptureTypeOK, StdoutDrain
  <2> QED
    BY <1>0, <2>1, <2>2, <2>3 DEF FileAccount, Watching
<1>4. CASE Begin \/ Create
  BY <1>0, <1>4 DEF Begin, Create, FileAccount, Watching
<1>5. CASE Created
  <2>1. /\ pc = "creating" /\ stream' = "open" /\ task' = "capture"
        /\ pc' = IF outcome = "clean_empty" THEN "flush" ELSE "spawn"
        /\ UNCHANGED <<file, out, produced, unguarded>>
    BY <1>5 DEF Created
  <2>2. file = <<>> /\ file # NoFile
    BY <1>0, <2>1, NoFileIsNoRecords DEF FileAccount
  <2>4. Len(file) = 0 /\ ~HasUsable(file)
    BY <2>2 DEF HasUsable
  <2>3. outcome = "clean_empty" => out.records = 0 /\ ~out.usable
    BY <1>0, <2>1 DEF PhaseInv, DrainAccount
  <2> QED
    BY <2>1, <2>2, <2>3, <2>4 DEF FileAccount, Watching
<1>6. CASE Spawn
  <2>1. CASE pc' = "spawned"
    <3>1. /\ pc = "spawn" /\ out' = IdleOut /\ UNCHANGED <<task, fileVars, unguarded>>
      BY <1>6, <2>1 DEF Spawn
    <3>2. task = "capture" => /\ file = <<>> /\ Len(file) = 0 /\ ~HasUsable(file)
                              /\ stream = "open"
      BY <1>0, <3>1 DEF FileAccount, HasUsable
    <3> QED
      BY <1>0, <2>1, <3>1, <3>2 DEF FileAccount, Watching, IdleOut, CaptureTypeOK
  <2>2. CASE pc' # "spawned"
    <3>1. pc = "spawn" /\ pc' = "cleanup" /\ UNCHANGED <<task, fileVars, unguarded>>
      BY <1>6, <2>2 DEF Spawn
    <3> QED
      BY <1>0, <3>1 DEF FileAccount, Watching, CaptureTypeOK
  <2> QED
    BY <2>1, <2>2
<1>7. CASE StartThreads
  <2>1. /\ pc = "spawned" /\ pc' = "waiting"
        /\ UNCHANGED <<task, file, stream, produced, unguarded>>
        /\ out'.bad = out.bad /\ out'.io = out.io
        /\ out'.records = out.records /\ out'.usable = out.usable
    BY <1>0, <1>7 DEF StartThreads, CaptureTypeOK, StdoutDrain
  <2> QED
    BY <1>0, <2>1 DEF FileAccount, Watching
<1>8. CASE Watches \/ Judges
  <2>1. /\ pc \in Watching \cup {"judging"}
        /\ pc' \in Watching \cup {"judging", "create", "flush", "cleanup"}
        /\ pc' = "create" => task = "probe"
        /\ pc' = "flush" => task = "capture"
        /\ UNCHANGED <<task, file, stream, produced, out, unguarded>>
    BY <1>8 DEF Watches, Poll, CheckFailure, Terminate, Join, Judges, JudgeProbe,
                JudgeCapture, Watching
  <2> QED
    BY <1>0, <2>1 DEF FileAccount, Watching, CaptureTypeOK
<1>9. CASE Publish \/ Leaves
  <2>1. /\ pc \in {"flush", "using", "cleanup", "unlinking"}
        /\ pc' \in {"using", "cleanup", "unlinking", "closed"}
        /\ pc = "unlinking" <=> pc' = "closed"
        /\ pc = "cleanup" <=> pc' = "unlinking"
        /\ stream' = "open" => stream = "open" /\ pc # "cleanup"
        /\ stream' = "none" => stream = "none" /\ pc' # "using"
        /\ pc # "unlinking" => file' = file
        /\ UNCHANGED unguarded
    BY <1>9 DEF Publish, Leaves, EndSession, Unregister, Remove
  <2>2. pc = "unlinking" => stream' = stream
    BY <1>9 DEF Publish, Leaves, EndSession, Unregister, Remove
  <2> QED
    BY <1>0, <2>1, <2>2 DEF FileAccount, Watching
<1>10. CASE Interrupt
  <2>1. /\ pc' \in Watching \cup {"cleanup", "closed"}
        /\ pc' \in Watching => pc \in Watching
        /\ pc # "begin"
        /\ pc' = "cleanup" /\ ~unguarded' =>
              pc \in {"create", "spawn", "judging", "flush", "using"}
        /\ UNCHANGED <<task, file, stream, produced, out>>
        /\ unguarded => unguarded'
    BY <1>0, <1>10 DEF Interrupt, Watching, CaptureTypeOK
  <2> QED
    BY <1>0, <2>1 DEF FileAccount, Watching, CaptureTypeOK
<1>11. CASE UNCHANGED vars
  BY <1>0, <1>11 DEF vars, FileAccount
<1> QED
  BY <1>1, <1>2, <1>3, <1>4, <1>5, <1>6, <1>7, <1>8, <1>9, <1>10, <1>11
     DEF Next, MainStep, Watches, Judges, Leaves

(* Main goes on from a child only when it is reaped and drained.           *)
LEMMA NextPhase ==
    ASSUME CaptureInv, [Next]_vars
    PROVE  PhaseInv'
<1> USE DEF Watching, Leaving, Quiet
<1>0. PhaseInv /\ ChoiceInv /\ CaptureTypeOK
  BY DEF CaptureInv
<1>1. CASE ChildStep \/ ChildDies
  <2>1. /\ UNCHANGED <<pc, task, unguarded, error, outcome, out, err>>
        /\ child.state \in {"running", "closed"}
    BY <1>1, ChildFrame
  <2> QED
    BY <1>0, <2>1 DEF PhaseInv, SucceededChild
<1>2. CASE OutStep \/ ErrStep \/ ReadFails
  <2>1. /\ UNCHANGED <<pc, task, unguarded, error, outcome, child, produced>>
        /\ out.state # "reading" => out' = out
        /\ err.state # "reading" => err' = err
    BY <1>2, DrainFrame
  <2>2. out.state = "reading" \/ err.state = "reading"
    BY <1>2 DEF OutStep, ErrStep, ReadFails, ReadRecord, Discard, RejectRecord,
                KeepRecord, WriteFails, WriteAfterClose, EndOfRecords, DrainNoise,
                EndOfNoise
  <2> QED
    BY <1>0, <2>1, <2>2 DEF PhaseInv, SucceededChild
<1>3. CASE Begin \/ Create \/ Created
  BY <1>0, <1>3 DEF Begin, Create, Created, PhaseInv, ChoiceInv, SucceededChild,
                    JournalErrors
<1>4. CASE Spawn
  <2>1. /\ pc = "spawn" /\ UNCHANGED <<unguarded, task, outcome>>
        /\ \/ pc' = "spawned" /\ UNCHANGED error
           \/ pc' = "cleanup" /\ UNCHANGED <<childVars, drainVars>>
    BY <1>4 DEF Spawn
  <2> QED
    BY <1>0, <2>1 DEF PhaseInv
<1>5. CASE StartThreads
  BY <1>0, <1>5 DEF StartThreads, PhaseInv
<1>6. CASE Watches
  BY <1>0, <1>6 DEF Watches, Poll, CheckFailure, Terminate, Join, PhaseInv
<1>7. CASE JudgeProbe
  <2>1. /\ pc = "judging" /\ pc' \in {"cleanup", "create"}
        /\ UNCHANGED <<task, unguarded, child, out, err, produced>>
        /\ task = "probe"
        /\ pc' = "create" => ProbeVerdict = "none" /\ error' = error
        /\ outcome' # outcome => out.records = 0
    BY <1>7 DEF JudgeProbe
  <2>2. outcome = "none"
    BY <1>0, <2>1 DEF ChoiceInv
  <2>3. ProbeVerdict = "none" => child.code = "zero" /\ ~out.io /\ ~out.bad
    BY DEF ProbeVerdict, IOFailed
  <2>4. out.records = 0 /\ ProbeVerdict = "none" => produced = <<>>
    <3>1. SUFFICES ASSUME out.records = 0, ~out.io PROVE produced = <<>>
      BY <2>3
    <3>2. pipe = <<>> /\ Len(produced) = out.records + Len(pipe)
      BY <1>0, <2>1, <3>1 DEF PhaseInv, CaptureInv, DrainAccount
    <3> QED
      BY <1>0, <3>1, <3>2 DEF CaptureTypeOK
  <2> QED
    BY <1>0, <2>1, <2>2, <2>3, <2>4 DEF PhaseInv, SucceededChild
<1>8. CASE JudgeCapture
  <2>1. /\ pc = "judging" /\ pc' \in {"cleanup", "flush"}
        /\ UNCHANGED <<task, unguarded, child, out, err, produced, outcome>>
        /\ task = "capture"
        /\ pc' = "flush" => CaptureVerdict = "none" /\ error' = error
    BY <1>8 DEF JudgeCapture
  <2>2. CaptureVerdict = "none" => child.code = "zero" /\ ~out.io /\ ~out.bad
    BY DEF CaptureVerdict, IOFailed
  <2>3. outcome = "none"
    BY <1>0, <2>1 DEF ChoiceInv
  <2> QED
    BY <1>0, <2>1, <2>2, <2>3 DEF PhaseInv, SucceededChild
<1>9. CASE Publish \/ Leaves
  BY <1>0, <1>9 DEF Publish, Leaves, EndSession, Unregister, Remove, PhaseInv,
                    SucceededChild
<1>10. CASE Interrupt
  <2>1. /\ UNCHANGED <<child, out, err, task, outcome, produced>>
        /\ error' = "interrupt"
        /\ unguarded => unguarded'
    BY <1>10 DEF Interrupt
  <2>2. \/ pc \in Watching \ {"joining"} /\ ~unguarded' = ~unguarded
           /\ pc' \in {"terminating", "joining"}
        \/ pc' = "closed" /\ unguarded'
        \/ /\ pc' = "cleanup"
           /\ unguarded' \/ pc \in {"create", "spawn", "judging", "flush", "using"}
    BY <1>0, <1>10 DEF Interrupt, CaptureTypeOK
  <2> QED
    BY <1>0, <2>1, <2>2 DEF PhaseInv
<1>11. CASE UNCHANGED vars
  BY <1>0, <1>11 DEF vars, PhaseInv, SucceededChild
<1> QED
  BY <1>1, <1>2, <1>3, <1>4, <1>5, <1>6, <1>7, <1>8, <1>9, <1>10, <1>11
     DEF Next, MainStep, Watches, Leaves

(* Main signals the child only after a drain's failure or a ^C.            *)
LEMMA NextSignal ==
    ASSUME CaptureInv, [Next]_vars
    PROVE  SignalInv'
<1>0. SignalInv /\ PhaseInv /\ CaptureTypeOK
  BY DEF CaptureInv
<1>1. CASE ChildStep \/ ChildDies
  <2>1. UNCHANGED <<pc, killed, error>> /\ child'.signal = child.signal
    BY <1>1, ChildFrame
  <2> QED
    BY <1>0, <2>1 DEF SignalInv
<1>2. CASE OutStep \/ ErrStep \/ ReadFails
  <2>1. UNCHANGED <<pc, killed, error, child>>
    BY <1>2, DrainFrame
  <2> QED
    BY <1>0, <2>1 DEF SignalInv
<1>3. CASE Spawn
  <2>1. CASE pc' = "spawned"
    <3>1. ~killed' /\ child'.signal = "none"
      BY <1>3, <2>1 DEF Spawn, NoChild
    <3> QED
      BY <2>1, <3>1 DEF SignalInv
  <2>2. CASE pc' # "spawned"
    <3>1. pc = "spawn" /\ pc' = "cleanup" /\ UNCHANGED <<killed, child>>
      BY <1>3, <2>2 DEF Spawn
    <3> QED
      BY <1>0, <3>1 DEF SignalInv, PhaseInv, Leaving
  <2> QED
    BY <2>1, <2>2
<1>4. CASE Prepares
  BY <1>0, <1>4 DEF Prepares, Begin, Create, Created, StartThreads, SignalInv,
                    PhaseInv, Leaving
<1>5. CASE Poll \/ CheckFailure \/ Join
  BY <1>0, <1>5 DEF Poll, CheckFailure, Join, SignalInv
<1>6. CASE Terminate
  <2>1. /\ killed \/ error = "interrupt"
        /\ pc' \in {"termwait", "killwait", "joining"}
        /\ UNCHANGED <<killed, error>>
    BY <1>0, <1>6 DEF Terminate, SignalInv
  <2> QED
    BY <2>1 DEF SignalInv
<1>7. CASE Judges \/ Publish \/ Leaves
  <2>1. /\ UNCHANGED <<killed, child>>
        /\ pc' \in {"create", "flush", "using"} \cup Leaving
        /\ error = "interrupt" => error' = "interrupt" \/ pc \notin Leaving
    BY <1>7 DEF Judges, JudgeProbe, JudgeCapture, Publish, Leaves, EndSession,
                Unregister, Remove, Leaving
  <2>2. pc \in {"judging", "flush", "using"} \cup Leaving
    BY <1>7 DEF Judges, JudgeProbe, JudgeCapture, Publish, Leaves, EndSession,
                Unregister, Remove, Leaving
  <2> QED
    BY <1>0, <2>1, <2>2 DEF SignalInv, PhaseInv, Leaving
<1>8. CASE Interrupt
  <2>1. error' = "interrupt" /\ pc' \notin {"spawned", "waiting", "polled"}
    BY <1>0, <1>8 DEF Interrupt, CaptureTypeOK
  <2> QED
    BY <2>1 DEF SignalInv
<1>9. CASE UNCHANGED vars
  BY <1>0, <1>9 DEF vars, SignalInv
<1> QED
  BY <1>1, <1>2, <1>3, <1>4, <1>5, <1>6, <1>7, <1>8, <1>9
     DEF Next, MainStep, Prepares, Judges, Leaves

(* Nothing is published or chosen before a judgment.                       *)
LEMMA NextChoice ==
    ASSUME CaptureInv, [Next]_vars
    PROVE  ChoiceInv'
<1> USE DEF Watching, Leaving
<1>0. ChoiceInv /\ PhaseInv /\ CaptureTypeOK
  BY DEF CaptureInv
<1>1. CASE ChildStep \/ ChildDies
  <2>1. /\ UNCHANGED <<pc, provider, registered, outcome, error>>
        /\ child.state \in {"running", "closed"}
    BY <1>1, ChildFrame
  <2> QED
    BY <1>0, <2>1 DEF ChoiceInv
<1>2. CASE OutStep \/ ErrStep \/ ReadFails
  <2>1. UNCHANGED <<pc, provider, registered, outcome, error, child>>
    BY <1>2, DrainFrame
  <2> QED
    BY <1>0, <2>1 DEF ChoiceInv
<1>3. CASE Begin \/ Create \/ Created
  BY <1>0, <1>3 DEF Begin, Create, Created, ChoiceInv, JournalErrors
<1>4. CASE Spawn \/ StartThreads
  <2>1. /\ pc \in {"spawn", "spawned"}
        /\ UNCHANGED <<provider, registered, outcome>>
        /\ \/ pc' \in {"spawned", "waiting"} /\ UNCHANGED error
           \/ pc' = "cleanup" /\ error' = "unavailable"
    BY <1>4 DEF Spawn, StartThreads
  <2> QED
    BY <1>0, <2>1 DEF ChoiceInv, JournalErrors
<1>5. CASE Watches
  <2>1. /\ pc \in Watching
        /\ UNCHANGED <<provider, registered, outcome, error, child.state>>
        /\ \/ pc' \in {"judging"} \cup Watching
           \/ pc' = "cleanup" /\ error = "interrupt"
    BY <1>0, <1>5 DEF Watches, Poll, CheckFailure, Terminate, Join, CaptureTypeOK,
                      Child
  <2> QED
    BY <1>0, <2>1 DEF ChoiceInv
<1>6. CASE Judges
  <2>1. /\ pc = "judging" /\ UNCHANGED <<provider, registered>>
        /\ outcome' \in {outcome, "clean_empty"}
        /\ \/ pc' \in {"create", "flush"}
           \/ /\ pc' = "cleanup"
              /\ error' \in {ProbeVerdict, CaptureVerdict, "protocol"}
              /\ error' # "none"
    BY <1>6 DEF Judges, JudgeProbe, JudgeCapture
  <2>2. {ProbeVerdict, CaptureVerdict} \subseteq JournalErrors \cup {"none"}
    BY DEF ProbeVerdict, CaptureVerdict, JournalErrors
  <2> QED
    BY <1>0, <2>1, <2>2 DEF ChoiceInv, JournalErrors
<1>7. CASE Publish
  BY <1>0, <1>7 DEF Publish, ChoiceInv, PhaseInv, SucceededChild, JournalErrors
<1>8. CASE Leaves
  BY <1>0, <1>8 DEF Leaves, EndSession, Unregister, Remove, ChoiceInv, JournalErrors,
                    PhaseInv
<1>9. CASE Interrupt
  <2>1. /\ error' = "interrupt"
        /\ UNCHANGED <<provider, registered, outcome, child>>
        /\ \/ pc' \in Watching /\ pc \in Watching
           \/ pc' \in {"cleanup", "closed"}
    BY <1>0, <1>9 DEF Interrupt, CaptureTypeOK
  <2> QED
    BY <1>0, <2>1 DEF ChoiceInv
<1>10. CASE UNCHANGED vars
  BY <1>0, <1>10 DEF vars, ChoiceInv
<1> QED
  BY <1>1, <1>2, <1>3, <1>4, <1>5, <1>6, <1>7, <1>8, <1>9, <1>10
     DEF Next, MainStep, Watches, Judges, Leaves

(* The types.                                                              *)
LEMMA NextType ==
    ASSUME CaptureInv, [Next]_vars
    PROVE  CaptureTypeOK'
<1>0. CaptureTypeOK /\ PhaseInv /\ ChoiceInv
  BY DEF CaptureInv
<1>1. CASE ChildStep \/ ChildDies
  <2>1. /\ UNCHANGED <<inputVars, pc, task, error, killed, drainVars, fileVars,
                       historyVars>>
        /\ child' \in Child /\ noise' \in 0..PipeSize
    BY <1>1, ChildFrame
  <2>2. /\ pipe' \in Seq(Kinds) /\ Len(pipe') <= PipeSize
        /\ produced' \in Seq(Kinds) /\ Len(produced') <= MaxRecords + 1
    <3>1. CASE UNCHANGED <<pipe, produced>>
      BY <1>0, <3>1 DEF CaptureTypeOK
    <3>2. CASE ~ UNCHANGED <<pipe, produced>>
      <4>1. PICK kind \in Kinds :
               /\ pipe' = Append(pipe, kind) /\ produced' = Append(produced, kind)
               /\ Len(pipe) < PipeSize /\ Len(produced) < RecordLimit
        BY <1>1, <3>2, ChildFrame
      <4>2. Len(produced) < MaxRecords + 1
        BY <1>0, <4>1, CaptureBounds DEF RecordLimit, CaptureTypeOK
      <4> QED
        BY <1>0, <4>1, <4>2, OneMore
    <3> QED
      BY <3>1, <3>2
  <2> QED
    BY <1>0, <2>1, <2>2 DEF CaptureTypeOK
<1>2. CASE OutStep \/ ErrStep \/ ReadFails
  <2>1. /\ UNCHANGED <<inputVars, pc, task, error, killed, child, produced,
                       stream, registered, outcome, provider, historyVars>>
        /\ out' \in StdoutDrain /\ err' \in StderrDrain
        /\ pipe' \in Seq(Kinds) /\ Len(pipe') <= PipeSize
        /\ noise' \in 0..PipeSize /\ failure' \in BOOLEAN
    BY <1>2, DrainFrame
  <2>2. file' = NoFile \/ file' \in Seq(Kinds)
    <3>1. CASE file' = file
      BY <1>0, <3>1 DEF CaptureTypeOK
    <3>2. CASE file' # file
      <4>1. KeepRecord /\ task = "capture" /\ stream = "open"
        BY <1>2, <3>2 DEF OutStep, ErrStep, ReadFails, Discard, RejectRecord,
           KeepRecord, WriteFails, WriteAfterClose, EndOfRecords, DrainNoise,
           EndOfNoise
      <4>2. file \in Seq(Kinds) /\ Head(pipe) \in Kinds
        BY <1>0, <4>1, OneRead DEF CaptureInv, FileAccount, CaptureTypeOK, KeepRecord
      <4> QED
        BY <4>1, <4>2 DEF KeepRecord
    <3> QED
      BY <3>1, <3>2
  <2> QED
    BY <1>0, <2>1, <2>2 DEF CaptureTypeOK
<1>3. CASE Begin \/ Create \/ Created
  <2>1. /\ UNCHANGED <<inputVars, killed, childVars, drainVars, registered, outcome,
                       provider, historyVars>>
        /\ pc \in {"begin", "create", "creating"}
        /\ pc' \in {"cleanup", "spawn", "create", "creating", "flush"}
        /\ error' \in {error, "missing", "io"}
        /\ task' \in {task, "probe", "capture"}
        /\ file' \in {file, <<>>} /\ stream' \in {stream, "open"}
    BY <1>3 DEF Begin, Create, Created, Raise
  <2>2. ~registered
    BY <1>0, <2>1 DEF ChoiceInv, Leaving
  <2>3. <<>> \in Seq(Kinds)
    OBVIOUS
  <2>4. error' \in JournalErrors \cup {"none", "session", "interrupt"}
    BY <1>0, <2>1 DEF CaptureTypeOK, JournalErrors
  <2>5. file' = NoFile \/ file' \in Seq(Kinds)
    BY <1>0, <2>1, <2>3 DEF CaptureTypeOK
  <2> QED
    BY <1>0, <2>1, <2>2, <2>4, <2>5 DEF CaptureTypeOK
<1>4. CASE Spawn
  <2>1. /\ UNCHANGED <<inputVars, task, fileVars, historyVars>>
        /\ pc' \in {"spawned", "cleanup"}
        /\ error' \in {error, "unavailable"}
        /\ killed' \in {killed, FALSE} /\ failure' \in {failure, FALSE}
        /\ pipe' \in {pipe, <<>>} /\ produced' \in {produced, <<>>}
        /\ noise' \in {noise, 0}
        /\ out' \in {out, IdleOut} /\ err' \in {err, IdleErr}
    BY <1>4 DEF Spawn
  <2>2. ~registered
    BY <1>0, <1>4 DEF Spawn, ChoiceInv, Leaving
  <2>3. child' \in Child
    <3>1. CASE child' = child
      BY <1>0, <3>1 DEF CaptureTypeOK
    <3>2. CASE child' # child
      <4>1. PICK step \in NextStep(0, 0) :
               child' = [NoChild EXCEPT !.state = "running", !.next = step]
        BY <1>4, <3>2 DEF Spawn
      <4>2. step \in {"out", "err", "exit"} /\ 0 \in 0..MaxNoise
        BY CaptureBounds DEF NextStep
      <4> QED
        BY <4>1, <4>2 DEF NoChild, Child
    <3> QED
      BY <3>1, <3>2
  <2>4. /\ IdleOut \in StdoutDrain /\ IdleErr \in StderrDrain
        /\ <<>> \in Seq(Kinds) /\ Len(<<>>) = 0 /\ 0 \in 0..PipeSize
        /\ 0 <= PipeSize /\ 0 <= MaxRecords + 1
    BY PipeAssumption, CaptureBounds DEF IdleOut, IdleErr, StdoutDrain, StderrDrain
  <2>5. error' \in JournalErrors \cup {"none", "session", "interrupt"}
    BY <1>0, <2>1 DEF CaptureTypeOK, JournalErrors
  <2>6. /\ pipe' \in Seq(Kinds) /\ Len(pipe') <= PipeSize
        /\ produced' \in Seq(Kinds) /\ Len(produced') <= MaxRecords + 1
    BY <1>0, <2>1, <2>4 DEF CaptureTypeOK
  <2>7. /\ noise' \in 0..PipeSize /\ killed' \in BOOLEAN /\ failure' \in BOOLEAN
        /\ out' \in StdoutDrain /\ err' \in StderrDrain
    BY <1>0, <2>1, <2>4 DEF CaptureTypeOK
  <2>8. /\ mode' = mode /\ windowed' = windowed /\ task' = task
        /\ file' = file /\ stream' = stream /\ registered' = registered
        /\ outcome' = outcome /\ provider' = provider
        /\ interrupts' = interrupts /\ unguarded' = unguarded /\ stuck' = stuck
    BY <2>1
  <2> QED
    BY <1>0, <2>1, <2>2, <2>3, <2>5, <2>6, <2>7, <2>8 DEF CaptureTypeOK
<1>5. CASE StartThreads
  <2>1. out' \in StdoutDrain /\ err' \in StderrDrain
    BY <1>0, <1>5 DEF StartThreads, CaptureTypeOK, StdoutDrain, StderrDrain
  <2> QED
    BY <1>0, <1>5, <2>1 DEF StartThreads, CaptureTypeOK, ChoiceInv, Leaving
<1>6. CASE Watches
  <2>1. child' \in Child
    BY <1>0, <1>6 DEF Watches, Poll, CheckFailure, Terminate, Join, CaptureTypeOK,
                      Child
  <2> QED
    BY <1>0, <1>6, <2>1 DEF Watches, Poll, CheckFailure, Terminate, Join,
                            CaptureTypeOK, ChoiceInv, Watching, Leaving
<1>7. CASE Judges
  <2>1. /\ UNCHANGED <<inputVars, task, killed, childVars, drainVars, file, stream,
                       registered, provider, historyVars>>
        /\ pc = "judging" /\ pc' \in {"cleanup", "create", "flush"}
        /\ error' \in {error, ProbeVerdict, CaptureVerdict, "protocol"}
        /\ outcome' \in {outcome, "clean_empty"}
    BY <1>7 DEF Judges, JudgeProbe, JudgeCapture
  <2>2. {ProbeVerdict, CaptureVerdict} \subseteq JournalErrors \cup {"none"}
    BY DEF ProbeVerdict, CaptureVerdict, JournalErrors
  <2>3. error' \in JournalErrors \cup {"none", "session", "interrupt"}
    BY <1>0, <2>1, <2>2 DEF CaptureTypeOK, JournalErrors
  <2>4. ~registered
    BY <1>0, <2>1 DEF ChoiceInv, Leaving
  <2> QED
    BY <1>0, <2>1, <2>3, <2>4 DEF CaptureTypeOK
<1>8. CASE Publish
  <2>1. Outcome \in {"ready", "clean_empty", "no_usable"}
    BY DEF Outcome
  <2>2. /\ UNCHANGED <<inputVars, historyVars, task, killed, childVars, drainVars,
                       file>>
        /\ pc' \in {"cleanup", "using"} /\ error' \in {error, "io"}
        /\ stream' \in {stream, "closed"} /\ registered' \in {registered, TRUE}
        /\ outcome' \in {outcome, Outcome}
        /\ provider' \in {provider, "journal", "files"}
    BY <1>8 DEF Publish, Raise
  <2>3. error' \in JournalErrors \cup {"none", "session", "interrupt"}
    BY <1>0, <2>2 DEF CaptureTypeOK, JournalErrors
  <2>4. /\ outcome' \in {"none", "ready", "clean_empty", "no_usable"}
        /\ registered' \in BOOLEAN
    BY <1>0, <2>1, <2>2 DEF CaptureTypeOK
  <2> QED
    BY <1>0, <2>2, <2>3, <2>4 DEF CaptureTypeOK
<1>9. CASE Leaves
  <2>1. /\ UNCHANGED <<inputVars, task, killed, childVars, drainVars, outcome,
                       interrupts, unguarded>>
        /\ pc' \in {"cleanup", "unlinking", "closed"}
        /\ error' \in {error, "none", "session", "io"}
        /\ file' \in {file, NoFile} /\ stream' \in {stream, "closed"}
        /\ registered' \in {registered, FALSE}
        /\ provider' \in {provider, "files"} /\ stuck' \in {stuck, TRUE}
    BY <1>9 DEF Leaves, EndSession, Unregister, Remove
  <2>2. registered' => pc' = "cleanup"
    BY <1>0, <1>9 DEF Leaves, EndSession, Unregister, Remove, ChoiceInv
  <2>3. error' \in JournalErrors \cup {"none", "session", "interrupt"}
    BY <1>0, <2>1 DEF CaptureTypeOK, JournalErrors
  <2>4. file' = NoFile \/ file' \in Seq(Kinds)
    BY <1>0, <2>1 DEF CaptureTypeOK
  <2>5. registered' \in BOOLEAN /\ stuck' \in BOOLEAN
    BY <1>0, <2>1 DEF CaptureTypeOK
  <2> QED
    BY <1>0, <2>1, <2>2, <2>3, <2>4, <2>5 DEF CaptureTypeOK
<1>10. CASE Interrupt
  <2>1. /\ UNCHANGED <<inputVars, task, killed, childVars, drainVars, fileVars,
                       stuck>>
        /\ error' = "interrupt" /\ interrupts' \in 0..MaxInterrupts
        /\ unguarded' \in BOOLEAN
    BY <1>0, <1>10, CaptureBounds DEF Interrupt, CaptureTypeOK
  <2>2. /\ pc' \in {"terminating", "joining", "cleanup", "closed"}
        /\ pc' \in {"terminating", "joining"} => pc \in Watching
        /\ pc' = "closed" => unguarded'
    BY <1>0, <1>10 DEF Interrupt, CaptureTypeOK, Watching
  <2>3. registered' => pc' \in {"using", "cleanup"} \/ unguarded'
    BY <1>0, <2>1, <2>2 DEF ChoiceInv, CaptureTypeOK, Watching, Leaving
  <2>4. /\ pc' \in {"begin", "create", "creating", "spawn", "spawned", "waiting",
               "polled", "terminating", "termwait", "killwait", "joining",
               "judging", "flush", "using", "cleanup", "unlinking", "closed"}
        /\ error' \in JournalErrors \cup {"none", "session", "interrupt"}
    BY <2>1, <2>2
  <2>5. /\ UNCHANGED <<mode, windowed, task, killed, child, pipe, noise, produced,
                       out, err, failure, file, stream, registered, outcome,
                       provider, stuck>>
    BY <2>1
  <2> QED
    BY <1>0, <2>1, <2>3, <2>4, <2>5 DEF CaptureTypeOK
<1>11. CASE UNCHANGED vars
  BY <1>0, <1>11 DEF vars, CaptureTypeOK
<1> QED
  BY <1>1, <1>2, <1>3, <1>4, <1>5, <1>6, <1>7, <1>8, <1>9, <1>10, <1>11
     DEF Next, MainStep, Watches, Judges, Leaves

-----------------------------------------------------------------------------
(* The safety properties, step by step *)

(* The file published is all of a successful child's output.               *)
LEMMA NextComplete ==
    ASSUME CaptureInv, [Next]_vars
    PROVE  RegisteredCaptureIsComplete'
<1>0. /\ RegisteredCaptureIsComplete /\ ChoiceInv /\ PhaseInv /\ FileAccount
      /\ DrainAccount /\ CaptureTypeOK
  BY DEF CaptureInv
<1>1. CASE ChildStep \/ ChildDies
  <2>1. ~registered' 
    BY <1>0, <1>1, ChildFrame DEF ChoiceInv
  <2> QED
    BY <2>1 DEF RegisteredCaptureIsComplete
<1>2. CASE OutStep \/ ErrStep \/ ReadFails
  <2>1. /\ UNCHANGED <<child, produced, registered, outcome>>
        /\ out.state # "reading" => UNCHANGED <<out, file>>
    BY <1>2, DrainFrame
  <2> QED
    BY <1>0, <2>1 DEF RegisteredCaptureIsComplete
<1>3. CASE Prepares \/ Spawn \/ Watches \/ Judges
  <2>1. ~registered'
    BY <1>0, <1>3 DEF Prepares, Begin, Create, Created, StartThreads, Spawn, Watches,
       Poll, CheckFailure, Terminate, Join, Judges, JudgeProbe, JudgeCapture,
       ChoiceInv, Watching, Leaving
  <2> QED
    BY <2>1 DEF RegisteredCaptureIsComplete
<1>4. CASE Publish
  <2>1. CASE registered'
    <3>1. /\ pc = "flush" /\ registered' /\ outcome' = Outcome
          /\ UNCHANGED <<childVars, drainVars, file>>
      BY <1>0, <1>4, <2>1 DEF Publish, ChoiceInv, Leaving
    <3>2. SucceededChild /\ task = "capture" /\ stream = "open"
      BY <1>0, <3>1 DEF PhaseInv, FileAccount
    <3>3. /\ Len(file) = out.records
          /\ \A i \in 1..Len(file) : file[i] = produced[i] /\ file[i] # "bad"
          /\ out.usable <=> HasUsable(file)
          /\ file \in Seq(Kinds)
      BY <1>0, <3>1, <3>2 DEF FileAccount, SucceededChild, CaptureTypeOK
    <3>4. Len(produced) = Len(file) /\ produced \in Seq(Kinds)
      <4>1. pipe = <<>> /\ Len(produced) = out.records + Len(pipe)
        BY <1>0, <3>2 DEF DrainAccount, SucceededChild
      <4> QED
        BY <1>0, <3>3, <4>1 DEF CaptureTypeOK
    <3>5. file = produced
      BY <3>3, <3>4
    <3>6. file = <<>> <=> out.records = 0
      BY <3>3
    <3>7. outcome = "clean_empty" => out.records = 0
      BY <1>0, <3>1 DEF PhaseInv
    <3>8. /\ Outcome = "clean_empty" <=> file = <<>>
          /\ Outcome = "ready" <=> HasUsable(file)
      BY <1>0, <3>3, <3>6, <3>7 DEF Outcome, DrainAccount
    <3> QED
      BY <3>1, <3>2, <3>3, <3>5, <3>8 DEF RegisteredCaptureIsComplete, SucceededChild
  <2>2. CASE ~registered'
    BY <2>2 DEF RegisteredCaptureIsComplete
  <2> QED
    BY <2>1, <2>2
<1>5. CASE Leaves \/ Interrupt \/ UNCHANGED vars
  <2>1. /\ registered' => registered /\ file' = file
        /\ UNCHANGED <<childVars, drainVars, outcome>>
    BY <1>0, <1>5 DEF Leaves, EndSession, Unregister, Remove, Interrupt, vars,
                      ChoiceInv
  <2> QED
    BY <1>0, <2>1 DEF RegisteredCaptureIsComplete
<1> QED
  BY <1>1, <1>2, <1>3, <1>4, <1>5
     DEF Next, MainStep, Prepares, Watches, Judges, Leaves

(* The provider and the error say what happened.                           *)
LEMMA NextReport ==
    ASSUME CaptureInv, [Next]_vars, RegisteredCaptureIsComplete'
    PROVE  CaptureIsReportedAsItWas'
<1>0. /\ ProviderFollowsCapture /\ OwnKillIsNotBlamed
      /\ ChoiceInv /\ PhaseInv /\ SignalInv /\ DrainAccount /\ FileAccount
      /\ CaptureTypeOK /\ RegisteredCaptureIsComplete
  BY DEF CaptureInv, CaptureIsReportedAsItWas
<1>1. ProviderFollowsCapture'
  <2>1. CASE ChildStep \/ ChildDies
    <3>1. UNCHANGED <<pc, mode, provider, outcome, error, file>>
      BY <2>1, ChildFrame
    <3> QED
      BY <1>0, <3>1 DEF ProviderFollowsCapture
  <2>2. CASE OutStep \/ ErrStep \/ ReadFails
    <3>1. /\ UNCHANGED <<pc, mode, provider, outcome, error>>
          /\ out.state # "reading" => file' = file
      BY <2>2, DrainFrame
    <3>2. pc = "using" => out.state # "reading"
      BY <1>0 DEF PhaseInv, Quiet, Watching, Leaving
    <3> QED
      BY <1>0, <3>1, <3>2 DEF ProviderFollowsCapture
  <2>3. CASE Prepares \/ Spawn \/ Watches \/ Judges
    <3>1. pc' # "using" /\ pc' # "closed" /\ provider' = "none"
      BY <1>0, <2>3 DEF Prepares, Begin, Create, Created, StartThreads, Spawn,
         Watches, Poll, CheckFailure, Terminate, Join, Judges, JudgeProbe,
         JudgeCapture, ChoiceInv, Watching, Leaving
    <3> QED
      BY <3>1 DEF ProviderFollowsCapture
  <2>4. CASE Publish
    <3>1. CASE pc' = "using"
      <4>1. /\ registered' /\ outcome' = Outcome /\ mode' = mode
            /\ provider' = IF mode = "journal" \/ Outcome = "ready"
                           THEN "journal" ELSE "files"
        BY <2>4, <3>1 DEF Publish
      <4>2. outcome' = "ready" => HasUsable(file')
        BY <4>1 DEF RegisteredCaptureIsComplete
      <4> QED
        BY <1>0, <3>1, <4>1, <4>2 DEF ProviderFollowsCapture, CaptureTypeOK
    <3>2. CASE pc' # "using"
      <4>1. pc' = "cleanup" /\ UNCHANGED provider /\ provider = "none"
        BY <1>0, <2>4, <3>2 DEF Publish, ChoiceInv, Leaving
      <4> QED
        BY <4>1 DEF ProviderFollowsCapture
    <3> QED
      BY <3>1, <3>2
  <2>5. CASE EndSession \/ Unregister
    <3>1. UNCHANGED <<provider, outcome, mode>> /\ pc' \in {"cleanup", "unlinking"}
      BY <2>5 DEF EndSession, Unregister
    <3> QED
      BY <1>0, <3>1 DEF ProviderFollowsCapture
  <2>6. CASE Remove
    <3>1. /\ pc = "unlinking" /\ pc' = "closed" /\ UNCHANGED <<outcome, mode>>
          /\ error' = error \/ error = "none"
          /\ provider' = IF mode = "auto" /\ provider = "none" /\ error \in JournalErrors
                         THEN "files" ELSE provider
      BY <2>6 DEF Remove
    <3> QED
      BY <1>0, <3>1 DEF ProviderFollowsCapture, ChoiceInv, CaptureTypeOK, JournalErrors
  <2>7. CASE Interrupt
    <3>1. UNCHANGED <<provider, outcome, mode>> /\ error' = "interrupt" /\ pc' # "using"
      BY <1>0, <2>7 DEF Interrupt, CaptureTypeOK
    <3> QED
      BY <1>0, <3>1 DEF ProviderFollowsCapture
  <2>8. CASE UNCHANGED vars
    BY <1>0, <2>8 DEF vars, ProviderFollowsCapture
  <2> QED
    BY <2>1, <2>2, <2>3, <2>4, <2>5, <2>6, <2>7, <2>8
       DEF Next, MainStep, Prepares, Watches, Judges
<1>2. OwnKillIsNotBlamed'
  <2>1. CASE ChildStep \/ ChildDies
    <3>1. UNCHANGED error /\ child'.signal = child.signal
      BY <2>1, ChildFrame
    <3> QED
      BY <1>0, <3>1 DEF OwnKillIsNotBlamed
  <2>2. CASE OutStep \/ ErrStep \/ ReadFails
    <3>1. UNCHANGED <<error, child>>
      BY <2>2, DrainFrame
    <3> QED
      BY <1>0, <3>1 DEF OwnKillIsNotBlamed
  <2>3. CASE Judges
    <3>1. /\ UNCHANGED child
          /\ error' \in {error, ProbeVerdict, CaptureVerdict, "protocol"}
          /\ pc = "judging"
      BY <2>3 DEF Judges, JudgeProbe, JudgeCapture
    <3>2. killed => out.bad \/ IOFailed
      BY <1>0 DEF DrainAccount
    <3>3. killed => ProbeVerdict # "process" /\ CaptureVerdict # "process"
      BY <3>2 DEF ProbeVerdict, CaptureVerdict
    <3>4. error = "none"
      BY <1>0, <3>1 DEF PhaseInv, Leaving
    <3> QED
      BY <1>0, <3>1, <3>3, <3>4 DEF SignalInv, OwnKillIsNotBlamed
  <2>4. CASE Terminate
    <3>1. error' = error /\ error \in {"none", "interrupt"}
      BY <1>0, <2>4 DEF Terminate, PhaseInv, Leaving
    <3> QED
      BY <3>1 DEF OwnKillIsNotBlamed
  <2>5. CASE Spawn
    <3>1. \/ error' = error /\ error \in {"none", "interrupt"}
          \/ error' = "unavailable"
      BY <1>0, <2>5 DEF Spawn, PhaseInv, Leaving
    <3> QED
      BY <3>1 DEF OwnKillIsNotBlamed
  <2>6. CASE \/ Prepares \/ Poll \/ CheckFailure \/ Join \/ Publish \/ Leaves
             \/ Interrupt \/ UNCHANGED vars
    <3>1. /\ UNCHANGED child
          /\ error' \in {error, "missing", "io", "none", "session", "interrupt"}
      BY <2>6 DEF Prepares, Begin, Create, Created, StartThreads, Poll, CheckFailure,
         Join, Publish, Leaves, EndSession, Unregister, Remove, Interrupt, vars
    <3> QED
      BY <1>0, <3>1 DEF OwnKillIsNotBlamed
  <2> QED
    BY <2>1, <2>2, <2>3, <2>4, <2>5, <2>6
       DEF Next, MainStep, Prepares, Judges, Leaves
<1> QED
  BY <1>1, <1>2 DEF CaptureIsReportedAsItWas

(* The end.                                                                *)
LEMMA NextLeavesNothing ==
    ASSUME CaptureInv, [Next]_vars
    PROVE  CaptureLeavesNothing'
<1>0. /\ CaptureLeavesNothing /\ ChoiceInv /\ PhaseInv /\ FileAccount
      /\ CaptureTypeOK
  BY DEF CaptureInv
<1>1. CASE pc' # "closed" \/ unguarded'
  BY <1>1 DEF CaptureLeavesNothing
<1>2. CASE Remove /\ ~unguarded'
  <2>1. /\ pc = "unlinking" /\ ~unguarded /\ UNCHANGED <<registered, childVars, drainVars>>
        /\ \/ file' = IF stream = "none" THEN file ELSE NoFile
           \/ stuck'
    BY <1>2 DEF Remove
  <2>2. Quiet /\ ~registered
    BY <1>0, <2>1 DEF PhaseInv, ChoiceInv, Watching
  <2> QED
    BY <1>0, <2>1, <2>2 DEF CaptureLeavesNothing, FileAccount, Quiet
<1>3. CASE /\ pc = "closed" /\ pc' = "closed" /\ ~unguarded'
           /\ UNCHANGED <<registered, file, stuck, unguarded, child, out, err>>
  BY <1>0, <1>3 DEF CaptureLeavesNothing
<1>4. CASE ChildStep \/ ChildDies
  <2>1. /\ UNCHANGED <<pc, unguarded>> /\ child.state \in {"running", "closed"}
    BY <1>4, ChildFrame
  <2> QED
    BY <1>0, <2>1 DEF CaptureLeavesNothing
<1>5. CASE OutStep \/ ErrStep \/ ReadFails
  <2>1. /\ UNCHANGED <<pc, unguarded, registered, child, stuck>>
        /\ out.state # "reading" => UNCHANGED <<out, file>>
        /\ err.state # "reading" => UNCHANGED err
    BY <1>5, DrainFrame
  <2> QED
    BY <1>0, <2>1 DEF CaptureLeavesNothing
<1>6. CASE Prepares \/ Spawn \/ Watches \/ Judges \/ Publish \/ EndSession \/ Unregister
  <2>1. pc' # "closed"
    BY <1>6 DEF Prepares, Begin, Create, Created, StartThreads, Spawn, Watches, Poll,
       CheckFailure, Terminate, Join, Judges, JudgeProbe, JudgeCapture, Publish,
       EndSession, Unregister
  <2> QED
    BY <2>1 DEF CaptureLeavesNothing
<1>7. CASE Interrupt
  <2>1. pc' = "closed" => unguarded'
    BY <1>0, <1>7 DEF Interrupt, CaptureTypeOK
  <2> QED
    BY <2>1 DEF CaptureLeavesNothing
<1>8. CASE UNCHANGED vars
  BY <1>0, <1>8 DEF vars, CaptureLeavesNothing
<1> QED
  BY <1>1, <1>2, <1>4, <1>5, <1>6, <1>7, <1>8
     DEF Next, MainStep, Prepares, Watches, Judges

-----------------------------------------------------------------------------
(* The theorems *)

(* Before anything is started.                                             *)
LEMMA InitCapture == Init => CaptureInv
<1> SUFFICES ASSUME Init PROVE CaptureInv
  OBVIOUS
<1>1. CaptureTypeOK
  <2>1. /\ NoChild \in Child /\ IdleOut \in StdoutDrain /\ IdleErr \in StderrDrain
        /\ 0 \in 0..PipeSize /\ 0 \in 0..MaxInterrupts
        /\ 0 <= PipeSize /\ 0 <= MaxRecords + 1
    BY PipeAssumption, CaptureBounds
       DEF NoChild, IdleOut, IdleErr, Child, StdoutDrain, StderrDrain
  <2>2. <<>> \in Seq(Kinds) /\ Len(<<>>) = 0
    OBVIOUS
  <2> QED
    BY <2>1, <2>2 DEF Init, CaptureTypeOK
<1>2. ChildBound /\ DrainAccount
  BY DEF Init, ChildBound, DrainAccount, NoChild, IdleOut, IdleErr, IOFailed
<1>3. FileAccount /\ PhaseInv
  BY DEF Init, FileAccount, PhaseInv, Watching, Leaving, Quiet, NoChild, IdleOut,
         IdleErr
<1>4. SignalInv /\ ChoiceInv
  BY DEF Init, SignalInv, ChoiceInv, Watching, Leaving, NoChild
<1>5. RegisteredCaptureIsComplete /\ CaptureIsReportedAsItWas /\ CaptureLeavesNothing
  BY DEF Init, RegisteredCaptureIsComplete, CaptureIsReportedAsItWas,
         ProviderFollowsCapture, OwnKillIsNotBlamed, CaptureLeavesNothing
<1> QED
  BY <1>1, <1>2, <1>3, <1>4, <1>5 DEF CaptureInv

(* However the threads, the child, its failures and the user's ^C fall,    *)
(* the account of the records, the file and the phases is kept             *)
(* (_capture_main, prepare_journal_capture).                               *)
THEOREM CaptureInvariant == Spec => []CaptureInv
<1>1. CaptureInv /\ [Next]_vars => CaptureInv'
  BY NextType, NextChildBound, NextDrain, NextFile, NextPhase, NextSignal,
     NextChoice, NextComplete, NextReport, NextLeavesNothing DEF CaptureInv
<1> QED
  BY <1>1, InitCapture, PTL DEF Spec

(* What the loader may open is the whole output of a child that succeeded. *)
THEOREM CompleteCaptureOnly == Spec => []RegisteredCaptureIsComplete
<1>1. CaptureInv => RegisteredCaptureIsComplete
  BY DEF CaptureInv
<1> QED
  BY <1>1, CaptureInvariant, PTL

(* The provider follows from it, and main's own kill is not blamed on the  *)
(* child (arbitrate_syslog_capture, "parent_terminated").                  *)
THEOREM CaptureIsReported == Spec => []CaptureIsReportedAsItWas
<1>1. CaptureInv => CaptureIsReportedAsItWas
  BY DEF CaptureInv
<1> QED
  BY <1>1, CaptureInvariant, PTL

(* No file, child or thread is left but by a ^C in one of the places that  *)
(* have no handler, or by a failing unlink.                                *)
THEOREM NothingIsLeft == Spec => []CaptureLeavesNothing
<1>1. CaptureInv => CaptureLeavesNothing
  BY DEF CaptureInv
<1> QED
  BY <1>1, CaptureInvariant, PTL
=============================================================================
