---------------------------- MODULE SnapshotFold ----------------------------
(***************************************************************************)
(* One pass over live log files (common/loader/fold.py).                   *)
(*                                                                         *)
(* build_source_snapshot records, file by file, an identity, a readable    *)
(* prefix and its hash; execute_sink_plan then reads each file once and    *)
(* hands its rows to several independent sinks and to the frame or the     *)
(* admission filter, committing a file to all of them only if it is still  *)
(* the file of the snapshot after its last row.  Meanwhile daemons append, *)
(* and rotation replaces, truncates, rewrites and removes the files.       *)
(*                                                                         *)
(* Abstractions.  A row stands for a chunk of complete rows, all of them   *)
(* in the report window.  A write brings content that was not there before *)
(* (its time stamp), so equal hashes mean equal content; an inode number,  *)
(* though, may be used again.  One hash of a file is one look at it.       *)
(***************************************************************************)
EXTENDS Integers, FiniteSets

CONSTANTS
    NFiles,      \* selected files, in order
    Compressed,  \* those with a .gz, .bz2 or .xz suffix
    Sinks,       \* the plan's folds
    InPlace,     \* sinks that fold into shared state, and roll it back
    Plans,       \* what becomes of the rows: "none", "frame" or "admit"
    Inodes,      \* inode numbers
    Gone,        \* no file
    Closed,      \* no file is open
    Linked,      \* the open file is the one its path names
    MaxRows,     \* bound: rows in a file
    MaxChanges   \* bound: changes to the files

Files == 1..NFiles

ASSUME FoldAssumption ==
    /\ NFiles \in Nat
    /\ Compressed \subseteq Files
    /\ InPlace \subseteq Sinks
    /\ Plans \subseteq {"none", "frame", "admit"}
    /\ MaxRows \in Nat \ {0}
    /\ MaxChanges \in Nat

(* A file: mtime is the stamp of its last write, content the stamp of each *)
(* row.  A SnapshotFile: prefix is content_sha256, size is readable_bytes. *)
Stamps == 0..MaxChanges
Content == UNION {[1..n -> Stamps] : n \in 0..MaxRows}
File == [inode: Inodes, mtime: Stamps, content: Content]
SnapshotFile == [inode: Inodes, mtime: Stamps, size: 0..MaxRows,
                 prefix: Content]
Row == Files \X (1..MaxRows) \X Stamps

ASSUME SentinelAssumption ==
    Gone \notin File /\ Closed # Linked /\ {Closed, Linked} \cap Content = {}

VARIABLES
    fs,         \* the files
    changes,    \* changes so far
    pc,         \* the loader
    current,    \* the file it is at
    snapshot,   \* SourceSnapshot: a SnapshotFile for each file
    handle,     \* the open file: Closed, Linked, or content no path names
    row,        \* the next row to read
    plan,       \* what becomes of the rows
    status,     \* PreparedStatus of each sink
    admission,  \* PreparedStatus of the admission filter
    run,        \* run_states: the rows folded
    delta,      \* file_deltas
    checkpoint, \* what an InPlace sink goes back to
    frame,      \* rows kept
    fileFrame,  \* rows of the current file kept
    committed,  \* file_outcomes.committed
    aborted,    \* file_outcomes.aborted
    attempted,  \* attempted_files
    skipped,    \* history: files a strategy rejected
    mutated     \* history: a SnapshotMutationError ended the pass

fsVars == <<fs, changes>>
readVars == <<handle, row>>
sinkVars == <<status, run, delta, checkpoint>>
frameVars == <<admission, frame, fileFrame>>
countVars == <<committed, aborted, attempted, skipped, mutated>>
vars == <<fsVars, pc, current, snapshot, plan, readVars, sinkVars, frameVars,
          countVars>>

-----------------------------------------------------------------------------
Lost == {"abstained", "failed"}
NotTaken == [inode |-> Gone, mtime |-> 0, size |-> 0, prefix |-> <<>>]

Size(content) == Cardinality(DOMAIN content)
Prefix(content, n) == [i \in 1..n |-> content[i]]
ReadySinks == {s \in Sinks : status[s] = "ready"}

InodesOf(S) == {fs[g].inode : g \in {h \in S : fs[h] # Gone}}

(* The rows of file f that the snapshot stands for.                        *)
RowsOf(f) == {<<f, i, snapshot[f].prefix[i]>> : i \in 1..snapshot[f].size}
CommittedRows == UNION {RowsOf(f) : f \in committed}

Init ==
    /\ fs \in [Files -> {[inode |-> i, mtime |-> 0, content |-> [k \in 1..n |-> 0]] :
                            i \in Inodes, n \in 1..MaxRows}]
    /\ \A f, g \in Files : f # g => fs[f].inode # fs[g].inode
    /\ changes = 0
    /\ pc = "stat"
    /\ current = 1
    /\ snapshot = [f \in Files |-> NotTaken]
    /\ handle = Closed
    /\ row = 1
    /\ plan \in Plans
    /\ status = [s \in Sinks |-> "ready"]
    /\ admission = "ready"
    /\ run = [s \in Sinks |-> {}]
    /\ delta = [s \in Sinks |-> {}]
    /\ checkpoint = [s \in Sinks |-> {}]
    /\ frame = {}
    /\ fileFrame = {}
    /\ committed = {}
    /\ aborted = {}
    /\ attempted = 0
    /\ skipped = {}
    /\ mutated = FALSE

-----------------------------------------------------------------------------
(* The log files (external: daemons and rotation), until the pass is over. *)

Changed(f, file) ==
    /\ changes < MaxChanges
    /\ pc \notin {"done", "raised"}
    /\ changes' = changes + 1
    /\ fs' = [fs EXCEPT ![f] = file]
    /\ UNCHANGED <<pc, current, snapshot, plan, row, sinkVars, frameVars,
                   countVars>>

(* The same inode: appended to, rewritten from some row on, or truncated.  *)
WriteFile(f) ==
    /\ fs[f] # Gone
    /\ \E kept \in 0..Size(fs[f].content), n \in 0..MaxRows :
          /\ kept <= n
          /\ n # Size(fs[f].content) \/ kept # n
          /\ Changed(f, [inode |-> fs[f].inode, mtime |-> changes + 1,
                         content |-> [i \in 1..n |->
                             IF i <= kept THEN fs[f].content[i] ELSE changes + 1]])
    /\ UNCHANGED handle

(* Another file takes the name, or none; an open handle keeps the old one. *)
Unlinked(f) ==
    handle' = IF handle = Linked /\ f = current THEN fs[f].content ELSE handle

ReplaceFile(f) ==
    /\ \E n \in 0..MaxRows, i \in Inodes :
          /\ i \notin InodesOf(Files \ {f})
          /\ Changed(f, [inode |-> i, mtime |-> changes + 1,
                         content |-> [k \in 1..n |-> changes + 1]])
    /\ IF fs[f] = Gone THEN UNCHANGED handle ELSE Unlinked(f)

RemoveFile(f) ==
    /\ fs[f] # Gone
    /\ Changed(f, Gone)
    /\ Unlinked(f)

-----------------------------------------------------------------------------
(* build_source_snapshot: stat and find the readable boundary, then hash   *)
(* that many bytes and look at the identity again.  An exception here ends *)
(* the load.                                                               *)

StatFile ==
    /\ pc = "stat"
    /\ current <= NFiles
    /\ IF fs[current] = Gone
       THEN pc' = "raised" /\ UNCHANGED snapshot
       ELSE /\ snapshot' = [snapshot EXCEPT ![current] =
                   [inode |-> fs[current].inode, mtime |-> fs[current].mtime,
                    size |-> Size(fs[current].content), prefix |-> <<>>]]
            /\ pc' = "hash"
    /\ UNCHANGED <<fsVars, current, plan, readVars, sinkVars, frameVars,
                   countVars>>

(* _verify_snapshot_identity: a plain file may have grown, a compressed    *)
(* one must not have been written at all.                                  *)
SameIdentity(f) ==
    /\ fs[f].inode = snapshot[f].inode
    /\ IF f \in Compressed
       THEN /\ Size(fs[f].content) = snapshot[f].size
            /\ fs[f].mtime = snapshot[f].mtime
       ELSE Size(fs[f].content) >= snapshot[f].size

HashFile ==
    /\ pc = "hash"
    /\ IF fs[current] = Gone \/ ~SameIdentity(current)
       THEN pc' = "raised" /\ UNCHANGED <<snapshot, current>>
       ELSE /\ snapshot' = [snapshot EXCEPT ![current].prefix =
                   Prefix(fs[current].content, snapshot[current].size)]
            /\ current' = current + 1
            /\ pc' = "stat"
    /\ UNCHANGED <<fsVars, plan, readVars, sinkVars, frameVars, countVars>>

SnapshotTaken ==
    /\ pc = "stat"
    /\ current > NFiles
    /\ current' = 1
    /\ pc' = "file"
    /\ UNCHANGED <<fsVars, snapshot, plan, readVars, sinkVars, frameVars,
                   countVars>>

-----------------------------------------------------------------------------
(* execute_sink_plan *)

(* Mutant: the content is not hashed again.                                *)
VerifiedUnhashed(f) == SameIdentity(f)

(* verify_snapshot_file: the identity, and the captured prefix.            *)
Verified(f) ==
    /\ SameIdentity(f)
    /\ Prefix(fs[f].content, snapshot[f].size) = snapshot[f].prefix

(* Mutant: a rollback to the beginning of the run.                         *)
RollBackAll(failing) ==
    /\ run' = [s \in Sinks |->
           IF s \in InPlace \cap ReadySinks THEN {} ELSE run[s]]
    /\ status' = [s \in Sinks |-> IF s \in failing THEN "failed" ELSE status[s]]

(* abort_file: the ready sinks that have a rollback roll back; one whose   *)
(* rollback raises has failed.                                             *)
RollBack(failing) ==
    /\ run' = [s \in Sinks |->
           IF s \in failing THEN {}
           ELSE IF s \in InPlace \cap ReadySinks THEN checkpoint[s]
           ELSE run[s]]
    /\ status' = [s \in Sinks |-> IF s \in failing THEN "failed" ELSE status[s]]

NextFile ==
    /\ pc' = "file"
    /\ current' = current + 1
    /\ row' = 1
    /\ handle' = Closed
    /\ fileFrame' = {}
    /\ delta' = [s \in Sinks |-> {}]
    /\ checkpoint' = [s \in Sinks |-> {}]

AbortFile ==
    /\ aborted' = aborted \cup {current}
    /\ \E failing \in SUBSET (InPlace \cap ReadySinks) : RollBack(failing)
    /\ NextFile
    /\ UNCHANGED <<fsVars, snapshot, plan, admission, frame, committed, mutated>>

(* An OSError, a decoding error: the file counts as attempted.             *)
FileFails == AbortFile /\ UNCHANGED <<attempted, skipped>>

(* Mutant: the sinks that were ready stay ready.                           *)
FailPassKeepsSinks ==
    /\ aborted' = aborted \cup {current}
    /\ mutated' = TRUE
    /\ run' = [s \in Sinks |-> {}]
    /\ IF plan = "admit"
       THEN /\ frame' = {}
            /\ admission' = "failed"
       ELSE UNCHANGED <<frame, admission>>
    /\ handle' = Closed
    /\ fileFrame' = {}
    /\ pc' = "done"
    /\ UNCHANGED <<fsVars, current, snapshot, plan, row, status, delta,
                   checkpoint, committed, attempted, skipped>>

(* Mutant: the rows admitted so far are kept.                              *)
FailPassKeepsFrame ==
    /\ aborted' = aborted \cup {current}
    /\ mutated' = TRUE
    /\ run' = [s \in Sinks |-> {}]
    /\ status' = [s \in Sinks |-> IF s \in ReadySinks THEN "failed" ELSE status[s]]
    /\ admission' = IF plan = "admit" THEN "failed" ELSE admission
    /\ handle' = Closed
    /\ fileFrame' = {}
    /\ pc' = "done"
    /\ UNCHANGED <<fsVars, current, snapshot, plan, row, frame, delta,
                   checkpoint, committed, attempted, skipped>>

(* SnapshotMutationError: no sink and no admission survives it.            *)
FailPass ==
    /\ aborted' = aborted \cup {current}
    /\ mutated' = TRUE
    /\ run' = [s \in Sinks |-> {}]
    /\ status' = [s \in Sinks |-> IF s \in ReadySinks THEN "failed" ELSE status[s]]
    /\ IF plan = "admit"
       THEN /\ frame' = {}
            /\ admission' = "failed"
       ELSE UNCHANGED <<frame, admission>>
    /\ handle' = Closed
    /\ fileFrame' = {}
    /\ pc' = "done"
    /\ UNCHANGED <<fsVars, current, snapshot, plan, row, delta, checkpoint,
                   committed, attempted, skipped>>

BeginFile ==
    /\ pc = "file"
    /\ current <= NFiles
    /\ attempted' = attempted + 1
    /\ checkpoint' = [s \in Sinks |-> IF s \in InPlace \cap ReadySinks THEN run[s]
                                      ELSE {}]
    /\ pc' = "check"
    /\ UNCHANGED <<fsVars, current, snapshot, plan, readVars, status, run,
                   delta, frameVars, committed, aborted, skipped, mutated>>

(* The identity before anything is opened, the captured content before the *)
(* first row (open_snapshot_text) and after the last.                      *)
Check(at, Fine, next) ==
    /\ pc = at
    /\ \/ fs[current] = Gone /\ FileFails
       \/ fs[current] # Gone /\ ~Fine /\ FailPass
       \/ /\ fs[current] # Gone
          /\ Fine
          /\ pc' = next
          /\ UNCHANGED <<fsVars, current, snapshot, plan, readVars, sinkVars,
                         frameVars, countVars>>

CheckIdentity == Check("check", SameIdentity(current), "verify")
VerifyBefore == Check("verify", Verified(current), "open")

OpenFile ==
    /\ pc = "open"
    /\ \/ fs[current] = Gone /\ FileFails
       \/ /\ fs[current] # Gone
          /\ handle' = Linked
          /\ pc' = "read"
          /\ UNCHANGED <<fsVars, current, snapshot, plan, row, sinkVars,
                         frameVars, countVars>>

(* Mutant: a rejected file counts as attempted.                            *)
SkipFileCounted ==
    /\ pc = "read"
    /\ row = 1
    /\ AbortFile
    /\ attempted' = attempted
    /\ skipped' = skipped \cup {current}

(* _SkippedSourceFile: the strategy does not take this file.               *)
SkipFile ==
    /\ pc = "read"
    /\ row = 1
    /\ AbortFile
    /\ attempted' = attempted - 1
    /\ skipped' = skipped \cup {current}

Opened == IF handle = Linked THEN fs[current].content ELSE handle

(* A plain file is read up to the readable boundary, whatever its size is  *)
(* now; a compressed one to its end.                                       *)
More ==
    /\ row \in DOMAIN Opened
    /\ current \in Compressed \/ row <= snapshot[current].size

DecodeFails ==
    /\ pc = "read"
    /\ More
    /\ FileFails

(* One row for everybody still ready.  Admission may raise, and then takes *)
(* the frame with it; a sink may abstain (its delta is too large, or it    *)
(* says so) or raise, and is then alone out.                               *)
ReadRow ==
    /\ pc = "read"
    /\ More
    /\ LET r == <<current, row, Opened[row]>> IN
       /\ \/ /\ plan # "none" /\ admission = "ready"
             /\ fileFrame' = fileFrame \cup {r}
             /\ UNCHANGED <<admission, frame>>
          \/ /\ plan = "admit" /\ admission = "ready"
             /\ admission' = "failed"
             /\ frame' = {}
             /\ fileFrame' = {}
          \/ /\ plan = "none" \/ admission # "ready"
             /\ UNCHANGED <<admission, frame, fileFrame>>
       /\ \E out \in SUBSET ReadySinks, how \in Lost :
             /\ status' = [s \in Sinks |-> IF s \in out THEN how ELSE status[s]]
             /\ delta' = [s \in Sinks |->
                    IF s \in (ReadySinks \ out) \ InPlace THEN delta[s] \cup {r}
                    ELSE delta[s]]
             /\ run' = [s \in Sinks |->
                    IF s \in out THEN {}
                    ELSE IF s \in ReadySinks \cap InPlace THEN run[s] \cup {r}
                    ELSE run[s]]
    /\ row' = row + 1
    /\ UNCHANGED <<fsVars, pc, current, snapshot, plan, handle, checkpoint,
                   countVars>>

EndOfFile ==
    /\ pc = "read"
    /\ ~More
    /\ handle' = Closed
    /\ pc' = "eof"
    /\ UNCHANGED <<fsVars, current, snapshot, plan, row, sinkVars, frameVars,
                   countVars>>

VerifyAfter == Check("eof", Verified(current), "commit")

(* A clean end: the file counts for everybody still ready.  A sink whose   *)
(* commit raises is alone out.                                             *)
CommitFile ==
    /\ pc = "commit"
    /\ frame' = frame \cup fileFrame
    /\ committed' = committed \cup {current}
    /\ \E out \in SUBSET ReadySinks, how \in Lost :
          /\ status' = [s \in Sinks |-> IF s \in out THEN how ELSE status[s]]
          /\ run' = [s \in Sinks |->
                 IF s \in out THEN {}
                 ELSE IF s \in ReadySinks THEN run[s] \cup delta[s] ELSE run[s]]
    /\ NextFile
    /\ UNCHANGED <<fsVars, snapshot, plan, admission, aborted, attempted,
                   skipped, mutated>>

Finish ==
    /\ pc = "file"
    /\ current > NFiles
    /\ pc' = "done"
    /\ UNCHANGED <<fsVars, current, snapshot, plan, readVars, sinkVars,
                   frameVars, countVars>>

(* FoldExecution.results: the channels that are still ready.               *)
Results == [s \in ReadySinks |-> run[s]]

Change == \E f \in Files : WriteFile(f) \/ ReplaceFile(f) \/ RemoveFile(f)

Load ==
    \/ StatFile
    \/ HashFile
    \/ SnapshotTaken
    \/ BeginFile
    \/ CheckIdentity
    \/ VerifyBefore
    \/ OpenFile
    \/ SkipFile
    \/ DecodeFails
    \/ ReadRow
    \/ EndOfFile
    \/ VerifyAfter
    \/ CommitFile
    \/ Finish

Next == Change \/ Load

Spec == Init /\ [][Next]_vars

-----------------------------------------------------------------------------
(* Type invariant.                                                         *)
FoldTypeOK ==
    /\ fs \in [Files -> File \cup {Gone}]
    /\ changes \in 0..MaxChanges
    /\ pc \in {"stat", "hash", "file", "check", "verify", "open", "read",
               "eof", "commit", "done", "raised"}
    /\ current \in 1..(NFiles + 1)
    /\ pc \in {"hash", "check", "verify", "open", "read", "eof", "commit"} =>
           current \in Files
    /\ snapshot \in [Files -> SnapshotFile \cup {NotTaken}]
    /\ handle \in {Closed, Linked} \cup Content
    /\ row \in 1..(MaxRows + 1)
    /\ plan \in {"none", "frame", "admit"}
    /\ status \in [Sinks -> {"ready"} \cup Lost]
    /\ admission \in {"ready"} \cup Lost
    /\ run \in [Sinks -> SUBSET Row]
    /\ delta \in [Sinks -> SUBSET Row]
    /\ checkpoint \in [Sinks -> SUBSET Row]
    /\ frame \subseteq Row
    /\ fileFrame \subseteq Row
    /\ committed \subseteq Files
    /\ aborted \subseteq Files
    /\ attempted \in 0..NFiles
    /\ skipped \subseteq Files
    /\ mutated \in BOOLEAN

(* Between files, every sink that is still ready has folded exactly the    *)
(* rows that the snapshot has for the committed files: no torn file, no    *)
(* row of a later version, nothing of an aborted file, and the same files  *)
(* for all sinks (execute_sink_plan's file-local transactions).            *)
SinksAgree ==
    pc \in {"file", "done"} =>
        \A s \in ReadySinks : run[s] = CommittedRows

(* So does the frame, mutation or not; the frame of an admission that is   *)
(* out is empty, never a part.                                             *)
FrameIsCommitted ==
    frame = IF plan = "none" \/ admission # "ready" THEN {} ELSE CommittedRows

(* A file that changed under the pass costs every result, and is neither   *)
(* committed nor counted as read.                                          *)
MutationCostsAll ==
    mutated => /\ pc = "done"
               /\ DOMAIN Results = {}
               /\ plan = "admit" => admission # "ready" /\ frame = {}
               /\ current \in aborted

(* Every attempted file ends in one of two ways, and the counters of       *)
(* LoadQuality tell how many.                                              *)
OutcomesPartition ==
    /\ committed \cap aborted = {}
    /\ skipped \subseteq aborted
    /\ pc \in {"file", "done"} =>
           attempted = Cardinality(committed) + Cardinality(aborted \ skipped)
    /\ pc = "done" /\ ~mutated => committed \cup aborted = Files

(* A sink that is out stays out, and what a ready sink has of the files    *)
(* before the current one is never lost or altered.                        *)
OutIsForGood ==
    [][\A s \in Sinks :
          /\ ~(status[s] = "ready") => status'[s] = status[s]
          /\ status'[s] = "ready" =>
                 {r \in run[s] : r[1] \in committed} \subseteq run'[s]]_vars

(* The inductive invariant behind these.  File f is Intact if it still has *)
(* every row of its snapshot; once it is not it never is again, a write    *)
(* being newer than the snapshot.  So what was read of a file that is      *)
(* Intact after its last row, and nothing else, is what the snapshot has.  *)
InFile == pc \in {"check", "verify", "open", "read", "eof", "commit"}
Hashed(f) == pc \notin {"stat", "hash", "raised"} \/ f < current

Intact(f) ==
    LET prefix == snapshot[f].prefix IN
    IF f \in Compressed
    THEN /\ fs[f] # Gone
         /\ fs[f].mtime = snapshot[f].mtime
         /\ fs[f].content = prefix
    ELSE \A i \in 1..snapshot[f].size :
            /\ fs[f] # Gone
            /\ i \in DOMAIN fs[f].content
            /\ fs[f].content[i] = prefix[i]

(* The rows before the next one, as the snapshot has them.                 *)
RowsRead == {<<current, i, snapshot[current].prefix[i]>> : i \in 1..(row - 1)}

(* No stamp is in the future, and a hashed prefix has the captured size.   *)
StampsPast ==
    \A f \in Files :
        /\ snapshot[f].mtime <= changes
        /\ \A i \in DOMAIN snapshot[f].prefix : snapshot[f].prefix[i] <= changes
        /\ fs[f] # Gone => /\ fs[f].mtime <= changes
                           /\ \A i \in DOMAIN fs[f].content :
                                  fs[f].content[i] <= changes
        /\ Hashed(f) => /\ snapshot[f] \in SnapshotFile
                        /\ DOMAIN snapshot[f].prefix = 1..snapshot[f].size

(* Where the pass is.                                                      *)
PassProgress ==
    /\ InFile => attempted \in 1..current
    /\ pc = "file" => attempted \in 0..(current - 1)
    /\ pc \in {"stat", "hash"} => attempted = 0 /\ committed = {}
    /\ pc \notin {"read", "eof", "commit", "done"} => row = 1 /\ fileFrame = {}
    /\ \A f \in committed : f < current
    /\ mutated => pc = "done"
    /\ pc = "read" => handle # Closed
    /\ pc = "read" /\ handle = Linked => fs[current] # Gone
    /\ pc = "read" /\ handle # Linked /\ Intact(current) =>
           current \notin Compressed /\ snapshot[current].size = 0
    /\ pc \in {"read", "eof"} /\ Intact(current) =>
           row - 1 <= snapshot[current].size
    /\ pc = "eof" /\ Intact(current) => row - 1 = snapshot[current].size
    /\ pc = "commit" => row - 1 = snapshot[current].size

(* What each ready sink, and the frame, have of which files.               *)
KnownRows ==
    \/ pc = "commit"
    \/ pc \in {"read", "eof"} /\ Intact(current)

SinkContents ==
    \A s \in ReadySinks :
        /\ s \notin InPlace => run[s] = CommittedRows
        /\ pc \notin {"read", "eof", "commit"} =>
               run[s] = CommittedRows /\ delta[s] = {}
        /\ InFile /\ s \in InPlace =>
               /\ checkpoint[s] = CommittedRows
               /\ delta[s] = {}
               /\ CommittedRows \subseteq run[s]
               /\ \A r \in run[s] : r \in CommittedRows \/ r[1] = current
        /\ KnownRows => IF s \in InPlace
                        THEN run[s] = CommittedRows \cup RowsRead
                        ELSE delta[s] = RowsRead

FrameContents ==
    /\ FrameIsCommitted
    /\ plan = "none" \/ admission # "ready" => fileFrame = {}
    /\ plan # "none" /\ admission = "ready" /\ KnownRows => fileFrame = RowsRead

FoldInv ==
    /\ FoldTypeOK
    /\ StampsPast
    /\ PassProgress
    /\ SinkContents
    /\ FrameContents
    /\ MutationCostsAll

(* Behind the counters: the files before the current one are accounted     *)
(* for, and attempted counts the current one as soon as it is begun.       *)
OutcomeInv ==
    /\ committed \cap aborted = {}
    /\ skipped \subseteq aborted
    /\ pc \in {"stat", "hash", "raised"} =>
           attempted = 0 /\ committed = {} /\ aborted = {}
    /\ InFile \/ pc \in {"file", "done"} =>
           /\ committed \cup aborted = 1..(IF mutated THEN current ELSE current - 1)
           /\ attempted = Cardinality(committed) + Cardinality(aborted \ skipped)
                              + (IF InFile THEN 1 ELSE 0)
    /\ pc = "done" /\ ~mutated => current = NFiles + 1
=============================================================================
