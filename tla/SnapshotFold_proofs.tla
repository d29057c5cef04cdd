------------------------ MODULE SnapshotFold_proofs ------------------------
(***************************************************************************)
(* Whatever happens to the files during the pass, and however many files,  *)
(* sinks and rows there are, every sink that is still ready has folded     *)
(* exactly the snapshot's rows of the committed files.                     *)
(*                                                                         *)
(* The rows are compared with the snapshot only through a hash taken after *)
(* the last row was read, so the argument is about time: a file that once  *)
(* differed from its snapshot differs for good (IntactOnlyBefore), so one  *)
(* that agrees after the last row agreed while each row was read.          *)
(***************************************************************************)
EXTENDS SnapshotFold, FiniteSetTheorems, TLAPS

USE FoldAssumption DEF Files

-----------------------------------------------------------------------------
(* The size of a content is the number of its rows.                        *)
LEMMA SizeOfContent ==
    ASSUME NEW content \in Content
    PROVE  /\ Size(content) \in 0..MaxRows
           /\ DOMAIN content = 1..Size(content)
           /\ content \in [1..Size(content) -> Stamps]
<1>1. PICK n \in 0..MaxRows : content \in [1..n -> Stamps]
  BY DEF Content
<1>2. Cardinality(1..n) = n
  BY <1>1, FS_Interval
<1>3. DOMAIN content = 1..n
  BY <1>1
<1> QED
  BY <1>1, <1>2, <1>3 DEF Size

(* An empty file has a content.                                            *)
LEMMA EmptyContent == <<>> \in Content
<1>1. <<>> \in [1..0 -> Stamps] /\ 0 \in 0..MaxRows
  OBVIOUS
<1> QED
  BY <1>1 DEF Content

(* Every row of a content has a stamp.                                     *)
LEMMA RowsHaveStamps ==
    ASSUME NEW content \in Content, NEW i \in DOMAIN content
    PROVE  content[i] \in Stamps
BY DEF Content

(* A captured prefix is a content of its own, of the captured size.        *)
LEMMA PrefixOfContent ==
    ASSUME NEW content \in Content, NEW n \in 0..Size(content)
    PROVE  /\ Prefix(content, n) \in Content
           /\ DOMAIN Prefix(content, n) = 1..n
           /\ \A i \in 1..n : Prefix(content, n)[i] = content[i]
<1>1. /\ Size(content) \in 0..MaxRows
      /\ content \in [1..Size(content) -> Stamps]
  BY SizeOfContent
<1>2. n \in 0..MaxRows
  BY <1>1
<1>3. Prefix(content, n) \in [1..n -> Stamps]
  BY <1>1, <1>2 DEF Prefix
<1> QED
  BY <1>2, <1>3 DEF Prefix, Content

(* A file that verify_snapshot_file accepts still has every row of its     *)
(* snapshot.                                                               *)
LEMMA VerifiedIsIntact ==
    ASSUME FoldInv, NEW f \in Files, Hashed(f), fs[f] # Gone, Verified(f)
    PROVE  Intact(f)
<1> DEFINE content == fs[f].content
           size == snapshot[f].size
<1>1. /\ fs[f] \in File
      /\ content \in Content
      /\ snapshot[f] \in SnapshotFile
      /\ size \in 0..MaxRows
      /\ DOMAIN snapshot[f].prefix = 1..size
  BY DEF FoldInv, FoldTypeOK, StampsPast, File, SnapshotFile
<1>2. /\ Size(content) \in 0..MaxRows
      /\ DOMAIN content = 1..Size(content)
      /\ content \in [1..Size(content) -> Stamps]
  BY <1>1, SizeOfContent
<1>3. CASE f \in Compressed
  <2>1. Size(content) = size /\ fs[f].mtime = snapshot[f].mtime
    BY <1>3 DEF Verified, SameIdentity
  <2>2. Prefix(content, size) = content
    BY <1>2, <2>1 DEF Prefix
  <2> QED
    BY <1>3, <2>1, <2>2 DEF Verified, Intact
<1>4. CASE f \notin Compressed
  <2>1. size <= Size(content)
    BY <1>1, <1>2, <1>4 DEF Verified, SameIdentity
  <2>2. size \in 0..Size(content)
    BY <1>1, <1>2, <2>1
  <2>3. \A i \in 1..size : snapshot[f].prefix[i] = content[i]
    BY <1>1, <2>2, PrefixOfContent DEF Verified
  <2>4. \A i \in 1..size : i \in DOMAIN content
    BY <1>1, <1>2, <2>1
  <2> HIDE DEF content, size
  <2> QED
    BY <1>4, <2>3, <2>4 DEF Intact, content, size
<1> QED
  BY <1>3, <1>4

-----------------------------------------------------------------------------
(* Changes to the files *)

(* What every change to file f leaves alone, and the file it leaves.       *)
ChangeOf(f) ==
    \E file \in File \cup {Gone} :
        /\ Changed(f, file)
        /\ file # Gone =>
              /\ file.mtime = changes + 1
              /\ \A i \in DOMAIN file.content :
                    \/ file.content[i] = changes + 1
                    \/ /\ fs[f] # Gone
                       /\ i \in DOMAIN fs[f].content
                       /\ file.content[i] = fs[f].content[i]
        /\ \/ UNCHANGED handle
           \/ Unlinked(f)

(* A content is one by its rows.                                           *)
LEMMA ContentIntro ==
    ASSUME NEW n \in 0..MaxRows, NEW content \in [1..n -> Stamps]
    PROVE  content \in Content /\ DOMAIN content = 1..n
BY DEF Content

(* A write keeps the first rows and brings the others, new.                *)
LEMMA WriteIsChange ==
    ASSUME FoldInv, NEW f \in Files, WriteFile(f)
    PROVE  ChangeOf(f) /\ UNCHANGED handle /\ fs'[f] # Gone
<1>1. PICK kept \in 0..Size(fs[f].content), n \in 0..MaxRows :
         /\ kept <= n
         /\ Changed(f, [inode |-> fs[f].inode, mtime |-> changes + 1,
                        content |-> [i \in 1..n |->
                            IF i <= kept THEN fs[f].content[i] ELSE changes + 1]])
  BY DEF WriteFile
<1> DEFINE new == [i \in 1..n |->
                      IF i <= kept THEN fs[f].content[i] ELSE changes + 1]
           file == [inode |-> fs[f].inode, mtime |-> changes + 1, content |-> new]
<1>2. fs[f] \in File /\ fs[f] # Gone /\ UNCHANGED handle
  BY DEF WriteFile, FoldInv, FoldTypeOK
<1>3. fs[f].content \in Content /\ fs[f].inode \in Inodes
  BY <1>2 DEF File
<1>4. /\ Size(fs[f].content) \in Nat
      /\ DOMAIN fs[f].content = 1..Size(fs[f].content)
      /\ fs[f].content \in [1..Size(fs[f].content) -> Stamps]
  BY <1>3, SizeOfContent
<1>5. changes + 1 \in Stamps
  BY <1>1 DEF Changed, Stamps, FoldInv, FoldTypeOK
<1>6. \A i \in 1..n : i <= kept => /\ i \in DOMAIN fs[f].content
                                   /\ fs[f].content[i] \in Stamps
  BY <1>4
<1>7. new \in [1..n -> Stamps]
  BY <1>5, <1>6
<1>8. file \in File
  BY <1>3, <1>5, <1>7, ContentIntro DEF File
<1>9. \A i \in DOMAIN new : \/ new[i] = changes + 1
                            \/ /\ i \in DOMAIN fs[f].content
                               /\ new[i] = fs[f].content[i]
  BY <1>6
<1> HIDE DEF new
<1>10. fs'[f] = file
  BY <1>1 DEF Changed, FoldInv, FoldTypeOK, new
<1> QED
  BY <1>1, <1>2, <1>8, <1>9, <1>10, SentinelAssumption DEF ChangeOf, new

(* A file that takes the name is new throughout.                           *)
LEMMA ReplaceIsChange ==
    ASSUME FoldInv, NEW f \in Files, ReplaceFile(f)
    PROVE  ChangeOf(f) /\ fs'[f] # Gone
<1>1. PICK n \in 0..MaxRows, i \in Inodes :
         Changed(f, [inode |-> i, mtime |-> changes + 1,
                     content |-> [k \in 1..n |-> changes + 1]])
  BY DEF ReplaceFile
<1> DEFINE new == [k \in 1..n |-> changes + 1]
           file == [inode |-> i, mtime |-> changes + 1, content |-> new]
<1>2. changes + 1 \in Stamps
  BY <1>1 DEF Changed, Stamps, FoldInv, FoldTypeOK
<1>3. new \in [1..n -> Stamps]
  BY <1>2
<1>4. file \in File
  BY <1>2, <1>3, ContentIntro DEF File
<1>5. \A k \in DOMAIN new : new[k] = changes + 1
  OBVIOUS
<1>6. UNCHANGED handle \/ Unlinked(f)
  BY DEF ReplaceFile
<1> HIDE DEF new
<1>7. fs'[f] = file
  BY <1>1 DEF Changed, FoldInv, FoldTypeOK, new
<1> QED
  BY <1>1, <1>4, <1>5, <1>6, <1>7, SentinelAssumption DEF ChangeOf, new

(* A removal leaves no file.                                               *)
LEMMA RemoveIsChange ==
    ASSUME NEW f \in Files, RemoveFile(f)
    PROVE  ChangeOf(f)
BY DEF RemoveFile, ChangeOf

(* A change leaves typed files, with no stamp in the future.               *)
LEMMA ChangeFiles ==
    ASSUME FoldInv, NEW f \in Files, ChangeOf(f)
    PROVE  /\ changes + 1 \in 0..MaxChanges
           /\ changes' = changes + 1
           /\ pc \notin {"done", "raised"}
           /\ fs' \in [Files -> File \cup {Gone}]
           /\ \A g \in Files : fs'[g] # Gone =>
                 /\ fs'[g].mtime <= changes'
                 /\ \A i \in DOMAIN fs'[g].content : fs'[g].content[i] <= changes'
           /\ \A g \in Files \ {f} : fs'[g] = fs[g]
           /\ UNCHANGED <<pc, current, snapshot, plan, row, sinkVars, frameVars,
                          countVars>>
<1>1. PICK file \in File \cup {Gone} :
        /\ Changed(f, file)
        /\ file # Gone =>
              /\ file.mtime = changes + 1
              /\ \A i \in DOMAIN file.content :
                    \/ file.content[i] = changes + 1
                    \/ /\ fs[f] # Gone
                       /\ i \in DOMAIN fs[f].content
                       /\ file.content[i] = fs[f].content[i]
  BY DEF ChangeOf
<1>2. /\ fs \in [Files -> File \cup {Gone}]
      /\ changes \in 0..MaxChanges
      /\ \A g \in Files : fs[g] # Gone =>
            /\ fs[g].mtime <= changes
            /\ fs[g].mtime \in Nat
            /\ \A i \in DOMAIN fs[g].content : fs[g].content[i] <= changes
  BY DEF FoldInv, FoldTypeOK, StampsPast, File, Stamps
<1>3. /\ changes < MaxChanges
      /\ changes' = changes + 1
      /\ fs' = [fs EXCEPT ![f] = file]
      /\ pc \notin {"done", "raised"}
      /\ UNCHANGED <<pc, current, snapshot, plan, row, sinkVars, frameVars,
                     countVars>>
  BY <1>1 DEF Changed
<1>4. changes + 1 \in 0..MaxChanges
  BY <1>2, <1>3
<1>5. /\ fs' \in [Files -> File \cup {Gone}]
      /\ fs'[f] = file
      /\ \A g \in Files \ {f} : fs'[g] = fs[g]
  BY <1>2, <1>3
<1>6. ASSUME NEW g \in Files, fs[g] # Gone, NEW i \in DOMAIN fs[g].content
      PROVE  fs[g].content[i] \in Nat
  <2>1. fs[g] \in File
    BY <1>2, <1>6
  <2>2. fs[g].content \in Content
    BY <2>1 DEF File
  <2> QED
    BY <2>2, <1>6, RowsHaveStamps DEF Stamps
<1>7. ASSUME NEW g \in Files, fs'[g] # Gone
      PROVE  /\ fs'[g].mtime <= changes'
             /\ \A i \in DOMAIN fs'[g].content : fs'[g].content[i] <= changes'
  <2>1. CASE g = f
    BY <1>1, <1>2, <1>3, <1>5, <1>6, <1>7, <2>1
  <2>2. CASE g # f
    BY <1>2, <1>3, <1>5, <1>6, <1>7, <2>2
  <2> QED
    BY <2>1, <2>2
<1> QED
  BY <1>3, <1>4, <1>5, <1>7

(* No change makes a file agree with its snapshot again: what is written   *)
(* is newer than the snapshot.                                             *)
LEMMA IntactOnlyBefore ==
    ASSUME FoldInv, NEW f \in Files, ChangeOf(f), NEW g \in Files, Hashed(g),
           Intact(g)'
    PROVE  Intact(g)
<1>1. PICK file \in File \cup {Gone} :
        /\ Changed(f, file)
        /\ file # Gone =>
              /\ file.mtime = changes + 1
              /\ \A i \in DOMAIN file.content :
                    \/ file.content[i] = changes + 1
                    \/ /\ fs[f] # Gone
                       /\ i \in DOMAIN fs[f].content
                       /\ file.content[i] = fs[f].content[i]
  BY DEF ChangeOf
<1>2. /\ fs' = [fs EXCEPT ![f] = file]
      /\ snapshot' = snapshot
      /\ fs \in [Files -> File \cup {Gone}]
      /\ changes \in Nat
  BY <1>1 DEF Changed, FoldInv, FoldTypeOK
<1>3. /\ snapshot[g] \in SnapshotFile
      /\ snapshot[g].mtime <= changes
      /\ DOMAIN snapshot[g].prefix = 1..snapshot[g].size
      /\ \A i \in 1..snapshot[g].size : snapshot[g].prefix[i] <= changes
  BY DEF FoldInv, StampsPast
<1>4. /\ snapshot[g].mtime \in Nat
      /\ snapshot[g].prefix \in Content
  BY <1>3 DEF SnapshotFile, Stamps
<1>5. \A i \in 1..snapshot[g].size : snapshot[g].prefix[i] \in Nat
  <2>1. \A i \in DOMAIN snapshot[g].prefix : snapshot[g].prefix[i] \in Stamps
    BY <1>4, RowsHaveStamps
  <2> QED
    BY <2>1, <1>3 DEF Stamps
<1>6. CASE g # f
  <2>1. fs'[g] = fs[g]
    BY <1>2, <1>6
  <2> QED
    BY <2>1, <1>2 DEF Intact
<1>7. CASE g = f /\ g \in Compressed
  <2>1. fs'[g] = file
    BY <1>2, <1>7
  <2>2. file # Gone /\ file.mtime = snapshot[g].mtime
    BY <2>1, <1>2, <1>7 DEF Intact
  <2> QED
    BY <2>2, <1>1, <1>2, <1>3, <1>4
<1>8. CASE g = f /\ g \notin Compressed
  <2>1. fs'[g] = file
    BY <1>2, <1>8
  <2>2. ASSUME NEW i \in 1..snapshot[g].size
        PROVE  /\ fs[g] # Gone
               /\ i \in DOMAIN fs[g].content
               /\ fs[g].content[i] = snapshot[g].prefix[i]
    <3>1. /\ file # Gone
          /\ i \in DOMAIN file.content
          /\ file.content[i] = snapshot[g].prefix[i]
      BY <2>1, <1>2, <1>8 DEF Intact
    <3>2. file.content[i] # changes + 1
      BY <3>1, <1>2, <1>3, <1>5
    <3> QED
      BY <3>1, <3>2, <1>1, <1>8
  <2> QED
    BY <2>2, <1>8 DEF Intact
<1> QED
  BY <1>6, <1>7, <1>8

(* A change that takes the name away leaves the old content open.          *)
LEMMA LinkedIsThere ==
    ASSUME FoldInv, NEW f \in Files, WriteFile(f) \/ ReplaceFile(f) \/ RemoveFile(f),
           pc = "read", handle' = Linked
    PROVE  fs'[current] # Gone
<1>1. /\ current \in Files
      /\ fs \in [Files -> File \cup {Gone}]
      /\ handle = Linked => fs[current] # Gone
  BY DEF FoldInv, FoldTypeOK, PassProgress
<1>2. CASE f # current
  <2>1. fs'[current] = fs[current] /\ handle = handle'
    <3>1. ChangeOf(f)
      BY WriteIsChange, ReplaceIsChange, RemoveIsChange
    <3>2. UNCHANGED handle
      BY <1>2 DEF WriteFile, ReplaceFile, RemoveFile, Unlinked
    <3> QED
      BY <1>1, <1>2, <3>1, <3>2, ChangeFiles
  <2> QED
    BY <2>1, <1>1
<1>3. CASE f = current /\ WriteFile(f)
  BY <1>3, WriteIsChange
<1>4. CASE f = current /\ ReplaceFile(f)
  BY <1>4, ReplaceIsChange
<1>5. CASE f = current /\ RemoveFile(f)
  <2>1. handle' = IF handle = Linked THEN fs[current].content ELSE handle
    BY <1>5 DEF RemoveFile, Unlinked
  <2>2. handle = Linked /\ fs[current].content = Linked
    BY <2>1
  <2>3. fs[current].content \in Content
    BY <2>2, <1>1 DEF File
  <2> QED
    BY <2>2, <2>3, SentinelAssumption
<1> QED
  BY <1>2, <1>3, <1>4, <1>5

(* What is open, after a change, under a file that is still Intact.        *)
LEMMA ChangeHandle ==
    ASSUME FoldInv, NEW f \in Files, WriteFile(f) \/ ReplaceFile(f) \/ RemoveFile(f)
    PROVE  /\ handle' \in {Closed, Linked} \cup Content
           /\ pc = "read" => handle' # Closed
           /\ pc = "read" /\ handle' # Linked /\ Intact(current)' =>
                  current \notin Compressed /\ snapshot[current].size = 0
<1>1. ChangeOf(f)
  BY WriteIsChange, ReplaceIsChange, RemoveIsChange
<1>2. /\ pc = "read" => current \in Files /\ Hashed(current)
      /\ handle \in {Closed, Linked} \cup Content
      /\ pc = "read" => handle # Closed
      /\ pc = "read" /\ handle # Linked /\ Intact(current) =>
             current \notin Compressed /\ snapshot[current].size = 0
  BY DEF FoldInv, FoldTypeOK, PassProgress, Hashed
<1>3. pc = "read" /\ Intact(current)' => Intact(current)
  BY <1>1, <1>2, IntactOnlyBefore, ChangeFiles
<1>4. CASE UNCHANGED handle
  BY <1>2, <1>3, <1>4
<1>5. CASE handle' # handle
  <2>1. ReplaceFile(f) \/ RemoveFile(f)
    BY <1>5 DEF WriteFile
  <2>2. /\ fs[f] # Gone
        /\ handle = Linked
        /\ f = current
        /\ handle' = fs[f].content
    BY <2>1, <1>5 DEF ReplaceFile, RemoveFile, Unlinked
  <2>3. handle' \in Content
    BY <2>2 DEF FoldInv, FoldTypeOK, File
  <2>4. ASSUME pc = "read", Intact(current)'
        PROVE  current \notin Compressed /\ snapshot[current].size = 0
    <3>1. /\ current \in Files
          /\ snapshot[current] \in SnapshotFile
          /\ snapshot[current].mtime <= changes
          /\ DOMAIN snapshot[current].prefix = 1..snapshot[current].size
          /\ \A i \in 1..snapshot[current].size :
                snapshot[current].prefix[i] <= changes
          /\ changes \in Nat
      <4>1. current \in Files /\ Hashed(current) /\ changes \in Nat
        BY <1>2, <2>4 DEF FoldInv, FoldTypeOK
      <4>2. /\ snapshot[current] \in SnapshotFile
            /\ snapshot[current].mtime <= changes
            /\ DOMAIN snapshot[current].prefix = 1..snapshot[current].size
            /\ \A i \in DOMAIN snapshot[current].prefix :
                  snapshot[current].prefix[i] <= changes
        BY <4>1 DEF FoldInv, StampsPast
      <4> QED
        BY <4>1, <4>2
    <3>2. snapshot[current].mtime \in Nat /\ snapshot[current].size \in Nat
      BY <3>1 DEF SnapshotFile, Stamps
    <3>3. CASE RemoveFile(f)
      <4>1. fs'[f] = Gone /\ snapshot' = snapshot
        BY <3>3 DEF RemoveFile, Changed, FoldInv, FoldTypeOK
      <4>2. current \notin Compressed
        BY <4>1, <2>2, <2>4, <1>1, ChangeFiles DEF Intact
      <4>3. 1 \notin 1..snapshot[current].size
        BY <4>1, <4>2, <2>2, <2>4, <1>1, ChangeFiles DEF Intact
      <4> QED
        BY <4>2, <4>3, <3>2
    <3>4. CASE ReplaceFile(f)
      <4>1. PICK n \in 0..MaxRows, i \in Inodes :
              Changed(f, [inode |-> i, mtime |-> changes + 1,
                          content |-> [k \in 1..n |-> changes + 1]])
        BY <3>4 DEF ReplaceFile
      <4>2. /\ fs'[f] = [inode |-> i, mtime |-> changes + 1,
                         content |-> [k \in 1..n |-> changes + 1]]
            /\ snapshot' = snapshot
            /\ current' = current
        BY <4>1 DEF Changed, FoldInv, FoldTypeOK
      <4>3. current \notin Compressed
        BY <4>2, <2>2, <2>4, <3>1, <3>2 DEF Intact
      <4>4. 1 \notin 1..snapshot[current].size
        BY <4>2, <4>3, <2>2, <2>4, <3>1 DEF Intact
      <4> QED
        BY <4>3, <4>4, <3>2
    <3> QED
      BY <2>1, <3>3, <3>4
  <2> QED
    BY <2>3, <2>4, SentinelAssumption
<1> QED
  BY <1>4, <1>5

(* No change of the files disturbs the invariant.                          *)
LEMMA ChangeStep ==
    ASSUME FoldInv, Change
    PROVE  FoldInv'
<1> PICK f \in Files : WriteFile(f) \/ ReplaceFile(f) \/ RemoveFile(f)
  BY DEF Change
<1>1. ChangeOf(f)
  BY WriteIsChange, ReplaceIsChange, RemoveIsChange
<1>2. /\ changes + 1 \in 0..MaxChanges
      /\ changes' = changes + 1
      /\ pc \notin {"done", "raised"}
      /\ fs' \in [Files -> File \cup {Gone}]
      /\ \A g \in Files : fs'[g] # Gone =>
            /\ fs'[g].mtime <= changes'
            /\ \A i \in DOMAIN fs'[g].content : fs'[g].content[i] <= changes'
      /\ UNCHANGED <<pc, current, snapshot, plan, row, sinkVars, frameVars,
                     countVars>>
  BY <1>1, ChangeFiles
<1>3. /\ handle' \in {Closed, Linked} \cup Content
      /\ pc = "read" => handle' # Closed
      /\ pc = "read" /\ handle' # Linked /\ Intact(current)' =>
             current \notin Compressed /\ snapshot[current].size = 0
  BY ChangeHandle
<1>4. pc \in {"read", "eof"} /\ Intact(current)' => Intact(current)
  <2>1. pc \in {"read", "eof"} => current \in Files /\ Hashed(current)
    BY DEF FoldInv, FoldTypeOK, Hashed
  <2> QED
    BY <2>1, <1>1, <1>2, IntactOnlyBefore
<1>5. FoldTypeOK'
  BY <1>2, <1>3 DEF FoldInv, FoldTypeOK, sinkVars, frameVars, countVars
<1>6. StampsPast'
  <2>1. ASSUME NEW g \in Files
        PROVE  /\ snapshot[g].mtime <= changes + 1
               /\ \A i \in DOMAIN snapshot[g].prefix :
                     snapshot[g].prefix[i] <= changes + 1
    <3>1. /\ snapshot[g] \in SnapshotFile \cup {NotTaken}
          /\ snapshot[g].mtime <= changes
          /\ \A i \in DOMAIN snapshot[g].prefix : snapshot[g].prefix[i] <= changes
          /\ changes \in Nat
      BY DEF FoldInv, FoldTypeOK, StampsPast
    <3>2. snapshot[g].mtime \in Nat
      BY <3>1 DEF SnapshotFile, NotTaken, Stamps
    <3>3. ASSUME NEW i \in DOMAIN snapshot[g].prefix
          PROVE  snapshot[g].prefix[i] \in Nat
      <4>1. CASE snapshot[g] = NotTaken
        BY <4>1, <3>3 DEF NotTaken
      <4>2. CASE snapshot[g] \in SnapshotFile
        BY <4>2, <3>3, RowsHaveStamps DEF SnapshotFile, Stamps
      <4> QED
        BY <4>1, <4>2, <3>1
    <3> QED
      BY <3>1, <3>2, <3>3
  <2>2. \A g \in Files : Hashed(g)' => Hashed(g)
    BY <1>2 DEF Hashed
  <2> QED
    BY <2>1, <2>2, <1>2 DEF FoldInv, StampsPast
<1>7. PassProgress'
  <2>1. pc = "read" /\ handle' = Linked => fs'[current] # Gone
    BY LinkedIsThere
  <2> QED
    BY <1>2, <1>3, <1>4, <2>1 DEF FoldInv, PassProgress, InFile, sinkVars,
                                  frameVars, countVars
<1>8. KnownRows' => KnownRows
  BY <1>2, <1>4 DEF KnownRows
<1>9. /\ ReadySinks' = ReadySinks
      /\ CommittedRows' = CommittedRows
      /\ RowsRead' = RowsRead
      /\ InFile' = InFile
  BY <1>2 DEF ReadySinks, CommittedRows, RowsOf, RowsRead, InFile, sinkVars,
              countVars
<1>10. SinkContents'
  BY <1>2, <1>8, <1>9 DEF FoldInv, SinkContents, sinkVars
<1>11. FrameContents'
  BY <1>2, <1>8, <1>9 DEF FoldInv, FrameContents, FrameIsCommitted, frameVars
<1>12. MutationCostsAll'
  BY <1>2, <1>9 DEF FoldInv, MutationCostsAll, Results, frameVars, countVars
<1> QED
  BY <1>5, <1>6, <1>7, <1>10, <1>11, <1>12 DEF FoldInv

-----------------------------------------------------------------------------
(* The snapshot *)

(* Initially no file is hashed and nothing has been read.                  *)
LEMMA InitFold == Init => FoldInv
<1> SUFFICES ASSUME Init PROVE FoldInv
  OBVIOUS
<1>1. \A f \in Files : /\ fs[f] \in File
                       /\ fs[f] # Gone
                       /\ fs[f].mtime = 0
                       /\ \A i \in DOMAIN fs[f].content : fs[f].content[i] = 0
  <2> TAKE f \in Files
  <2>1. PICK i \in Inodes, n \in 1..MaxRows :
          fs[f] = [inode |-> i, mtime |-> 0, content |-> [k \in 1..n |-> 0]]
    BY DEF Init
  <2> DEFINE new == [k \in 1..n |-> 0]
  <2>2. new \in [1..n -> Stamps] /\ 0 \in Stamps
    BY DEF Stamps
  <2>3. new \in Content
    BY <2>2, ContentIntro
  <2>4. \A k \in DOMAIN new : new[k] = 0
    OBVIOUS
  <2> HIDE DEF new
  <2>5. fs[f] = [inode |-> i, mtime |-> 0, content |-> new]
    BY <2>1 DEF new
  <2> QED
    BY <2>2, <2>3, <2>4, <2>5, SentinelAssumption DEF File
<1>2. fs \in [Files -> File \cup {Gone}]
  BY <1>1 DEF Init
<1>3. \A f \in Files : snapshot[f] = NotTaken /\ ~Hashed(f)
  BY DEF Init, Hashed
<1>4. FoldTypeOK
  <2>1. /\ changes \in 0..MaxChanges
        /\ current \in 1..(NFiles + 1)
        /\ row \in 1..(MaxRows + 1)
        /\ attempted \in 0..NFiles
    BY DEF Init
  <2>2. snapshot \in [Files -> SnapshotFile \cup {NotTaken}]
    BY DEF Init
  <2>3. /\ status \in [Sinks -> {"ready"} \cup Lost]
        /\ run \in [Sinks -> SUBSET Row]
        /\ delta \in [Sinks -> SUBSET Row]
        /\ checkpoint \in [Sinks -> SUBSET Row]
    BY DEF Init
  <2>4. /\ pc = "stat"
        /\ handle = Closed
        /\ admission = "ready"
        /\ frame = {} /\ fileFrame = {}
        /\ committed = {} /\ aborted = {} /\ skipped = {}
        /\ mutated \in BOOLEAN
    BY DEF Init
  <2>5. plan \in {"none", "frame", "admit"}
    BY DEF Init
  <2> QED
    BY <1>2, <2>1, <2>2, <2>3, <2>4, <2>5 DEF FoldTypeOK
<1>5. StampsPast
  BY <1>1, <1>3 DEF Init, StampsPast, NotTaken
<1>6. PassProgress
  BY DEF Init, PassProgress, InFile
<1>7. CommittedRows = {}
  BY DEF Init, CommittedRows
<1>8. SinkContents
  BY <1>7 DEF Init, SinkContents, ReadySinks, InFile, KnownRows
<1>9. FrameContents
  BY <1>7 DEF Init, FrameContents, FrameIsCommitted, KnownRows
<1>10. MutationCostsAll
  BY DEF Init, MutationCostsAll
<1> QED
  BY <1>4, <1>5, <1>6, <1>8, <1>9, <1>10 DEF FoldInv

(* StatFile records one file's identity, or ends the load.                 *)
LEMMA StatStep ==
    ASSUME FoldInv, StatFile
    PROVE  FoldInv'
<1>1. /\ pc = "stat" /\ current \in Files /\ pc' \in {"hash", "raised"}
      /\ fs \in [Files -> File \cup {Gone}]
      /\ snapshot \in [Files -> SnapshotFile \cup {NotTaken}]
      /\ UNCHANGED <<fsVars, current, plan, readVars, sinkVars, frameVars,
                     countVars>>
  BY DEF StatFile, FoldInv, FoldTypeOK
<1>2. /\ snapshot' \in [Files -> SnapshotFile \cup {NotTaken}]
      /\ \A f \in Files \ {current} : snapshot'[f] = snapshot[f]
      /\ snapshot'[current].mtime <= changes
      /\ \A i \in DOMAIN snapshot'[current].prefix :
            snapshot'[current].prefix[i] <= changes
  <2>1. CASE fs[current] = Gone
    BY <2>1, <1>1 DEF StatFile, FoldInv, StampsPast
  <2>2. CASE fs[current] # Gone
    <3> DEFINE taken == [inode |-> fs[current].inode, mtime |-> fs[current].mtime,
                         size |-> Size(fs[current].content), prefix |-> <<>>]
    <3>1. fs[current] \in File /\ fs[current].mtime <= changes
      BY <1>1, <2>2 DEF FoldInv, StampsPast
    <3>2. Size(fs[current].content) \in 0..MaxRows
      BY <3>1, SizeOfContent DEF File
    <3>3. <<>> \in Content
      BY EmptyContent
    <3>4. taken \in SnapshotFile
      BY <3>1, <3>2, <3>3 DEF File, SnapshotFile
    <3>5. taken.mtime <= changes /\ DOMAIN taken.prefix = {}
      BY <3>1
    <3>6. snapshot' = [snapshot EXCEPT ![current] = taken]
      BY <2>2 DEF StatFile
    <3> HIDE DEF taken
    <3> QED
      BY <3>4, <3>5, <3>6, <1>1
  <2> QED
    BY <2>1, <2>2
<1>3. FoldTypeOK'
  BY <1>1, <1>2 DEF FoldInv, FoldTypeOK, fsVars, readVars, sinkVars, frameVars,
                    countVars
<1>4. \A f \in Files : Hashed(f)' => Hashed(f) /\ f # current
  BY <1>1 DEF Hashed
<1>5. StampsPast'
  BY <1>1, <1>2, <1>4 DEF FoldInv, StampsPast, fsVars
<1>6. committed = {} /\ CommittedRows = {} /\ CommittedRows' = {}
  BY <1>1 DEF FoldInv, PassProgress, CommittedRows, countVars
<1>7. PassProgress'
  BY <1>1 DEF FoldInv, PassProgress, InFile, readVars, frameVars, countVars
<1>8. SinkContents'
  BY <1>1, <1>6 DEF FoldInv, SinkContents, ReadySinks, InFile, KnownRows, sinkVars
<1>9. FrameContents'
  BY <1>1, <1>6 DEF FoldInv, FrameContents, FrameIsCommitted, KnownRows, frameVars
<1>10. MutationCostsAll'
  BY <1>1 DEF FoldInv, MutationCostsAll, PassProgress, countVars
<1> QED
  BY <1>3, <1>5, <1>7, <1>8, <1>9, <1>10 DEF FoldInv

(* HashFile captures a prefix of the recorded size, or ends the load.      *)
LEMMA HashStep ==
    ASSUME FoldInv, HashFile
    PROVE  FoldInv'
<1>1. /\ pc = "hash" /\ current \in Files /\ pc' \in {"stat", "raised"}
      /\ fs \in [Files -> File \cup {Gone}]
      /\ snapshot \in [Files -> SnapshotFile \cup {NotTaken}]
      /\ UNCHANGED <<fsVars, plan, readVars, sinkVars, frameVars, countVars>>
  BY DEF HashFile, FoldInv, FoldTypeOK
<1>2. /\ snapshot' \in [Files -> SnapshotFile \cup {NotTaken}]
      /\ \A f \in Files \ {current} : snapshot'[f] = snapshot[f]
      /\ snapshot'[current].mtime <= changes
      /\ \A i \in DOMAIN snapshot'[current].prefix :
            snapshot'[current].prefix[i] <= changes
      /\ current' # current =>
            /\ pc' = "stat"
            /\ current' = current + 1
            /\ snapshot'[current] \in SnapshotFile
            /\ DOMAIN snapshot'[current].prefix = 1..snapshot'[current].size
  <2>1. CASE fs[current] = Gone \/ ~SameIdentity(current)
    BY <2>1, <1>1 DEF HashFile, FoldInv, StampsPast
  <2>2. CASE fs[current] # Gone /\ SameIdentity(current)
    <3> DEFINE content == fs[current].content
               size == snapshot[current].size
               prefix == Prefix(content, size)
    <3>1. /\ fs[current] \in File
          /\ \A i \in DOMAIN content : content[i] <= changes
      BY <1>1, <2>2 DEF FoldInv, StampsPast
    <3>2. /\ snapshot[current].inode \in Inodes
          /\ Size(content) = size \/ Size(content) >= size
      BY <2>2, <3>1 DEF SameIdentity, File
    <3>3. snapshot[current] \in SnapshotFile
      <4>1. CASE snapshot[current] = NotTaken
        <5>1. <<>> \in Content
          BY EmptyContent
        <5>2. Gone \in Inodes
          BY <3>2, <4>1 DEF NotTaken
        <5> QED
          BY <4>1, <5>1, <5>2 DEF NotTaken, SnapshotFile, Stamps
      <4> QED
        BY <4>1, <1>1
    <3>4. size \in 0..MaxRows /\ snapshot[current].mtime \in Stamps
      BY <3>3 DEF SnapshotFile
    <3>5. content \in Content
      BY <3>1 DEF File
    <3>6. /\ Size(content) \in Nat
          /\ DOMAIN content = 1..Size(content)
      BY <3>5, SizeOfContent
    <3>7. size \in 0..Size(content)
      BY <3>2, <3>4, <3>6
    <3>8. /\ prefix \in Content
          /\ DOMAIN prefix = 1..size
          /\ \A i \in 1..size : prefix[i] = content[i]
      BY <3>5, <3>7, PrefixOfContent
    <3>9. \A i \in DOMAIN prefix : prefix[i] <= changes
      BY <3>1, <3>6, <3>7, <3>8
    <3>10. /\ snapshot' = [snapshot EXCEPT ![current].prefix = prefix]
           /\ current' = current + 1
           /\ pc' = "stat"
      BY <2>2 DEF HashFile
    <3> HIDE DEF prefix
    <3> DEFINE taken == [snapshot[current] EXCEPT !.prefix = prefix]
    <3>11. /\ taken \in SnapshotFile
           /\ taken.prefix = prefix
           /\ taken.size = size
           /\ taken.mtime = snapshot[current].mtime
      BY <3>3, <3>8 DEF SnapshotFile
    <3>12. snapshot' = [snapshot EXCEPT ![current] = taken]
      BY <3>10
    <3>13. taken.mtime <= changes
      BY <3>11, <1>1 DEF FoldInv, StampsPast
    <3> HIDE DEF taken, size
    <3>14. snapshot'[current] = taken
      BY <3>12, <1>1
    <3>15. /\ snapshot' \in [Files -> SnapshotFile \cup {NotTaken}]
           /\ \A f \in Files \ {current} : snapshot'[f] = snapshot[f]
      BY <3>11, <3>12, <1>1
    <3> QED
      BY <3>8, <3>9, <3>10, <3>11, <3>13, <3>14, <3>15
  <2> QED
    BY <2>1, <2>2
<1>3. current' \in {current, current + 1} /\ current' \in 1..(NFiles + 1)
  BY <1>1 DEF HashFile
<1>4. FoldTypeOK'
  BY <1>1, <1>2, <1>3 DEF FoldInv, FoldTypeOK, fsVars, readVars, sinkVars,
                          frameVars, countVars
<1>5. \A f \in Files : Hashed(f)' => \/ Hashed(f) /\ f # current
                                     \/ f = current /\ current' # current
  BY <1>1, <1>3 DEF Hashed
<1>6. StampsPast'
  BY <1>1, <1>2, <1>5 DEF FoldInv, StampsPast, fsVars
<1>7. committed = {} /\ CommittedRows = {} /\ CommittedRows' = {}
  BY <1>1 DEF FoldInv, PassProgress, CommittedRows, countVars
<1>8. PassProgress'
  BY <1>1, <1>7 DEF FoldInv, PassProgress, InFile, readVars, frameVars, countVars
<1>9. SinkContents'
  BY <1>1, <1>7 DEF FoldInv, SinkContents, ReadySinks, InFile, KnownRows, sinkVars
<1>10. FrameContents'
  BY <1>1, <1>7 DEF FoldInv, FrameContents, FrameIsCommitted, KnownRows, frameVars
<1>11. MutationCostsAll'
  BY <1>1 DEF FoldInv, MutationCostsAll, PassProgress, countVars
<1> QED
  BY <1>4, <1>6, <1>8, <1>9, <1>10, <1>11 DEF FoldInv

(* SnapshotTaken hands the snapshot to the pass.                           *)
LEMMA SnapshotTakenStep ==
    ASSUME FoldInv, SnapshotTaken
    PROVE  FoldInv'
<1>1. /\ pc = "stat" /\ pc' = "file" /\ current' = 1 /\ 1 \in 1..(NFiles + 1)
      /\ \A f \in Files : Hashed(f)
      /\ UNCHANGED <<fsVars, snapshot, plan, readVars, sinkVars, frameVars,
                     countVars>>
  BY DEF SnapshotTaken, Hashed, FoldInv, FoldTypeOK
<1>2. FoldTypeOK'
  BY <1>1 DEF FoldInv, FoldTypeOK, fsVars, readVars, sinkVars, frameVars, countVars
<1>3. StampsPast'
  BY <1>1 DEF FoldInv, StampsPast, fsVars
<1>4. committed = {} /\ CommittedRows = {} /\ CommittedRows' = {}
  BY <1>1 DEF FoldInv, PassProgress, CommittedRows, countVars
<1>5. PassProgress'
  BY <1>1, <1>4 DEF FoldInv, PassProgress, InFile, readVars, frameVars, countVars
<1>6. SinkContents'
  BY <1>1, <1>4 DEF FoldInv, SinkContents, ReadySinks, InFile, KnownRows, sinkVars
<1>7. FrameContents'
  BY <1>1, <1>4 DEF FoldInv, FrameContents, FrameIsCommitted, KnownRows, frameVars
<1>8. MutationCostsAll'
  BY <1>1 DEF FoldInv, MutationCostsAll, PassProgress, countVars
<1> QED
  BY <1>2, <1>3, <1>5, <1>6, <1>7, <1>8 DEF FoldInv

-----------------------------------------------------------------------------
(* The pass *)

(* Inside a file the sinks and the frame are at this file's beginning, its *)
(* rows aside.                                                             *)
LEMMA CurrentIsFile ==
    ASSUME FoldInv, InFile
    PROVE  /\ current \in Files
           /\ current \notin committed
           /\ Hashed(current)
           /\ snapshot[current] \in SnapshotFile
           /\ snapshot[current].size \in 0..MaxRows
           /\ DOMAIN snapshot[current].prefix = 1..snapshot[current].size
           /\ fs[current] \in File \cup {Gone}
           /\ ~mutated
           /\ pc \notin {"stat", "hash", "raised", "file", "done"}
<1>1. /\ current \in Files
      /\ Hashed(current)
      /\ fs[current] \in File \cup {Gone}
      /\ ~mutated
      /\ pc \notin {"stat", "hash", "raised", "file", "done"}
  BY DEF FoldInv, FoldTypeOK, PassProgress, InFile, Hashed
<1>2. /\ snapshot[current] \in SnapshotFile
      /\ DOMAIN snapshot[current].prefix = 1..snapshot[current].size
  BY <1>1 DEF FoldInv, StampsPast
<1>3. current \notin committed
  BY <1>1 DEF FoldInv, PassProgress
<1> QED
  BY <1>1, <1>2, <1>3 DEF SnapshotFile

(* Files that are hashed stay so while the pass goes on.                   *)
LEMMA StampsStay ==
    ASSUME FoldInv, pc \notin {"stat", "hash", "raised"},
           UNCHANGED <<fsVars, snapshot>>
    PROVE  StampsPast'
BY DEF FoldInv, StampsPast, fsVars, Hashed

(* A file that is given up leaves the invariant as it is.                  *)
LEMMA AbortStep ==
    ASSUME FoldInv, InFile, pc # "commit", AbortFile,
           attempted' \in {attempted, attempted - 1},
           skipped' \in {skipped, skipped \cup {current}}
    PROVE  FoldInv'
<1>1. PICK failing \in SUBSET (InPlace \cap ReadySinks) : RollBack(failing)
  BY DEF AbortFile
<1>2. /\ aborted' = aborted \cup {current}
      /\ NextFile
      /\ UNCHANGED <<fsVars, snapshot, plan, admission, frame, committed, mutated>>
  BY DEF AbortFile
<1>3. /\ current \in Files
      /\ current' = current + 1
      /\ pc' = "file"
      /\ ~mutated
      /\ pc \notin {"stat", "hash", "raised", "file", "done"}
  BY <1>2, CurrentIsFile DEF NextFile
<1>4. ReadySinks' = ReadySinks \ failing
  BY <1>1 DEF RollBack, ReadySinks
<1>5. CommittedRows' = CommittedRows
  BY <1>2 DEF CommittedRows, RowsOf
<1>6. FoldTypeOK'
  <2>1. /\ run' \in [Sinks -> SUBSET Row]
        /\ status' \in [Sinks -> {"ready"} \cup Lost]
    BY <1>1 DEF RollBack, FoldInv, FoldTypeOK, Lost
  <2>2. /\ delta' \in [Sinks -> SUBSET Row]
        /\ checkpoint' \in [Sinks -> SUBSET Row]
        /\ handle' = Closed
        /\ row' = 1 /\ 1 \in 1..(MaxRows + 1)
        /\ fileFrame' = {}
    BY <1>2 DEF NextFile
  <2>3. /\ attempted' \in 0..NFiles
        /\ current' \in 1..(NFiles + 1)
        /\ aborted' \subseteq Files
        /\ skipped' \subseteq Files
    BY <1>2, <1>3 DEF FoldInv, FoldTypeOK, PassProgress
  <2> QED
    BY <1>2, <1>3, <2>1, <2>2, <2>3 DEF FoldInv, FoldTypeOK, fsVars
<1>7. StampsPast'
  BY <1>2, <1>3, StampsStay
<1>8. PassProgress'
  <2>1. attempted' \in 0..(current' - 1)
    BY <1>3 DEF FoldInv, PassProgress
  <2>2. \A f \in committed' : f < current'
    BY <1>2, <1>3 DEF FoldInv, FoldTypeOK, PassProgress
  <2> QED
    BY <1>2, <1>3, <2>1, <2>2 DEF PassProgress, InFile, NextFile
<1>9. SinkContents'
  <2>1. ASSUME NEW s \in ReadySinks'
        PROVE  run'[s] = CommittedRows /\ delta'[s] = {}
    <3>1. s \in Sinks /\ s \in ReadySinks /\ s \notin failing
      BY <2>1, <1>4 DEF ReadySinks
    <3>2. delta'[s] = {}
      BY <1>2, <3>1 DEF NextFile
    <3>3. CASE s \in InPlace
      BY <1>1, <3>1, <3>2, <3>3 DEF RollBack, FoldInv, SinkContents
    <3>4. CASE s \notin InPlace
      BY <1>1, <3>1, <3>2, <3>4 DEF RollBack, FoldInv, SinkContents
    <3> QED
      BY <3>3, <3>4
  <2> QED
    BY <2>1, <1>3, <1>5 DEF SinkContents, InFile, KnownRows
<1>10. FrameContents'
  BY <1>2, <1>3, <1>5 DEF FoldInv, FrameContents, FrameIsCommitted, NextFile,
                          KnownRows
<1>11. MutationCostsAll'
  BY <1>2, <1>3 DEF MutationCostsAll
<1> QED
  BY <1>6, <1>7, <1>8, <1>9, <1>10, <1>11 DEF FoldInv

(* A mutation leaves no sink ready.                                        *)
LEMMA FailPassStep ==
    ASSUME FoldInv, InFile, FailPass
    PROVE  FoldInv'
<1>1. /\ current \in Files
      /\ pc \notin {"stat", "hash", "raised", "file", "done"}
      /\ pc' = "done"
      /\ UNCHANGED <<fsVars, current, snapshot, plan, row, delta, checkpoint,
                     committed, attempted, skipped>>
  BY CurrentIsFile DEF FailPass
<1>2. ReadySinks' = {} /\ status' \in [Sinks -> {"ready"} \cup Lost]
  BY DEF FailPass, ReadySinks, FoldInv, FoldTypeOK, Lost
<1>3. CommittedRows' = CommittedRows
  BY <1>1 DEF CommittedRows, RowsOf
<1>4. FoldTypeOK'
  <2>1. run' \in [Sinks -> SUBSET Row]
    BY DEF FailPass
  <2>2. /\ frame' \subseteq Row
        /\ admission' \in {"ready"} \cup Lost
        /\ aborted' \subseteq Files
    BY <1>1 DEF FailPass, FoldInv, FoldTypeOK, Lost
  <2> QED
    BY <1>1, <1>2, <2>1, <2>2 DEF FailPass, FoldInv, FoldTypeOK, fsVars
<1>5. StampsPast'
  BY <1>1, StampsStay
<1>6. PassProgress'
  BY <1>1 DEF FoldInv, PassProgress, InFile
<1>7. SinkContents'
  BY <1>2 DEF SinkContents
<1>8. FrameContents'
  <2>1. CASE plan = "admit"
    BY <1>1, <2>1 DEF FailPass, FrameContents, FrameIsCommitted
  <2>2. CASE plan # "admit"
    BY <1>1, <1>3, <2>2 DEF FailPass, FoldInv, FrameContents, FrameIsCommitted,
                            KnownRows
  <2> QED
    BY <2>1, <2>2
<1>9. MutationCostsAll'
  <2>1. DOMAIN Results' = {}
    BY <1>2 DEF Results
  <2> QED
    BY <2>1, <1>1 DEF FailPass, MutationCostsAll
<1> QED
  BY <1>4, <1>5, <1>6, <1>7, <1>8, <1>9 DEF FoldInv

(* BeginFile takes the checkpoints.                                        *)
LEMMA BeginStep ==
    ASSUME FoldInv, BeginFile
    PROVE  FoldInv'
<1>1. /\ pc = "file" /\ pc' = "check"
      /\ current \in Files
      /\ attempted' = attempted + 1
      /\ checkpoint' = [s \in Sinks |-> IF s \in InPlace \cap ReadySinks THEN run[s]
                                        ELSE {}]
      /\ UNCHANGED <<fsVars, current, snapshot, plan, readVars, status, run,
                     delta, frameVars, committed, aborted, skipped, mutated>>
  BY DEF BeginFile, FoldInv, FoldTypeOK
<1>2. /\ ReadySinks' = ReadySinks
      /\ CommittedRows' = CommittedRows
  BY <1>1 DEF ReadySinks, CommittedRows, RowsOf
<1>3. attempted \in 0..(current - 1)
  BY <1>1 DEF FoldInv, PassProgress
<1>4. FoldTypeOK'
  <2>1. checkpoint' \in [Sinks -> SUBSET Row]
    BY <1>1 DEF FoldInv, FoldTypeOK
  <2>2. attempted' \in 0..NFiles
    BY <1>1, <1>3
  <2> QED
    BY <1>1, <2>1, <2>2 DEF FoldInv, FoldTypeOK, fsVars, readVars, frameVars
<1>5. StampsPast'
  BY <1>1, StampsStay
<1>6. PassProgress'
  BY <1>1, <1>3 DEF FoldInv, PassProgress, InFile, readVars, frameVars
<1>7. SinkContents'
  BY <1>1, <1>2 DEF FoldInv, SinkContents, ReadySinks, InFile, KnownRows
<1>8. FrameContents'
  BY <1>1, <1>2 DEF FoldInv, FrameContents, FrameIsCommitted, KnownRows, frameVars
<1>9. MutationCostsAll'
  BY <1>1 DEF FoldInv, MutationCostsAll, PassProgress
<1> QED
  BY <1>4, <1>5, <1>6, <1>7, <1>8, <1>9 DEF FoldInv

(* A step from one check to the next leaves everything else alone, if what *)
(* the next one says of the place in the file holds.                       *)
LEMMA CheckedStep ==
    ASSUME FoldInv, InFile, pc' \in {"verify", "open", "commit"},
           pc' # "commit" => pc \in {"check", "verify"},
           pc' = "commit" => /\ KnownRows
                             /\ row - 1 = snapshot[current].size,
           UNCHANGED <<fsVars, current, snapshot, plan, readVars, sinkVars,
                       frameVars, countVars>>
    PROVE  FoldInv'
<1>1. /\ current \in Files
      /\ ~mutated
      /\ pc \notin {"stat", "hash", "raised", "file", "done"}
      /\ InFile'
  BY CurrentIsFile DEF InFile
<1>2. /\ ReadySinks' = ReadySinks
      /\ CommittedRows' = CommittedRows
      /\ RowsRead' = RowsRead
      /\ KnownRows' => KnownRows
  BY DEF ReadySinks, CommittedRows, RowsOf, RowsRead, KnownRows, sinkVars,
         countVars, readVars
<1>3. FoldTypeOK'
  BY <1>1 DEF FoldInv, FoldTypeOK, fsVars, readVars, sinkVars, frameVars, countVars
<1>4. StampsPast'
  BY <1>1, StampsStay
<1>5. PassProgress'
  BY <1>1 DEF FoldInv, PassProgress, InFile, readVars, frameVars, countVars
<1>6. SinkContents'
  BY <1>1, <1>2 DEF FoldInv, SinkContents, InFile, sinkVars
<1>7. FrameContents'
  BY <1>1, <1>2 DEF FoldInv, FrameContents, FrameIsCommitted, frameVars
<1>8. MutationCostsAll'
  BY <1>1 DEF MutationCostsAll, countVars
<1> QED
  BY <1>3, <1>4, <1>5, <1>6, <1>7, <1>8 DEF FoldInv

(* A check that does not accept the file gives it, or the pass, up.        *)
LEMMA CheckStep ==
    ASSUME FoldInv, NEW at, NEW next, NEW fine,
           at \in {"check", "verify", "eof"},
           next \in {"verify", "open", "commit"},
           next # "commit" => at \in {"check", "verify"},
           next = "commit" => /\ at = "eof"
                              /\ fs[current] # Gone /\ fine => Verified(current),
           Check(at, fine, next)
    PROVE  FoldInv'
<1>1. InFile /\ pc = at /\ pc # "commit"
  BY DEF Check, InFile
<1>2. CASE FileFails
  <2>1. AbortFile /\ attempted' = attempted /\ skipped' = skipped
    BY <1>2 DEF FileFails
  <2> QED
    BY <1>1, <2>1, AbortStep
<1>3. CASE FailPass
  BY <1>1, <1>3, FailPassStep
<1>4. CASE /\ fs[current] # Gone
           /\ fine
           /\ pc' = next
           /\ UNCHANGED <<fsVars, current, snapshot, plan, readVars, sinkVars,
                          frameVars, countVars>>
  <2>1. ASSUME next = "commit"
        PROVE  KnownRows /\ row - 1 = snapshot[current].size
    <3>1. Intact(current)
      BY <1>1, <1>4, <2>1, CurrentIsFile, VerifiedIsIntact
    <3> QED
      BY <1>1, <2>1, <3>1 DEF KnownRows, FoldInv, PassProgress
  <2> QED
    BY <1>1, <1>4, <2>1, CheckedStep
<1> QED
  BY <1>2, <1>3, <1>4 DEF Check

(* OpenFile begins to read.                                                *)
LEMMA OpenStep ==
    ASSUME FoldInv, OpenFile
    PROVE  FoldInv'
<1>1. InFile /\ pc = "open"
  BY DEF OpenFile, InFile
<1>2. CASE FileFails
  <2>1. AbortFile /\ attempted' = attempted /\ skipped' = skipped
    BY <1>2 DEF FileFails
  <2> QED
    BY <1>1, <2>1, AbortStep
<1>3. CASE /\ fs[current] # Gone
           /\ handle' = Linked
           /\ pc' = "read"
           /\ UNCHANGED <<fsVars, current, snapshot, plan, row, sinkVars,
                          frameVars, countVars>>
  <2>1. /\ current \in Files
        /\ ~mutated
        /\ snapshot[current].size \in Nat
    BY <1>1, CurrentIsFile
  <2>2. row = 1 /\ fileFrame = {} /\ RowsRead' = {}
    BY <1>1, <1>3 DEF FoldInv, PassProgress, RowsRead
  <2>3. /\ ReadySinks' = ReadySinks
        /\ CommittedRows' = CommittedRows
    BY <1>3 DEF ReadySinks, CommittedRows, RowsOf, sinkVars, countVars
  <2>4. FoldTypeOK'
    BY <1>3, <2>1 DEF FoldInv, FoldTypeOK, fsVars, sinkVars, frameVars, countVars
  <2>5. StampsPast'
    BY <1>1, <1>3, StampsStay
  <2>6. PassProgress'
    BY <1>1, <1>3, <2>1, <2>2, SentinelAssumption
       DEF FoldInv, PassProgress, InFile, fsVars, frameVars, countVars
  <2>7. SinkContents'
    BY <1>1, <1>3, <2>2, <2>3 DEF FoldInv, SinkContents, InFile, KnownRows, sinkVars
  <2>8. FrameContents'
    BY <1>1, <1>3, <2>2, <2>3 DEF FoldInv, FrameContents, FrameIsCommitted,
                                  KnownRows, frameVars
  <2>9. MutationCostsAll'
    BY <1>3, <2>1 DEF MutationCostsAll, countVars
  <2> QED
    BY <2>4, <2>5, <2>6, <2>7, <2>8, <2>9 DEF FoldInv
<1> QED
  BY <1>2, <1>3 DEF OpenFile

(* One row more: it is the snapshot's row, if the file is Intact.          *)
LEMMA RowIsSnapshots ==
    ASSUME FoldInv, pc = "read", More, Intact(current)
    PROVE  /\ row <= snapshot[current].size
           /\ Opened[row] = snapshot[current].prefix[row]
<1>1. /\ current \in Files
      /\ snapshot[current].size \in Nat
      /\ DOMAIN snapshot[current].prefix = 1..snapshot[current].size
      /\ row \in 1..(MaxRows + 1)
      /\ row \in DOMAIN Opened
      /\ current \in Compressed \/ row <= snapshot[current].size
  BY CurrentIsFile DEF InFile, More, FoldInv, FoldTypeOK
<1>2. handle = Linked
  <2>1. handle # Linked => current \notin Compressed /\ snapshot[current].size = 0
    BY DEF FoldInv, PassProgress
  <2> QED
    BY <2>1, <1>1
<1>3. Opened = fs[current].content
  BY <1>2 DEF Opened
<1>4. CASE current \in Compressed
  BY <1>1, <1>3, <1>4 DEF Intact
<1>5. CASE current \notin Compressed
  BY <1>1, <1>3, <1>5 DEF Intact
<1> QED
  BY <1>4, <1>5

(* A row that is read is a row.                                            *)
LEMMA RowType ==
    ASSUME FoldInv, pc = "read", More
    PROVE  /\ <<current, row, Opened[row]>> \in Row
           /\ row \in 1..MaxRows
<1>1. current \in Files /\ row \in DOMAIN Opened
  BY CurrentIsFile DEF InFile, More
<1>2. Opened \in Content
  <2>1. CASE handle = Linked
    <3>1. fs[current] \in File
      BY <1>1, <2>1 DEF FoldInv, FoldTypeOK, PassProgress
    <3> QED
      BY <2>1, <3>1 DEF Opened, File
  <2>2. CASE handle # Linked
    BY <2>2 DEF Opened, FoldInv, FoldTypeOK, PassProgress
  <2> QED
    BY <2>1, <2>2
<1>3. row \in 1..MaxRows
  BY <1>1, <1>2, SizeOfContent
<1> QED
  BY <1>1, <1>2, <1>3, RowsHaveStamps DEF Row

(* SkipFile and DecodeFails give the file up.                              *)
LEMMA GiveUpStep ==
    ASSUME FoldInv, SkipFile \/ DecodeFails
    PROVE  FoldInv'
BY AbortStep DEF SkipFile, DecodeFails, FileFails, InFile

(* EndOfFile: a file that is Intact has been read to the captured size.    *)
LEMMA EndStep ==
    ASSUME FoldInv, EndOfFile
    PROVE  FoldInv'
<1>1. /\ InFile /\ pc = "read" /\ ~More /\ pc' = "eof" /\ handle' = Closed
      /\ UNCHANGED <<fsVars, current, snapshot, plan, row, sinkVars, frameVars,
                     countVars>>
  BY DEF EndOfFile, InFile
<1>2. /\ current \in Files
      /\ ~mutated
      /\ snapshot[current].size \in Nat
      /\ DOMAIN snapshot[current].prefix = 1..snapshot[current].size
      /\ row \in Nat \ {0}
  BY <1>1, CurrentIsFile DEF FoldInv, FoldTypeOK
<1>3. ASSUME Intact(current)
      PROVE  row - 1 = snapshot[current].size
  <2>1. row - 1 <= snapshot[current].size
    BY <1>1, <1>3 DEF FoldInv, PassProgress
  <2>2. CASE handle # Linked
    <3>1. snapshot[current].size = 0
      BY <1>1, <1>3, <2>2 DEF FoldInv, PassProgress
    <3> QED
      BY <1>2, <2>1, <3>1
  <2>3. CASE handle = Linked /\ current \in Compressed
    BY <1>1, <1>2, <1>3, <2>1, <2>3 DEF More, Opened, Intact
  <2>4. CASE handle = Linked /\ current \notin Compressed
    <3>1. \A i \in 1..snapshot[current].size : i \in DOMAIN Opened
      BY <1>3, <2>4 DEF Intact, Opened
    <3> QED
      BY <1>1, <1>2, <2>1, <2>4, <3>1 DEF More
  <2> QED
    BY <2>2, <2>3, <2>4
<1>4. /\ ReadySinks' = ReadySinks
      /\ CommittedRows' = CommittedRows
      /\ RowsRead' = RowsRead
      /\ Intact(current)' = Intact(current)
  BY <1>1 DEF ReadySinks, CommittedRows, RowsOf, RowsRead, Intact, fsVars, sinkVars,
              countVars
<1>5. KnownRows' => KnownRows
  BY <1>1, <1>4 DEF KnownRows
<1>6. FoldTypeOK'
  BY <1>1, <1>2 DEF FoldInv, FoldTypeOK, fsVars, sinkVars, frameVars, countVars
<1>7. StampsPast'
  BY <1>1, StampsStay
<1>8. PassProgress'
  BY <1>1, <1>2, <1>3, <1>4 DEF FoldInv, PassProgress, InFile, frameVars, countVars
<1>9. SinkContents'
  BY <1>1, <1>4, <1>5 DEF FoldInv, SinkContents, InFile, sinkVars
<1>10. FrameContents'
  BY <1>1, <1>4, <1>5 DEF FoldInv, FrameContents, FrameIsCommitted, frameVars
<1>11. MutationCostsAll'
  BY <1>1, <1>2 DEF MutationCostsAll, countVars
<1> QED
  BY <1>6, <1>7, <1>8, <1>9, <1>10, <1>11 DEF FoldInv

(* Finish: the pass is over.                                               *)
LEMMA FinishStep ==
    ASSUME FoldInv, Finish
    PROVE  FoldInv'
<1>1. /\ pc = "file" /\ pc' = "done"
      /\ UNCHANGED <<fsVars, current, snapshot, plan, readVars, sinkVars,
                     frameVars, countVars>>
  BY DEF Finish
<1>2. ReadySinks' = ReadySinks /\ CommittedRows' = CommittedRows
  BY <1>1 DEF ReadySinks, CommittedRows, RowsOf, sinkVars, countVars
<1>3. ~mutated
  BY <1>1 DEF FoldInv, PassProgress
<1>4. FoldTypeOK'
  BY <1>1 DEF FoldInv, FoldTypeOK, fsVars, readVars, sinkVars, frameVars, countVars
<1>5. StampsPast'
  BY <1>1, StampsStay
<1>6. PassProgress'
  BY <1>1, <1>3 DEF FoldInv, PassProgress, InFile, readVars, frameVars, countVars
<1>7. SinkContents'
  BY <1>1, <1>2 DEF FoldInv, SinkContents, InFile, KnownRows, sinkVars
<1>8. FrameContents'
  BY <1>1, <1>2 DEF FoldInv, FrameContents, FrameIsCommitted, KnownRows, frameVars
<1>9. MutationCostsAll'
  BY <1>1, <1>3 DEF MutationCostsAll, countVars
<1> QED
  BY <1>4, <1>5, <1>6, <1>7, <1>8, <1>9 DEF FoldInv

(* ReadRow: the sinks still ready have one row more, those that are out    *)
(* are out alone.                                                          *)
LEMMA ReadStep ==
    ASSUME FoldInv, ReadRow
    PROVE  FoldInv'
<1> DEFINE r == <<current, row, Opened[row]>>
<1>1. /\ InFile /\ pc = "read" /\ More /\ row' = row + 1
      /\ UNCHANGED <<fsVars, pc, current, snapshot, plan, handle, checkpoint,
                     countVars>>
  BY DEF ReadRow, InFile
<1>2. PICK out \in SUBSET ReadySinks, how \in Lost :
        /\ status' = [s \in Sinks |-> IF s \in out THEN how ELSE status[s]]
        /\ delta' = [s \in Sinks |->
               IF s \in (ReadySinks \ out) \ InPlace THEN delta[s] \cup {r}
               ELSE delta[s]]
        /\ run' = [s \in Sinks |->
               IF s \in out THEN {}
               ELSE IF s \in ReadySinks \cap InPlace THEN run[s] \cup {r}
               ELSE run[s]]
  BY DEF ReadRow
<1>3. /\ current \in Files
      /\ ~mutated
      /\ r \in Row
      /\ row \in 1..MaxRows
  BY <1>1, CurrentIsFile, RowType
<1>4. /\ ReadySinks' = ReadySinks \ out
      /\ CommittedRows' = CommittedRows
      /\ Intact(current)' = Intact(current)
      /\ KnownRows' = KnownRows
      /\ InFile' = InFile
  BY <1>1, <1>2 DEF ReadySinks, Lost, CommittedRows, RowsOf, Intact, KnownRows,
                    InFile, fsVars, countVars
<1>5. Intact(current) => row <= snapshot[current].size /\ RowsRead' = RowsRead \cup {r}
  <2> SUFFICES ASSUME Intact(current)
               PROVE  /\ row <= snapshot[current].size
                      /\ RowsRead' = RowsRead \cup {r}
    OBVIOUS
  <2>1. /\ row <= snapshot[current].size
        /\ r = <<current, row, snapshot[current].prefix[row]>>
    BY <1>1, RowIsSnapshots
  <2>2. RowsRead' = {<<current, i, snapshot[current].prefix[i]>> : i \in 1..row}
    BY <1>1, <1>3 DEF RowsRead
  <2>3. 1..row = 1..(row - 1) \cup {row}
    BY <1>3
  <2> HIDE DEF r
  <2> QED
    BY <2>1, <2>2, <2>3 DEF RowsRead
<1> HIDE DEF r
<1>6. FoldTypeOK'
  <2>1. /\ status' \in [Sinks -> {"ready"} \cup Lost]
        /\ run' \in [Sinks -> SUBSET Row]
        /\ delta' \in [Sinks -> SUBSET Row]
    BY <1>2, <1>3 DEF FoldInv, FoldTypeOK
  <2>2. /\ frame' \subseteq Row
        /\ fileFrame' \subseteq Row
        /\ admission' \in {"ready"} \cup Lost
    BY <1>3 DEF ReadRow, FoldInv, FoldTypeOK, Lost, r
  <2>3. row' \in 1..(MaxRows + 1)
    BY <1>1, <1>3
  <2> QED
    BY <1>1, <2>1, <2>2, <2>3 DEF FoldInv, FoldTypeOK, fsVars, countVars
<1>7. StampsPast'
  BY <1>1, StampsStay
<1>8. PassProgress'
  <2>1. Intact(current)' => row' - 1 <= snapshot'[current'].size
    BY <1>1, <1>3, <1>4, <1>5
  <2> QED
    BY <1>1, <1>3, <1>4, <2>1 DEF FoldInv, PassProgress, fsVars, countVars
<1>9. SinkContents'
  <2> SUFFICES ASSUME NEW s \in ReadySinks'
               PROVE  /\ s \notin InPlace => run'[s] = CommittedRows
                      /\ s \in InPlace =>
                            /\ checkpoint'[s] = CommittedRows
                            /\ delta'[s] = {}
                            /\ CommittedRows \subseteq run'[s]
                            /\ \A q \in run'[s] : q \in CommittedRows \/ q[1] = current
                      /\ KnownRows => IF s \in InPlace
                                      THEN run'[s] = CommittedRows \cup RowsRead'
                                      ELSE delta'[s] = RowsRead'
    BY <1>1, <1>4 DEF SinkContents
  <2>1. /\ s \in Sinks /\ s \in ReadySinks /\ s \notin out
        /\ s \notin InPlace => run'[s] = run[s] /\ delta'[s] = delta[s] \cup {r}
        /\ s \in InPlace => run'[s] = run[s] \cup {r} /\ delta'[s] = delta[s]
    BY <1>2, <1>4 DEF ReadySinks
  <2>2. r[1] = current
    BY DEF r
  <2>3. KnownRows => RowsRead' = RowsRead \cup {r}
    BY <1>1, <1>5 DEF KnownRows
  <2> QED
    BY <1>1, <2>1, <2>2, <2>3 DEF FoldInv, SinkContents
<1>10. FrameContents'
  <2>1. KnownRows => RowsRead' = RowsRead \cup {r}
    BY <1>1, <1>5 DEF KnownRows
  <2>2. \/ /\ plan # "none" /\ admission = "ready"
           /\ fileFrame' = fileFrame \cup {r}
           /\ UNCHANGED <<admission, frame>>
        \/ /\ plan = "admit"
           /\ admission' = "failed"
           /\ frame' = {}
           /\ fileFrame' = {}
        \/ /\ plan = "none" \/ admission # "ready"
           /\ UNCHANGED <<admission, frame, fileFrame>>
    BY DEF ReadRow, r
  <2> QED
    BY <1>1, <1>4, <2>1, <2>2 DEF FoldInv, FrameContents, FrameIsCommitted
<1>11. MutationCostsAll'
  BY <1>1, <1>3 DEF MutationCostsAll, countVars
<1> QED
  BY <1>6, <1>7, <1>8, <1>9, <1>10, <1>11 DEF FoldInv

(* CommitFile: everybody still ready gets the rows of this file.           *)
LEMMA CommitStep ==
    ASSUME FoldInv, CommitFile
    PROVE  FoldInv'
<1>1. /\ InFile /\ pc = "commit"
      /\ frame' = frame \cup fileFrame
      /\ committed' = committed \cup {current}
      /\ NextFile
      /\ UNCHANGED <<fsVars, snapshot, plan, admission, aborted, attempted,
                     skipped, mutated>>
  BY DEF CommitFile, InFile
<1>2. PICK out \in SUBSET ReadySinks, how \in Lost :
        /\ status' = [s \in Sinks |-> IF s \in out THEN how ELSE status[s]]
        /\ run' = [s \in Sinks |->
               IF s \in out THEN {}
               ELSE IF s \in ReadySinks THEN run[s] \cup delta[s] ELSE run[s]]
  BY DEF CommitFile
<1>3. /\ current \in Files
      /\ ~mutated
      /\ pc' = "file"
      /\ current' = current + 1
      /\ row - 1 = snapshot[current].size
      /\ KnownRows
  BY <1>1, CurrentIsFile DEF NextFile, FoldInv, PassProgress, KnownRows
<1>4. RowsRead = RowsOf(current)
  BY <1>3 DEF RowsRead, RowsOf
<1>5. CommittedRows' = CommittedRows \cup RowsOf(current)
  <2>1. \A f \in Files : RowsOf(f)' = RowsOf(f)
    BY <1>1 DEF RowsOf
  <2>2. committed \subseteq Files
    BY DEF FoldInv, FoldTypeOK
  <2> QED
    BY <1>1, <1>3, <2>1, <2>2 DEF CommittedRows
<1>6. ReadySinks' = ReadySinks \ out
  BY <1>2 DEF ReadySinks, Lost
<1>7. FoldTypeOK'
  <2>1. /\ status' \in [Sinks -> {"ready"} \cup Lost]
        /\ run' \in [Sinks -> SUBSET Row]
    BY <1>2 DEF FoldInv, FoldTypeOK
  <2>2. /\ delta' \in [Sinks -> SUBSET Row]
        /\ checkpoint' \in [Sinks -> SUBSET Row]
        /\ handle' = Closed
        /\ row' = 1 /\ 1 \in 1..(MaxRows + 1)
        /\ fileFrame' = {}
        /\ current' \in 1..(NFiles + 1)
    BY <1>1, <1>3 DEF NextFile
  <2>3. frame' \subseteq Row /\ committed' \subseteq Files
    BY <1>1, <1>3 DEF FoldInv, FoldTypeOK
  <2> QED
    BY <1>1, <1>3, <2>1, <2>2, <2>3 DEF FoldInv, FoldTypeOK, fsVars
<1>8. StampsPast'
  BY <1>1, StampsStay
<1>9. PassProgress'
  <2>1. attempted' \in 0..(current' - 1)
    BY <1>1, <1>3 DEF FoldInv, PassProgress
  <2>2. \A f \in committed' : f < current'
    BY <1>1, <1>3 DEF FoldInv, FoldTypeOK, PassProgress
  <2> QED
    BY <1>1, <1>3, <2>1, <2>2 DEF PassProgress, InFile, NextFile
<1>10. SinkContents'
  <2>1. ASSUME NEW s \in ReadySinks'
        PROVE  run'[s] = CommittedRows' /\ delta'[s] = {}
    <3>1. s \in Sinks /\ s \in ReadySinks /\ s \notin out
      BY <1>6 DEF ReadySinks
    <3>2. run'[s] = run[s] \cup delta[s] /\ delta'[s] = {}
      BY <1>1, <1>2, <3>1 DEF NextFile
    <3>3. run[s] \cup delta[s] = CommittedRows \cup RowsRead
      BY <1>1, <1>3, <3>1 DEF FoldInv, SinkContents
    <3> QED
      BY <1>4, <1>5, <3>2, <3>3
  <2> QED
    BY <2>1, <1>3 DEF SinkContents, InFile, KnownRows
<1>11. FrameContents'
  BY <1>1, <1>3, <1>4, <1>5 DEF FoldInv, FrameContents, FrameIsCommitted, NextFile,
                                KnownRows
<1>12. MutationCostsAll'
  BY <1>1, <1>3 DEF MutationCostsAll
<1> QED
  BY <1>7, <1>8, <1>9, <1>10, <1>11, <1>12 DEF FoldInv

-----------------------------------------------------------------------------
(* The theorems *)

(* Stuttering.                                                             *)
LEMMA FoldStutter ==
    ASSUME FoldInv, UNCHANGED vars
    PROVE  FoldInv'
<1>1. /\ ReadySinks' = ReadySinks
      /\ CommittedRows' = CommittedRows
      /\ RowsRead' = RowsRead
      /\ KnownRows' = KnownRows
      /\ InFile' = InFile
      /\ Results' = Results
      /\ UNCHANGED <<fsVars, pc, current, snapshot, plan, readVars, sinkVars,
                     frameVars, countVars>>
  BY DEF vars, ReadySinks, CommittedRows, RowsOf, RowsRead, KnownRows, InFile,
         Results, Intact, fsVars, readVars, sinkVars, countVars
<1>2. FoldTypeOK'
  BY <1>1 DEF FoldInv, FoldTypeOK, fsVars, readVars, sinkVars, frameVars, countVars
<1>3. StampsPast'
  BY <1>1 DEF FoldInv, StampsPast, Hashed, fsVars
<1>4. PassProgress'
  BY <1>1 DEF FoldInv, PassProgress, Intact, fsVars, readVars, frameVars, countVars
<1>5. SinkContents'
  BY <1>1 DEF FoldInv, SinkContents, sinkVars
<1>6. FrameContents'
  BY <1>1 DEF FoldInv, FrameContents, FrameIsCommitted, frameVars
<1>7. MutationCostsAll'
  BY <1>1 DEF FoldInv, MutationCostsAll, frameVars, countVars
<1> QED
  BY <1>2, <1>3, <1>4, <1>5, <1>6, <1>7 DEF FoldInv

(* Every step of the loader and of the files preserves the invariant.      *)
LEMMA FoldStep ==
    ASSUME FoldInv, [Next]_vars
    PROVE  FoldInv'
<1>1. CASE Change
  BY <1>1, ChangeStep
<1>2. CASE StatFile \/ HashFile \/ SnapshotTaken
  BY <1>2, StatStep, HashStep, SnapshotTakenStep
<1>3. CASE BeginFile \/ OpenFile \/ SkipFile \/ DecodeFails
  BY <1>3, BeginStep, OpenStep, GiveUpStep
<1>4. CASE CheckIdentity
  BY <1>4, CheckStep DEF CheckIdentity
<1>5. CASE VerifyBefore
  BY <1>5, CheckStep DEF VerifyBefore
<1>6. CASE VerifyAfter
  BY <1>6, CheckStep DEF VerifyAfter
<1>7. CASE ReadRow \/ EndOfFile \/ CommitFile \/ Finish
  BY <1>7, ReadStep, EndStep, CommitStep, FinishStep
<1>8. CASE UNCHANGED vars
  BY <1>8, FoldStutter
<1> QED
  BY <1>1, <1>2, <1>3, <1>4, <1>5, <1>6, <1>7, <1>8 DEF Next, Load

(* The invariant of the pass (fold.py, execute_sink_plan).                 *)
THEOREM FoldInvariant == Spec => []FoldInv
BY InitFold, FoldStep, PTL DEF Spec

(* The files' rows never come torn, twice, from a later version, or to one *)
(* sink and not to another (commit_file, abort_file and the verification   *)
(* after the last row).                                                    *)
THEOREM SinksFoldTheSnapshot == Spec => []SinksAgree
<1>1. FoldInv => SinksAgree
  BY DEF FoldInv, SinkContents, SinksAgree
<1> QED
  BY <1>1, FoldInvariant, PTL

(* The frame is the same files' rows, or empty.                            *)
THEOREM FrameFoldsTheSnapshot == Spec => []FrameIsCommitted
<1>1. FoldInv => FrameIsCommitted
  BY DEF FoldInv, FrameContents
<1> QED
  BY <1>1, FoldInvariant, PTL

(* A mutation ends the pass with no result (SnapshotMutationError).        *)
THEOREM MutationEndsThePass == Spec => []MutationCostsAll
<1>1. FoldInv => MutationCostsAll
  BY DEF FoldInv
<1> QED
  BY <1>1, FoldInvariant, PTL

(* What a step may do to a sink.                                           *)
LEMMA SinkStep ==
    ASSUME FoldInv, [Next]_vars, NEW s \in Sinks
    PROVE  /\ ~(status[s] = "ready") => status'[s] = status[s]
           /\ status'[s] = "ready" => {r \in run[s] : r[1] \in committed} \subseteq run'[s]
<1>1. /\ InFile => current \notin committed
      /\ status \in [Sinks -> {"ready"} \cup Lost]
  BY CurrentIsFile DEF FoldInv, FoldTypeOK
<1>2. CASE AbortFile /\ InFile
  <2>1. PICK failing \in SUBSET (InPlace \cap ReadySinks) : RollBack(failing)
    BY <1>2 DEF AbortFile
  <2>2. ASSUME s \in InPlace, status[s] = "ready"
        PROVE  {r \in run[s] : r[1] \in committed} \subseteq checkpoint[s]
    BY <1>1, <1>2, <2>2 DEF FoldInv, SinkContents, ReadySinks
  <2> QED
    BY <2>1, <2>2, <1>1 DEF RollBack, ReadySinks
<1>3. CASE FailPass
  BY <1>1, <1>3 DEF FailPass, ReadySinks, Lost
<1>4. CASE ReadRow
  BY <1>1, <1>4 DEF ReadRow, ReadySinks, Lost
<1>5. CASE CommitFile
  BY <1>1, <1>5 DEF CommitFile, ReadySinks, Lost
<1>6. CASE UNCHANGED <<status, run>>
  BY <1>6
<1>7. \/ AbortFile /\ InFile
      \/ FailPass
      \/ ReadRow
      \/ CommitFile
      \/ UNCHANGED <<status, run>>
  <2>1. CASE Change
    BY <2>1 DEF Change, WriteFile, ReplaceFile, RemoveFile, Changed, sinkVars
  <2>2. CASE StatFile \/ HashFile \/ SnapshotTaken \/ BeginFile \/ EndOfFile \/ Finish
    BY <2>2 DEF StatFile, HashFile, SnapshotTaken, BeginFile, EndOfFile, Finish,
                sinkVars
  <2>3. CASE CheckIdentity \/ VerifyBefore \/ VerifyAfter
    BY <2>3 DEF CheckIdentity, VerifyBefore, VerifyAfter, Check, FileFails, InFile,
                sinkVars
  <2>4. CASE OpenFile \/ SkipFile \/ DecodeFails
    BY <2>4 DEF OpenFile, SkipFile, DecodeFails, FileFails, InFile, sinkVars
  <2>5. CASE ReadRow \/ CommitFile
    BY <2>5
  <2>6. CASE UNCHANGED vars
    BY <2>6 DEF vars, sinkVars
  <2> QED
    BY <2>1, <2>2, <2>3, <2>4, <2>5, <2>6 DEF Next, Load
<1> QED
  BY <1>2, <1>3, <1>4, <1>5, <1>6, <1>7

(* A sink that abstained or failed takes no further part, and the others   *)
(* keep what they have, whatever happens to it or to the current file.     *)
THEOREM OutSinksStayOut == Spec => OutIsForGood
<1>1. FoldInv /\ [Next]_vars =>
         [\A s \in Sinks :
            /\ ~(status[s] = "ready") => status'[s] = status[s]
            /\ status'[s] = "ready" =>
                   {r \in run[s] : r[1] \in committed} \subseteq run'[s]]_vars
  BY SinkStep
<1> QED
  BY <1>1, FoldInvariant, PTL DEF Spec, OutIsForGood

-----------------------------------------------------------------------------
(* The counters *)

(* Files are finitely many, so the counts are numbers.                     *)
LEMMA OutcomeSets ==
    ASSUME FoldInv
    PROVE  /\ IsFiniteSet(committed) /\ IsFiniteSet(aborted \ skipped)
           /\ Cardinality(committed) \in Nat
           /\ Cardinality(aborted \ skipped) \in Nat
<1>1. IsFiniteSet(Files)
  BY FS_Interval
<1>2. committed \subseteq Files /\ aborted \ skipped \subseteq Files
  BY DEF FoldInv, FoldTypeOK
<1>3. IsFiniteSet(committed) /\ IsFiniteSet(aborted \ skipped)
  BY <1>1, <1>2, FS_Subset
<1> QED
  BY <1>3, FS_CardinalityType

(* A file that is given up is one more aborted file, a rejected one counts *)
(* as never attempted.                                                     *)
LEMMA AbortCounted ==
    ASSUME FoldInv, OutcomeInv, InFile, aborted' = aborted \cup {current},
           UNCHANGED committed
    PROVE  /\ current \in Files
           /\ committed \cup aborted' = 1..current
           /\ committed \cap aborted' = {}
           /\ UNCHANGED skipped =>
                  Cardinality(aborted' \ skipped') = Cardinality(aborted \ skipped) + 1
           /\ skipped' = skipped \cup {current} =>
                  aborted' \ skipped' = aborted \ skipped
           /\ Cardinality(committed) \in Nat
           /\ Cardinality(aborted \ skipped) \in Nat
           /\ skipped \subseteq aborted'
<1>1. /\ current \in Files
      /\ ~mutated
      /\ committed \cup aborted = 1..(current - 1)
      /\ committed \cap aborted = {}
      /\ skipped \subseteq aborted
  BY CurrentIsFile DEF OutcomeInv
<1>2. current \in Nat /\ current \notin committed \cup aborted
  BY <1>1
<1>3. 1..current = 1..(current - 1) \cup {current}
  BY <1>1, <1>2
<1>5. /\ IsFiniteSet(aborted \ skipped)
      /\ Cardinality(committed) \in Nat /\ Cardinality(aborted \ skipped) \in Nat
  BY OutcomeSets
<1>6. UNCHANGED skipped => aborted' \ skipped' = (aborted \ skipped) \cup {current}
  BY <1>1, <1>2
<1>7. Cardinality((aborted \ skipped) \cup {current}) = Cardinality(aborted \ skipped) + 1
  BY <1>2, <1>5, FS_AddElement
<1>8. skipped' = skipped \cup {current} => aborted' \ skipped' = aborted \ skipped
  BY <1>1, <1>2
<1> QED
  BY <1>1, <1>2, <1>3, <1>5, <1>6, <1>7, <1>8

(* A committed file is one more of the others.                             *)
LEMMA CommitCounted ==
    ASSUME FoldInv, OutcomeInv, CommitFile
    PROVE  OutcomeInv'
<1>1. /\ InFile /\ pc' = "file" /\ current' = current + 1
      /\ committed' = committed \cup {current}
      /\ UNCHANGED <<aborted, attempted, skipped, mutated>>
  BY DEF CommitFile, NextFile, InFile
<1>2. /\ current \in Files
      /\ ~mutated
      /\ committed \cup aborted = 1..(current - 1)
      /\ committed \cap aborted = {}
      /\ skipped \subseteq aborted
      /\ attempted = Cardinality(committed) + Cardinality(aborted \ skipped) + 1
  BY <1>1, CurrentIsFile DEF OutcomeInv
<1>3. current \in Nat /\ current \notin committed \cup aborted
  BY <1>2
<1>4. 1..current = 1..(current - 1) \cup {current}
  BY <1>2, <1>3
<1>6. /\ IsFiniteSet(committed)
      /\ Cardinality(committed) \in Nat /\ Cardinality(aborted \ skipped) \in Nat
  BY OutcomeSets
<1>7. Cardinality(committed \cup {current}) = Cardinality(committed) + 1
  BY <1>3, <1>6, FS_AddElement
<1>8. committed' \cap aborted' = {}
  BY <1>1, <1>2, <1>3
<1>9. committed' \cup aborted' = 1..(current' - 1)
  BY <1>1, <1>2, <1>3, <1>4
<1>10. attempted' = Cardinality(committed') + Cardinality(aborted' \ skipped')
  BY <1>1, <1>2, <1>6, <1>7
<1> QED
  BY <1>1, <1>2, <1>8, <1>9, <1>10 DEF OutcomeInv, InFile

(* So is one that is given up, and one that ends the pass.                 *)
LEMMA AbortFileCounted ==
    ASSUME FoldInv, OutcomeInv, InFile, AbortFile,
           \/ UNCHANGED <<attempted, skipped>>
           \/ attempted' = attempted - 1 /\ skipped' = skipped \cup {current}
    PROVE  OutcomeInv'
<1>1. /\ aborted' = aborted \cup {current} /\ UNCHANGED <<committed, mutated>>
      /\ pc' = "file" /\ current' = current + 1
  BY DEF AbortFile, NextFile
<1>2. /\ current \in Files
      /\ ~mutated
      /\ skipped \subseteq aborted
      /\ attempted = Cardinality(committed) + Cardinality(aborted \ skipped) + 1
  BY CurrentIsFile DEF OutcomeInv
<1>3. /\ committed' \cup aborted' = 1..(current' - 1)
      /\ committed' \cap aborted' = {}
  BY <1>1, <1>2, AbortCounted
<1>4. skipped' \subseteq aborted'
  BY <1>1, <1>2
<1>5. attempted' = Cardinality(committed') + Cardinality(aborted' \ skipped')
  <2>1. /\ Cardinality(committed) \in Nat
        /\ Cardinality(aborted \ skipped) \in Nat
    BY OutcomeSets
  <2>2. CASE UNCHANGED <<attempted, skipped>>
    <3>1. Cardinality(aborted' \ skipped') = Cardinality(aborted \ skipped) + 1
      BY <1>1, <2>2, AbortCounted
    <3> QED
      BY <1>1, <1>2, <2>1, <2>2, <3>1
  <2>3. CASE attempted' = attempted - 1 /\ skipped' = skipped \cup {current}
    <3>1. aborted' \ skipped' = aborted \ skipped
      BY <1>1, <2>3, AbortCounted
    <3>2. attempted - 1 = Cardinality(committed) + Cardinality(aborted \ skipped)
      BY <1>2, <2>1
    <3> QED
      BY <1>1, <2>3, <3>1, <3>2, Zenon
  <2> QED
    BY <2>2, <2>3
<1> QED
  BY <1>1, <1>2, <1>3, <1>4, <1>5 DEF OutcomeInv, InFile

(* The file that changed under the pass is given up too.                   *)
LEMMA FailPassCounted ==
    ASSUME FoldInv, OutcomeInv, InFile, FailPass
    PROVE  OutcomeInv'
<1>1. /\ aborted' = aborted \cup {current}
      /\ pc' = "done" /\ mutated'
      /\ UNCHANGED <<committed, attempted, skipped, current>>
  BY DEF FailPass
<1>2. attempted = Cardinality(committed) + Cardinality(aborted \ skipped) + 1
  BY DEF OutcomeInv
<1> QED
  BY <1>1, <1>2, AbortCounted DEF OutcomeInv, InFile

(* Each step leaves the files before the current one accounted for.        *)
LEMMA OutcomeStep ==
    ASSUME FoldInv, OutcomeInv, [Next]_vars
    PROVE  OutcomeInv'
<1>1. CASE UNCHANGED vars \/ Change \/ ReadRow
  <2>1. UNCHANGED <<pc, current, countVars>>
    BY <1>1 DEF vars, Change, WriteFile, ReplaceFile, RemoveFile, Changed, ReadRow
  <2> QED
    BY <2>1 DEF OutcomeInv, InFile, countVars
<1>11. CASE EndOfFile
  <2>1. pc = "read" /\ pc' = "eof" /\ UNCHANGED <<current, countVars>>
    BY <1>11 DEF EndOfFile
  <2> QED
    BY <2>1 DEF OutcomeInv, InFile, countVars
<1>2. CASE StatFile \/ HashFile
  <2>1. /\ pc \in {"stat", "hash"} /\ pc' \in {"stat", "hash", "raised"}
        /\ UNCHANGED countVars
    BY <1>2 DEF StatFile, HashFile
  <2> QED
    BY <2>1 DEF OutcomeInv, InFile, countVars
<1>3. CASE SnapshotTaken
  <2>1. /\ pc = "stat" /\ pc' = "file" /\ current' = 1
        /\ UNCHANGED countVars /\ ~mutated
    BY <1>3 DEF SnapshotTaken, FoldInv, PassProgress
  <2>2. /\ committed = {} /\ aborted = {} /\ attempted = 0 /\ skipped = {}
    BY <2>1 DEF OutcomeInv
  <2>3. Cardinality({}) = 0
    BY FS_EmptySet
  <2> QED
    BY <2>1, <2>2, <2>3 DEF OutcomeInv, InFile, countVars
<1>4. CASE BeginFile
  <2>1. /\ pc = "file" /\ pc' = "check" /\ attempted' = attempted + 1
        /\ UNCHANGED <<current, committed, aborted, skipped, mutated>>
    BY <1>4 DEF BeginFile
  <2>2. attempted = Cardinality(committed) + Cardinality(aborted \ skipped) + 0
    BY <2>1 DEF OutcomeInv, InFile
  <2>3. attempted' = Cardinality(committed') + Cardinality(aborted' \ skipped') + 1
    BY <2>1, <2>2, OutcomeSets
  <2> QED
    BY <2>1, <2>3 DEF OutcomeInv, InFile
<1>5. ASSUME NEW at \in {"check", "verify", "eof"}, NEW fine,
             NEW next \in {"verify", "open", "commit"}, Check(at, fine, next)
      PROVE  OutcomeInv'
  <2>1. CASE FileFails \/ FailPass
    BY <1>5, <2>1, AbortFileCounted, FailPassCounted DEF Check, FileFails, InFile
  <2>2. CASE UNCHANGED <<current, countVars>> /\ pc' = next
    BY <1>5, <2>2 DEF Check, OutcomeInv, InFile, countVars
  <2> QED
    BY <1>5, <2>1, <2>2 DEF Check
<1>6. CASE CheckIdentity \/ VerifyBefore \/ VerifyAfter
  BY <1>5, <1>6 DEF CheckIdentity, VerifyBefore, VerifyAfter
<1>7. CASE OpenFile
  <2>1. CASE FileFails
    BY <1>7, <2>1, AbortFileCounted DEF OpenFile, FileFails, InFile
  <2>2. CASE UNCHANGED <<current, countVars>> /\ pc' = "read"
    BY <1>7, <2>2 DEF OpenFile, OutcomeInv, InFile, countVars
  <2> QED
    BY <1>7, <2>1, <2>2 DEF OpenFile
<1>8. CASE SkipFile \/ DecodeFails
  BY <1>8, AbortFileCounted DEF SkipFile, DecodeFails, FileFails, InFile
<1>9. CASE CommitFile
  BY <1>9, CommitCounted
<1>10. CASE Finish
  <2>1. /\ pc = "file" /\ pc' = "done" /\ current > NFiles
        /\ UNCHANGED <<current, countVars>> /\ current \in 1..(NFiles + 1)
    BY <1>10 DEF Finish, FoldInv, FoldTypeOK
  <2> QED
    BY <2>1 DEF OutcomeInv, InFile, countVars
<1> QED
  BY <1>1, <1>2, <1>3, <1>4, <1>6, <1>7, <1>8, <1>9, <1>10, <1>11
     DEF Next, Load

(* Every attempted file is committed or aborted, never both, and the       *)
(* counters say how many there are (fold.py's FileOutcomes, LoadQuality).  *)
THEOREM EveryFileHasOneOutcome == Spec => []OutcomesPartition
<1>1. Init => OutcomeInv
  BY DEF Init, OutcomeInv, InFile
<1>2. FoldInv /\ OutcomeInv => OutcomesPartition
  <2> SUFFICES ASSUME FoldInv, OutcomeInv PROVE OutcomesPartition
    OBVIOUS
  <2>1. ASSUME pc \in {"file", "done"}
        PROVE  attempted = Cardinality(committed) + Cardinality(aborted \ skipped)
    <3>1. attempted = Cardinality(committed) + Cardinality(aborted \ skipped) + 0
      BY <2>1 DEF OutcomeInv, InFile
    <3> QED
      BY <3>1, OutcomeSets
  <2>2. pc = "done" /\ ~mutated => committed \cup aborted = Files
    BY DEF OutcomeInv
  <2> QED
    BY <2>1, <2>2 DEF OutcomesPartition, OutcomeInv
<1> QED
  BY <1>1, <1>2, OutcomeStep, FoldInvariant, PTL DEF Spec
=============================================================================
