---------------------------- MODULE ArchiveFile ----------------------------
(***************************************************************************)
(* The .syc archive file under syc a (src/src/sycarc.pas): how versions    *)
(* are appended (AddCommand, TAdder.WriteIndexAndCommit), how a reader     *)
(* finds the complete ones (TArchive.Open, ScanForward, LoadVersion), and  *)
(* what an error, a kill or a power loss at any moment leaves behind.      *)
(*                                                                         *)
(* The file is kept twice: what the processes see (cache) and what is on   *)
(* the disk (disk).  The kernel may write any part back at any time, whole *)
(* or damaged; FileFlush makes the disk equal to the cache; a power loss   *)
(* leaves only what is on the disk.                                        *)
(*                                                                         *)
(* Version k of the file occupies region k, which has four parts, in the   *)
(* order they are written: its head, its data (block records and the zero  *)
(* that ends them), its index and its commit record.  A part holds the     *)
(* number of the run of syc a (a session) that wrote it, or one of the     *)
(* values below.  Two sessions that wrote the same region are taken to     *)
(* have written parts of the same sizes: that is the case in which a mix   *)
(* of theirs is hardest to notice.                                         *)
(***************************************************************************)
EXTENDS Integers

CONSTANTS
  Procs,           \* processes that run syc a on the archive, each repeatedly
  Serial,          \* TRUE: a run begins only when no other one is under way
  DenyWrite,       \* TRUE: fmShareDenyWrite keeps other processes out (Windows)
  FlushMayFail,    \* TRUE: FileFlush may fail
  MaxVersions,     \* bound: regions of the file
  MaxSessions      \* bound: runs that get as far as writing

ASSUME ArchiveFileAssumption ==
  /\ Serial \in BOOLEAN
  /\ DenyWrite \in BOOLEAN
  /\ FlushMayFail \in BOOLEAN
  /\ MaxVersions \in Nat \ {0}
  /\ MaxSessions \in Nat \ {0}

VARIABLES
  cache,       \* the file as processes see it: region -> part -> value
  disk,        \* the file as it is on the disk
  pc,          \* process -> where its run of syc a is
  seen,        \* process -> the number of versions it found (goodEnd)
  session,     \* process -> the number of its session
  sessions,    \* sessions so far
  acked        \* <<k, s>>: session s reported success for version k

vars == <<cache, disk, pc, seen, session, sessions, acked>>

Region == 1 .. MaxVersions
Head == 1
Data == 2
Index == 3
Commit == 4
Part == 1 .. 4

Sessions == 1 .. MaxSessions
None == 0        \* past the end of the file
Junk == -1       \* damaged: no reader recognises it
Torn == -2       \* damaged, but its first bytes (magic, lengths) are right
Value == Sessions \cup {None, Junk, Torn}

Image == [Region -> [Part -> Value]]

-----------------------------------------------------------------------------
(* Reading: which versions TArchive.Open finds in an image of the file.     *)

(* Region k begins before the file's end. *)
Begun(img, k) == img[k][Head] # None

(* Mistake: the commit record's checksum is not compared. *)
CommitGoodUnchecked(img, k) == img[k][Commit] \in Sessions \cup {Torn}

(* ReadCommit: the record's magic, its checksum and its offsets are right.  *)
CommitGood(img, k) == img[k][Commit] \in Sessions

(* Back from the end of the file, commit by commit, to the first version.   *)
BackwardOK(img) == \A k \in Region : Begun(img, k) => CommitGood(img, k)

(* ScanForward's test of one version: the head's magic, the chain of block  *)
(* headers to the index's header, and the commit after it.                  *)
ForwardGood(img, k) ==
  /\ img[k][Head] \in Sessions
  /\ img[k][Data] \in Sessions \cup {Torn}
  /\ img[k][Index] \in Sessions \cup {Torn}
  /\ CommitGood(img, k)

(* The first n regions are the versions Open finds; of a damaged file, as   *)
(* many as are good from the first one on.                                  *)
Found(img, n) ==
  /\ n \in 0 .. MaxVersions
  /\ \/ /\ BackwardOK(img)
        /\ \A k \in Region : Begun(img, k) <=> k <= n
     \/ /\ ~BackwardOK(img)
        /\ \A k \in 1 .. n : ForwardGood(img, k)
        /\ n < MaxVersions => ~ForwardGood(img, n + 1)

(* LoadVersion: the head and the index, checked against its CRC or its tag; *)
(* the index ends at the commit and the blocks lead to it.  The payloads of *)
(* the blocks are not read.                                                 *)
LoadGood(img, k) == img[k][Head] \in Sessions /\ img[k][Index] \in Sessions

(* Open succeeds with n versions (otherwise it raises Corrupt). *)
Opens(img, n) == Found(img, n) /\ \A k \in 1 .. n : LoadGood(img, k)

(* All of version k is what session s wrote: x and t find no error in it.   *)
Whole(img, k, s) == \A q \in Part : img[k][q] = s

-----------------------------------------------------------------------------
(* The file system.                                                         *)

Blank == [q \in Part |-> None]
Whole1 == [q \in Part |-> 1]

(* File.Size := the end of version n; a shorter file grows by zeros. *)
Cut(img, n) ==
  [k \in Region |->
     IF k <= n THEN [q \in Part |-> IF img[k][q] = None THEN Junk ELSE img[k][q]]
     ELSE Blank]

Put(img, k, q, v) == [img EXCEPT ![k][q] = v]

Before(j, r, k, q) == j < k \/ (j = k /\ r < q)

(* A part reaches the disk, or some of it does.  Parts before it that have  *)
(* not are holes in the file.                                               *)
Stored(img, k, q, v) ==
  [j \in Region |-> [r \in Part |->
     IF j = k /\ r = q THEN v
     ELSE IF Before(j, r, k, q) /\ img[j][r] = None THEN Junk
     ELSE img[j][r]]]

WriteBack(k, q) ==
  /\ disk[k][q] # cache[k][q]
  /\ cache[k][q] # None
  /\ \E v \in {cache[k][q], Junk, Torn} : disk' = Stored(disk, k, q, v)
  /\ UNCHANGED <<cache, pc, seen, session, sessions, acked>>

(* The file's new, smaller size reaches the disk. *)
WriteBackSize ==
  /\ \E k \in Region, q \in Part : cache[k][q] = None /\ disk[k][q] # None
  /\ disk' = [k \in Region |-> [q \in Part |->
                IF cache[k][q] = None THEN None ELSE disk[k][q]]]
  /\ UNCHANGED <<cache, pc, seen, session, sessions, acked>>

-----------------------------------------------------------------------------
(* One run of syc a on an archive that exists.                              *)

Writing == {"head", "data", "index", "flush", "commit", "sync", "report"}
PartOf == [head |-> Head, data |-> Data, index |-> Index, commit |-> Commit]

Goto(p, label) == pc' = [pc EXCEPT ![p] = label]

(* Whether the file can be opened with fmShareDenyWrite.  On Windows it     *)
(* cannot while a process has it open for writing.  On Unix the run-time    *)
(* library takes a shared lock for that mode (flock, LOCK_SH), for reading  *)
(* and for writing alike: it keeps nobody out.                              *)
NotDenied == DenyWrite => \A o \in Procs : pc[o] \notin Writing

(* TArchive.Open, then the file is closed: what was found is remembered.    *)
(* If Open fails, so does the run.                                          *)
Read(p) ==
  /\ pc[p] = "idle"
  /\ Serial => \A o \in Procs : pc[o] = "idle"
  /\ NotDenied
  /\ \E n \in 0 .. MaxVersions : Opens(cache, n) /\ seen' = [seen EXCEPT ![p] = n]
  /\ Goto(p, "diff")
  /\ UNCHANGED <<cache, disk, session, sessions, acked>>

(* The directory walk finds no change, or fails, or the file cannot be      *)
(* opened: nothing is written.                                              *)
GiveUp(p) ==
  /\ pc[p] = "diff"
  /\ Goto(p, "idle")
  /\ UNCHANGED <<cache, disk, seen, session, sessions, acked>>

(* Mistake: the file is opened without fmShareDenyWrite. *)
OpenForWritingShared(p) ==
  /\ pc[p] = "diff"
  /\ seen[p] < MaxVersions /\ sessions < MaxSessions
  /\ cache' = Cut(cache, seen[p])
  /\ sessions' = sessions + 1
  /\ session' = [session EXCEPT ![p] = sessions']
  /\ Goto(p, "head")
  /\ UNCHANGED <<disk, seen, acked>>

(* Open for writing and cut everything after the versions that were found   *)
(* when the file was read.                                                  *)
OpenForWriting(p) ==
  /\ pc[p] = "diff"
  /\ NotDenied
  /\ seen[p] < MaxVersions /\ sessions < MaxSessions      \* the model's bounds
  /\ cache' = Cut(cache, seen[p])
  /\ sessions' = sessions + 1
  /\ session' = [session EXCEPT ![p] = sessions']
  /\ Goto(p, "head")
  /\ UNCHANGED <<disk, seen, acked>>

(* Mistake: the position is the last version's start, not its end. *)
WriteOverLast(p, part, then) ==
  /\ pc[p] = part
  /\ cache' = Put(cache, seen[p], PartOf[part], session[p])
  /\ Goto(p, then)
  /\ UNCHANGED <<disk, seen, session, sessions, acked>>

(* A part is written, after the last version found. *)
Write(p, part, then) ==
  /\ pc[p] = part
  /\ cache' = Put(cache, seen[p] + 1, PartOf[part], session[p])
  /\ Goto(p, then)
  /\ UNCHANGED <<disk, seen, session, sessions, acked>>

WriteHead(p) == Write(p, "head", "data")
WriteBlocks(p) == Write(p, "data", "index")
WriteIndex(p) == Write(p, "index", "flush")
WriteCommit(p) == Write(p, "commit", "sync")

(* FileFlush; its result is not looked at. *)
Flush(p, label, then) ==
  /\ pc[p] = label
  /\ disk' \in {cache} \cup IF FlushMayFail THEN {disk} ELSE {}
  /\ Goto(p, then)
  /\ UNCHANGED <<cache, seen, session, sessions, acked>>

(* Mistakes: the first, or the second FileFlush is not called. *)
FlushVersionSkipped(p) ==
  /\ pc[p] = "flush"
  /\ Goto(p, "commit")
  /\ UNCHANGED <<cache, disk, seen, session, sessions, acked>>

FlushCommitSkipped(p) ==
  /\ pc[p] = "sync"
  /\ Goto(p, "report")
  /\ UNCHANGED <<cache, disk, seen, session, sessions, acked>>

FlushVersion(p) == Flush(p, "flush", "commit")
FlushCommit(p) == Flush(p, "sync", "report")

(* Mistake: the version that is reported is one too high. *)
ReportNext(p) ==
  /\ pc[p] = "report"
  /\ acked' = acked \cup {<<seen[p] + 2, session[p]>>}
  /\ Goto(p, "idle")
  /\ UNCHANGED <<cache, disk, seen, session, sessions>>

(* The file is closed and success is reported. *)
Report(p) ==
  /\ pc[p] = "report"
  /\ acked' = acked \cup {<<seen[p] + 1, session[p]>>}
  /\ Goto(p, "idle")
  /\ UNCHANGED <<cache, disk, seen, session, sessions>>

(* A write may be cut short: its part is then damaged. *)
CutShort(p) ==
  IF pc[p] \in DOMAIN PartOf
  THEN {cache} \cup {Put(cache, seen[p] + 1, PartOf[pc[p]], v) : v \in {Junk, Torn}}
  ELSE {cache}

(* Mistake: the file is cut back to where the last version begins. *)
WriteFailsDropsLast(p) ==
  /\ pc[p] \in DOMAIN PartOf
  /\ cache' = Cut(cache, seen[p] - 1)
  /\ Goto(p, "idle")
  /\ UNCHANGED <<disk, seen, session, sessions, acked>>

(* A write that fails (the disk is full), or any other exception while the  *)
(* version is written: the file is cut back to the versions found, unless   *)
(* that fails as well, which is not looked at.                              *)
WriteFails(p) ==
  /\ pc[p] \in DOMAIN PartOf
  /\ cache' \in {Cut(cache, seen[p])} \cup CutShort(p)
  /\ Goto(p, "idle")
  /\ UNCHANGED <<disk, seen, session, sessions, acked>>

(* The process is killed. *)
Kill(p) ==
  /\ pc[p] \in Writing
  /\ cache' \in CutShort(p)
  /\ Goto(p, "idle")
  /\ UNCHANGED <<disk, seen, session, sessions, acked>>

(* Every process ends and the cache is gone. *)
PowerLoss ==
  /\ cache' = disk
  /\ pc' = [p \in Procs |-> "idle"]
  /\ UNCHANGED <<disk, seen, session, sessions, acked>>

-----------------------------------------------------------------------------
(* An archive that its first syc a has created: version 1, whole, by        *)
(* session 1.                                                               *)
Init ==
  /\ cache = [k \in Region |-> IF k = 1 THEN Whole1 ELSE Blank]
  /\ disk = cache
  /\ pc = [p \in Procs |-> "idle"]
  /\ seen = [p \in Procs |-> 0]
  /\ session = [p \in Procs |-> 1]
  /\ sessions = 1
  /\ acked = {<<1, 1>>}

Step(p) ==
  \/ Read(p) \/ GiveUp(p) \/ OpenForWriting(p)
  \/ WriteHead(p) \/ WriteBlocks(p) \/ WriteIndex(p) \/ FlushVersion(p)
  \/ WriteCommit(p) \/ FlushCommit(p) \/ Report(p)
  \/ WriteFails(p) \/ Kill(p)

Next ==
  \/ \E p \in Procs : Step(p)
  \/ \E k \in Region, q \in Part : WriteBack(k, q)
  \/ WriteBackSize
  \/ PowerLoss

Spec == Init /\ [][Next]_vars

-----------------------------------------------------------------------------
TypeOK ==
  /\ cache \in Image
  /\ disk \in Image
  /\ pc \in [Procs -> {"idle", "diff"} \cup Writing]
  /\ seen \in [Procs -> 0 .. MaxVersions]
  /\ session \in [Procs -> Sessions]
  /\ sessions \in Sessions
  /\ acked \in SUBSET (Region \X Sessions)

(* An archive can always be read: whatever was interrupted, Open finds a    *)
(* number of versions and none of them makes it raise Corrupt.              *)
OpenNeverCorrupt == \E n \in 0 .. MaxVersions : Opens(cache, n)

(* Every version that Open finds is whole, down to the blocks that Open     *)
(* does not read, and is one session's: no interrupted, damaged or mixed    *)
(* version is ever taken for a version.                                     *)
FoundVersionsWhole ==
  \A n \in 0 .. MaxVersions : Found(cache, n) =>
    \A k \in 1 .. n : \E s \in Sessions : Whole(cache, k, s)

(* A version whose syc a reported success is found and is whole from then   *)
(* on ("and the commit before syc a reports success"), through every kill,  *)
(* failed write and power loss.                                             *)
AckedReadable ==
  \A n \in 0 .. MaxVersions : Found(cache, n) =>
    \A a \in acked : a[1] <= n /\ Whole(cache, a[1], a[2])

(* The parts of its version that a process has written. *)
Done(p) ==
  CASE pc[p] = "head" -> {}
    [] pc[p] = "data" -> {Head}
    [] pc[p] = "index" -> {Head, Data}
    [] pc[p] \in {"flush", "commit"} -> {Head, Data, Index}
    [] OTHER -> Part

(* What a run of syc a has written stays as it was written, and is the end  *)
(* of the file, until the run ends: whatever other runs found, cut or gave  *)
(* up since it read the archive; and when it reports success nothing of it  *)
(* is still to be flushed.  This needs a lock that keeps other writers out  *)
(* (DenyWrite), or runs that do not overlap (Serial).                       *)
WrittenStays ==
  \A p \in Procs : pc[p] \in Writing =>
    /\ \A q \in Part : cache[seen[p] + 1][q] = IF q \in Done(p) THEN session[p] ELSE None
    /\ \A k \in Region : k > seen[p] + 1 => ~Begun(cache, k)
    /\ pc[p] = "report" => Whole(disk, seen[p] + 1, session[p])

(* "The old versions are never rewritten": no step of a process changes or  *)
(* drops a version that a reader finds; only a power loss can drop one.     *)
OldVersionsKept ==
  [][ \A n \in 0 .. MaxVersions : Found(cache, n) =>
        \/ PowerLoss
        \/ \A k \in 1 .. n : cache'[k] = cache[k] ]_vars

-----------------------------------------------------------------------------
(* The archive as a log of versions. *)
Versions == CHOOSE n \in 0 .. MaxVersions : Found(cache, n)
AckedVersions == {a[1] : a \in acked}

VersionWriters == [k \in 1 .. Versions |-> cache[k][Commit]]
LastAcked == CHOOSE k \in AckedVersions : \A j \in AckedVersions : j <= k

Log == INSTANCE VersionLog WITH
         Session <- Sessions, log <- VersionWriters, reported <- LastAcked

(* syc a implements the log: versions are added one at a time at the end,   *)
(* and only the last, unreported one can be lost.                           *)
ImplementsLog == Log!Spec
=============================================================================
