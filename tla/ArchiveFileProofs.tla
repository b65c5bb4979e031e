------------------------- MODULE ArchiveFileProofs -------------------------
(***************************************************************************)
(* Proofs about ArchiveFile, for any number of processes, versions and     *)
(* sessions.  When runs of syc a do not overlap (Serial) and FileFlush does*)
(* what it says (~FlushMayFail): a reported version is found and whole     *)
(* ever after, Open never fails, and the file implements VersionLog.  Runs *)
(* that overlap: what one has written stays until it ends, where the lock  *)
(* keeps the others from writing (DenyWrite; Locked).                      *)
(*                                                                         *)
(* The invariant splits the file at two points.  Versions 1 .. n are on    *)
(* the disk as they are in the cache; versions 1 .. m are whole in the     *)
(* cache, where m is n, or n + 1 while the last commit record is not on    *)
(* the disk.  No region beyond has a commit record, in either place, so    *)
(* Open finds m versions now and n after a power loss.                     *)
(***************************************************************************)
EXTENDS ArchiveFile, TLAPS

S == INSTANCE Sequences

WholeSome(img, j) == \E s \in Sessions : Whole(img, j, s)

Layout(n, m) ==
  /\ n \in 0 .. MaxVersions /\ m \in 0 .. MaxVersions
  /\ m = n \/ m = n + 1
  /\ \A j \in 1 .. m : WholeSome(cache, j)
  /\ \A j \in 1 .. n : disk[j] = cache[j]
  /\ \A j \in Region : j > m => ~CommitGood(cache, j)
  /\ \A j \in Region : j > n => ~CommitGood(disk, j)
  /\ m # n => \A q \in {Head, Data, Index} : disk[m][q] = cache[m][q]
  /\ \A a \in acked : a[1] \in 1 .. n /\ Whole(cache, a[1], a[2])

(* What the process under way has written, and what of it is on the disk.   *)
Progress(p, n, m) ==
  /\ pc[p] \in {"diff", "head", "data", "index", "flush", "commit"} => seen[p] = m
  /\ pc[p] \in {"head", "data", "index", "flush", "commit"} => m < MaxVersions
  /\ pc[p] \in {"data", "index", "flush", "commit"} => cache[m + 1][Head] = session[p]
  /\ pc[p] \in {"index", "flush", "commit"} => cache[m + 1][Data] = session[p]
  /\ pc[p] \in {"flush", "commit"} => cache[m + 1][Index] = session[p]
  /\ pc[p] = "commit" =>
       n = m /\ \A q \in {Head, Data, Index} : disk[m + 1][q] = session[p]
  /\ pc[p] \in {"sync", "report"} => seen[p] + 1 = m /\ Whole(cache, m, session[p])
  /\ pc[p] = "report" => n = m

Alone == \A p, o \in Procs : pc[p] # "idle" /\ pc[o] # "idle" => p = o

Inv(n, m) == TypeOK /\ Alone /\ Layout(n, m) /\ \A p \in Procs : Progress(p, n, m)

IInv == \E n, m \in 0 .. MaxVersions : Inv(n, m)

-----------------------------------------------------------------------------
(* The parts of a region, and the values that are no session's.             *)
LEMMA Parts ==
  /\ Part = {Head, Data, Index, Commit}
  /\ Head # Data /\ Head # Index /\ Head # Commit
  /\ Data # Index /\ Data # Commit /\ Index # Commit
  /\ None \notin Sessions /\ Junk \notin Sessions /\ Torn \notin Sessions
  /\ None \in Value /\ Junk \in Value /\ Torn \in Value /\ Sessions \subseteq Value
  /\ None # Junk /\ None # Torn
BY DEF Part, Head, Data, Index, Commit, None, Junk, Torn, Sessions, Value

(* Two regions with the same values in every part are equal.                *)
LEMMA SameRegion ==
  ASSUME NEW f \in Image, NEW g \in Image, NEW j \in Region,
         \A q \in Part : f[j][q] = g[j][q]
  PROVE  f[j] = g[j]
BY DEF Image

LEMMA CutFacts ==
  ASSUME NEW img \in Image, NEW n \in 0 .. MaxVersions
  PROVE  /\ Cut(img, n) \in Image
         /\ \A j \in Region : j <= n /\ (\A q \in Part : img[j][q] # None) => Cut(img, n)[j] = img[j]
         /\ \A j \in Region : j > n => Cut(img, n)[j][Commit] = None
<1>1. Blank \in [Part -> Value] /\ Blank[Commit] = None
  BY Parts DEF Blank
<1>2. Cut(img, n) \in Image
  BY <1>1, Parts DEF Cut, Image
<1>3. ASSUME NEW j \in Region, j <= n, \A q \in Part : img[j][q] # None
      PROVE  Cut(img, n)[j] = img[j]
  <2>1. \A q \in Part : Cut(img, n)[j][q] = img[j][q]
    BY <1>3 DEF Cut
  <2> QED
    BY <1>2, <2>1, SameRegion
<1> QED
  BY <1>1, <1>2, <1>3 DEF Cut, Region

LEMMA PutFacts ==
  ASSUME NEW img \in Image, NEW j \in Region, NEW q \in Part, NEW v \in Value
  PROVE  /\ Put(img, j, q, v) \in Image
         /\ Put(img, j, q, v)[j][q] = v
         /\ \A r \in Part : r # q => Put(img, j, q, v)[j][r] = img[j][r]
         /\ \A i \in Region : i # j => Put(img, j, q, v)[i] = img[i]
BY DEF Put, Image

(* Writing a part back changes nothing that is written before it.           *)
LEMMA StoredFacts ==
  ASSUME NEW img \in Image, NEW j \in Region, NEW q \in Part, NEW v \in Value
  PROVE  /\ Stored(img, j, q, v) \in Image
         /\ Stored(img, j, q, v)[j][q] = v
         /\ \A i \in Region, r \in Part :
              (i # j \/ r # q) =>
                 \/ Stored(img, j, q, v)[i][r] = img[i][r]
                 \/ img[i][r] = None /\ Stored(img, j, q, v)[i][r] = Junk
<1>1. \A i \in Region, r \in Part : img[i][r] \in Value
  BY DEF Image
<1> QED
  BY <1>1, Parts DEF Stored, Image

-----------------------------------------------------------------------------
(* Open finds just the versions before the first region without a commit.   *)
LEMMA FoundIs ==
  ASSUME NEW img, NEW m \in 0 .. MaxVersions,
         \A j \in 1 .. m : WholeSome(img, j),
         \A j \in Region : j > m => ~CommitGood(img, j)
  PROVE  /\ Opens(img, m)
         /\ \A i \in 0 .. MaxVersions : Found(img, i) => i = m
<1> USE ArchiveFileAssumption
<1>1. \A j \in 1 .. m : j \in Region /\ Begun(img, j) /\ CommitGood(img, j)
                        /\ ForwardGood(img, j) /\ LoadGood(img, j)
  BY Parts DEF WholeSome, Whole, Begun, CommitGood, ForwardGood, LoadGood, Region
<1>2. \A j \in Region : j > m => ~ForwardGood(img, j)
  BY DEF ForwardGood
<1>3. m < MaxVersions => m + 1 \in Region
  BY DEF Region
<1>4. Found(img, m)
  <2>1. CASE BackwardOK(img)
    <3>1. \A j \in Region : Begun(img, j) <=> j <= m
      BY <1>1, <2>1 DEF BackwardOK, Region
    <3> QED
      BY <2>1, <3>1 DEF Found
  <2>2. CASE ~BackwardOK(img)
    BY <1>1, <1>2, <1>3, <2>2 DEF Found
  <2> QED
    BY <2>1, <2>2
<1>5. ASSUME NEW i \in 0 .. MaxVersions, Found(img, i)
      PROVE  i = m
  <2>1. CASE BackwardOK(img)
    <3>1. \A j \in Region : Begun(img, j) <=> j <= i
      BY <1>5, <2>1 DEF Found
    <3>2. ~(i > m)
      BY <3>1, <2>1, <1>3 DEF BackwardOK, Region
    <3>3. ~(i < m)
      BY <3>1, <1>1 DEF Region
    <3> QED
      BY <3>2, <3>3
  <2>2. CASE ~BackwardOK(img)
    <3>1. ~(i > m)
      BY <1>5, <2>2, <1>2, <1>3 DEF Found, Region
    <3>2. ~(i < m)
      BY <1>5, <2>2, <1>1 DEF Found
    <3> QED
      BY <3>1, <3>2
  <2> QED
    BY <2>1, <2>2
<1> QED
  BY <1>1, <1>4, <1>5 DEF Opens

LEMMA FirstInv == Init => 1 \in 0 .. MaxVersions /\ Inv(1, 1)
<1> SUFFICES ASSUME Init PROVE Inv(1, 1) /\ 1 \in 0 .. MaxVersions
  OBVIOUS
<1> USE ArchiveFileAssumption DEF Init
<1>1. 1 \in Region /\ 1 \in Sessions /\ Region = 1 .. MaxVersions
  BY DEF Region, Sessions
<1>2. Whole1 \in [Part -> Value] /\ Blank \in [Part -> Value]
  BY <1>1, Parts DEF Whole1, Blank
<1>3. cache \in Image /\ disk = cache
  BY <1>2 DEF Image
<1>4. Whole(cache, 1, 1)
  BY <1>1 DEF Whole, Whole1
<1>5. \A j \in Region : j > 1 => ~CommitGood(cache, j)
  BY Parts DEF CommitGood, Blank
<1>6. TypeOK
  BY <1>1, <1>3 DEF TypeOK, Writing
<1>7. Layout(1, 1)
  <2>1. acked = {<<1, 1>>}
    OBVIOUS
  <2> HIDE DEF Init
  <2>2. WholeSome(cache, 1) /\ disk[1] = cache[1]
    BY <1>1, <1>3, <1>4 DEF WholeSome
  <2>3. \A j \in Region : j > 1 => ~CommitGood(disk, j)
    BY <1>3, <1>5
  <2>4. \A a \in acked : a[1] \in 1 .. 1 /\ Whole(cache, a[1], a[2])
    BY <1>4, <2>1
  <2>5. 1 .. 1 = {1}
    OBVIOUS
  <2> QED
    BY <1>1, <1>5, <2>2, <2>3, <2>4, <2>5 DEF Layout
<1>8. Alone /\ \A p \in Procs : Progress(p, 1, 1)
  BY DEF Alone, Progress
<1> QED
  BY <1>1, <1>6, <1>7, <1>8 DEF Inv

LEMMA InitInv == Init => IInv
BY FirstInv DEF IInv

-----------------------------------------------------------------------------
(* The file system's steps.                                                 *)

(* What Layout says of the versions in the cache stays true when the cache  *)
(* does not change; only the disk's part has to be shown again.             *)
LEMMA DiskStep ==
  ASSUME NEW n \in 0 .. MaxVersions, NEW m \in 0 .. MaxVersions, Inv(n, m),
         NEW i \in {n, m},
         UNCHANGED <<cache, pc, seen, session, sessions, acked>>,
         disk' \in Image,
         \A j \in 1 .. i : disk'[j] = cache[j],
         \A j \in Region : j > i => ~CommitGood(disk', j),
         m # i => \A q \in {Head, Data, Index} : disk'[m][q] = cache[m][q],
         \A p \in Procs : pc[p] = "commit" =>
           \A q \in {Head, Data, Index} : disk'[m + 1][q] = session[p]
  PROVE  Inv(i, m)'
<1>1. TypeOK'
  BY DEF Inv, TypeOK
<1>2. Alone'
  BY DEF Inv, Alone
<1>3. Layout(i, m)'
  BY DEF Inv, Layout, WholeSome, Whole, CommitGood
<1>4. ASSUME NEW p \in Procs PROVE Progress(p, i, m)'
  BY DEF Inv, Progress, Whole
<1> QED
  BY <1>1, <1>2, <1>3, <1>4 DEF Inv

LEMMA WriteBackStep ==
  ASSUME NEW n \in 0 .. MaxVersions, NEW m \in 0 .. MaxVersions, Inv(n, m),
         NEW i \in Region, NEW r \in Part, WriteBack(i, r)
  PROVE  Inv(n, m)' \/ Inv(m, m)'
<1> USE Parts, ArchiveFileAssumption
<1>1. PICK v \in {cache[i][r], Junk, Torn} : disk' = Stored(disk, i, r, v)
  BY DEF WriteBack
<1>2. cache \in Image /\ disk \in Image /\ v \in Value /\ v # None
  <2>1. cache \in Image /\ disk \in Image
    BY DEF Inv, TypeOK
  <2>2. cache[i][r] \in Value /\ cache[i][r] # None
    BY <2>1 DEF Image, WriteBack
  <2> QED
    BY <1>1, <2>1, <2>2
<1>3. /\ disk' \in Image /\ disk'[i][r] = v
      /\ \A j \in Region, q \in Part : j # i \/ q # r =>
           disk'[j][q] = disk[j][q] \/ (disk[j][q] = None /\ disk'[j][q] = Junk)
  <2> HIDE DEF Region, Part, Image, Value
  <2> QED
    BY ONLY <1>1, <1>2, StoredFacts, i \in Region, r \in Part
<1>4. /\ UNCHANGED <<cache, pc, seen, session, sessions, acked>>
      /\ disk[i][r] # cache[i][r]
  BY DEF WriteBack
<1>5. i > n
  BY <1>4 DEF Inv, Layout, Region
<1>6. \A j \in 1 .. n : j \in Region /\ \A q \in Part : cache[j][q] # None
  BY DEF Inv, Layout, WholeSome, Whole, Region
<1>7. \A j \in 1 .. n : disk'[j] = cache[j]
  <2> SUFFICES ASSUME NEW j \in 1 .. n PROVE disk'[j] = cache[j]
    OBVIOUS
  <2>1. disk[j] = cache[j]
    BY DEF Inv, Layout
  <2>2. \A q \in Part : disk'[j][q] = cache[j][q]
    BY <1>3, <1>5, <1>6, <2>1
  <2> QED
    BY <1>2, <1>3, <1>6, <2>2, SameRegion
(* a commit record reaches the disk only if it is in the cache *)
<1>8. \A j \in Region : j > n /\ CommitGood(disk', j) =>
        j = i /\ r = Commit /\ v = cache[i][Commit] /\ CommitGood(cache, i)
  BY <1>1, <1>3 DEF CommitGood, Inv, Layout
<1>9. \A p \in Procs : pc[p] = "commit" =>
        \A q \in {Head, Data, Index} : disk'[m + 1][q] = session[p]
  <2> SUFFICES ASSUME NEW p \in Procs, pc[p] = "commit", NEW q \in {Head, Data, Index}
               PROVE  disk'[m + 1][q] = session[p]
    OBVIOUS
  <2>1. m + 1 \in Region /\ session[p] \in Sessions
    BY DEF Inv, Progress, TypeOK, Region
  <2>2. disk[m + 1][q] = session[p] /\ cache[m + 1][q] = session[p]
    BY DEF Inv, Progress
  <2> QED
    BY <1>3, <1>4, <2>1, <2>2
<1>10. m # n => \A q \in {Head, Data, Index} :
         disk[m][q] = cache[m][q] /\ disk'[m][q] = cache[m][q]
  <2> SUFFICES ASSUME m # n, NEW q \in {Head, Data, Index}
               PROVE  disk[m][q] = cache[m][q] /\ disk'[m][q] = cache[m][q]
    OBVIOUS
  <2>1. m \in Region /\ m \in 1 .. m
    BY DEF Inv, Layout, Region
  <2>2. disk[m][q] = cache[m][q] /\ cache[m][q] # None
    BY <2>1 DEF Inv, Layout, WholeSome, Whole
  <2> QED
    BY <1>3, <1>4, <2>1, <2>2
<1>11. CASE \A j \in Region : j > n => ~CommitGood(disk', j)
  BY <1>3, <1>4, <1>7, <1>9, <1>10, <1>11, DiskStep
<1>12. CASE \E j \in Region : j > n /\ CommitGood(disk', j)
  <2>1. i = m /\ m = n + 1 /\ r = Commit /\ disk'[m][Commit] = cache[m][Commit]
    BY <1>3, <1>8, <1>12, <1>5 DEF Inv, Layout, Region
  <2>2. disk'[m] = cache[m]
    BY <1>2, <1>3, <1>10, <2>1, SameRegion
  <2>3. \A j \in 1 .. m : disk'[j] = cache[j]
    BY <1>7, <2>1, <2>2
  <2>4. \A j \in Region : j > m => ~CommitGood(disk', j)
    BY <1>8, <2>1 DEF Region
  <2> QED
    BY <1>3, <1>4, <1>9, <2>3, <2>4, DiskStep
<1> QED
  BY <1>11, <1>12

LEMMA WriteBackSizeStep ==
  ASSUME NEW n \in 0 .. MaxVersions, NEW m \in 0 .. MaxVersions, Inv(n, m), WriteBackSize
  PROVE  Inv(n, m)'
<1> USE Parts, ArchiveFileAssumption
<1>1. /\ UNCHANGED <<cache, pc, seen, session, sessions, acked>>
      /\ disk' = [j \in Region |-> [q \in Part |->
                    IF cache[j][q] = None THEN None ELSE disk[j][q]]]
  BY DEF WriteBackSize
<1>2. cache \in Image /\ disk \in Image /\ disk' \in Image
  BY <1>1 DEF Inv, TypeOK, Image
<1>3. \A j \in Region, q \in Part :
        disk'[j][q] = IF cache[j][q] = None THEN None ELSE disk[j][q]
  BY <1>1
<1>4. \A j \in 1 .. n : disk'[j] = cache[j]
  <2> SUFFICES ASSUME NEW j \in 1 .. n PROVE disk'[j] = cache[j]
    OBVIOUS
  <2>1. j \in Region /\ disk[j] = cache[j]
    BY DEF Inv, Layout, Region
  <2>2. \A q \in Part : disk'[j][q] = cache[j][q]
    BY <1>3, <2>1
  <2> QED
    BY <1>2, <2>1, <2>2, SameRegion
<1>5. \A j \in Region : j > n => ~CommitGood(disk', j)
  BY <1>3 DEF CommitGood, Inv, Layout
<1>6. m # n => \A q \in {Head, Data, Index} : disk'[m][q] = cache[m][q]
  BY <1>3 DEF Inv, Layout, Region
<1>7. \A p \in Procs : pc[p] = "commit" =>
        \A q \in {Head, Data, Index} : disk'[m + 1][q] = session[p]
  <2> SUFFICES ASSUME NEW p \in Procs, pc[p] = "commit", NEW q \in {Head, Data, Index}
               PROVE  disk'[m + 1][q] = session[p]
    OBVIOUS
  <2>1. m + 1 \in Region /\ session[p] \in Sessions
    BY DEF Inv, Progress, TypeOK, Region
  <2>2. disk[m + 1][q] = session[p] /\ cache[m + 1][q] = session[p]
    BY DEF Inv, Progress
  <2> QED
    BY <1>3, <2>1, <2>2
<1> QED
  BY <1>1, <1>2, <1>4, <1>5, <1>6, <1>7, DiskStep

LEMMA PowerLossStep ==
  ASSUME NEW n \in 0 .. MaxVersions, NEW m \in 0 .. MaxVersions, Inv(n, m), PowerLoss
  PROVE  Inv(n, n)'
<1> USE ArchiveFileAssumption DEF PowerLoss
<1>1. TypeOK'
  BY DEF Inv, TypeOK
<1>2. Alone' /\ \A p \in Procs : Progress(p, n, n)'
  BY DEF Alone, Progress
<1>3. \A j \in 1 .. n : WholeSome(disk, j)
  BY DEF Inv, Layout, WholeSome, Whole
<1>4. \A a \in acked : a[1] \in 1 .. n /\ Whole(disk, a[1], a[2])
  BY DEF Inv, Layout, Whole
<1>5. Layout(n, n)'
  BY <1>3, <1>4 DEF Inv, Layout, WholeSome, Whole, CommitGood
<1> QED
  BY <1>1, <1>2, <1>5 DEF Inv

-----------------------------------------------------------------------------
(* The steps of a run.  First, what they do to the layout of the file.      *)

(* Something other than a commit record is written into the first region    *)
(* that has no commit record.                                               *)
LEMMA PutLayout ==
  ASSUME NEW n \in 0 .. MaxVersions, NEW m \in 0 .. MaxVersions, Inv(n, m),
         m < MaxVersions, NEW q \in Part, NEW v \in Value,
         q = Commit => v \notin Sessions,
         cache' = Put(cache, m + 1, q, v), UNCHANGED <<disk, acked>>
  PROVE  cache' \in Image /\ Layout(n, m)'
<1>1. cache \in Image /\ m + 1 \in Region
  BY ArchiveFileAssumption DEF Inv, TypeOK, Region
<1>2. /\ cache' \in Image
      /\ cache'[m + 1][q] = v
      /\ \A r \in Part : r # q => cache'[m + 1][r] = cache[m + 1][r]
      /\ \A i \in Region : i # m + 1 => cache'[i] = cache[i]
  BY <1>1, PutFacts
<1>3. \A j \in 1 .. m : j \in Region /\ cache'[j] = cache[j]
  BY <1>2, ArchiveFileAssumption DEF Region
<1>4. \A j \in Region : j > m => ~CommitGood(cache', j)
  BY <1>1, <1>2, Parts DEF CommitGood, Inv, Layout
<1>5. \A j \in 1 .. m : WholeSome(cache, j)' <=> WholeSome(cache, j)
  BY <1>3 DEF WholeSome, Whole
<1>6. \A a \in acked : Whole(cache, a[1], a[2])'
  BY <1>3 DEF Whole, Inv, Layout
<1>7. Layout(n, m) /\ \A j \in 1 .. n : j \in 1 .. m
  BY DEF Inv, Layout
<1>8. m # n => m \in 1 .. m
  BY <1>7 DEF Layout
<1> QED
  BY <1>2, <1>3, <1>4, <1>5, <1>6, <1>7, <1>8 DEF Layout, CommitGood

(* The file is cut after the versions that have a commit record.            *)
LEMMA CutLayout ==
  ASSUME NEW n \in 0 .. MaxVersions, NEW m \in 0 .. MaxVersions, Inv(n, m),
         cache' = Cut(cache, m), UNCHANGED <<disk, acked>>
  PROVE  cache' \in Image /\ Layout(n, m)'
<1>1. cache \in Image
  BY DEF Inv, TypeOK
<1>2. /\ cache' \in Image
      /\ \A j \in Region : j <= m /\ (\A q \in Part : cache[j][q] # None) => cache'[j] = cache[j]
      /\ \A j \in Region : j > m => cache'[j][Commit] = None
  BY <1>1, CutFacts
<1>3. \A j \in 1 .. m : j \in Region /\ cache'[j] = cache[j]
  <2>1. \A j \in 1 .. m : j \in Region /\ j <= m /\ \A q \in Part : cache[j][q] # None
    BY ArchiveFileAssumption, Parts DEF Inv, Layout, WholeSome, Whole, Region
  <2> QED
    BY <1>2, <2>1
<1>4. \A j \in Region : j > m => ~CommitGood(cache', j)
  BY <1>2, Parts DEF CommitGood
<1>5. \A j \in 1 .. m : WholeSome(cache, j)' <=> WholeSome(cache, j)
  BY <1>3 DEF WholeSome, Whole
<1>6. \A a \in acked : Whole(cache, a[1], a[2])'
  BY <1>3 DEF Whole, Inv, Layout
<1>7. Layout(n, m) /\ \A j \in 1 .. n : j \in 1 .. m
  BY DEF Inv, Layout
<1>8. m # n => m \in 1 .. m
  BY <1>7 DEF Layout
<1> QED
  BY <1>2, <1>3, <1>4, <1>5, <1>6, <1>7, <1>8 DEF Layout, CommitGood

(* The commit record is written when the rest of its version is on the disk. *)
LEMMA CommitLayout ==
  ASSUME NEW m \in 0 .. MaxVersions, Inv(m, m), m < MaxVersions, NEW s \in Sessions,
         \A q \in {Head, Data, Index} : cache[m + 1][q] = s /\ disk[m + 1][q] = s,
         cache' = Put(cache, m + 1, Commit, s), UNCHANGED <<disk, acked>>
  PROVE  cache' \in Image /\ Layout(m, m + 1)' /\ Whole(cache', m + 1, s)
<1>1. cache \in Image /\ m + 1 \in Region /\ Commit \in Part /\ s \in Value
  BY ArchiveFileAssumption, Parts DEF Inv, TypeOK, Region
<1>2. /\ cache' \in Image
      /\ cache'[m + 1][Commit] = s
      /\ \A r \in Part : r # Commit => cache'[m + 1][r] = cache[m + 1][r]
      /\ \A i \in Region : i # m + 1 => cache'[i] = cache[i]
  BY <1>1, PutFacts
<1>3. \A j \in 1 .. m : j \in Region /\ cache'[j] = cache[j]
  BY <1>2, ArchiveFileAssumption DEF Region
<1>4. \A j \in Region : j > m + 1 => ~CommitGood(cache', j)
  <2>1. \A j \in Region : j > m + 1 => j # m + 1 /\ j > m
    BY ArchiveFileAssumption DEF Region
  <2> QED
    BY <1>2, <2>1 DEF CommitGood, Inv, Layout
<1>5. Whole(cache', m + 1, s)
  BY <1>2, Parts DEF Whole
<1>6. \A j \in 1 .. m + 1 : WholeSome(cache, j)'
  <2>1. \A j \in 1 .. m : WholeSome(cache, j)'
    BY <1>3 DEF WholeSome, Whole, Inv, Layout
  <2>2. WholeSome(cache, m + 1)'
    BY <1>5 DEF WholeSome
  <2> QED
    BY <2>1, <2>2
<1>7. \A a \in acked : Whole(cache, a[1], a[2])'
  BY <1>3 DEF Whole, Inv, Layout
<1>8. \A q \in {Head, Data, Index} : disk'[m + 1][q] = cache'[m + 1][q]
  BY <1>2, Parts
<1>9. m + 1 \in 0 .. MaxVersions /\ Layout(m, m)
  BY ArchiveFileAssumption DEF Inv
<1> QED
  BY <1>2, <1>3, <1>4, <1>5, <1>6, <1>7, <1>8, <1>9 DEF Layout, CommitGood

(* Only one process is under way, so nothing is claimed of the others.      *)
LEMMA Becomes ==
  ASSUME NEW n, NEW m, NEW p \in Procs, NEW label \in {"idle", "diff"} \cup Writing,
         pc \in [Procs -> {"idle", "diff"} \cup Writing],
         \A o \in Procs : o # p => pc[o] = "idle",
         Goto(p, label), Progress(p, n, m)'
  PROVE  Alone' /\ \A o \in Procs : Progress(o, n, m)'
<1>1. \A o \in Procs : o # p => pc'[o] = "idle"
  BY DEF Goto
<1>2. ASSUME NEW o \in Procs PROVE Progress(o, n, m)'
  BY <1>1 DEF Progress
<1> QED
  BY <1>1, <1>2 DEF Alone

LEMMA LayoutKept ==
  ASSUME NEW n \in 0 .. MaxVersions, NEW m \in 0 .. MaxVersions, Layout(n, m),
         UNCHANGED <<cache, disk, acked>>
  PROVE  Layout(n, m)'
BY DEF Layout, WholeSome, Whole, CommitGood

(* How the versions found and reported may change: none, one more found, or *)
(* the last one found reported.                                             *)
Moves(n, m, i, k) ==
  \/ k = m /\ acked' = acked
  \/ k = m + 1 /\ acked' = acked
  \/ k = m /\ i = m /\ n = m /\ \E s \in Sessions : acked' = acked \cup {<<m, s>>}

(* One step of process p, under the proof's two assumptions.                *)
LEMMA StepInv ==
  ASSUME Serial, ~FlushMayFail,
         NEW n \in 0 .. MaxVersions, NEW m \in 0 .. MaxVersions, Inv(n, m),
         NEW p \in Procs, Step(p)
  PROVE  \E i, k \in 0 .. MaxVersions : Inv(i, k)' /\ Moves(n, m, i, k)
<1> USE ArchiveFileAssumption
<1>1. /\ TypeOK /\ Alone /\ Layout(n, m) /\ Progress(p, n, m)
      /\ pc \in [Procs -> {"idle", "diff"} \cup Writing]
      /\ seen[p] \in 0 .. MaxVersions /\ session[p] \in Sessions
  BY DEF Inv, TypeOK
<1>2. {"idle", "diff"} \cup Writing =
        {"idle", "diff", "head", "data", "index", "flush", "commit", "sync", "report"}
  BY DEF Writing
<1>3. \A o \in Procs : o # p => pc[o] = "idle"
  BY <1>1 DEF Alone, Step, Read, GiveUp, OpenForWriting, WriteHead, WriteBlocks, WriteIndex,
     FlushVersion, WriteCommit, FlushCommit, Report, WriteFails, Kill, Write, Flush,
     PartOf, Writing
<1>4. \A i, k \in 0 .. MaxVersions : TypeOK' /\ Layout(i, k)' /\ Progress(p, i, k)'
        /\ (\E label \in {"idle", "diff"} \cup Writing : Goto(p, label))
        => Inv(i, k)'
  <2> SUFFICES ASSUME NEW i \in 0 .. MaxVersions, NEW k \in 0 .. MaxVersions,
                      TypeOK', Layout(i, k)', Progress(p, i, k)',
                      NEW label \in {"idle", "diff"} \cup Writing, Goto(p, label)
               PROVE  Inv(i, k)'
    OBVIOUS
  <2>1. Alone' /\ \A o \in Procs : Progress(o, i, k)'
    BY <1>1, <1>3, Becomes
  <2> QED
    BY <2>1 DEF Inv
<1>5. CASE Read(p)
  <2>1. PICK i \in 0 .. MaxVersions : Opens(cache, i) /\ seen' = [seen EXCEPT ![p] = i]
    BY <1>5 DEF Read
  <2>2. i = m
    BY <1>1, <2>1, FoundIs DEF Opens, Layout
  <2>3. TypeOK'
    BY <1>1, <1>5, <2>1 DEF Read, Goto, TypeOK
  <2>4. Layout(n, m)'
    BY <1>1, <1>5, LayoutKept DEF Read
  <2>5. Progress(p, n, m)'
    BY <1>1, <1>5, <2>1, <2>2 DEF Read, Goto, Progress, TypeOK
  <2> QED
    BY <1>4, <1>5, <2>3, <2>4, <2>5 DEF Read, Moves
<1>6. CASE GiveUp(p)
  <2>1. TypeOK' /\ Progress(p, n, m)'
    BY <1>1, <1>6 DEF GiveUp, Goto, TypeOK, Progress
  <2>2. Layout(n, m)'
    BY <1>1, <1>6, LayoutKept DEF GiveUp
  <2> QED
    BY <1>4, <1>6, <2>1, <2>2 DEF GiveUp, Moves
<1>7. CASE OpenForWriting(p)
  <2>1. seen[p] = m /\ m < MaxVersions
    BY <1>1, <1>7 DEF OpenForWriting, Progress
  <2>2. cache' \in Image /\ Layout(n, m)'
    BY <1>7, <2>1, CutLayout DEF OpenForWriting
  <2>3. sessions' \in Sessions
    BY <1>1, <1>7 DEF OpenForWriting, TypeOK, Sessions
  <2>4. TypeOK'
    BY <1>1, <1>2, <1>7, <2>2, <2>3 DEF OpenForWriting, Goto, TypeOK
  <2>5. Progress(p, n, m)'
    BY <1>1, <1>7, <2>1 DEF OpenForWriting, Goto, Progress
  <2> QED
    BY <1>2, <1>4, <1>7, <2>2, <2>4, <2>5 DEF OpenForWriting, Moves
<1>8. ASSUME NEW part \in {"head", "data", "index"}, NEW then \in {"data", "index", "flush"},
             Write(p, part, then), <<part, then>> \in
               {<<"head", "data">>, <<"data", "index">>, <<"index", "flush">>}
      PROVE  Inv(n, m)' /\ Moves(n, m, n, m)
  <2>1. /\ seen[p] = m /\ m < MaxVersions
        /\ PartOf[part] \in Part /\ PartOf[part] # Commit
        /\ session[p] \in Value /\ m + 1 \in Region
    BY <1>1, <1>8, Parts DEF Write, Progress, PartOf, Region
  <2>2. cache' = Put(cache, m + 1, PartOf[part], session[p]) /\ UNCHANGED <<disk, acked>>
    BY <1>8, <2>1 DEF Write
  <2>3. cache' \in Image /\ Layout(n, m)'
    BY <2>1, <2>2, PutLayout
  <2>4. cache \in Image
    BY <1>1 DEF TypeOK
  <2>5. /\ cache'[m + 1][PartOf[part]] = session[p]
        /\ \A q \in Part : q # PartOf[part] => cache'[m + 1][q] = cache[m + 1][q]
    BY <2>1, <2>2, <2>4, PutFacts
  <2>6. TypeOK'
    BY <1>1, <1>2, <1>8, <2>3 DEF Write, Goto, TypeOK
  <2>7. Progress(p, n, m)'
    BY <1>1, <1>8, <2>1, <2>5, Parts DEF Write, Goto, Progress, PartOf
  <2> QED
    BY <1>2, <1>4, <1>8, <2>3, <2>6, <2>7 DEF Write, Moves
<1>9. CASE FlushVersion(p)
  <2>1. disk' = cache /\ UNCHANGED <<cache, acked>> /\ Goto(p, "commit")
    BY <1>9 DEF FlushVersion, Flush
  <2>2. TypeOK'
    BY <1>1, <1>2, <1>9 DEF FlushVersion, Flush, Goto, TypeOK
  <2>3. Layout(m, m)'
    BY <1>1, <2>1 DEF Layout, WholeSome, Whole, CommitGood
  <2>4. Progress(p, m, m)'
    BY <1>1, <1>9 DEF FlushVersion, Flush, Goto, Progress
  <2> QED
    BY <1>2, <1>4, <2>1, <2>2, <2>3, <2>4 DEF Moves
<1>10. CASE WriteCommit(p)
  <2>1. seen[p] = m /\ m < MaxVersions /\ n = m /\ PartOf["commit"] = Commit
    BY <1>1, <1>10 DEF WriteCommit, Write, Progress, PartOf
  <2>2. \A q \in {Head, Data, Index} :
          cache[m + 1][q] = session[p] /\ disk[m + 1][q] = session[p]
    BY <1>1, <1>10 DEF WriteCommit, Write, Progress
  <2>3. cache' = Put(cache, m + 1, Commit, session[p]) /\ UNCHANGED <<disk, acked>>
    BY <1>10, <2>1 DEF WriteCommit, Write
  <2>4. cache' \in Image /\ Layout(m, m + 1)' /\ Whole(cache', m + 1, session[p])
    <3>1. PICK s \in Sessions : s = session[p]
      BY <1>1
    <3>2. Inv(m, m)
      BY <2>1
    <3> QED
      BY <2>1, <2>2, <2>3, <3>1, <3>2, CommitLayout
  <2>5. TypeOK'
    BY <1>1, <1>2, <1>10, <2>4 DEF WriteCommit, Write, Goto, TypeOK
  <2>6. session' = session /\ seen' = seen /\ pc'[p] = "sync"
    BY <1>1, <1>10 DEF WriteCommit, Write, Goto
  <2>7. Progress(p, m, m + 1)'
    BY <2>1, <2>4, <2>6 DEF Progress, Whole
  <2>8. m + 1 \in 0 .. MaxVersions
    BY <2>1
  <2> QED
    BY <1>2, <1>4, <1>10, <2>4, <2>5, <2>7, <2>8 DEF WriteCommit, Write, Moves
<1>11. CASE FlushCommit(p)
  <2>1. disk' = cache /\ UNCHANGED <<cache, acked>> /\ Goto(p, "report")
    BY <1>11 DEF FlushCommit, Flush
  <2>2. TypeOK'
    BY <1>1, <1>2, <1>11 DEF FlushCommit, Flush, Goto, TypeOK
  <2>3. Layout(m, m)'
    BY <1>1, <2>1 DEF Layout, WholeSome, Whole, CommitGood
  <2>4. Progress(p, m, m)'
    BY <1>1, <1>11 DEF FlushCommit, Flush, Goto, Progress, Whole
  <2> QED
    BY <1>2, <1>4, <2>1, <2>2, <2>3, <2>4 DEF Moves
<1>12. CASE Report(p)
  <2>1. /\ n = m /\ seen[p] + 1 = m /\ Whole(cache, m, session[p])
        /\ m \in Region
    BY <1>1, <1>12 DEF Report, Progress, Region
  <2>2. acked' = acked \cup {<<m, session[p]>>} /\ UNCHANGED <<cache, disk>> /\ Goto(p, "idle")
    BY <1>12, <2>1 DEF Report
  <2>3. TypeOK'
    BY <1>1, <1>12, <2>1, <2>2 DEF Report, Goto, TypeOK
  <2>4. \A a \in acked' : a[1] \in 1 .. n /\ Whole(cache, a[1], a[2])'
    BY <1>1, <2>1, <2>2 DEF Layout, Whole, Region
  <2>5. Layout(n, m)'
    BY <1>1, <2>2, <2>4 DEF Layout, WholeSome, Whole, CommitGood
  <2>6. Progress(p, n, m)'
    BY <1>1, <2>2 DEF Goto, Progress
  <2> QED
    BY <1>1, <1>4, <2>1, <2>2, <2>3, <2>5, <2>6 DEF Moves
<1>13. ASSUME cache' \in CutShort(p), pc[p] \in Writing, UNCHANGED <<disk, acked>>
       PROVE  cache' \in Image /\ Layout(n, m)'
  <2>1. CASE cache' = cache
    BY <1>1, <1>13, <2>1, LayoutKept DEF TypeOK
  <2>2. CASE cache' # cache
    <3>1. /\ pc[p] \in {"head", "data", "index", "commit"}
          /\ PartOf[pc[p]] \in Part
      BY <1>13, <2>2, Parts DEF CutShort, PartOf
    <3>2. seen[p] = m /\ m < MaxVersions
      BY <1>1, <3>1 DEF Progress
    <3>3. PICK v \in {Junk, Torn} : cache' = Put(cache, m + 1, PartOf[pc[p]], v)
      BY <1>13, <2>2, <3>2 DEF CutShort
    <3> QED
      BY <1>13, <3>1, <3>2, <3>3, Parts, PutLayout
  <2> QED
    BY <2>1, <2>2
<1>14. ASSUME cache' \in Image, Layout(n, m)', Goto(p, "idle"),
              UNCHANGED <<disk, seen, session, sessions, acked>>
       PROVE  Inv(n, m)' /\ Moves(n, m, n, m)
  <2>1. TypeOK'
    BY <1>1, <1>14 DEF Goto, TypeOK
  <2>2. Progress(p, n, m)'
    BY <1>1, <1>14 DEF Goto, Progress
  <2> QED
    BY <1>4, <1>14, <2>1, <2>2 DEF Moves
<1>15. CASE WriteFails(p)
  <2>1. pc[p] \in {"head", "data", "index", "commit"} /\ seen[p] = m
    BY <1>1, <1>15 DEF WriteFails, PartOf, Progress
  <2>2. cache' \in Image /\ Layout(n, m)'
    <3>1. CASE cache' = Cut(cache, seen[p])
      BY <1>15, <2>1, <3>1, CutLayout DEF WriteFails
    <3>2. CASE cache' \in CutShort(p)
      BY <1>13, <1>15, <2>1, <3>2 DEF WriteFails, Writing
    <3> QED
      BY <1>15, <3>1, <3>2 DEF WriteFails
  <2> QED
    BY <1>14, <1>15, <2>2 DEF WriteFails
<1>16. CASE Kill(p)
  BY <1>13, <1>14, <1>16 DEF Kill
<1> QED
  <2>1. CASE WriteHead(p)
    BY <1>8, <2>1 DEF WriteHead
  <2>2. CASE WriteBlocks(p)
    BY <1>8, <2>2 DEF WriteBlocks
  <2>3. CASE WriteIndex(p)
    BY <1>8, <2>3 DEF WriteIndex
  <2> QED
    BY <1>5, <1>6, <1>7, <1>9, <1>10, <1>11, <1>12, <1>15, <1>16, <2>1, <2>2, <2>3 DEF Step

(* The steps of the file system move nothing, except a power loss, which    *)
(* leaves the versions that are on the disk.                                *)
LEMMA NextMoves ==
  ASSUME Serial, ~FlushMayFail,
         NEW n \in 0 .. MaxVersions, NEW m \in 0 .. MaxVersions, Inv(n, m), [Next]_vars
  PROVE  \E i, k \in 0 .. MaxVersions :
           /\ Inv(i, k)'
           /\ Moves(n, m, i, k) \/ (PowerLoss /\ k = n /\ acked' = acked)
<1> USE ArchiveFileAssumption
<1>1. CASE \E p \in Procs : Step(p)
  BY <1>1, StepInv
<1>2. CASE \E i \in Region, r \in Part : WriteBack(i, r)
  <2>1. acked' = acked
    BY <1>2 DEF WriteBack
  <2> QED
    BY <1>2, <2>1, WriteBackStep DEF Moves
<1>3. CASE WriteBackSize
  <2>1. acked' = acked
    BY <1>3 DEF WriteBackSize
  <2> QED
    BY <1>3, <2>1, WriteBackSizeStep DEF Moves
<1>4. CASE PowerLoss
  <2>1. acked' = acked
    BY <1>4 DEF PowerLoss
  <2> QED
    BY <1>4, <2>1, PowerLossStep
<1>5. CASE UNCHANGED vars
  <2>1. UNCHANGED <<cache, disk, pc, seen, session, sessions, acked>>
    BY <1>5 DEF vars
  <2>2. TypeOK' /\ Alone' /\ \A p \in Procs : Progress(p, n, m)'
    BY <2>1 DEF Inv, TypeOK, Alone, Progress, Whole
  <2>3. Layout(n, m)'
    BY <2>1, LayoutKept DEF Inv
  <2> QED
    BY <2>1, <2>2, <2>3 DEF Inv, Moves
<1> QED
  BY <1>1, <1>2, <1>3, <1>4, <1>5 DEF Next

LEMMA NextInv == ASSUME Serial, ~FlushMayFail, IInv, [Next]_vars PROVE IInv'
BY NextMoves DEF IInv

LEMMA Invariant == ASSUME Serial, ~FlushMayFail PROVE Spec => []IInv
BY InitInv, NextInv, PTL DEF Spec

-----------------------------------------------------------------------------
(* Type correctness needs nothing of the lock or of the flushes: whoever    *)
(* writes has a region to write in.                                         *)
Typed == TypeOK /\ \A p \in Procs : pc[p] \in Writing => seen[p] < MaxVersions

LEMMA TypedInit == Init => Typed
<1> SUFFICES ASSUME Init PROVE Typed
  OBVIOUS
<1>1. TypeOK
  BY InitInv DEF IInv, Inv
<1> QED
  BY <1>1 DEF Typed, Init, Writing

LEMMA TypedFile ==
  ASSUME Typed,
         (\E k \in Region, q \in Part : WriteBack(k, q)) \/ WriteBackSize \/ PowerLoss
  PROVE  Typed'
<1> USE ArchiveFileAssumption
<1>1. cache \in Image /\ disk \in Image
  BY DEF Typed, TypeOK
<1>2. CASE PowerLoss
  BY <1>2 DEF PowerLoss, Typed, TypeOK, Writing
<1>3. ASSUME NEW k \in Region, NEW q \in Part, WriteBack(k, q) PROVE Typed'
  <2>1. PICK v \in {cache[k][q], Junk, Torn} : disk' = Stored(disk, k, q, v)
    BY <1>3 DEF WriteBack
  <2>2. v \in Value
    BY <1>1, Parts DEF Image
  <2>3. disk' \in Image
    BY <1>1, <2>1, <2>2, StoredFacts
  <2> QED
    BY <1>3, <2>3 DEF WriteBack, Typed, TypeOK
<1>4. CASE WriteBackSize
  <2>1. disk' \in Image
    BY <1>1, <1>4, Parts DEF WriteBackSize, Image
  <2> QED
    BY <1>4, <2>1 DEF WriteBackSize, Typed, TypeOK
<1> QED
  BY <1>2, <1>3, <1>4

LEMMA TypedStep ==
  ASSUME Typed, NEW p \in Procs, Step(p)
  PROVE  Typed'
<1> USE ArchiveFileAssumption
<1>1. /\ TypeOK /\ cache \in Image /\ disk \in Image
      /\ pc \in [Procs -> {"idle", "diff"} \cup Writing]
      /\ seen \in [Procs -> 0 .. MaxVersions] /\ session \in [Procs -> Sessions]
      /\ \A o \in Procs : pc[o] \in Writing => seen[o] < MaxVersions
  BY DEF Typed, TypeOK
<1>2. {"idle", "diff"} \cup Writing =
        {"idle", "diff", "head", "data", "index", "flush", "commit", "sync", "report"}
  BY DEF Writing
<1>3. pc[p] \in Writing => seen[p] + 1 \in Region
  BY <1>1 DEF Region
<1>4. CASE Read(p) \/ GiveUp(p)
  BY <1>1, <1>4 DEF Read, GiveUp, Goto, Typed, TypeOK, Writing
<1>5. CASE OpenForWriting(p)
  <2>1. cache' \in Image
    BY <1>1, <1>5, CutFacts DEF OpenForWriting
  <2>2. TypeOK'
    BY <1>1, <1>2, <1>5, <2>1 DEF OpenForWriting, Goto, TypeOK, Sessions
  <2> QED
    BY <1>1, <1>5, <2>2 DEF OpenForWriting, Goto, Typed
<1>6. ASSUME NEW part \in DOMAIN PartOf, NEW then \in Writing, Write(p, part, then)
      PROVE  Typed'
  <2>1. /\ pc[p] \in Writing /\ PartOf[part] \in Part
        /\ seen[p] + 1 \in Region /\ session[p] \in Value
    BY <1>1, <1>3, <1>6, Parts DEF Write, PartOf, Writing
  <2>2. cache' \in Image
    BY <1>1, <1>6, <2>1, PutFacts DEF Write
  <2>3. TypeOK'
    BY <1>1, <1>2, <1>6, <2>2 DEF Write, Goto, TypeOK
  <2> QED
    BY <1>1, <1>6, <2>1, <2>3 DEF Write, Goto, Typed
<1>7. CASE FlushVersion(p) \/ FlushCommit(p)
  <2>1. pc[p] \in Writing /\ UNCHANGED <<cache, seen, session, sessions, acked>>
    BY <1>7 DEF FlushVersion, FlushCommit, Flush, Writing
  <2>2. TypeOK'
    BY <1>1, <1>2, <1>7, <2>1 DEF FlushVersion, FlushCommit, Flush, Goto, TypeOK
  <2> QED
    BY <1>1, <1>7, <2>1, <2>2 DEF FlushVersion, FlushCommit, Flush, Goto, Typed
(* The run ends. *)
<1>8. ASSUME pc[p] \in Writing, cache' \in Image, UNCHANGED <<disk, seen, session, sessions>>,
             Goto(p, "idle"), acked' \in SUBSET (Region \X Sessions)
      PROVE  Typed'
  BY <1>1, <1>8 DEF Goto, Typed, TypeOK, Writing
<1>9. CASE Report(p)
  <2>1. seen[p] + 1 \in Region /\ session[p] \in Sessions /\ pc[p] \in Writing
    BY <1>1, <1>3, <1>9 DEF Report, Writing
  <2>2. acked' \in SUBSET (Region \X Sessions)
    BY <1>1, <1>9, <2>1 DEF Report, TypeOK
  <2> QED
    BY <1>1, <1>8, <1>9, <2>1, <2>2 DEF Report
<1>10. ASSUME pc[p] \in Writing, cache' \in CutShort(p) PROVE cache' \in Image
  <2>1. CASE pc[p] \in DOMAIN PartOf
    <3>1. PartOf[pc[p]] \in Part /\ seen[p] + 1 \in Region
      BY <1>3, <1>10, <2>1, Parts DEF PartOf
    <3>2. \A i \in Region, q \in Part, v \in Value : Put(cache, i, q, v) \in Image
      BY <1>1, PutFacts
    <3> QED
      BY <1>1, <1>10, <2>1, <3>1, <3>2, Parts DEF CutShort
  <2> QED
    BY <1>1, <1>10, <2>1 DEF CutShort
<1>11. CASE WriteFails(p)
  <2>1. pc[p] \in Writing /\ seen[p] \in 0 .. MaxVersions
    BY <1>1, <1>11 DEF WriteFails, PartOf, Writing
  <2>2. cache' \in Image
    BY <1>1, <1>10, <1>11, <2>1, CutFacts DEF WriteFails
  <2> QED
    BY <1>1, <1>8, <1>11, <2>1, <2>2 DEF WriteFails, TypeOK
<1>12. CASE Kill(p)
  BY <1>1, <1>8, <1>10, <1>12 DEF Kill, TypeOK
<1>13. CASE WriteHead(p) \/ WriteBlocks(p) \/ WriteIndex(p) \/ WriteCommit(p)
  BY <1>6, <1>13 DEF WriteHead, WriteBlocks, WriteIndex, WriteCommit, PartOf, Writing
<1> QED
  BY <1>4, <1>5, <1>7, <1>9, <1>11, <1>12, <1>13 DEF Step

LEMMA TypedNext == Typed /\ [Next]_vars => Typed'
<1> SUFFICES ASSUME Typed, [Next]_vars PROVE Typed'
  OBVIOUS
<1>1. CASE UNCHANGED vars
  BY <1>1 DEF vars, Typed, TypeOK
<1> QED
  BY <1>1, TypedStep, TypedFile DEF Next

-----------------------------------------------------------------------------
(* Runs that may overlap.  At most one of them writes: the lock keeps the   *)
(* others out (DenyWrite), or they do not overlap after all (Serial).       *)
OneWriter == \A p, o \in Procs : pc[p] \in Writing /\ pc[o] \in Writing => p = o

Exclusive == OneWriter /\ (Serial => Alone)

(* The version that is written is the end of the file, as far as it is.     *)
Parted(p) ==
  /\ \A q \in Part : cache[seen[p] + 1][q] = IF q \in Done(p) THEN session[p] ELSE None
  /\ \A k \in Region : k > seen[p] + 1 => ~Begun(cache, k)

Locked ==
  /\ Typed
  /\ Exclusive
  /\ \A p \in Procs : pc[p] \in Writing => Parted(p)
  /\ ~FlushMayFail => \A p \in Procs : pc[p] = "report" => disk = cache

LEMMA LockedInit == Init => Locked
<1> SUFFICES ASSUME Init PROVE Locked
  OBVIOUS
<1>1. Typed
  BY TypedInit
<1> QED
  BY <1>1 DEF Locked, Exclusive, OneWriter, Alone, Init, Writing

LEMMA ExclusiveStep ==
  ASSUME DenyWrite \/ Serial, Typed, Exclusive, NEW p \in Procs, Step(p)
  PROVE  Exclusive'
<1>1. /\ pc \in [Procs -> {"idle", "diff"} \cup Writing]
      /\ "idle" \notin Writing /\ "diff" \notin Writing
  BY DEF Typed, TypeOK, Writing
<1>2. PICK label \in {"idle", "diff"} \cup Writing : Goto(p, label)
  BY DEF Step, Read, GiveUp, OpenForWriting, WriteHead, WriteBlocks, WriteIndex,
     FlushVersion, WriteCommit, FlushCommit, Report, WriteFails, Kill, Write, Flush, Writing
<1>3. pc'[p] = label /\ \A o \in Procs : o # p => pc'[o] = pc[o]
  BY <1>1, <1>2 DEF Goto
<1>4. Serial /\ pc[p] = "idle" => \A o \in Procs : pc[o] = "idle"
  BY DEF Step, Read, GiveUp, OpenForWriting, WriteHead, WriteBlocks, WriteIndex,
     FlushVersion, WriteCommit, FlushCommit, Report, WriteFails, Kill, Write, Flush, Writing, PartOf
<1>5. Serial => Alone'
  BY <1>3, <1>4 DEF Exclusive, Alone
<1>6. CASE Serial
  BY <1>1, <1>3, <1>5, <1>6 DEF Exclusive, Alone, OneWriter, Writing
<1>7. CASE DenyWrite
  <2>1. pc'[p] \in Writing => pc[p] \in Writing \/ \A o \in Procs : pc[o] \notin Writing
    BY <1>1, <1>3, <1>7 DEF Step, Read, GiveUp, OpenForWriting, NotDenied, WriteHead, WriteBlocks,
       WriteIndex, FlushVersion, WriteCommit, FlushCommit, Report, WriteFails, Kill, Write, Flush,
       Goto, Writing, PartOf
  <2> QED
    BY <1>3, <1>5, <2>1 DEF Exclusive, OneWriter
<1> QED
  BY <1>6, <1>7

(* The steps of the file system.                                            *)
LEMMA LockedFile ==
  ASSUME Locked,
         (\E k \in Region, q \in Part : WriteBack(k, q)) \/ WriteBackSize \/ PowerLoss
  PROVE  Locked'
<1>1. Typed'
  BY TypedFile DEF Locked
<1>2. CASE PowerLoss
  BY <1>1, <1>2 DEF PowerLoss, Locked, Exclusive, OneWriter, Alone, Writing
<1>3. CASE (\E k \in Region, q \in Part : WriteBack(k, q)) \/ WriteBackSize
  <2>1. UNCHANGED <<cache, pc, seen, session, sessions, acked>> /\ disk # cache
    BY <1>3 DEF WriteBack, WriteBackSize
  <2>2. Exclusive'
    BY <2>1 DEF Locked, Exclusive, OneWriter, Alone
  <2>3. \A p \in Procs : pc'[p] \in Writing => Parted(p)'
    BY <2>1 DEF Locked, Parted, Done, Begun
  <2> QED
    BY <1>1, <2>1, <2>2, <2>3 DEF Locked
<1> QED
  BY <1>2, <1>3

(* A step of a run.  Whoever does not write changes nothing in the file.    *)
LEMMA LockedStep ==
  ASSUME DenyWrite \/ Serial, Locked, NEW p \in Procs, Step(p)
  PROVE  Locked'
<1> USE ArchiveFileAssumption
<1>1. /\ Typed /\ TypeOK /\ cache \in Image /\ disk \in Image
      /\ pc \in [Procs -> {"idle", "diff"} \cup Writing]
      /\ seen \in [Procs -> 0 .. MaxVersions] /\ session \in [Procs -> Sessions]
  BY DEF Locked, Typed, TypeOK
<1>2. /\ \A o \in Procs : pc[o] \in Writing => Parted(o) /\ seen[o] < MaxVersions
      /\ ~FlushMayFail => \A o \in Procs : pc[o] = "report" => disk = cache
  BY DEF Locked, Typed
<1>3. Typed' /\ Exclusive'
  BY <1>1, TypedStep, ExclusiveStep DEF Locked
<1>4. \A o \in Procs : o # p => pc'[o] = pc[o] /\ seen'[o] = seen[o] /\ session'[o] = session[o]
  BY <1>1 DEF Step, Read, GiveUp, OpenForWriting, WriteHead, WriteBlocks, WriteIndex,
     FlushVersion, WriteCommit, FlushCommit, Report, WriteFails, Kill, Write, Flush, Goto
(* A run that neither writes nor ends its writing. *)
<1>5. CASE Read(p) \/ GiveUp(p)
  <2>1. UNCHANGED <<cache, disk, session, sessions, acked>>
    BY <1>5 DEF Read, GiveUp
  <2>2. pc'[p] \notin Writing
    BY <1>1, <1>5 DEF Read, GiveUp, Goto, Writing
  <2>3. ASSUME NEW o \in Procs, o # p, Parted(o) PROVE Parted(o)'
    BY <1>4, <2>1, <2>3 DEF Parted, Done, Begun
  <2>4. \A o \in Procs : pc'[o] \in Writing => Parted(o)'
    BY <1>2, <1>4, <2>2, <2>3
  <2> QED
    BY <1>2, <1>3, <1>4, <2>1, <2>2, <2>4 DEF Locked, Writing
(* The others do not write, since p does now, or did until now.             *)
<1>6. ASSUME pc[p] \in Writing \/ pc'[p] \in Writing,
             pc'[p] \in Writing => Parted(p)',
             ~FlushMayFail /\ pc'[p] = "report" => disk' = cache'
      PROVE  Locked'
  <2>1. \A o \in Procs : o # p => pc'[o] \notin Writing
    BY <1>3, <1>4, <1>6 DEF Locked, Exclusive, OneWriter
  <2> QED
    BY <1>3, <1>6, <2>1 DEF Locked, Writing
<1>7. CASE OpenForWriting(p)
  <2>1. /\ seen[p] < MaxVersions /\ cache' = Cut(cache, seen[p])
        /\ seen' = seen /\ pc'[p] = "head" /\ seen[p] \in 0 .. MaxVersions
    BY <1>1, <1>7 DEF OpenForWriting, Goto
  <2>2. \A k \in Region : k > seen[p] => \A q \in Part : cache'[k][q] = None
    BY <1>1, <2>1 DEF Cut, Blank, Region
  <2>3. Parted(p)'
    BY <2>1, <2>2, Parts DEF Parted, Done, Begun, Region
  <2> QED
    BY <1>6, <2>1, <2>3 DEF Writing
<1>8. CASE Report(p) \/ WriteFails(p) \/ Kill(p)
  <2>1. pc[p] \in Writing /\ pc'[p] = "idle"
    BY <1>1, <1>8 DEF Report, WriteFails, Kill, Goto, PartOf, Writing
  <2> QED
    BY <1>6, <2>1 DEF Writing
<1>9. ASSUME NEW part \in DOMAIN PartOf, NEW then \in Writing, Write(p, part, then),
             <<part, then>> \in {<<"head", "data">>, <<"data", "index">>,
                                 <<"index", "flush">>, <<"commit", "sync">>}
      PROVE  Locked'
  <2>1. /\ pc[p] = part /\ pc[p] \in Writing /\ part \in {"head", "data", "index", "commit"}
        /\ seen[p] < MaxVersions /\ Parted(p)
    BY <1>1, <1>2, <1>9 DEF Write, PartOf, Writing
  <2>2. PartOf[part] \in Part /\ seen[p] + 1 \in Region /\ session[p] \in Value
    BY <1>1, <2>1, Parts DEF PartOf, Region
  <2>3. cache' = Put(cache, seen[p] + 1, PartOf[part], session[p]) /\ UNCHANGED <<seen, session>>
    BY <1>9 DEF Write
  <2>4. /\ cache'[seen[p] + 1][PartOf[part]] = session[p]
        /\ \A r \in Part : r # PartOf[part] => cache'[seen[p] + 1][r] = cache[seen[p] + 1][r]
        /\ \A i \in Region : i # seen[p] + 1 => cache'[i] = cache[i]
    BY <1>1, <2>2, <2>3, PutFacts
  <2>5. pc'[p] = then
    BY <1>1, <1>9 DEF Write, Goto
  <2>6. Done(p)' = Done(p) \cup {PartOf[part]}
    BY <1>9, <2>1, <2>5, Parts DEF Done, PartOf
  <2>7. \A q \in Part : cache'[seen[p] + 1][q] = IF q \in Done(p)' THEN session[p] ELSE None
    BY <2>1, <2>4, <2>6 DEF Parted
  <2>8. \A k \in Region : k > seen[p] + 1 => ~Begun(cache', k)
    BY <1>1, <2>1, <2>4 DEF Parted, Begun, Region
  <2>9. Parted(p)'
    BY <2>3, <2>7, <2>8 DEF Parted
  <2> QED
    BY <1>6, <1>9, <2>1, <2>5, <2>9
<1>10. CASE FlushVersion(p) \/ FlushCommit(p)
  <2>1. /\ pc[p] \in {"flush", "sync"} /\ pc[p] \in Writing /\ Parted(p)
        /\ pc'[p] = IF pc[p] = "flush" THEN "commit" ELSE "report"
        /\ ~FlushMayFail => disk' = cache
        /\ UNCHANGED <<cache, seen, session, sessions, acked>>
    BY <1>1, <1>2, <1>10 DEF FlushVersion, FlushCommit, Flush, Goto, Writing
  <2>2. Parted(p)'
    BY <2>1 DEF Parted, Done, Begun
  <2> QED
    BY <1>6, <2>1, <2>2
<1>11. CASE WriteHead(p) \/ WriteBlocks(p) \/ WriteIndex(p) \/ WriteCommit(p)
  BY <1>9, <1>11 DEF WriteHead, WriteBlocks, WriteIndex, WriteCommit, PartOf, Writing
<1> QED
  BY <1>5, <1>7, <1>8, <1>10, <1>11 DEF Step

LEMMA LockedNext == ASSUME DenyWrite \/ Serial, Locked, [Next]_vars PROVE Locked'
<1>1. CASE UNCHANGED vars
  <2>1. UNCHANGED <<cache, disk, pc, seen, session, sessions, acked>>
    BY <1>1 DEF vars
  <2>2. Typed'
    BY TypedNext DEF Locked
  <2> QED
    BY <2>1, <2>2 DEF Locked, Exclusive, OneWriter, Alone, Parted, Done, Begun
<1> QED
  BY <1>1, LockedStep, LockedFile DEF Next

-----------------------------------------------------------------------------
(* Every reachable state of the archive file is well typed, runs that       *)
(* overlap and flushes that fail included.                                  *)
THEOREM TypeCorrect == Spec => []TypeOK
<1>1. Typed => TypeOK
  BY DEF Typed
<1> QED
  BY <1>1, TypedInit, TypedNext, PTL DEF Spec

(* Whatever was interrupted, TArchive.Open never raises Corrupt.            *)
THEOREM AlwaysOpens == ASSUME Serial, ~FlushMayFail PROVE Spec => []OpenNeverCorrupt
<1>1. IInv => OpenNeverCorrupt
  BY FoundIs DEF IInv, Inv, Layout, OpenNeverCorrupt
<1> QED
  BY <1>1, Invariant, PTL

(* Every version TArchive.Open finds is whole and one session's.            *)
THEOREM VersionsFoundAreWhole ==
  ASSUME Serial, ~FlushMayFail PROVE Spec => []FoundVersionsWhole
<1>1. IInv => FoundVersionsWhole
  BY FoundIs DEF IInv, Inv, Layout, FoundVersionsWhole, WholeSome
<1> QED
  BY <1>1, Invariant, PTL

(* What syc a reported stays readable through kills, errors and power loss. *)
THEOREM ReportedVersionsStay ==
  ASSUME Serial, ~FlushMayFail PROVE Spec => []AckedReadable
<1>1. IInv => AckedReadable
  <2> SUFFICES ASSUME IInv PROVE AckedReadable
    OBVIOUS
  <2>1. PICK n, m \in 0 .. MaxVersions : Inv(n, m)
    BY DEF IInv
  <2>2. \A i \in 0 .. MaxVersions : Found(cache, i) => i = m
    BY <2>1, FoundIs DEF Inv, Layout
  <2>3. \A a \in acked : a[1] <= m /\ Whole(cache, a[1], a[2])
    BY <2>1 DEF Inv, Layout
  <2> QED
    BY <2>2, <2>3 DEF AckedReadable
<1> QED
  BY <1>1, Invariant, PTL

(* A step that is no power loss leaves the versions found as they are.      *)
LEMMA VersionsKept ==
  ASSUME NEW n \in 0 .. MaxVersions, NEW m \in 0 .. MaxVersions, Inv(n, m),
         [Next]_vars, ~PowerLoss
  PROVE  \A k \in 1 .. m : cache'[k] = cache[k]
<1> USE ArchiveFileAssumption
<1>1. CASE UNCHANGED cache
  BY <1>1
<1>2. cache \in Image /\ \A k \in 1 .. m : k \in Region /\ k # m + 1
  BY DEF Inv, TypeOK, Region
<1>3. CASE cache' = Cut(cache, m)
  <2>1. \A k \in 1 .. m : k <= m /\ \A q \in Part : cache[k][q] # None
    BY Parts DEF Inv, Layout, WholeSome, Whole
  <2> QED
    BY <1>2, <1>3, <2>1, CutFacts
<1>4. ASSUME NEW q, NEW v, cache' = Put(cache, m + 1, q, v)
      PROVE  \A k \in 1 .. m : cache'[k] = cache[k]
  BY <1>2, <1>4 DEF Put, Image
<1>5. ASSUME NEW p \in Procs, pc[p] \in DOMAIN PartOf PROVE seen[p] = m
  BY <1>5 DEF PartOf, Inv, Progress
<1>6. ASSUME NEW p \in Procs, cache' \in CutShort(p)
      PROVE  \A k \in 1 .. m : cache'[k] = cache[k]
  BY <1>1, <1>4, <1>5, <1>6 DEF CutShort
<1>7. ASSUME NEW p \in Procs, Step(p) PROVE \A k \in 1 .. m : cache'[k] = cache[k]
  <2>1. CASE OpenForWriting(p)
    BY <1>3, <2>1 DEF OpenForWriting, Inv, Progress
  <2>2. CASE WriteHead(p) \/ WriteBlocks(p) \/ WriteIndex(p) \/ WriteCommit(p)
    BY <1>4, <1>5, <2>2 DEF WriteHead, WriteBlocks, WriteIndex, WriteCommit, Write, PartOf
  <2>3. CASE WriteFails(p)
    BY <1>3, <1>5, <1>6, <2>3 DEF WriteFails
  <2>4. CASE Kill(p)
    BY <1>6, <2>4 DEF Kill
  <2>5. CASE Read(p) \/ GiveUp(p) \/ FlushVersion(p) \/ FlushCommit(p) \/ Report(p)
    BY <1>1, <2>5 DEF Read, GiveUp, FlushVersion, FlushCommit, Flush, Report
  <2> QED
    BY <1>7, <2>1, <2>2, <2>3, <2>4, <2>5 DEF Step
<1> QED
  BY <1>1, <1>7 DEF Next, WriteBack, WriteBackSize, vars

(* "The old versions are never rewritten": a run writes after the versions  *)
(* it found, and only a power loss takes a version away.                    *)
THEOREM OldVersionsStay ==
  ASSUME Serial, ~FlushMayFail PROVE Spec => OldVersionsKept
<1> DEFINE Kept == \A n \in 0 .. MaxVersions : Found(cache, n) =>
                     PowerLoss \/ \A k \in 1 .. n : cache'[k] = cache[k]
<1>1. ASSUME IInv, [Next]_vars PROVE Kept
  <2>1. PICK n, m \in 0 .. MaxVersions : Inv(n, m)
    BY <1>1 DEF IInv
  <2>2. \A i \in 0 .. MaxVersions : Found(cache, i) => i = m
    BY <2>1, FoundIs DEF Inv, Layout
  <2> QED
    BY <1>1, <2>1, <2>2, VersionsKept
<1>2. ASSUME Kept
      PROVE  \A n \in 0 .. MaxVersions : Found(cache, n) =>
               \/ PowerLoss
               \/ \A k \in 1 .. n : cache'[k] = cache[k]
  BY <1>2
<1> HIDE DEF Kept
<1> QED
  BY <1>1, <1>2, Invariant, PTL DEF Spec, OldVersionsKept

-----------------------------------------------------------------------------
(* The refinement of VersionLog.  Its log is the first m regions, and its   *)
(* number of reported versions is the greatest that was acknowledged.       *)
AckTop == \E r \in AckedVersions : \A j \in AckedVersions : j <= r

Upto(img, m) == [k \in 1 .. m |-> img[k][Commit]]

LEMMA LogIs ==
  ASSUME NEW n \in 0 .. MaxVersions, NEW m \in 0 .. MaxVersions, Inv(n, m)
  PROVE  VersionWriters = Upto(cache, m)
<1>1. /\ Found(cache, m)
      /\ \A i \in 0 .. MaxVersions : Found(cache, i) => i = m
  BY FoundIs DEF Inv, Layout, Opens
<1> QED
  BY <1>1 DEF VersionWriters, Versions, Upto

LEMMA LogIsNext ==
  ASSUME NEW n \in 0 .. MaxVersions, NEW m \in 0 .. MaxVersions, Inv(n, m)'
  PROVE  VersionWriters' = Upto(cache', m)
<1>1. /\ \A j \in 1 .. m : WholeSome(cache', j)
      /\ \A j \in Region : j > m => ~CommitGood(cache', j)
  BY DEF Inv, Layout, WholeSome, Whole, CommitGood
<1>2. /\ Found(cache', m)
      /\ \A i \in 0 .. MaxVersions : Found(cache', i) => i = m
  BY <1>1, FoundIs DEF Opens
<1>3. Versions' = m
  BY <1>2 DEF Versions
<1> QED
  BY <1>3 DEF VersionWriters, Upto

(* The log of a longer, a shorter or an equal file.                         *)
LEMMA UptoSame ==
  ASSUME NEW img, NEW jmg, NEW m \in Nat, \A j \in 1 .. m : jmg[j] = img[j]
  PROVE  Upto(jmg, m) = Upto(img, m)
BY DEF Upto

LEMMA UptoLonger ==
  ASSUME NEW img, NEW jmg, NEW m \in Nat, \A j \in 1 .. m : jmg[j] = img[j]
  PROVE  Upto(jmg, m + 1) = S!Append(Upto(img, m), jmg[m + 1][Commit])
BY DEF Upto

LEMMA UptoShorter ==
  ASSUME NEW img, NEW jmg, NEW m \in Nat, \A j \in 1 .. m : jmg[j] = img[j]
  PROVE  Upto(jmg, m) = S!SubSeq(Upto(img, m + 1), 1, m)
BY DEF Upto

LEMMA LastAckedIs ==
  ASSUME NEW r \in AckedVersions, TypeOK, \A j \in AckedVersions : j <= r
  PROVE  LastAcked = r
<1>1. AckedVersions \subseteq Int
  BY DEF AckedVersions, TypeOK, Region
<1>2. \A k \in AckedVersions : (\A j \in AckedVersions : j <= k) => k = r
  BY <1>1
<1> QED
  BY <1>2 DEF LastAcked

(* Every step of the file is a step of the log, or none.                    *)
LEMMA NextLog ==
  ASSUME Serial, ~FlushMayFail, IInv, AckTop, [Next]_vars
  PROVE  AckTop' /\ [Log!Next]_<<VersionWriters, LastAcked>>
<1> USE ArchiveFileAssumption
<1>1. PICK n, m \in 0 .. MaxVersions : Inv(n, m)
  BY DEF IInv
<1>2. PICK r \in AckedVersions : \A j \in AckedVersions : j <= r
  BY DEF AckTop
<1>3. TypeOK /\ cache \in Image /\ n \in Nat /\ m \in Nat /\ (m = n \/ m = n + 1)
  BY <1>1 DEF Inv, TypeOK, Layout
<1>4. VersionWriters = Upto(cache, m) /\ LastAcked = r
  BY <1>1, <1>2, <1>3, LogIs, LastAckedIs
<1>5. r \in 1 .. n
  BY <1>1, <1>2 DEF Inv, Layout, AckedVersions
<1>6. acked' = acked => AckTop' /\ LastAcked' = LastAcked
  BY <1>2 DEF AckTop, LastAcked, AckedVersions
<1>7. CASE PowerLoss
  <2>1. cache' = disk /\ acked' = acked
    BY <1>7 DEF PowerLoss
  <2>2. VersionWriters' = Upto(cache', n) /\ \A j \in 1 .. n : cache'[j] = cache[j]
    BY <1>1, <1>7, <2>1, PowerLossStep, LogIsNext DEF Inv, Layout
  <2>3. CASE m = n
    <3>1. VersionWriters' = VersionWriters
      BY <1>3, <1>4, <2>2, <2>3, UptoSame
    <3> QED
      BY <1>6, <2>1, <3>1
  <2>4. CASE m = n + 1
    <3>1. Upto(cache', n) = S!SubSeq(Upto(cache, m), 1, n)
      BY <1>3, <2>2, <2>4, UptoShorter
    <3>2. S!Len(Upto(cache, m)) = m
      BY <1>3 DEF Upto
    <3>3. Log!Lose
      BY <1>3, <1>4, <1>5, <1>6, <2>1, <2>2, <2>4, <3>1, <3>2 DEF Log!Lose
    <3> QED
      BY <1>6, <2>1, <3>3 DEF Log!Next
  <2> QED
    BY <1>3, <2>3, <2>4
<1>8. CASE ~PowerLoss
  <2>1. PICK i, k \in 0 .. MaxVersions : Inv(i, k)' /\ Moves(n, m, i, k)
    BY <1>1, <1>8, NextMoves
  <2>2. \A j \in 1 .. m : cache'[j] = cache[j]
    BY <1>1, <1>8, VersionsKept
  <2>3. VersionWriters' = Upto(cache', k)
    BY <2>1, LogIsNext
  <2>4. CASE k = m /\ acked' = acked
    <3>1. VersionWriters' = VersionWriters
      BY <1>3, <1>4, <2>2, <2>3, <2>4, UptoSame
    <3> QED
      BY <1>6, <2>4, <3>1
  <2>5. CASE k = m + 1 /\ acked' = acked
    <3>1. Upto(cache', k) = S!Append(Upto(cache, m), cache'[k][Commit])
      BY <1>3, <2>2, <2>5, UptoLonger
    <3>2. cache'[k][Commit] \in Sessions
      BY <1>3, <2>1, <2>5, Parts DEF Inv, Layout, WholeSome, Whole
    <3>3. Log!Add
      BY <1>4, <1>6, <2>3, <2>5, <3>1, <3>2 DEF Log!Add
    <3> QED
      BY <1>6, <2>5, <3>3 DEF Log!Next
  <2>6. CASE k = m /\ n = m /\ \E s \in Sessions : acked' = acked \cup {<<m, s>>}
    <3>1. VersionWriters' = VersionWriters
      BY <1>3, <1>4, <2>2, <2>3, <2>6, UptoSame
    <3>2. AckedVersions' = AckedVersions \cup {m}
      <4>1. PICK s \in Sessions : acked' = acked \cup {<<m, s>>}
        BY <2>6
      <4>2. <<m, s>>[1] = m
        OBVIOUS
      <4> QED
        BY <4>1, <4>2, Zenon DEF AckedVersions
    <3>3. \A j \in AckedVersions' : j <= m
      BY <1>1, <1>2, <1>3, <2>6, <3>2 DEF Inv, Layout, AckedVersions
    <3>4. AckedVersions' \subseteq Int
      BY <2>1 DEF Inv, TypeOK, AckedVersions, Region
    <3>5. \A j \in AckedVersions' : (\A o \in AckedVersions' : o <= j) => j = m
      BY <1>3, <3>2, <3>3, <3>4
    <3>6. AckTop' /\ LastAcked' = m
      BY <3>2, <3>3, <3>5 DEF AckTop, LastAcked
    <3>7. S!Len(Upto(cache, m)) = m
      BY <1>3 DEF Upto
    <3>8. Log!Report
      BY <1>4, <3>1, <3>6, <3>7 DEF Log!Report
    <3> QED
      BY <3>6, <3>8 DEF Log!Next
  <2> QED
    BY <2>1, <2>4, <2>5, <2>6 DEF Moves
<1> QED
  BY <1>7, <1>8

LEMMA InitLog == Init => AckTop /\ Log!Init
<1> SUFFICES ASSUME Init PROVE AckTop /\ Log!Init
  OBVIOUS
<1>1. 1 \in 0 .. MaxVersions /\ Inv(1, 1)
  BY FirstInv
<1>2. VersionWriters = Upto(cache, 1)
  <2>1. \A m \in 0 .. MaxVersions : Inv(1, m) => VersionWriters = Upto(cache, m)
    BY <1>1, LogIs
  <2> QED
    BY <1>1, <2>1
<1>3. 1 \in Sessions /\ 1 \in Region /\ cache[1][Commit] = 1
  BY <1>1, ArchiveFileAssumption, Parts DEF Init, Whole1, Region, Sessions
<1>4. VersionWriters = <<1>>
  BY <1>2, <1>3 DEF Upto
<1>5. AckedVersions = {1}
  BY DEF Init, AckedVersions
<1>6. AckTop /\ LastAcked = 1
  BY <1>5 DEF AckTop, LastAcked
<1> QED
  BY <1>3, <1>4, <1>6 DEF Log!Init

(* syc a implements the log of versions: one is added at the end, the last  *)
(* one is reported, or the last one is lost before it was reported.         *)
THEOREM FileImplementsLog == ASSUME Serial, ~FlushMayFail PROVE Spec => ImplementsLog
<1>1. Init => IInv /\ AckTop /\ Log!Init
  BY InitInv, InitLog
<1>2. IInv /\ AckTop /\ [Next]_vars =>
        IInv' /\ AckTop' /\ [Log!Next]_<<VersionWriters, LastAcked>>
  BY NextInv, NextLog
<1> QED
  BY <1>1, <1>2, PTL DEF Spec, ImplementsLog, Log!Spec

(* While a run writes, no other run touches what it has written or puts     *)
(* anything behind it, and it reports success only when all of it is on the *)
(* disk: where the mode fmShareDenyWrite keeps other processes out, as on   *)
(* Windows (DenyWrite), for any number of runs at a time, and otherwise for *)
(* runs that do not overlap.                                                *)
THEOREM WrittenVersionStays ==
  ASSUME DenyWrite \/ Serial, ~FlushMayFail PROVE Spec => []WrittenStays
<1>1. Locked => WrittenStays
  <2> SUFFICES ASSUME Locked, NEW p \in Procs, pc[p] \in Writing
               PROVE  /\ Parted(p)
                      /\ pc[p] = "report" => Whole(disk, seen[p] + 1, session[p])
    BY DEF WrittenStays, Parted
  <2>1. Parted(p) /\ (pc[p] = "report" => disk = cache)
    BY DEF Locked
  <2> QED
    BY <2>1 DEF Parted, Whole, Done
<1> QED
  BY <1>1, LockedInit, LockedNext, PTL DEF Spec
=============================================================================
