----------------------- MODULE StreamDecompressProofs -----------------------
(***************************************************************************)
(* Proofs about StreamDecompress, for any number of threads, a stream of   *)
(* any length, whatever was done to it and whichever read of it fails.     *)
(*                                                                         *)
(* The invariant says, at each point of the main loop, which records were  *)
(* read, which record each slot in flight was filled with, and what was    *)
(* written; what the workers do is in PipeInv (PipelineProofs).  Of how    *)
(* the stream was altered only one thing is needed (Genuine): nobody but   *)
(* Compress can make a record that authenticates.                          *)
(***************************************************************************)
EXTENDS StreamDecompress, PipelineProofs, SequenceTheorems, WellFoundedInduction

StreamRecord ==
  [kind : {"block", "end", "badHeader", "cutHeader", "cutPayload"}, data : Int, good : BOOLEAN]

(* A record that is as Compress wrote it is one that Compress wrote. *)
Genuine(n) ==
  {r \in StreamRecord :
     r.good => /\ r.kind = "block" => r.data \in 0 .. n - 1
               /\ r.kind = "end" => r.data = n}

(* The block that was in the current slot before the last turn. *)
Prior == blocks - Slots
Oldest == IF Prior > 0 THEN Prior ELSE 0

StreamType ==
  /\ count \in Nat
  /\ stray \in 0 .. count
  /\ enc \in BOOLEAN
  /\ readFailed \in BOOLEAN
  /\ fin \in Seq(Genuine(count))
  /\ blocks \in Nat
  /\ next \in Nat
  /\ fout \in Seq(Int)
  /\ mpc \in {"read", "write", "fill", "start", "drain", "ok", "failed"}
  /\ code \in {"none", "corrupt", "fatal"}

(* What was read. *)
Reading ==
  /\ readPos = blocks + 1
  /\ blocks <= Len(fin)
  /\ \A i \in 1 .. blocks : fin[i].kind = "block"
  /\ mpc \in {"write", "fill", "start"} => readPos <= Len(fin)
  /\ mpc = "start" => fin[readPos].kind = "block"
  /\ mpc \in {"drain", "ok"} =>
       readPos <= Len(fin) /\ fin[readPos].kind = "end" /\ EndSealed /\ (EndLast \/ readFailed)

(* Record i is intact and, in an encrypted stream, in its place. *)
Intact(i) == fin[i].good /\ (enc => fin[i].data = i - 1)

(* What is in the slots. *)
Holds(b) == job[b % Slots].raw = fin[b + 1].data /\ job[b % Slots].good = Intact(b + 1)

InFlight ==
  /\ mpc \in {"read", "write"} => \A b \in Oldest .. blocks - 1 : Holds(b)
  /\ mpc = "fill" => \A b \in Oldest .. blocks - 1 : b > Prior => Holds(b)
  /\ mpc = "start" => \A b \in Oldest .. blocks : b > Prior => Holds(b)
  /\ mpc = "drain" => \A b \in next .. blocks - 1 : Holds(b)

(* Which slots are free, and that the pipeline is not destroyed yet. *)
Idle ==
  /\ mpc = "write" => blocks >= Slots
  /\ mpc \in {"fill", "start"} => ~busy[CurrentSlot]
  /\ mpc \in {"read", "write", "fill", "start"} => \A s \in Slot : s >= blocks => ~busy[s]
  /\ mpc \notin {"ok", "failed"} => freed = -1

(* What was written. *)
Output ==
  /\ mpc \in {"read", "write"} => Len(fout) = Oldest
  /\ mpc \in {"fill", "start"} => Len(fout) = IF Prior >= 0 THEN Prior + 1 ELSE 0
  /\ mpc = "drain" => Len(fout) = next /\ Oldest <= next /\ next <= blocks
  /\ mpc = "ok" => Len(fout) = blocks
  /\ Len(fout) <= blocks
  /\ \A i \in 1 .. Len(fout) : fout[i] = fin[i].data /\ Intact(i)

(* The slot that is filled and not yet started is the main thread's. *)
Owned ==
  /\ mpc # "start" => PipeInv({})
  /\ mpc = "start" => \E s \in Slot : s = CurrentSlot /\ PipeInv({s})

(* What exit code 3 comes from. *)
Reason == fin # Original \/ readFailed \/ NoMemory \/ Misread
Blame == code = "corrupt" => mpc = "failed" /\ Reason

StreamInv == StreamType /\ Reading /\ InFlight /\ Idle /\ Output /\ Owned /\ Blame

-----------------------------------------------------------------------------
(* The stream as Compress wrote it, without and with an empty record.       *)
LEMMA WholeFacts ==
  ASSUME NEW n \in Nat
  PROVE  /\ Whole(n) \in Seq(Genuine(n)) /\ Len(Whole(n)) = n + 1
         /\ \A i \in 1 .. n : Whole(n)[i] = BlockRecord(i - 1)
         /\ Whole(n)[n + 1] = EndRecord(n)
<1> DEFINE s == [i \in 1 .. n |-> BlockRecord(i - 1)]
<1>1. \A i \in 1 .. n : BlockRecord(i - 1) \in Genuine(n)
  BY DEF BlockRecord, Genuine, StreamRecord
<1>2. s \in Seq(Genuine(n)) /\ Len(s) = n
  BY <1>1
<1>3. \A i \in 1 .. n : s[i] = BlockRecord(i - 1)
  OBVIOUS
<1>4. EndRecord(n) \in Genuine(n)
  BY DEF EndRecord, Genuine, StreamRecord
<1> HIDE DEF s
<1> QED
  BY <1>2, <1>3, <1>4 DEF Whole, s

LEMMA StrayFacts ==
  ASSUME NEW n \in Nat, NEW a \in 1 .. n
  PROVE  /\ Written(n, a) \in Seq(Genuine(n)) /\ Len(Written(n, a)) = n + 2
         /\ \A i \in 1 .. a : Written(n, a)[i] = BlockRecord(i - 1)
         /\ Written(n, a)[a + 1] = StrayRecord
<1>1. PICK s \in Seq(Genuine(n)) :
        s = Whole(n) /\ Len(s) = n + 1 /\ \A i \in 1 .. n : s[i] = BlockRecord(i - 1)
  BY WholeFacts
<1>2. StrayRecord \in Genuine(n)
  BY DEF StrayRecord, Genuine, StreamRecord
<1>3. PICK r \in Genuine(n) : r = StrayRecord
  BY <1>2, Zenon
<1>4. /\ SubSeq(s, 1, a) \in Seq(Genuine(n)) /\ Len(SubSeq(s, 1, a)) = a
      /\ \A i \in 1 .. a : SubSeq(s, 1, a)[i] = s[i]
  BY <1>1
<1>5. PICK t \in Seq(Genuine(n)) :
        t = SubSeq(s, 1, a) /\ Len(t) = a /\ \A i \in 1 .. a : t[i] = s[i]
  BY <1>4, Zenon
<1>6. /\ SubSeq(s, a + 1, Len(s)) \in Seq(Genuine(n))
      /\ Len(SubSeq(s, a + 1, Len(s))) = n + 1 - a
  BY <1>1
<1>7. PICK u \in Seq(Genuine(n)) : u = SubSeq(s, a + 1, Len(s)) /\ Len(u) = n + 1 - a
  BY <1>6, Zenon
<1>8. Written(n, a) = t \o <<r>> \o u
  <2>1. a # 0 /\ a + 1 - 1 = a
    OBVIOUS
  <2> QED
    BY <1>1, <1>3, <1>5, <1>7, <2>1 DEF Written, InsertAt
<1>9. /\ t \o <<r>> \in Seq(Genuine(n)) /\ Len(t \o <<r>>) = a + 1
      /\ (t \o <<r>>)[a + 1] = r /\ \A i \in 1 .. a : (t \o <<r>>)[i] = t[i]
  BY <1>5
<1>10. PICK v \in Seq(Genuine(n)) : v = t \o <<r>>
  BY <1>9, Zenon
<1>11. Len(v) = a + 1 /\ v[a + 1] = r /\ \A i \in 1 .. a : v[i] = t[i]
  BY <1>9, <1>10
<1>12. /\ v \o u \in Seq(Genuine(n)) /\ Len(v \o u) = n + 2
       /\ \A i \in 1 .. a + 1 : (v \o u)[i] = v[i]
  <2>1. /\ v \o u \in Seq(Genuine(n)) /\ Len(v \o u) = Len(v) + Len(u)
        /\ \A i \in 1 .. Len(v) + Len(u) :
             (v \o u)[i] = IF i <= Len(v) THEN v[i] ELSE u[i - Len(v)]
    BY ConcatProperties, Zenon
  <2>2. Len(v) = a + 1 /\ Len(u) = n + 1 - a
    BY <1>7, <1>11
  <2>3. Len(v) + Len(u) = n + 2 /\ \A i \in 1 .. a + 1 : i \in 1 .. n + 2 /\ i <= a + 1
    BY <2>2
  <2> QED
    BY <2>1, <2>2, <2>3
<1>13. \A i \in 1 .. a : i \in 1 .. n /\ i \in 1 .. a + 1
  OBVIOUS
<1>14. a + 1 \in 1 .. a + 1
  OBVIOUS
<1> QED
  BY <1>1, <1>3, <1>5, <1>8, <1>10, <1>11, <1>12, <1>13, <1>14

LEMMA WrittenGenuine ==
  ASSUME NEW n \in Nat, NEW a \in 0 .. n
  PROVE  Written(n, a) \in Seq(Genuine(n))
<1>1. CASE a = 0
  BY <1>1, WholeFacts DEF Written
<1>2. CASE a \in 1 .. n
  BY <1>2, StrayFacts
<1> QED
  BY <1>1, <1>2

(* What becomes of a record does not make it authenticate.                  *)
LEMMA Forged ==
  ASSUME NEW n \in Nat, NEW r \in Genuine(n), NEW f \in Damaged(r) \cup CutInside(r)
  PROVE  f \in Genuine(n)
BY DEF Damaged, CutInside, Genuine, StreamRecord

(* The ways in which a stream is altered.                                   *)
LEMMA AlteredIs ==
  ASSUME NEW s, NEW f \in Altered(s)
  PROVE  \/ \E i \in DOMAIN s : f = RemoveAt(s, i)
         \/ \E i \in DOMAIN s, j \in DOMAIN s : f = InsertAt(s, i, s[j])
         \/ \E j \in DOMAIN s : f = Append(s, s[j])
         \/ \E i \in DOMAIN s, j \in DOMAIN s : f = [s EXCEPT ![i] = s[j], ![j] = s[i]]
         \/ \E i \in DOMAIN s : \E r \in Damaged(s[i]) : f = [s EXCEPT ![i] = r]
         \/ \E i \in DOMAIN s : f = SubSeq(s, 1, i - 1)
         \/ \E i \in DOMAIN s : \E r \in CutInside(s[i]) : f = Append(SubSeq(s, 1, i - 1), r)
<1>1. PICK D : D = DOMAIN s
  OBVIOUS
<1> DEFINE A == {RemoveAt(s, i) : i \in D}
           B == {InsertAt(s, i, s[j]) : i \in D, j \in D}
           C == {Append(s, s[j]) : j \in D}
           E == {[s EXCEPT ![i] = s[j], ![j] = s[i]] : i \in D, j \in D}
           G == UNION {{[s EXCEPT ![i] = r] : r \in Damaged(s[i])} : i \in D}
           H == {SubSeq(s, 1, i - 1) : i \in D}
           I == UNION {{Append(SubSeq(s, 1, i - 1), r) : r \in CutInside(s[i])} : i \in D}
<1>2. f \in A \/ f \in B \/ f \in C \/ f \in E \/ f \in G \/ f \in H \/ f \in I
  BY <1>1 DEF Altered
<1>3. f \in A => \E i \in DOMAIN s : f = RemoveAt(s, i)
  BY <1>1
<1>4. f \in B => \E i \in DOMAIN s, j \in DOMAIN s : f = InsertAt(s, i, s[j])
  BY <1>1
<1>5. f \in C => \E j \in DOMAIN s : f = Append(s, s[j])
  BY <1>1
<1>6. f \in E =>
        \E i \in DOMAIN s, j \in DOMAIN s : f = [s EXCEPT ![i] = s[j], ![j] = s[i]]
  BY <1>1
<1>7. f \in G => \E i \in DOMAIN s : \E r \in Damaged(s[i]) : f = [s EXCEPT ![i] = r]
  BY <1>1
<1>8. f \in H => \E i \in DOMAIN s : f = SubSeq(s, 1, i - 1)
  BY <1>1
<1>9. f \in I =>
        \E i \in DOMAIN s : \E r \in CutInside(s[i]) : f = Append(SubSeq(s, 1, i - 1), r)
  BY <1>1
<1> HIDE DEF A, B, C, E, G, H, I
<1> QED
  BY <1>2, <1>3, <1>4, <1>5, <1>6, <1>7, <1>8, <1>9

LEMMA FinIsGenuine ==
  ASSUME NEW n \in Nat, NEW a \in 0 .. n, NEW f \in {Written(n, a)} \cup Altered(Written(n, a))
  PROVE  f \in Seq(Genuine(n))
<1>1. PICK s \in Seq(Genuine(n)) : s = Written(n, a)
  BY WrittenGenuine
<1>2. DOMAIN s = 1 .. Len(s) /\ \A i \in DOMAIN s : s[i] \in Genuine(n)
  OBVIOUS
<1> SUFFICES ASSUME f \in Altered(s) PROVE f \in Seq(Genuine(n))
  BY <1>1
<1>3. CASE \E i \in DOMAIN s : f = RemoveAt(s, i)
  BY <1>2, <1>3 DEF RemoveAt
<1>4. CASE \E i \in DOMAIN s, j \in DOMAIN s : f = InsertAt(s, i, s[j])
  BY <1>2, <1>4 DEF InsertAt
<1>5. CASE \E j \in DOMAIN s : f = Append(s, s[j])
  BY <1>2, <1>5
<1>6. CASE \E i \in DOMAIN s, j \in DOMAIN s : f = [s EXCEPT ![i] = s[j], ![j] = s[i]]
  BY <1>2, <1>6
<1>7. CASE \E i \in DOMAIN s : \E r \in Damaged(s[i]) : f = [s EXCEPT ![i] = r]
  <2>1. PICK i \in DOMAIN s : \E r \in Damaged(s[i]) : f = [s EXCEPT ![i] = r]
    BY <1>7
  <2>2. PICK r \in Damaged(s[i]) : f = [s EXCEPT ![i] = r]
    BY <2>1
  <2>3. r \in Genuine(n)
    BY <1>2, Forged
  <2> QED
    BY <1>2, <2>2, <2>3
<1>8. CASE \E i \in DOMAIN s : f = SubSeq(s, 1, i - 1)
  BY <1>2, <1>8
<1>9. CASE \E i \in DOMAIN s : \E r \in CutInside(s[i]) : f = Append(SubSeq(s, 1, i - 1), r)
  <2>1. PICK i \in DOMAIN s : \E r \in CutInside(s[i]) : f = Append(SubSeq(s, 1, i - 1), r)
    BY <1>9
  <2>2. PICK r \in CutInside(s[i]) : f = Append(SubSeq(s, 1, i - 1), r)
    BY <2>1
  <2>3. r \in Genuine(n)
    BY <1>2, Forged
  <2>4. SubSeq(s, 1, i - 1) \in Seq(Genuine(n))
    BY <1>2
  <2> QED
    BY <2>2, <2>3, <2>4
<1> QED
  BY <1>3, <1>4, <1>5, <1>6, <1>7, <1>8, <1>9, AlteredIs

(* What does not change while blocks does not.                              *)
LEMMA Frame ==
  ASSUME threads \in 1 .. MaxThreads, blocks \in Nat, UNCHANGED <<threads, blocks>>
  PROVE  /\ Slots \in Nat \ {0} /\ Slot = 0 .. Slots - 1 /\ Slots' = Slots /\ Slot' = Slot
         /\ CurrentSlot \in Slot /\ CurrentSlot' = CurrentSlot
         /\ Prior \in Int /\ Prior < blocks /\ Prior' = Prior
         /\ Oldest \in Nat /\ Oldest <= blocks /\ Oldest' = Oldest
<1>1. Slots \in Nat \ {0} /\ Slot = 0 .. Slots - 1 /\ Slots' = Slots /\ Slot' = Slot
  BY SlotFacts DEF Slots, Slot
<1>2. CurrentSlot \in Slot /\ CurrentSlot' = CurrentSlot
  BY <1>1, SlotFacts DEF CurrentSlot
<1>3. Prior \in Int /\ Prior < blocks /\ Prior' = Prior
  BY <1>1 DEF Prior
<1>4. Oldest \in Nat /\ Oldest <= blocks /\ Oldest' = Oldest
  BY <1>3 DEF Oldest
<1> QED
  BY <1>1, <1>2, <1>3, <1>4

(* Of an unaltered stream, what was read is as Compress wrote it; no more   *)
(* than that is read when there is an empty record.                         *)
LEMMA Unaltered ==
  ASSUME StreamInv, fin = Original, ~Misread
  PROVE  /\ \A i \in 1 .. blocks : Intact(i)
         /\ Current = fin[readPos] /\ Current.kind \in {"block", "end"}
         /\ Current.kind = "end" => EndSealed /\ EndLast
<1>1. /\ count \in Nat /\ stray \in 0 .. count /\ enc \in BOOLEAN
      /\ blocks \in Nat /\ readPos = blocks + 1 /\ blocks <= Len(fin)
      /\ \A i \in 1 .. blocks : fin[i].kind = "block"
  BY DEF StreamInv, StreamType, Reading
<1>2. PICK n \in 0 .. count :
        /\ n < Len(fin) /\ fin[n + 1].kind = "end"
        /\ \A i \in 1 .. n : fin[i] = BlockRecord(i - 1)
        /\ enc => n = count /\ Len(fin) = n + 1 /\ fin[n + 1] = EndRecord(n)
  <2>1. CASE stray = 0
    <3>1. /\ Len(fin) = count + 1
          /\ \A i \in 1 .. count : fin[i] = BlockRecord(i - 1)
          /\ fin[count + 1] = EndRecord(count)
      BY <1>1, <2>1, WholeFacts DEF Original, Written
    <3>2. fin[count + 1].kind = "end"
      BY <3>1 DEF EndRecord
    <3> QED
      BY <1>1, <3>1, <3>2
  <2>2. CASE stray \in 1 .. count
    <3>1. /\ Len(fin) = count + 2
          /\ \A i \in 1 .. stray : fin[i] = BlockRecord(i - 1)
          /\ fin[stray + 1] = StrayRecord
      BY <1>1, <2>2, StrayFacts DEF Original
    <3>2. fin[stray + 1].kind = "end"
      BY <3>1 DEF StrayRecord
    <3>3. ~enc
      BY <2>2 DEF Misread
    <3> QED
      BY <1>1, <2>2, <3>1, <3>2, <3>3
  <2>3. stray = 0 \/ stray \in 1 .. count
    BY <1>1
  <2> QED
    BY <2>1, <2>2, <2>3, Zenon
<1>3. blocks <= n
  <2>1. ~(n + 1 \in 1 .. blocks)
    BY <1>1, <1>2
  <2> QED
    BY <1>1, <2>1
<1>4. ASSUME NEW i \in 1 .. blocks PROVE Intact(i)
  <2>1. i \in 1 .. n
    BY <1>1, <1>3
  <2>2. fin[i] = BlockRecord(i - 1)
    BY <1>2, <2>1
  <2> QED
    BY <2>2 DEF Intact, BlockRecord
<1>5. Current = fin[readPos] /\ readPos \in 1 .. n + 1
  BY <1>1, <1>2, <1>3 DEF Current
<1>6. CASE readPos <= n
  <2>1. Current = BlockRecord(readPos - 1)
    BY <1>2, <1>5, <1>6
  <2>2. Current.kind = "block"
    BY <2>1 DEF BlockRecord
  <2> QED
    BY <1>4, <1>5, <2>2
<1>7. CASE ~(readPos <= n)
  <2>1. readPos = n + 1 /\ blocks = n
    BY <1>1, <1>5, <1>7
  <2>2. EndSealed /\ EndLast
    BY <1>2, <1>5, <2>1 DEF EndRecord, EndSealed, EndLast
  <2> QED
    BY <1>2, <1>4, <1>5, <2>1, <2>2
<1> QED
  BY <1>6, <1>7

LEMMA InitInv == Init => StreamInv
<1> SUFFICES ASSUME Init PROVE StreamInv
  OBVIOUS
<1>1. PipeInv({}) /\ threads \in 1 .. MaxThreads /\ Slots \in Nat \ {0}
  BY PipeInitInv, SlotFacts DEF Init, PipeInit
<1>2. count \in Nat /\ stray \in 0 .. count /\ fin \in Seq(Genuine(count))
  <2>1. PICK n \in Nat : n = count
    BY MaxBlocksAssumption DEF Init
  <2>2. \A k \in StrayAfter(n) : k \in 0 .. n
    BY <2>1 DEF StrayAfter
  <2>3. PICK a \in 0 .. n : a = stray
    BY <2>1, <2>2 DEF Init
  <2>4. fin \in {Written(n, a)} \cup Altered(Written(n, a))
    BY <2>1, <2>3 DEF Init
  <2> QED
    BY <2>1, <2>3, <2>4, FinIsGenuine
<1>3. /\ enc \in BOOLEAN /\ readPos = 1 /\ blocks = 0 /\ next = 0 /\ fout = <<>>
      /\ mpc = "read" /\ code = "none" /\ readFailed = FALSE
  BY DEF Init
<1>4. StreamType /\ Reading /\ Blame
  <2>1. StreamType
    <3>1. fout \in Seq(Int)
      BY <1>3
    <3>2. mpc \in {"read"} /\ code \in {"none"} /\ blocks \in Nat /\ next \in Nat
      BY <1>3
    <3> QED
      BY <1>2, <1>3, <3>1, <3>2 DEF StreamType
  <2>2. Reading /\ Blame
    BY <1>2, <1>3 DEF Reading, Blame
  <2> QED
    BY <2>1, <2>2
<1>5. Oldest = 0
  BY <1>1 DEF Init, Oldest, Prior
<1>6. InFlight /\ Idle /\ Output /\ Owned
  BY <1>1, <1>3, <1>5 DEF Init, PipeInit, InFlight, Idle, Output, Owned
<1> QED
  BY <1>4, <1>6 DEF StreamInv

-----------------------------------------------------------------------------
(* A step of a worker: what the slots were filled with stays.               *)
LEMMA WorkerInv ==
  ASSUME StreamInv, NEW w \in Worker, WorkerStep(w), UNCHANGED streamVars
  PROVE  StreamInv'
<1>1. /\ StreamType /\ Reading /\ InFlight /\ Idle /\ Output /\ Owned /\ Blame
      /\ UNCHANGED <<count, stray, enc, fin, readPos, blocks, next, fout, mpc, code, readFailed>>
  BY DEF StreamInv, streamVars
<1>2. PICK F : PipeInv(F) /\ (mpc # "start" => F = {}) /\ (mpc = "start" => F = {CurrentSlot})
  BY <1>1 DEF Owned
<1>3. /\ PipeInv(F)' /\ UNCHANGED <<threads, busy, freed>>
      /\ \A s \in Slot : /\ job'[s].raw = job[s].raw /\ job'[s].good = job[s].good
                         /\ job'[s] = job[s] \/ busy[s]
  BY <1>2, WorkerKeeps
<1>4. /\ Slots \in Nat \ {0} /\ Slots' = Slots /\ Slot' = Slot
      /\ CurrentSlot \in Slot /\ CurrentSlot' = CurrentSlot
      /\ Prior' = Prior /\ Oldest \in Nat /\ Oldest' = Oldest /\ blocks \in Nat /\ next \in Nat
      /\ threads \in 1 .. MaxThreads
  BY <1>1, <1>2, <1>3, Frame DEF PipeInv, PipeType, StreamType
<1>5. \A b \in Nat : b % Slots \in Slot
  BY <1>4, SlotFacts
<1>6. \A b \in Nat : Holds(b)' <=> Holds(b)
  BY <1>1, <1>3, <1>4, <1>5 DEF Holds, Intact
<1>7. StreamType' /\ Reading'
  BY <1>1 DEF StreamType, Reading, EndSealed, EndLast, Current
<1>8. InFlight'
  <2>1. \A b \in Oldest .. blocks : b \in Nat
    BY <1>4
  <2>2. \A b \in next .. blocks - 1 : b \in Nat
    BY <1>4
  <2> QED
    BY <1>1, <1>4, <1>6, <2>1, <2>2 DEF InFlight
<1>9. Idle' /\ Output' /\ Owned'
  BY <1>1, <1>2, <1>3, <1>4 DEF Idle, Output, Owned, Intact
<1>10. Blame'
  BY <1>1, <1>3, <1>4 DEF Blame, Reason, NoMemory, Misread, Original
<1> QED
  BY <1>7, <1>8, <1>9, <1>10 DEF StreamInv

(* A step that changes nothing.                                             *)
LEMMA Unchanged == StreamInv /\ UNCHANGED vars => StreamInv'
<1> SUFFICES ASSUME StreamInv, UNCHANGED vars PROVE StreamInv'
  OBVIOUS
<1>1. UNCHANGED <<threads, job, busy, startEv, doneEv, wpc, wslot, freed>>
  BY DEF vars, pipeVars
<1>2. UNCHANGED <<count, stray, enc, fin, readPos, blocks, next, fout, mpc, code, readFailed>>
  BY DEF vars, streamVars
<1>3. Slots' = Slots /\ Slot' = Slot
  BY <1>1 DEF Slots, Slot
<1>4. \A F : PipeInv(F) => PipeInv(F)'
  BY PipeStutter DEF vars
<1>5. StreamType' /\ Reading' /\ InFlight' /\ Idle' /\ Output' /\ Blame'
  BY <1>1, <1>2, <1>3 DEF StreamInv, StreamType, Reading, InFlight, Idle, Output, Blame, Holds,
     Intact, Prior, Oldest, CurrentSlot, Current, EndSealed, EndLast, Reason, NoMemory, Misread,
     Original
<1>6. Owned'
  BY <1>2, <1>3, <1>4 DEF StreamInv, Owned, CurrentSlot
<1> QED
  BY <1>5, <1>6 DEF StreamInv

-----------------------------------------------------------------------------
(* The main thread's steps.  Waiting for the oldest block in flight and     *)
(* writing it: either it is written, and was intact, or the command fails.  *)
LEMMA BlockWritten ==
  ASSUME StreamInv, PipeInv({}), freed = -1, NEW b \in Nat, b < blocks, Len(fout) = b, Holds(b),
         NEW then, WriteSlot(b % Slots, then),
         UNCHANGED <<threads, count, stray, enc, fin, readPos, blocks, readFailed>>
  PROVE  /\ PipeInv({})' /\ UNCHANGED job
         /\ ~busy'[b % Slots] /\ \A r \in Slot : busy'[r] => busy[r]
         /\ fout' \in Seq(Int)
         /\ \A i \in 1 .. Len(fout') : fout'[i] = fin[i].data /\ Intact(i)
         /\ \/ mpc' = then /\ freed' = freed /\ code' = code /\ Len(fout') = b + 1
            \/ /\ mpc' = "failed" /\ fout' = fout /\ code' \in {"fatal", "corrupt"}
               /\ code' = "corrupt" => Reason'
<1>1. PICK s : s = b % Slots
  OBVIOUS
<1>2. /\ PipeType /\ threads \in 1 .. MaxThreads /\ Slots \in Nat \ {0} /\ Slot = 0 .. Slots - 1
      /\ Slots' = Slots /\ Slot' = Slot /\ s \in Slot
  BY <1>1, SlotFacts DEF PipeInv, PipeType, Slots, Slot
<1>3. /\ Finish(s) /\ UNCHANGED <<job, startEv, wpc, wslot>>
      /\ \/ /\ job[s].ok
            /\ fout' = Append(fout, job[s].out)
            /\ mpc' = then
            /\ UNCHANGED <<freed, code>>
         \/ job[s].ok /\ Fail("fatal") /\ UNCHANGED fout
         \/ ~job[s].ok /\ Fail("corrupt") /\ UNCHANGED fout
  BY <1>1 DEF WriteSlot
<1>4. freed' \in -1 .. 2 * Slots /\ freed <= Slots /\ Waited'
  BY <1>2, <1>3 DEF Waited, Fail
<1>5. /\ PipeInv({})' /\ ~busy'[s] /\ \A r \in Slot : busy'[r] => busy[r]
      /\ Made(job[s])
  BY <1>2, <1>3, <1>4, FinishKeeps
<1>6. job[s].raw = fin[b + 1].data /\ job[s].good = Intact(b + 1) /\ job[s].raw \in Int
  BY <1>1, <1>2 DEF Holds, PipeType, Job
<1>7. fout \in Seq(Int) /\ \A i \in 1 .. Len(fout) : fout[i] = fin[i].data /\ Intact(i)
  BY DEF StreamInv, StreamType, Output
<1>8. CASE job[s].ok /\ fout' = Append(fout, job[s].out) /\ mpc' = then /\ UNCHANGED <<freed, code>>
  <2>1. job[s].out = fin[b + 1].data /\ Intact(b + 1) /\ job[s].out \in Int
    BY <1>5, <1>6, <1>8 DEF Made
  <2>2. /\ fout' \in Seq(Int) /\ Len(fout') = b + 1 /\ fout'[b + 1] = job[s].out
        /\ \A i \in 1 .. b : fout'[i] = fout[i]
    BY <1>7, <1>8, <2>1
  <2>3. \A i \in 1 .. Len(fout') : i = b + 1 \/ i \in 1 .. b
    BY <2>2
  <2>4. \A i \in 1 .. Len(fout') : fout'[i] = fin[i].data /\ Intact(i)
    BY <1>7, <2>1, <2>2, <2>3
  <2> QED
    BY <1>1, <1>3, <1>5, <1>8, <2>2, <2>4
<1>9. CASE job[s].ok /\ Fail("fatal") /\ UNCHANGED fout
  BY <1>1, <1>3, <1>5, <1>7, <1>9 DEF Fail
<1>10. CASE ~job[s].ok /\ Fail("corrupt") /\ UNCHANGED fout
  <2>1. fin = Original /\ ~Misread => Intact(b + 1)
    <3>1. b + 1 \in 1 .. blocks
      BY DEF StreamInv, StreamType
    <3> QED
      BY <3>1, Unaltered
  <2>2. fin = Original /\ ~Misread => NoMemory'
    BY <1>2, <1>3, <1>5, <1>6, <1>10, <2>1 DEF NoMemory
  <2>3. Reason'
    BY <2>2 DEF Reason, Misread, Original
  <2> QED
    BY <1>1, <1>3, <1>5, <1>7, <1>10, <2>3 DEF Fail
<1> QED
  BY <1>3, <1>8, <1>9, <1>10

(* A command that fails outside of WriteSlot.                               *)
LEMMA Failed ==
  ASSUME StreamInv, PipeInv({}), freed = -1, NEW c \in {"fatal", "corrupt"}, Fail(c),
         readFailed' \in BOOLEAN, c = "corrupt" => fin # Original \/ Misread \/ readFailed',
         UNCHANGED <<threads, job, busy, startEv, doneEv, wpc, wslot>>,
         UNCHANGED <<count, stray, enc, fin, readPos, blocks, next, fout>>
  PROVE  StreamInv'
<1>1. mpc' = "failed" /\ code' = c /\ freed' = 0
  BY DEF Fail
<1>2. PipeInv({})'
  BY <1>1, DestroyBegins
<1>3. StreamType' /\ Reading' /\ InFlight' /\ Idle' /\ Output' /\ Blame'
  BY <1>1 DEF StreamInv, StreamType, Reading, InFlight, Idle, Output, Blame, Intact, Original,
     Reason, Misread
<1> QED
  BY <1>1, <1>2, <1>3 DEF StreamInv, Owned

(* The header of the next record, or the end of the stream.                 *)
LEMMA MainReadInv ==
  ASSUME StreamInv, MainRead, UNCHANGED threads
  PROVE  StreamInv'
<1>1. /\ StreamType /\ Reading /\ InFlight /\ Idle /\ Output /\ Owned /\ Blame
      /\ mpc = "read" /\ PipeInv({}) /\ freed = -1
      /\ UNCHANGED <<count, stray, enc, fin, readPos, blocks, fout, threads>>
      /\ UNCHANGED <<job, busy, startEv, doneEv, wpc, wslot>>
  BY DEF StreamInv, MainRead, Owned, Idle
<1>2. threads \in 1 .. MaxThreads /\ blocks \in Nat /\ code # "corrupt"
  BY <1>1 DEF PipeInv, PipeType, StreamType, Blame
<1>3. /\ Slots \in Nat \ {0} /\ Slot = 0 .. Slots - 1 /\ Slots' = Slots /\ Slot' = Slot
      /\ CurrentSlot \in Slot /\ CurrentSlot' = CurrentSlot
      /\ Prior \in Int /\ Prior < blocks /\ Prior' = Prior
      /\ Oldest \in Nat /\ Oldest <= blocks /\ Oldest' = Oldest
  BY <1>1, <1>2, Frame
<1>4. Current.kind # "cutHeader" => readPos <= Len(fin) /\ Current = fin[readPos]
  BY <1>1, <1>2 DEF Current, StreamType, Reading
<1>5. \A b \in Oldest .. blocks - 1 : b \in Nat /\ Holds(b) /\ Holds(b)'
  BY <1>1, <1>3 DEF InFlight, Holds, Intact
<1>6. Current' = Current /\ (EndSealed' <=> EndSealed) /\ (EndLast' <=> EndLast)
  BY <1>1 DEF Current, EndSealed, EndLast
<1>7. CASE /\ Current.kind = "end" /\ EndSealed /\ ToDrain /\ UNCHANGED <<code, freed>>
           /\ (EndLast /\ UNCHANGED readFailed) \/ (enc /\ readFailed' = TRUE)
  <2>1. mpc' = "drain" /\ next' = Oldest
    BY <1>2, <1>3, <1>7 DEF ToDrain, Oldest, Prior
  <2>2. StreamType' /\ Reading'
    BY <1>1, <1>3, <1>4, <1>6, <1>7, <2>1 DEF StreamType, Reading
  <2>3. InFlight' /\ Idle' /\ Output' /\ Blame'
    BY <1>1, <1>2, <1>3, <1>5, <1>7, <2>1 DEF InFlight, Idle, Output, Blame, Intact
  <2>4. PipeInv({})'
    BY <1>1, <1>7, PipeStutter DEF pipeVars
  <2> QED
    BY <2>1, <2>2, <2>3, <2>4 DEF StreamInv, Owned
<1>8. CASE /\ Current.kind \in {"block", "cutPayload"}
           /\ mpc' = IF blocks >= Slots THEN "write" ELSE "fill"
           /\ UNCHANGED <<code, freed, next, readFailed>>
  <2>1. StreamType' /\ Reading'
    BY <1>1, <1>4, <1>8 DEF StreamType, Reading
  <2>2. Idle'
    <3>1. blocks < Slots => CurrentSlot = blocks
      BY <1>2, Turn DEF CurrentSlot
    <3> QED
      BY <1>1, <1>2, <1>3, <1>8, <3>1 DEF Idle
  <2>3. InFlight' /\ Blame'
    BY <1>1, <1>2, <1>3, <1>5, <1>8 DEF InFlight, Blame
  <2>4. Output'
    <3>1. blocks < Slots => Prior < 0 /\ Oldest = 0
      BY <1>2, <1>3 DEF Prior, Oldest
    <3> QED
      BY <1>1, <1>2, <1>3, <1>8, <3>1 DEF Output, Intact
  <2>5. PipeInv({})'
    BY <1>1, <1>8, PipeStutter DEF pipeVars
  <2> QED
    BY <1>8, <2>1, <2>2, <2>3, <2>4, <2>5 DEF StreamInv, Owned
<1>9. CASE /\ \/ Current.kind \in {"badHeader", "cutHeader"}
              \/ Current.kind = "end" /\ ~(EndSealed /\ EndLast)
           /\ Fail("corrupt")
           /\ UNCHANGED <<next, readFailed>>
  <2>1. fin # Original \/ Misread
    BY <1>9, Unaltered
  <2>2. readFailed' \in BOOLEAN
    BY <1>1, <1>9 DEF StreamType
  <2> QED
    BY <1>1, <1>9, <2>1, <2>2, Failed
<1>10. CASE ReadFails /\ UNCHANGED next
  BY <1>1, <1>10, Failed DEF ReadFails
<1> QED
  BY <1>7, <1>8, <1>9, <1>10 DEF MainRead

(* The oldest block leaves the slot that is filled next.                    *)
LEMMA MainWriteInv ==
  ASSUME StreamInv, MainWrite, UNCHANGED threads
  PROVE  StreamInv'
<1>1. /\ StreamType /\ Reading /\ InFlight /\ Idle /\ Output /\ Owned /\ Blame
      /\ mpc = "write" /\ PipeInv({}) /\ freed = -1 /\ blocks >= Slots
      /\ UNCHANGED <<count, stray, enc, fin, readPos, blocks, next, readFailed, threads>>
      /\ WriteSlot(CurrentSlot, "fill")
  BY DEF StreamInv, MainWrite, Owned, Idle
<1>2. threads \in 1 .. MaxThreads /\ blocks \in Nat /\ code # "corrupt"
  BY <1>1 DEF PipeInv, PipeType, StreamType, Blame
<1>3. /\ Slots \in Nat \ {0} /\ Slot = 0 .. Slots - 1 /\ Slots' = Slots /\ Slot' = Slot
      /\ CurrentSlot \in Slot /\ CurrentSlot' = CurrentSlot
      /\ Prior \in Int /\ Prior < blocks /\ Prior' = Prior
      /\ Oldest \in Nat /\ Oldest <= blocks /\ Oldest' = Oldest
  BY <1>1, <1>2, Frame
<1>4. PICK p \in Nat : p = Prior /\ p = Oldest
  BY <1>1, <1>2, <1>3 DEF Prior, Oldest
<1>5. p % Slots = CurrentSlot
  BY <1>1, <1>2, <1>4, Turn DEF Prior, CurrentSlot
<1>6. Holds(p) /\ Len(fout) = p /\ p < blocks
  BY <1>1, <1>2, <1>3, <1>4 DEF InFlight, Output
<1>7. /\ PipeInv({})' /\ UNCHANGED job
      /\ ~busy'[CurrentSlot] /\ \A r \in Slot : busy'[r] => busy[r]
      /\ fout' \in Seq(Int)
      /\ \A i \in 1 .. Len(fout') : fout'[i] = fin[i].data /\ Intact(i)
      /\ \/ mpc' = "fill" /\ freed' = freed /\ code' = code /\ Len(fout') = p + 1
         \/ /\ mpc' = "failed" /\ fout' = fout /\ code' \in {"fatal", "corrupt"}
            /\ code' = "corrupt" => Reason'
  BY <1>1, <1>5, <1>6, BlockWritten
<1>8. StreamType' /\ Reading'
  BY <1>1, <1>7 DEF StreamType, Reading
<1>9. InFlight' /\ Idle'
  BY <1>1, <1>3, <1>7 DEF InFlight, Holds, Intact, Idle
<1>10. Output'
  BY <1>1, <1>2, <1>3, <1>4, <1>6, <1>7 DEF Output, Intact
<1>11. Owned' /\ Blame'
  BY <1>2, <1>7 DEF Owned, Blame
<1> QED
  BY <1>8, <1>9, <1>10, <1>11 DEF StreamInv

(* The slot is filled with the record, or there is no memory for it.        *)
LEMMA MainFillInv ==
  ASSUME StreamInv, MainFill, UNCHANGED threads
  PROVE  StreamInv'
<1>1. /\ StreamType /\ Reading /\ InFlight /\ Idle /\ Output /\ Owned /\ Blame
      /\ mpc = "fill" /\ PipeInv({}) /\ freed = -1 /\ ~busy[CurrentSlot]
      /\ UNCHANGED <<busy, startEv, doneEv, wpc, wslot>>
      /\ UNCHANGED <<count, stray, enc, fin, readPos, blocks, next, fout, threads>>
  BY DEF StreamInv, MainFill, Owned, Idle
<1>2. threads \in 1 .. MaxThreads /\ blocks \in Nat /\ code # "corrupt"
  BY <1>1 DEF PipeInv, PipeType, StreamType, Blame
<1>3. /\ Slots \in Nat \ {0} /\ Slot = 0 .. Slots - 1 /\ Slots' = Slots /\ Slot' = Slot
      /\ CurrentSlot \in Slot /\ CurrentSlot' = CurrentSlot
      /\ Prior \in Int /\ Prior < blocks /\ Prior' = Prior
      /\ Oldest \in Nat /\ Oldest <= blocks /\ Oldest' = Oldest
  BY <1>1, <1>2, Frame
<1>4. PICK r : r = Current
  OBVIOUS
<1>5. /\ r = fin[blocks + 1] /\ readPos = blocks + 1 /\ readPos <= Len(fin)
      /\ r.data \in Int /\ r.good \in BOOLEAN
  <2>1. readPos = blocks + 1 /\ readPos <= Len(fin) /\ readPos \in 1 .. Len(fin)
    BY <1>1, <1>2 DEF Reading, StreamType
  <2>2. r = fin[readPos] /\ fin[readPos] \in Genuine(count)
    BY <1>1, <1>2, <1>4, <2>1 DEF Current, StreamType
  <2> QED
    BY <2>1, <2>2 DEF Genuine, StreamRecord
<1>6. CASE /\ r.kind = "block"
           /\ job' = [job EXCEPT ![CurrentSlot].n = 1,
                                 ![CurrentSlot].raw = r.data,
                                 ![CurrentSlot].good = Authentic(r)]
           /\ mpc' = "start"
           /\ UNCHANGED <<code, freed, readFailed>>
  <2>1. PICK v : v = [job[CurrentSlot] EXCEPT !.n = 1, !.raw = r.data, !.good = Authentic(r)]
    OBVIOUS
  <2>2. job \in [Slot -> Job] /\ job[CurrentSlot] \in Job
    BY <1>1, <1>3 DEF PipeInv, PipeType
  <2>3. v \in Job /\ v.raw = r.data /\ v.good = Authentic(r)
    <3>1. PICK a \in BOOLEAN : a = Authentic(r)
      BY <1>5 DEF Authentic
    <3>2. v = [n |-> 1, raw |-> r.data, good |-> a, out |-> job[CurrentSlot].out,
               ok |-> job[CurrentSlot].ok]
      BY <2>1, <2>2, <3>1 DEF Job
    <3> QED
      BY <1>5, <2>2, <3>1, <3>2 DEF Job
  <2>4. job' = [job EXCEPT ![CurrentSlot] = v]
    BY <1>3, <1>6, <2>1, <2>2 DEF Job
  <2>5. job'[CurrentSlot] = v /\ \A s \in Slot : s # CurrentSlot => job'[s] = job[s]
    BY <1>3, <2>2, <2>4
  <2>6. Owned'
    <3>1. PICK s \in Slot : s = CurrentSlot
      BY <1>3
    <3>2. PipeInv({s})'
      BY <1>1, <1>6, <2>3, <2>4, <3>1, FillKeeps
    <3> QED
      BY <1>3, <1>6, <3>1, <3>2 DEF Owned
  <2>7. StreamType' /\ Reading'
    BY <1>1, <1>5, <1>6 DEF StreamType, Reading
  <2>8. ASSUME NEW b \in Oldest .. blocks, b > Prior PROVE Holds(b)'
    <3>1. b \in Nat /\ (b < blocks \/ b = blocks) /\ b % Slots \in Slot
      <4>1. b \in Nat /\ (b < blocks \/ b = blocks)
        BY <1>2, <1>3
      <4> QED
        BY <1>2, <4>1, SlotFacts
    <3>2. CASE b < blocks
      <4>1. Holds(b)
        BY <1>1, <1>2, <1>3, <2>8, <3>2 DEF InFlight
      <4>2. b % Slots # CurrentSlot
        BY <1>2, <2>8, <3>1, <3>2, Turn DEF CurrentSlot, Prior
      <4>3. job'[b % Slots] = job[b % Slots]
        BY <2>5, <3>1, <4>2
      <4> QED
        BY <1>1, <1>3, <4>1, <4>3 DEF Holds, Intact
    <3>3. CASE b = blocks
      <4>1. Authentic(r) = Intact(blocks + 1)
        <5>1. r = fin[blocks + 1]
          BY <1>5
        <5>2. Authentic(r) = (r.good /\ (enc => r.data = blocks))
          BY Zenon DEF Authentic
        <5>3. PICK i \in Nat : i = blocks + 1 /\ i - 1 = blocks
          BY <1>2
        <5>4. Intact(i) = (fin[i].good /\ (enc => fin[i].data = i - 1))
          BY Zenon DEF Intact
        <5> QED
          BY <5>1, <5>2, <5>3, <5>4, Zenon
      <4>2. job'[b % Slots] = v
        BY <2>5, <3>3 DEF CurrentSlot
      <4> QED
        BY <1>1, <1>3, <1>5, <2>3, <3>3, <4>1, <4>2 DEF Holds, Intact
    <3> QED
      BY <3>1, <3>2, <3>3
  <2>9. InFlight'
    BY <1>1, <1>3, <1>6, <2>8 DEF InFlight
  <2>10. Idle' /\ Output' /\ Blame'
    BY <1>1, <1>2, <1>3, <1>6 DEF Idle, Output, Blame, Intact
  <2> QED
    BY <2>6, <2>7, <2>9, <2>10 DEF StreamInv
<1>7. CASE r.kind = "cutPayload" /\ Fail("corrupt") /\ UNCHANGED <<job, readFailed>>
  <2>1. fin # Original \/ Misread
    BY <1>4, <1>7, Unaltered
  <2>2. readFailed' \in BOOLEAN
    BY <1>1, <1>7 DEF StreamType
  <2> QED
    BY <1>1, <1>7, <2>1, <2>2, Failed
<1>8. CASE Fail("fatal") /\ UNCHANGED <<job, readFailed>>
  <2>1. readFailed' \in BOOLEAN
    BY <1>1, <1>8 DEF StreamType
  <2> QED
    BY <1>1, <1>8, <2>1, Failed
<1>9. CASE ReadFails /\ UNCHANGED job
  BY <1>1, <1>9, Failed DEF ReadFails
<1> QED
  BY <1>4, <1>6, <1>7, <1>8, <1>9 DEF MainFill

(* The current slot is started.                                             *)
LEMMA MainStartInv ==
  ASSUME StreamInv, MainStart, UNCHANGED threads
  PROVE  StreamInv'
<1>1. /\ StreamType /\ Reading /\ InFlight /\ Idle /\ Output /\ Blame
      /\ mpc = "start" /\ freed = -1 /\ mpc' = "read"
      /\ UNCHANGED <<count, stray, enc, fin, next, fout, code, readFailed, threads>>
      /\ blocks' = blocks + 1 /\ readPos' = readPos + 1
  BY DEF StreamInv, MainStart, Idle
<1>2. PICK s \in Slot : s = CurrentSlot /\ PipeInv({s}) /\ Start(s)
  BY DEF StreamInv, Owned, MainStart
<1>3. threads \in 1 .. MaxThreads /\ blocks \in Nat /\ code # "corrupt"
  BY <1>1, <1>2 DEF PipeInv, PipeType, StreamType, Blame
<1>4. /\ Slots \in Nat \ {0} /\ Slot = 0 .. Slots - 1 /\ Slots' = Slots /\ Slot' = Slot
      /\ Prior \in Int /\ Prior < blocks /\ Prior' = Prior + 1
  <2>1. Slots \in Nat \ {0} /\ Slot = 0 .. Slots - 1 /\ Slots' = Slots /\ Slot' = Slot
    BY <1>1, <1>3, SlotFacts DEF Slots, Slot
  <2>2. Prior \in Int /\ Prior < blocks /\ Prior' = Prior + 1
    BY <1>1, <1>3, <2>1 DEF Prior
  <2> QED
    BY <2>1, <2>2
<1>5. Oldest' \in Nat /\ Oldest' >= Oldest /\ Oldest' > Prior
      /\ Oldest' = IF Prior >= 0 THEN Prior + 1 ELSE 0
  BY <1>4 DEF Oldest
<1>6. /\ PipeInv({})' /\ freed' = -1
      /\ \A r \in Slot : r # s => busy'[r] = busy[r]
      /\ \A r \in Slot : job'[r].raw = job[r].raw /\ job'[r].good = job[r].good
  BY <1>1, <1>2, StartKeeps
<1>7. StreamType' /\ Reading'
  BY <1>1, <1>3 DEF StreamType, Reading
<1>8. InFlight'
  <2>1. ASSUME NEW b \in Oldest' .. blocks' - 1 PROVE Holds(b)'
    <3>1. b \in Oldest .. blocks /\ b > Prior /\ b \in Nat
      BY <1>1, <1>3, <1>4, <1>5 DEF Oldest
    <3>2. Holds(b) /\ b % Slots \in Slot
      BY <1>1, <1>3, <3>1, SlotFacts DEF InFlight
    <3> QED
      BY <1>1, <1>4, <1>6, <3>2 DEF Holds, Intact
  <2> QED
    BY <1>1, <2>1 DEF InFlight
<1>9. Idle'
  <2>1. blocks < Slots => s = blocks
    BY <1>2, <1>3, Turn DEF CurrentSlot
  <2> QED
    BY <1>1, <1>3, <1>4, <1>6, <2>1 DEF Idle
<1>10. Output'
  BY <1>1, <1>3, <1>4, <1>5 DEF Output, Intact
<1>11. Owned' /\ Blame'
  BY <1>1, <1>3, <1>6 DEF Owned, Blame
<1> QED
  BY <1>7, <1>8, <1>9, <1>10, <1>11 DEF StreamInv

(* One of the blocks still in flight is written, or there is none left.     *)
LEMMA MainDrainInv ==
  ASSUME StreamInv, MainDrain, UNCHANGED threads
  PROVE  StreamInv'
<1>1. /\ StreamType /\ Reading /\ InFlight /\ Output /\ Blame
      /\ mpc = "drain" /\ PipeInv({}) /\ freed = -1
      /\ UNCHANGED <<count, stray, enc, fin, readPos, blocks, readFailed, threads>>
  BY DEF StreamInv, MainDrain, Owned, Idle
<1>2. threads \in 1 .. MaxThreads /\ blocks \in Nat /\ next \in Nat /\ code # "corrupt"
  BY <1>1 DEF PipeInv, PipeType, StreamType, Blame
<1>3. /\ Slots \in Nat \ {0} /\ Slot = 0 .. Slots - 1 /\ Slots' = Slots /\ Slot' = Slot
      /\ CurrentSlot \in Slot /\ CurrentSlot' = CurrentSlot
      /\ Prior \in Int /\ Prior < blocks /\ Prior' = Prior
      /\ Oldest \in Nat /\ Oldest <= blocks /\ Oldest' = Oldest
  BY <1>1, <1>2, Frame
<1>4. Len(fout) = next /\ Oldest <= next /\ next <= blocks
  BY <1>1 DEF Output
<1>5. (EndSealed' <=> EndSealed) /\ (EndLast' <=> EndLast)
  BY <1>1 DEF EndSealed, EndLast, Current
<1>6. CASE next < blocks /\ WriteSlot(next % Slots, "drain") /\ next' = next + 1
  <2>1. Holds(next)
    BY <1>1, <1>2, <1>6 DEF InFlight
  <2>2. /\ PipeInv({})' /\ UNCHANGED job
        /\ fout' \in Seq(Int)
        /\ \A i \in 1 .. Len(fout') : fout'[i] = fin[i].data /\ Intact(i)
        /\ \/ mpc' = "drain" /\ freed' = freed /\ code' = code /\ Len(fout') = next + 1
           \/ /\ mpc' = "failed" /\ fout' = fout /\ code' \in {"fatal", "corrupt"}
              /\ code' = "corrupt" => Reason'
    BY <1>1, <1>2, <1>4, <1>6, <2>1, BlockWritten
  <2>3. StreamType' /\ Reading'
    BY <1>1, <1>2, <1>5, <1>6, <2>2 DEF StreamType, Reading
  <2>4. InFlight'
    <3>1. job' = job
      BY <2>2
    <3>2. ASSUME NEW b \in next + 1 .. blocks - 1 PROVE Holds(b)'
      <4>1. Holds(b)
        BY <1>1, <1>2 DEF InFlight
      <4> QED
        BY <1>1, <1>3, <3>1, <4>1 DEF Holds, Intact
    <3> QED
      BY <1>1, <1>6, <2>2, <3>2 DEF InFlight
  <2>5. Output'
    BY <1>1, <1>2, <1>3, <1>4, <1>6, <2>2 DEF Output, Intact
  <2>6. Idle' /\ Owned' /\ Blame'
    BY <1>1, <1>2, <2>2 DEF Idle, Owned, Blame
  <2> QED
    BY <2>3, <2>4, <2>5, <2>6 DEF StreamInv
<1>7. CASE /\ next = blocks /\ mpc' = "ok" /\ freed' = 0
           /\ UNCHANGED <<job, busy, startEv, doneEv, wpc, wslot, next, fout, code>>
  <2>1. PipeInv({})'
    BY <1>1, <1>7, DestroyBegins
  <2>2. StreamType' /\ Reading'
    BY <1>1, <1>5, <1>7 DEF StreamType, Reading
  <2>3. InFlight' /\ Idle' /\ Output' /\ Owned' /\ Blame'
    BY <1>1, <1>2, <1>4, <1>7, <2>1 DEF InFlight, Idle, Output, Owned, Blame, Intact
  <2> QED
    BY <2>2, <2>3 DEF StreamInv
<1> QED
  BY <1>6, <1>7 DEF MainDrain

(* The pipeline is destroyed.                                               *)
LEMMA MainFreeInv ==
  ASSUME StreamInv, MainFree, UNCHANGED threads
  PROVE  StreamInv'
<1>1. /\ StreamType /\ Reading /\ Output /\ Blame
      /\ mpc \in {"ok", "failed"} /\ PipeInv({}) /\ (DestroyWait \/ DestroyStop)
      /\ UNCHANGED <<count, stray, enc, fin, readPos, blocks, next, fout, mpc, code, readFailed,
                     threads>>
  BY DEF StreamInv, MainFree, Owned, streamVars
<1>2. /\ PipeInv({})' /\ \A s \in Slot : busy'[s] => busy[s]
      /\ \A s \in Slot : job'[s].good = job[s].good /\ job'[s].ok = job[s].ok
  BY <1>1, DestroyKeeps
<1>3. StreamType' /\ Reading' /\ InFlight' /\ Idle' /\ Output'
  BY <1>1 DEF StreamType, Reading, InFlight, Idle, Output, Intact, EndSealed, EndLast, Current
<1>4. Blame'
  <2>1. Slot' = Slot
    BY <1>1 DEF Slot, Slots
  <2> QED
    BY <1>1, <1>2, <2>1 DEF Blame, Reason, NoMemory, Misread, Original
<1> QED
  BY <1>1, <1>2, <1>3, <1>4 DEF StreamInv, Owned

LEMMA NextInv == StreamInv /\ [Next]_vars => StreamInv'
<1> SUFFICES ASSUME StreamInv, [Next]_vars PROVE StreamInv'
  OBVIOUS
<1>1. CASE Main
  BY <1>1, MainReadInv, MainWriteInv, MainFillInv, MainStartInv, MainDrainInv, MainFreeInv DEF Main
<1>2. CASE \E w \in Worker : WorkerStep(w) /\ UNCHANGED streamVars
  BY <1>2, WorkerInv
<1>3. CASE UNCHANGED vars
  BY <1>3, Unchanged
<1> QED
  BY <1>1, <1>2, <1>3 DEF Next

LEMMA Invariant == Spec => []StreamInv
BY InitInv, NextInv, PTL DEF Spec

-----------------------------------------------------------------------------
(* A job is the main thread's or its worker's, never both's, for any number *)
(* of threads and whatever the stream holds.                                *)
THEOREM OneOwnerEach == Spec => []JobHasOneOwner
<1>1. StreamInv => JobHasOneOwner
  <2> SUFFICES ASSUME StreamInv PROVE JobHasOneOwner
    OBVIOUS
  <2>1. PICK F : PipeInv(F)
    BY DEF StreamInv, Owned
  <2>2. mpc \in {"fill", "start"} => ~busy[CurrentSlot]
    BY DEF StreamInv, Idle
  <2> QED
    BY <2>1, <2>2, NoTwoOwners DEF JobHasOneOwner
<1> QED
  BY <1>1, Invariant, PTL

(* A stream that is as Compress wrote it is refused as corrupt only when a  *)
(* read failed, a job found no memory, or it is one with an empty record.   *)
THEOREM IntactAccepted == Spec => []IntactIsAccepted
<1>1. StreamInv => IntactIsAccepted
  BY DEF StreamInv, Blame, Reason, IntactIsAccepted
<1> QED
  BY <1>1, Invariant, PTL

-----------------------------------------------------------------------------
(* What the records of a stream say.                                        *)
LEMMA Least ==
  ASSUME NEW T, T \subseteq Nat, T # {}
  PROVE  \E i \in T : \A j \in T : i <= j
<1>1. PICK R : IsWellFoundedOn(R, Nat) /\ R = {p \in Nat \X Nat : p[1] < p[2]}
  BY NatLessThanWellFounded, Zenon DEF OpToRel
<1>2. PICK i \in T : \A j \in T : ~ (<<j, i>> \in R)
  BY <1>1, WFMin
<1>3. \A j \in T : ~(j < i)
  BY <1>1, <1>2
<1> QED
  BY <1>3

(* Blocks up to the first end are among what it says, and no more than      *)
(* those if an end follows.                                                 *)
LEMMA BlocksAre ==
  ASSUME NEW n \in Nat, NEW s \in Seq(Genuine(n)), NEW k \in 0 .. Len(s),
         \A i \in 1 .. k : s[i].kind = "block"
  PROVE  \E m \in k .. Len(s) :
           /\ BlocksOf(s) \in Seq(Int) /\ Len(BlocksOf(s)) = m
           /\ \A i \in 1 .. m : BlocksOf(s)[i] = s[i].data
           /\ k < Len(s) /\ s[k + 1].kind = "end" => m = k
<1> DEFINE ends == {i \in DOMAIN s : s[i].kind = "end"} \cup {Len(s) + 1}
           last == CHOOSE i \in ends : \A j \in ends : i <= j
<1>1. ends \subseteq Nat /\ Len(s) + 1 \in ends /\ \A i \in ends : i \in k + 1 .. Len(s) + 1
  BY DEF ends
<1>2. k < Len(s) /\ s[k + 1].kind = "end" => k + 1 \in ends
  BY DEF ends
<1>3. BlocksOf(s) = [i \in 1 .. last - 1 |-> s[i].data]
  BY DEF BlocksOf
<1> HIDE DEF ends
<1>4. \E i \in ends : \A j \in ends : i <= j
  BY <1>1, Least
<1>5. last \in ends /\ \A j \in ends : last <= j
  BY <1>4
<1> HIDE DEF last
<1>6. PICK m \in k .. Len(s) : m = last - 1
  BY <1>1, <1>5
<1>7. \A i \in 1 .. m : s[i].data \in Int
  <2>1. \A i \in 1 .. m : s[i] \in Genuine(n)
    OBVIOUS
  <2> QED
    BY <2>1 DEF Genuine, StreamRecord
<1>8. BlocksOf(s) = [i \in 1 .. m |-> s[i].data] /\ m \in Nat
  BY <1>3, <1>6
<1>9. BlocksOf(s) \in Seq(Int) /\ Len(BlocksOf(s)) = m
  BY <1>7, <1>8
<1>10. k < Len(s) /\ s[k + 1].kind = "end" => m = k
  BY <1>1, <1>2, <1>5, <1>6
<1> QED
  BY <1>8, <1>9, <1>10

LEMMA PrefixIs ==
  ASSUME NEW S, NEW s \in Seq(S), NEW t \in Seq(S), Len(s) <= Len(t),
         \A i \in 1 .. Len(s) : s[i] = t[i]
  PROVE  IsPrefix(s, t)
<1>1. SubSeq(s, 1, Len(s)) = SubSeq(t, 1, Len(s))
  BY SeqEqual
<1> QED
  BY <1>1 DEF IsPrefix

(* What was written, record by record.                                      *)
LEMMA Read ==
  ASSUME StreamInv
  PROVE  /\ count \in Nat /\ blocks \in Nat /\ fin \in Seq(Genuine(count)) /\ fout \in Seq(Int)
         /\ Len(fout) <= blocks /\ blocks <= Len(fin)
         /\ \A i \in 1 .. blocks : fin[i].kind = "block"
         /\ \A i \in 1 .. Len(fout) : fout[i] = fin[i].data /\ Intact(i)
         /\ \A i \in 1 .. Len(fin) : /\ fin[i] \in StreamRecord
                                     /\ fin[i].good => /\ fin[i].kind = "block" => fin[i].data < count
                                                       /\ fin[i].kind = "end" => fin[i].data = count
<1>1. /\ count \in Nat /\ blocks \in Nat /\ fin \in Seq(Genuine(count)) /\ fout \in Seq(Int)
      /\ Len(fout) <= blocks /\ blocks <= Len(fin)
      /\ \A i \in 1 .. blocks : fin[i].kind = "block"
      /\ \A i \in 1 .. Len(fout) : fout[i] = fin[i].data /\ Intact(i)
  BY DEF StreamInv, StreamType, Reading, Output
<1>2. ASSUME NEW i \in 1 .. Len(fin)
      PROVE  /\ fin[i] \in StreamRecord
             /\ fin[i].good => /\ fin[i].kind = "block" => fin[i].data < count
                               /\ fin[i].kind = "end" => fin[i].data = count
  <2>1. fin[i] \in Genuine(count)
    BY <1>1
  <2> QED
    BY <1>1, <2>1 DEF Genuine
<1> QED
  BY <1>1, <1>2

(* The blocks that Compress wrote.                                          *)
LEMMA WholeBlocks ==
  ASSUME count \in Nat
  PROVE  /\ BlocksOf(Whole(count)) \in Seq(Int) /\ Len(BlocksOf(Whole(count))) = count
         /\ \A i \in 1 .. count : BlocksOf(Whole(count))[i] = i - 1
<1>1. PICK n \in Nat : n = count
  OBVIOUS
<1>2. PICK s \in Seq(Genuine(n)) :
        /\ s = Whole(n) /\ Len(s) = n + 1
        /\ \A i \in 1 .. n : s[i] = BlockRecord(i - 1)
        /\ s[n + 1] = EndRecord(n)
  BY <1>1, WholeFacts
<1>3. ASSUME NEW i \in 1 .. n PROVE s[i].kind = "block" /\ s[i].data = i - 1
  <2>1. s[i] = BlockRecord(i - 1)
    BY <1>2
  <2> QED
    BY <2>1 DEF BlockRecord
<1>4. s[n + 1].kind = "end" /\ n \in 0 .. Len(s) /\ n < Len(s)
  BY <1>2 DEF EndRecord
<1>5. PICK m \in n .. Len(s) :
        /\ BlocksOf(s) \in Seq(Int) /\ Len(BlocksOf(s)) = m
        /\ \A i \in 1 .. m : BlocksOf(s)[i] = s[i].data
        /\ n < Len(s) /\ s[n + 1].kind = "end" => m = n
  BY <1>3, <1>4, BlocksAre
<1>6. m = n
  BY <1>4, <1>5
<1> QED
  BY <1>1, <1>2, <1>3, <1>5, <1>6

(* Nothing but the input's blocks in order is ever written.                 *)
THEOREM PrefixWritten == Spec => []OutputIsPrefix
<1>1. StreamInv => OutputIsPrefix
  <2> SUFFICES ASSUME StreamInv PROVE OutputIsPrefix
    OBVIOUS
  <2>1. /\ count \in Nat /\ blocks \in Nat /\ fin \in Seq(Genuine(count)) /\ fout \in Seq(Int)
        /\ Len(fout) <= blocks /\ blocks <= Len(fin)
        /\ \A i \in 1 .. blocks : fin[i].kind = "block"
        /\ \A i \in 1 .. Len(fout) : fout[i] = fin[i].data /\ Intact(i)
        /\ \A i \in 1 .. Len(fin) : fin[i].good /\ fin[i].kind = "block" => fin[i].data < count
    BY Read
  <2>2. ASSUME enc PROVE IsPrefix(fout, BlocksOf(Whole(count)))
    <3>1. ASSUME NEW i \in 1 .. Len(fout) PROVE i <= count /\ fout[i] = i - 1
      <4>1. i \in 1 .. blocks /\ i \in 1 .. Len(fin)
        BY <2>1
      <4>2. fin[i].good /\ fin[i].data = i - 1 /\ fout[i] = fin[i].data
        BY <2>1, <2>2 DEF Intact
      <4> QED
        BY <2>1, <4>1, <4>2
    <3>2. Len(fout) <= count
      BY <2>1, <3>1
    <3>3. /\ BlocksOf(Whole(count)) \in Seq(Int) /\ Len(BlocksOf(Whole(count))) = count
          /\ \A i \in 1 .. count : BlocksOf(Whole(count))[i] = i - 1
      BY <2>1, WholeBlocks
    <3>4. \A i \in 1 .. Len(fout) : fout[i] = BlocksOf(Whole(count))[i]
      BY <2>1, <3>1, <3>2, <3>3
    <3> QED
      BY <2>1, <3>2, <3>3, <3>4, PrefixIs
  <2>3. IsPrefix(fout, BlocksOf(fin))
    <3>1. PICK m \in blocks .. Len(fin) :
            /\ BlocksOf(fin) \in Seq(Int) /\ Len(BlocksOf(fin)) = m
            /\ \A i \in 1 .. m : BlocksOf(fin)[i] = fin[i].data
      BY <2>1, BlocksAre
    <3>2. Len(fout) <= m /\ \A i \in 1 .. Len(fout) : fout[i] = BlocksOf(fin)[i]
      BY <2>1, <3>1
    <3> QED
      BY <2>1, <3>1, <3>2, PrefixIs
  <2>4. \A i \in DOMAIN fout : fin[i].good
    BY <2>1 DEF Intact
  <2> QED
    BY <2>2, <2>3, <2>4 DEF OutputIsPrefix
<1> QED
  BY <1>1, Invariant, PTL

(* A success on an encrypted stream means that it has all blocks and the    *)
(* end unaltered, with nothing behind it unless a read failed there, and    *)
(* that all was written; on a plain one, that all up to the first end was.  *)
THEOREM WholeOnSuccess == Spec => []SuccessIsWhole
<1>1. StreamInv => SuccessIsWhole
  <2> SUFFICES ASSUME StreamInv, mpc = "ok"
               PROVE  /\ enc => /\ fout = BlocksOf(Whole(count))
                                /\ \/ fin = Whole(count)
                                   \/ readFailed /\ IsPrefix(Whole(count), fin)
                      /\ ~enc => fout = BlocksOf(fin)
    BY DEF SuccessIsWhole
  <2>1. /\ count \in Nat /\ blocks \in Nat /\ fin \in Seq(Genuine(count)) /\ fout \in Seq(Int)
        /\ \A i \in 1 .. blocks : fin[i].kind = "block"
        /\ \A i \in 1 .. Len(fout) : fout[i] = fin[i].data /\ Intact(i)
        /\ \A i \in 1 .. Len(fin) : /\ fin[i] \in StreamRecord
                                    /\ fin[i].good /\ fin[i].kind = "end" => fin[i].data = count
    BY Read
  <2>2. /\ Len(fout) = blocks /\ readPos = blocks + 1 /\ readPos <= Len(fin)
        /\ readPos \in 1 .. Len(fin) /\ fin[readPos].kind = "end" /\ EndSealed
        /\ EndLast \/ readFailed
    BY <2>1 DEF StreamInv, Reading, Output
  <2>3. enc => /\ fin[readPos].good /\ fin[readPos].data = blocks
               /\ readPos = Len(fin) \/ readFailed
    BY <2>1, <2>2 DEF EndSealed, EndLast, Current
  <2>4. ASSUME enc
        PROVE  /\ blocks = count
               /\ fin = Whole(count) \/ (readFailed /\ IsPrefix(Whole(count), fin))
    <3>1. blocks = count /\ count + 1 <= Len(fin) /\ (Len(fin) = count + 1 \/ readFailed)
      BY <2>1, <2>2, <2>3, <2>4
    <3>2. ASSUME NEW i \in 1 .. count PROVE fin[i] = BlockRecord(i - 1)
      <4>1. fin[i] \in StreamRecord /\ fin[i].kind = "block"
        BY <2>1, <3>1
      <4>2. fin[i].good /\ fin[i].data = i - 1
        BY <2>1, <2>2, <2>4, <3>1 DEF Intact
      <4> QED
        BY <4>1, <4>2 DEF StreamRecord, BlockRecord
    <3>3. fin[count + 1] = EndRecord(count)
      <4>1. fin[readPos] \in StreamRecord
        BY <2>1, <2>2
      <4> QED
        BY <2>2, <2>3, <2>4, <3>1, <4>1 DEF StreamRecord, EndRecord
    <3>4. PICK w \in Seq(Genuine(count)) :
            /\ w = Whole(count) /\ Len(w) = count + 1
            /\ \A i \in 1 .. count : w[i] = BlockRecord(i - 1)
            /\ w[count + 1] = EndRecord(count)
      BY <2>1, WholeFacts
    <3>5. \A i \in 1 .. count + 1 : i \in 1 .. count \/ i = count + 1
      BY <2>1
    <3>6. \A i \in 1 .. Len(w) : w[i] = fin[i]
      BY <3>2, <3>3, <3>4, <3>5
    <3>7. Len(fin) = count + 1 => fin = w
      BY <2>1, <3>4, <3>6, SeqEqual
    <3>8. IsPrefix(w, fin)
      <4>1. Len(w) <= Len(fin)
        BY <3>1, <3>4
      <4> QED
        BY <2>1, <3>4, <3>6, <4>1, PrefixIs
    <3> QED
      BY <3>1, <3>4, <3>7, <3>8
  <2>5. fout = BlocksOf(fin)
    <3>1. PICK m \in blocks .. Len(fin) :
            /\ BlocksOf(fin) \in Seq(Int) /\ Len(BlocksOf(fin)) = m
            /\ \A i \in 1 .. m : BlocksOf(fin)[i] = fin[i].data
            /\ blocks < Len(fin) /\ fin[blocks + 1].kind = "end" => m = blocks
      <4>1. blocks \in 0 .. Len(fin)
        BY <2>1, <2>2
      <4> QED
        BY <2>1, <4>1, BlocksAre
    <3>2. m = blocks
      BY <2>1, <2>2, <3>1
    <3>3. Len(fout) = Len(BlocksOf(fin))
      BY <2>2, <3>1, <3>2
    <3>4. \A i \in 1 .. Len(fout) : fout[i] = BlocksOf(fin)[i]
      BY <2>1, <2>2, <3>1, <3>2
    <3> QED
      BY <2>1, <3>1, <3>3, <3>4, SeqEqual
  <2>6. ASSUME enc PROVE fout = BlocksOf(Whole(count))
    <3>1. blocks = count
      BY <2>4, <2>6
    <3>2. /\ BlocksOf(Whole(count)) \in Seq(Int) /\ Len(BlocksOf(Whole(count))) = count
          /\ \A i \in 1 .. count : BlocksOf(Whole(count))[i] = i - 1
      BY <2>1, WholeBlocks
    <3>3. \A i \in 1 .. Len(fout) : fout[i] = i - 1
      BY <2>1, <2>6 DEF Intact
    <3>4. \A i \in 1 .. Len(fout) : fout[i] = BlocksOf(Whole(count))[i]
      BY <2>2, <3>1, <3>2, <3>3
    <3> QED
      BY <2>1, <2>2, <3>1, <3>2, <3>4, SeqEqual
  <2> QED
    BY <2>4, <2>5, <2>6
<1> QED
  BY <1>1, Invariant, PTL
=============================================================================
