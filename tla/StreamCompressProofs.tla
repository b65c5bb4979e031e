------------------------ MODULE StreamCompressProofs ------------------------
(***************************************************************************)
(* Proofs about StreamCompress, for any number of threads, any block size  *)
(* and any length of the input.                                            *)
(*                                                                         *)
(* The invariant says, at each point of the main loop, how far the input   *)
(* is read, which block each slot in flight was filled with, and what each *)
(* record of the output is.  What the workers do is in PipeInv             *)
(* (PipelineProofs).  When the loop meets the end of the input with an     *)
(* empty read after it wrote a slot (Stray), that slot is written a second *)
(* time, as a record of length 0: the invariant keeps that record too, for *)
(* a stream with it does not always decompress.                            *)
(***************************************************************************)
EXTENDS StreamCompress, PipelineProofs, FiniteSetTheorems

OutRecord == [n : Int, data : Int, count : Int]

(* Where block b begins in the input. *)
At(b) == b * BlockSize

(* The block that was in the current slot before the last turn. *)
Prior == blocks - Slots

Stray == length = At(blocks) /\ blocks >= Slots
Records == IF Stray THEN blocks + 1 ELSE blocks

(* The i-th record of the output. *)
BlockRecord(b) == [n |-> BlockLength(b), data |-> b, count |-> -1]
StrayRecord(b) == [n |-> 0, data |-> b, count |-> -1]
RecordAt(i) ==
  IF Stray /\ i > Prior + 1
  THEN IF i = Prior + 2 THEN StrayRecord(Prior) ELSE BlockRecord(i - 2)
  ELSE BlockRecord(i - 1)

StreamType ==
  /\ length \in Nat
  /\ enc \in BOOLEAN
  /\ readPos \in Nat
  /\ blocks \in Nat
  /\ next \in Nat
  /\ fout \in Seq(OutRecord)
  /\ mpc \in {"write", "read", "start", "drain", "end", "ok", "failed"}

(* How far the input is read. *)
Reading ==
  /\ blocks > 0 => At(blocks - 1) < length
  /\ mpc \in {"write", "read"} => readPos = At(blocks) /\ readPos <= length
  /\ mpc = "start" => At(blocks) < length /\ readPos = At(blocks) + BlockLength(blocks)
  /\ mpc \in {"drain", "end", "ok"} => length <= At(blocks)

(* What is in the slots. *)
Holds(b) == job[b % Slots].raw = b /\ job[b % Slots].n = BlockLength(b)
HoldsStray(b) == job[b % Slots].raw = b /\ job[b % Slots].n = 0

InFlight ==
  /\ mpc \in {"write", "read"} => \A b \in Larger(Prior, 0) .. blocks - 1 : Holds(b)
  /\ mpc = "start" => \A b \in Larger(Prior + 1, 0) .. blocks : Holds(b)
  /\ mpc = "drain" => \A b \in next .. blocks - 1 :
                        IF Stray /\ b = Prior THEN HoldsStray(b) ELSE Holds(b)

(* Which slots are free, and that the pipeline is not destroyed yet. *)
Idle ==
  /\ mpc \in {"read", "start"} => ~busy[CurrentSlot]
  /\ mpc \in {"write", "read", "start"} => \A s \in Slot : s >= blocks => ~busy[s]
  /\ mpc \notin {"ok", "failed"} => freed = -1

(* What was written. *)
Output ==
  /\ mpc = "write" => Len(fout) = Larger(Prior, 0)
  /\ mpc \in {"read", "start"} => Len(fout) = Larger(Prior + 1, 0)
  /\ mpc = "drain" =>
       Len(fout) = next + Records - blocks /\ Larger(Prior, 0) <= next /\ next <= blocks
  /\ mpc = "end" => Len(fout) = Records
  /\ mpc = "failed" => Len(fout) <= Records
  /\ mpc = "ok" =>
       Len(fout) = Records + 1 /\ fout[Records + 1] = EndRecord(IF enc THEN blocks ELSE -1)
  /\ \A i \in 1 .. Len(fout) : i <= Records => fout[i] = RecordAt(i)

(* The slot that is filled and not yet started is the main thread's. *)
Owned ==
  /\ mpc # "start" => PipeInv({})
  /\ mpc = "start" => \E s \in Slot : s = CurrentSlot /\ PipeInv({s})

StreamInv == StreamType /\ Reading /\ InFlight /\ Idle /\ Output /\ Owned

-----------------------------------------------------------------------------
LEMMA Ats ==
  ASSUME NEW a \in Nat
  PROVE  /\ At(a) \in Nat /\ At(a + 1) = At(a) + BlockSize
         /\ \A b \in Nat : a < b => At(a) + BlockSize <= At(b)
<1> BlockSize \in Nat \ {0}
  BY StreamAssumption
<1>1. At(a) \in Nat /\ At(a + 1) = At(a) + BlockSize
  BY DEF At
<1>2. ASSUME NEW b \in Nat, a < b PROVE At(a) + BlockSize <= At(b)
  <2>1. PICK d \in Nat : b = a + 1 + d
    <3>1. b - a - 1 \in Nat
      BY <1>2
    <3> QED
      BY <3>1
  <2>2. (a + 1 + d) * BlockSize = a * BlockSize + BlockSize + d * BlockSize /\ d * BlockSize >= 0
    OBVIOUS
  <2> QED
    BY <2>1, <2>2 DEF At
<1> QED
  BY <1>1, <1>2

(* A block before the end of the input is not empty.                        *)
LEMMA Lengths ==
  ASSUME NEW b \in Nat, length \in Nat
  PROVE  /\ BlockLength(b) \in Int
         /\ BlockLength(b) = IF BlockSize < length - At(b) THEN BlockSize ELSE length - At(b)
         /\ At(b) < length <=> BlockLength(b) > 0
BY Ats, StreamAssumption DEF BlockLength, Smaller, At

(* Of the blocks in flight only the oldest can be in the current slot.      *)
LEMMA CurrentIs ==
  ASSUME threads \in 1 .. MaxThreads, blocks \in Nat
  PROVE  /\ CurrentSlot \in Slot /\ Slots \in Nat \ {0}
         /\ blocks < Slots => CurrentSlot = blocks
         /\ Prior >= 0 => Prior \in Nat /\ Prior % Slots = CurrentSlot
         /\ \A b \in Nat : Prior < b /\ b < blocks => b % Slots # CurrentSlot
<1>1. Slots \in Nat \ {0}
  BY SlotFacts
<1>2. PICK k \in Nat : k = blocks
  OBVIOUS
<1>3. k >= Slots <=> k - Slots >= 0
  BY <1>1
<1> QED
  BY <1>1, <1>2, <1>3, Turn DEF CurrentSlot, Prior

(* What does not change while blocks does not.                              *)
LEMMA Frame ==
  ASSUME threads \in 1 .. MaxThreads, blocks \in Nat, UNCHANGED <<threads, length, blocks>>
  PROVE  /\ Slots \in Nat \ {0} /\ Slot = 0 .. Slots - 1 /\ Slots' = Slots /\ Slot' = Slot
         /\ CurrentSlot \in Slot /\ CurrentSlot' = CurrentSlot
         /\ Prior \in Int /\ Prior' = Prior /\ Stray' = Stray
         /\ Records \in Nat /\ Records' = Records
         /\ \A i \in Nat : RecordAt(i)' = RecordAt(i)
         /\ \A b \in Nat : BlockLength(b)' = BlockLength(b)
<1>1. Slots \in Nat \ {0} /\ Slot = 0 .. Slots - 1 /\ Slots' = Slots /\ Slot' = Slot
  BY SlotFacts DEF Slots, Slot
<1>2. CurrentSlot \in Slot /\ CurrentSlot' = CurrentSlot
  BY <1>1, CurrentIs DEF CurrentSlot
<1>3. /\ Prior \in Int /\ Prior' = Prior /\ Stray' = Stray
      /\ Records \in Nat /\ Records' = Records
  BY <1>1 DEF Prior, Stray, Records, At
<1>4. \A b \in Nat : BlockLength(b)' = BlockLength(b)
  BY DEF BlockLength
<1>5. \A i \in Nat : RecordAt(i)' = RecordAt(i)
  BY <1>3 DEF RecordAt, BlockRecord, StrayRecord, BlockLength
<1> QED
  BY <1>1, <1>2, <1>3, <1>4, <1>5

LEMMA InitInv == Init => StreamInv
<1> SUFFICES ASSUME Init PROVE StreamInv
  OBVIOUS
<1>1. PipeInv({}) /\ threads \in 1 .. MaxThreads /\ Slots \in Nat \ {0}
  BY PipeInitInv, SlotFacts DEF Init, PipeInit
<1>2. At(0) = 0 /\ 0 \in Nat
  BY StreamAssumption DEF At
<1>3. StreamType /\ Reading
  BY <1>2, StreamAssumption DEF Init, StreamType, Reading
<1>4. InFlight /\ Idle
  BY <1>1 DEF Init, PipeInit, InFlight, Idle, Prior, Larger
<1>5. Output /\ Owned
  BY <1>1 DEF Init, Output, Owned, Prior, Larger
<1> QED
  BY <1>3, <1>4, <1>5 DEF StreamInv

-----------------------------------------------------------------------------
(* A step of a worker: what the slots were filled with stays.               *)
LEMMA WorkerInv ==
  ASSUME StreamInv, NEW w \in Worker, WorkerStep(w), UNCHANGED streamVars
  PROVE  StreamInv'
<1>1. /\ StreamType /\ Reading /\ InFlight /\ Idle /\ Output /\ Owned
      /\ UNCHANGED <<length, enc, readPos, blocks, next, fout, mpc>>
  BY DEF StreamInv, streamVars
<1>2. PICK F : PipeInv(F) /\ (mpc # "start" => F = {}) /\ (mpc = "start" => F = {CurrentSlot})
  BY <1>1 DEF Owned
<1>3. /\ PipeInv(F)' /\ UNCHANGED <<threads, busy, freed>>
      /\ \A s \in Slot : job'[s].n = job[s].n /\ job'[s].raw = job[s].raw
  BY <1>2, WorkerKeeps
<1>4. Slots' = Slots /\ Slot' = Slot /\ threads \in 1 .. MaxThreads /\ CurrentSlot \in Slot
  BY <1>1, <1>2, <1>3, CurrentIs DEF Slots, Slot, PipeInv, PipeType, StreamType
<1>5. \A b \in Nat : b % Slots \in Slot
  BY <1>4, SlotFacts
<1>6. \A b \in Nat : (Holds(b)' <=> Holds(b)) /\ (HoldsStray(b)' <=> HoldsStray(b))
  BY <1>1, <1>3, <1>4, <1>5 DEF Holds, HoldsStray, BlockLength
<1>7. StreamType' /\ Reading'
  BY <1>1 DEF StreamType, Reading, BlockLength, At
<1>8. InFlight'
  <2>1. Prior' = Prior /\ Stray' = Stray /\ blocks \in Nat /\ next \in Nat
    BY <1>1, <1>4 DEF Prior, Stray, At, StreamType
  <2>2. \A b \in Larger(Prior, 0) .. blocks - 1 : b \in Nat
    BY <1>4, <2>1, CurrentIs DEF Prior, Larger
  <2>3. \A b \in Larger(Prior + 1, 0) .. blocks : b \in Nat
    BY <1>4, <2>1, CurrentIs DEF Prior, Larger
  <2> QED
    BY <1>1, <1>6, <2>1, <2>2, <2>3 DEF InFlight
<1>9. Idle'
  BY <1>1, <1>3, <1>4 DEF Idle, CurrentSlot
<1>10. Output'
  BY <1>1, <1>4 DEF Output, Records, RecordAt, Stray, Prior, BlockRecord, StrayRecord, BlockLength, At
<1>11. Owned'
  <2>1. CurrentSlot' = CurrentSlot
    BY <1>1, <1>4 DEF CurrentSlot
  <2> QED
    BY <1>1, <1>2, <1>3, <1>4, <2>1 DEF Owned
<1> QED
  BY <1>7, <1>8, <1>9, <1>10, <1>11 DEF StreamInv

(* A step that changes nothing.                                             *)
LEMMA Unchanged == StreamInv /\ UNCHANGED vars => StreamInv'
<1> SUFFICES ASSUME StreamInv, UNCHANGED vars PROVE StreamInv'
  OBVIOUS
<1>1. UNCHANGED <<threads, job, busy, startEv, doneEv, wpc, wslot, freed>>
  BY DEF vars, pipeVars
<1>2. UNCHANGED <<length, enc, readPos, blocks, next, fout, mpc>>
  BY DEF vars, streamVars
<1>3. Slots' = Slots /\ Slot' = Slot /\ Worker' = Worker
  BY <1>1 DEF Slots, Slot, Worker
<1>4. \A F : PipeInv(F) => PipeInv(F)'
  BY PipeStutter DEF vars
<1>5. StreamType' /\ Reading' /\ InFlight' /\ Idle'
  BY <1>1, <1>2, <1>3 DEF StreamInv, StreamType, Reading, InFlight, Idle, Holds, HoldsStray,
     BlockLength, At, Prior, Stray, CurrentSlot
<1>6. Output'
  BY <1>2, <1>3 DEF StreamInv, Output, Records, RecordAt, BlockRecord, StrayRecord,
     BlockLength, At, Prior, Stray
<1>7. Owned'
  BY <1>2, <1>3, <1>4 DEF StreamInv, Owned, CurrentSlot
<1> QED
  BY <1>5, <1>6, <1>7 DEF StreamInv

-----------------------------------------------------------------------------
(* The main thread's steps.  Waiting for a slot and writing it: either the  *)
(* job's block is written, or the command fails and writes nothing.         *)
LEMMA SlotWritten ==
  ASSUME PipeInv({}), NEW s \in Slot, freed = -1, fout \in Seq(OutRecord),
         NEW then, WriteSlot(s, then), UNCHANGED threads
  PROVE  /\ PipeInv({})' /\ UNCHANGED job
         /\ ~busy'[s] /\ \A r \in Slot : busy'[r] => busy[r]
         /\ \/ /\ mpc' = then /\ freed' = freed
               /\ fout' = Append(fout, [n |-> job[s].n, data |-> job[s].raw, count |-> -1])
               /\ fout' \in Seq(OutRecord)
            \/ mpc' = "failed" /\ fout' = fout
<1>1. /\ Finish(s) /\ UNCHANGED <<job, startEv, wpc, wslot>>
      /\ \/ /\ job[s].ok
            /\ fout' = Append(fout, Record(job[s]))
            /\ mpc' = then
            /\ UNCHANGED freed
         \/ /\ UNCHANGED fout
            /\ mpc' = "failed"
            /\ freed' = 0
  BY DEF WriteSlot
<1>2. PipeType /\ Slots \in Nat \ {0} /\ Slot = 0 .. Slots - 1 /\ Slots' = Slots /\ Slot' = Slot
  BY SlotFacts DEF PipeInv, PipeType, Slots, Slot
<1>3. freed' \in -1 .. 2 * Slots /\ freed <= Slots /\ Waited'
  BY <1>1, <1>2 DEF Waited
<1>4. /\ PipeInv({})' /\ ~busy'[s] /\ \A r \in Slot : busy'[r] => busy[r]
      /\ Made(job[s])
  BY <1>1, <1>3, FinishKeeps
<1>5. CASE /\ job[s].ok
           /\ fout' = Append(fout, Record(job[s]))
           /\ mpc' = then
           /\ UNCHANGED freed
  <2>1. Record(job[s]) = [n |-> job[s].n, data |-> job[s].raw, count |-> -1]
    BY <1>4, <1>5 DEF Made, Record
  <2>2. job[s].n \in Int /\ job[s].raw \in Int
    BY <1>2 DEF PipeType, Job
  <2>3. Record(job[s]) \in OutRecord
    BY <2>1, <2>2 DEF OutRecord
  <2>4. fout' \in Seq(OutRecord)
    BY <1>5, <2>3
  <2> QED
    BY <1>1, <1>4, <1>5, <2>1, <2>4
<1> QED
  BY <1>1, <1>4, <1>5

LEMMA OneMore ==
  ASSUME fout \in Seq(OutRecord), \A i \in 1 .. Len(fout) : fout[i] = RecordAt(i),
         fout' = Append(fout, RecordAt(Len(fout) + 1))
  PROVE  /\ Len(fout') = Len(fout) + 1
         /\ \A i \in 1 .. Len(fout') : fout'[i] = RecordAt(i)
<1>1. PICK r : r = RecordAt(Len(fout) + 1)
  OBVIOUS
<1>2. Len(fout) \in Nat /\ Len(fout') = Len(fout) + 1
  BY <1>1
<1>3. \A i \in 1 .. Len(fout') : fout'[i] = IF i = Len(fout) + 1 THEN r ELSE fout[i]
  BY <1>1, <1>2
<1> QED
  BY <1>1, <1>2, <1>3

LEMMA MainWriteInv ==
  ASSUME StreamInv, MainWrite, UNCHANGED threads
  PROVE  StreamInv'
<1>1. /\ StreamType /\ Reading /\ InFlight /\ Idle /\ Output /\ Owned
      /\ mpc = "write" /\ PipeInv({}) /\ freed = -1
      /\ UNCHANGED <<length, enc, readPos, blocks, next, threads>>
  BY DEF StreamInv, MainWrite, Owned, Idle
<1>2. threads \in 1 .. MaxThreads /\ blocks \in Nat
  BY <1>1 DEF PipeInv, PipeType, StreamType
<1>3. /\ Slots \in Nat \ {0} /\ Slot = 0 .. Slots - 1 /\ Slots' = Slots /\ Slot' = Slot
      /\ CurrentSlot \in Slot /\ CurrentSlot' = CurrentSlot
      /\ Prior \in Int /\ Prior' = Prior /\ Stray' = Stray
      /\ Records \in Nat /\ Records' = Records
      /\ \A i \in Nat : RecordAt(i)' = RecordAt(i)
      /\ \A b \in Nat : BlockLength(b)' = BlockLength(b)
  BY <1>1, <1>2, Frame
<1>4. Reading'
  <2>1. mpc' \in {"read", "failed"}
    BY DEF MainWrite, WriteSlot
  <2> QED
    BY <1>1, <2>1 DEF Reading, At, BlockLength
<1>5. CASE blocks < Slots
  <2>1. mpc' = "read" /\ UNCHANGED <<fout, job, busy, startEv, doneEv, wpc, wslot, freed>>
    BY <1>1, <1>2, <1>3, <1>5 DEF MainWrite, pipeVars, StreamType
  <2>2. CurrentSlot = blocks
    BY <1>2, <1>3, <1>5, CurrentIs
  <2>3. StreamType' /\ InFlight'
    BY <1>1, <1>2, <1>3, <2>1 DEF StreamType, InFlight, Holds, HoldsStray, BlockLength
  <2>4. Idle'
    BY <1>1, <1>2, <1>3, <2>1, <2>2 DEF Idle
  <2>5. Larger(Prior, 0) = 0 /\ Larger(Prior + 1, 0) = 0
    BY <1>2, <1>3, <1>5 DEF Larger, Prior
  <2>6. Output'
    BY <1>1, <1>2, <1>3, <2>1, <2>5 DEF Output
  <2>7. PipeInv({})'
    BY <1>1, <2>1, PipeStutter DEF pipeVars
  <2> QED
    BY <1>4, <2>1, <2>3, <2>4, <2>6, <2>7 DEF StreamInv, Owned
<1>6. CASE blocks >= Slots
  <2>1. WriteSlot(CurrentSlot, "read")
    BY <1>6 DEF MainWrite
  <2>2. Prior \in Nat /\ Prior % Slots = CurrentSlot /\ Larger(Prior, 0) = Prior
        /\ Larger(Prior + 1, 0) = Prior + 1
    BY <1>2, <1>3, <1>6, CurrentIs DEF Prior, Larger
  <2>3. /\ PipeInv({})' /\ UNCHANGED job
        /\ ~busy'[CurrentSlot] /\ \A r \in Slot : busy'[r] => busy[r]
        /\ \/ /\ mpc' = "read" /\ freed' = freed
              /\ fout' = Append(fout, [n |-> job[CurrentSlot].n, data |-> job[CurrentSlot].raw,
                                       count |-> -1])
              /\ fout' \in Seq(OutRecord)
           \/ mpc' = "failed" /\ fout' = fout
    BY <1>1, <1>2, <1>3, <2>1, SlotWritten DEF StreamType
  <2>4. StreamType'
    BY <1>1, <2>3 DEF StreamType
  <2>5. Owned' /\ Idle'
    BY <1>1, <1>2, <1>3, <2>3 DEF Owned, Idle
  <2>6. InFlight'
    BY <1>1, <1>2, <1>3, <2>3 DEF InFlight, Holds, BlockLength
  <2>7. Len(fout) = Prior /\ Prior + 1 <= Records /\ fout \in Seq(OutRecord)
    BY <1>1, <1>2, <1>3, <1>6, <2>2 DEF Output, Records, Prior, StreamType
  <2>8. ASSUME mpc' = "failed", fout' = fout PROVE Output'
    BY <1>1, <1>2, <1>3, <2>7, <2>8 DEF Output
  <2>9. ASSUME mpc' = "read",
               fout' = Append(fout, [n |-> job[CurrentSlot].n,
                                     data |-> job[CurrentSlot].raw, count |-> -1])
        PROVE  Output'
    <3>1. Holds(Prior)
      BY <1>1, <1>2, <1>3, <2>2 DEF InFlight, Prior
    <3>2. fout' = Append(fout, RecordAt(Prior + 1))
      <4>1. Prior + 1 - 1 = Prior
        BY <2>2
      <4>2. RecordAt(Prior + 1) = BlockRecord(Prior)
        BY <1>3, <4>1 DEF RecordAt
      <4> QED
        BY <2>2, <2>9, <3>1, <4>2 DEF Holds, BlockRecord
    <3>3. \A i \in 1 .. Len(fout) : fout[i] = RecordAt(i)
      BY <1>1, <1>3, <2>2, <2>7 DEF Output
    <3>4. Len(fout') = Prior + 1 /\ \A i \in 1 .. Prior + 1 : fout'[i] = RecordAt(i)
      BY <2>7, <3>2, <3>3, OneMore
    <3> QED
      BY <1>2, <1>3, <2>2, <2>9, <3>4 DEF Output
  <2> QED
    BY <1>4, <2>3, <2>4, <2>5, <2>6, <2>8, <2>9 DEF StreamInv
<1> QED
  BY <1>2, <1>3, <1>5, <1>6

(* The read that fills the current slot, or meets the end of the input.     *)
LEMMA MainReadInv ==
  ASSUME StreamInv, MainRead, UNCHANGED threads
  PROVE  StreamInv'
<1>1. /\ StreamType /\ Reading /\ InFlight /\ Idle /\ Output /\ Owned
      /\ mpc = "read" /\ PipeInv({}) /\ freed = -1 /\ ~busy[CurrentSlot]
      /\ UNCHANGED <<length, enc, blocks, fout, threads>>
      /\ UNCHANGED <<busy, startEv, doneEv, wpc, wslot, freed>>
  BY DEF StreamInv, MainRead, Owned, Idle
<1>2. threads \in 1 .. MaxThreads /\ blocks \in Nat /\ length \in Nat /\ BlockSize \in Nat \ {0}
  BY <1>1, StreamAssumption DEF PipeInv, PipeType, StreamType
<1>3. /\ Slots \in Nat \ {0} /\ Slot = 0 .. Slots - 1 /\ Slots' = Slots /\ Slot' = Slot
      /\ CurrentSlot \in Slot /\ CurrentSlot' = CurrentSlot
      /\ Prior \in Int /\ Prior' = Prior /\ Stray' = Stray
      /\ Records \in Nat /\ Records' = Records
      /\ \A i \in Nat : RecordAt(i)' = RecordAt(i)
      /\ \A b \in Nat : BlockLength(b)' = BlockLength(b)
  BY <1>1, <1>2, Frame
<1>4. PICK n : n = Smaller(BlockSize, length - readPos)
  OBVIOUS
<1>5. /\ readPos = At(blocks) /\ At(blocks) <= length /\ At(blocks) \in Nat
      /\ n = BlockLength(blocks) /\ n \in Nat
      /\ n = 0 <=> length = At(blocks)
  BY <1>1, <1>2, <1>4, Ats, Lengths DEF Reading, BlockLength, At, Smaller
<1>6. /\ job' = [job EXCEPT ![CurrentSlot].n = n,
                           ![CurrentSlot].raw = IF n > 0 THEN blocks ELSE @,
                           ![CurrentSlot].good = TRUE]
      /\ readPos' = readPos + n
      /\ mpc' = IF n = 0 THEN "drain" ELSE "start"
      /\ next' = IF n = 0 THEN Larger(Prior, 0) ELSE next
  BY <1>4 DEF MainRead, Prior
<1>7. job \in [Slot -> Job]
  BY <1>1 DEF PipeInv, PipeType
<1>8. PICK v : v = [job[CurrentSlot] EXCEPT !.n = n, !.good = TRUE,
                                            !.raw = IF n > 0 THEN blocks ELSE @]
  OBVIOUS
<1>9. /\ v \in Job /\ v.n = n /\ v.raw = IF n > 0 THEN blocks ELSE job[CurrentSlot].raw
      /\ v.good = TRUE /\ v.ok = job[CurrentSlot].ok /\ v.out = job[CurrentSlot].out
  <2>1. job[CurrentSlot] \in Job
    BY <1>3, <1>7
  <2>2. PICK r \in Int : r = IF n > 0 THEN blocks ELSE job[CurrentSlot].raw
    BY <1>2, <2>1 DEF Job
  <2>3. v = [n |-> n, raw |-> r, good |-> TRUE, out |-> job[CurrentSlot].out,
             ok |-> job[CurrentSlot].ok]
    BY <1>8, <2>1, <2>2 DEF Job
  <2> QED
    BY <1>5, <2>1, <2>2, <2>3 DEF Job
<1>10. job' = [job EXCEPT ![CurrentSlot] = v]
  BY <1>3, <1>6, <1>7, <1>8 DEF Job
<1>11. job'[CurrentSlot] = v /\ \A s \in Slot : s # CurrentSlot => job'[s] = job[s]
  BY <1>3, <1>7, <1>10
<1>12. PipeInv({CurrentSlot})' /\ (Made(v) => PipeInv({})')
  <2>1. PICK s \in Slot : s = CurrentSlot
    BY <1>3
  <2>2. PipeInv({s})' /\ (Made(v) => PipeInv({})')
    BY <1>1, <1>9, <1>10, <2>1, FillKeeps
  <2> QED
    BY <1>3, <2>1, <2>2 DEF PipeInv, Results
<1>13. /\ blocks < Slots => CurrentSlot = blocks
       /\ Prior >= 0 => Prior \in Nat /\ Prior % Slots = CurrentSlot
       /\ \A b \in Nat : b % Slots \in Slot
       /\ \A b \in Nat : Prior < b /\ b < blocks => b % Slots # CurrentSlot
  BY <1>2, <1>3, CurrentIs, ModFacts
<1>14. \A b \in Nat : b \in Larger(Prior, 0) .. blocks - 1 => Holds(b)
  BY <1>1 DEF InFlight
<1>15. \A b \in Nat : Prior < b /\ b < blocks => Holds(b)'
  <2> SUFFICES ASSUME NEW b \in Nat, Prior < b, b < blocks PROVE Holds(b)'
    OBVIOUS
  <2>1. b \in Larger(Prior, 0) .. blocks - 1
    BY <1>2, <1>3 DEF Larger
  <2>2. Holds(b) /\ b % Slots \in Slot /\ b % Slots # CurrentSlot
    BY <1>13, <1>14, <2>1
  <2>3. job'[b % Slots] = job[b % Slots]
    BY <1>11, <2>2
  <2> QED
    BY <1>3, <2>2, <2>3 DEF Holds
<1>16. CASE n = 0
  <2>1. mpc' = "drain" /\ next' = Larger(Prior, 0) /\ readPos' = readPos /\ length = At(blocks)
    BY <1>5, <1>6, <1>16
  <2>2. StreamType' /\ Reading' /\ Idle'
    BY <1>1, <1>2, <1>3, <2>1 DEF StreamType, Reading, Idle, Larger, At
  <2>3. InFlight'
    <3>1. ASSUME NEW b \in next' .. blocks - 1
          PROVE  (IF Stray /\ b = Prior THEN HoldsStray(b) ELSE Holds(b))'
      <4>1. b \in Nat /\ b >= Prior /\ b < blocks
        BY <1>2, <1>3, <2>1 DEF Larger
      <4>2. CASE b = Prior
        <5>1. Stray /\ b % Slots = CurrentSlot
          BY <1>2, <1>3, <1>13, <2>1, <4>1, <4>2 DEF Stray, Prior
        <5>2. Holds(b)
          BY <1>2, <1>3, <1>14, <4>1, <4>2 DEF Larger
        <5>3. HoldsStray(b)'
          BY <1>3, <1>9, <1>11, <1>16, <5>1, <5>2 DEF Holds, HoldsStray
        <5> QED
          BY <1>3, <4>2, <5>1, <5>3
      <4> QED
        BY <1>3, <1>15, <4>1, <4>2
    <3> QED
      BY <1>1, <1>3, <2>1, <3>1 DEF InFlight
  <2>4. Output'
    <3>1. Len(fout) = Larger(Prior + 1, 0) /\ Larger(Prior, 0) <= blocks
      BY <1>1, <1>2, <1>3 DEF Output, Larger, Prior
    <3>2. Larger(Prior + 1, 0) = Larger(Prior, 0) + Records - blocks
      BY <1>2, <1>3, <2>1 DEF Larger, Records, Stray, Prior
    <3> QED
      BY <1>1, <1>3, <2>1, <3>1, <3>2 DEF Output, Larger
  <2>5. Owned'
    <3>1. Made(job[CurrentSlot])
      BY <1>1, <1>3 DEF PipeInv, Results
    <3>2. Made(v)
      BY <1>9, <1>16, <3>1 DEF Made
    <3> QED
      BY <1>12, <2>1, <3>2 DEF Owned
  <2> QED
    BY <2>2, <2>3, <2>4, <2>5 DEF StreamInv
<1>17. CASE n # 0
  <2>1. mpc' = "start" /\ next' = next /\ readPos' = At(blocks) + BlockLength(blocks)
        /\ At(blocks) < length
    BY <1>2, <1>5, <1>6, <1>17
  <2>2. StreamType' /\ Reading' /\ Idle'
    BY <1>1, <1>2, <1>3, <1>5, <2>1 DEF StreamType, Reading, Idle, At
  <2>3. InFlight'
    <3>1. ASSUME NEW b \in Larger(Prior + 1, 0) .. blocks PROVE Holds(b)'
      <4>1. b \in Nat /\ b > Prior /\ (b < blocks \/ b = blocks)
        BY <1>2, <1>3 DEF Larger
      <4>2. CASE b = blocks
        BY <1>2, <1>3, <1>5, <1>9, <1>11, <1>17, <4>2 DEF Holds, CurrentSlot
      <4> QED
        BY <1>15, <4>1, <4>2
    <3> QED
      BY <1>1, <1>3, <2>1, <3>1 DEF InFlight
  <2>4. Output'
    BY <1>1, <1>3, <2>1 DEF Output
  <2>5. Owned'
    BY <1>3, <1>12, <2>1 DEF Owned
  <2> QED
    BY <2>2, <2>3, <2>4, <2>5 DEF StreamInv
<1> QED
  BY <1>16, <1>17

(* The current slot is started; a short block was the last.                 *)
LEMMA MainStartInv ==
  ASSUME StreamInv, MainStart, UNCHANGED threads
  PROVE  StreamInv'
<1>1. /\ StreamType /\ Reading /\ InFlight /\ Idle /\ Output
      /\ mpc = "start" /\ freed = -1
      /\ UNCHANGED <<length, enc, readPos, fout, threads>>
      /\ blocks' = blocks + 1
  BY DEF StreamInv, MainStart, Idle
<1>2. PICK s \in Slot : s = CurrentSlot /\ PipeInv({s}) /\ Start(s)
  BY DEF StreamInv, Owned, MainStart
<1>3. threads \in 1 .. MaxThreads /\ blocks \in Nat /\ length \in Nat /\ BlockSize \in Nat \ {0}
  BY <1>1, <1>2, StreamAssumption DEF PipeInv, PipeType, StreamType
<1>4. /\ Slots \in Nat \ {0} /\ Slot = 0 .. Slots - 1 /\ Slots' = Slots /\ Slot' = Slot
      /\ Prior \in Int /\ Prior < blocks /\ Prior' = Prior + 1
  <2>1. Slots \in Nat \ {0} /\ Slot = 0 .. Slots - 1 /\ Slots' = Slots /\ Slot' = Slot
    BY <1>1, <1>3, SlotFacts DEF Slots, Slot
  <2>2. Prior \in Int /\ Prior < blocks /\ Prior' = Prior + 1
    BY <1>1, <1>3, <2>1 DEF Prior
  <2> QED
    BY <2>1, <2>2
<1>5. /\ PipeInv({})' /\ freed' = -1
      /\ \A r \in Slot : r # s => busy'[r] = busy[r]
      /\ \A r \in Slot : job'[r].n = job[r].n /\ job'[r].raw = job[r].raw
  BY <1>1, <1>2, StartKeeps
<1>6. /\ At(blocks) \in Nat /\ At(blocks + 1) = At(blocks) + BlockSize
      /\ At(blocks) < length /\ readPos = At(blocks) + BlockLength(blocks)
      /\ BlockLength(blocks) = IF BlockSize < length - At(blocks)
                              THEN BlockSize ELSE length - At(blocks)
  BY <1>1, <1>3, Ats, Lengths DEF Reading
<1>7. job[CurrentSlot].n = BlockLength(blocks)
  <2>1. blocks \in Larger(Prior + 1, 0) .. blocks
    BY <1>3, <1>4 DEF Larger
  <2> QED
    BY <1>1, <2>1 DEF InFlight, Holds, CurrentSlot
<1>8. \/ /\ BlockLength(blocks) < BlockSize /\ mpc' = "drain" /\ next' = Larger(Prior + 1, 0)
         /\ length < At(blocks + 1)
      \/ /\ BlockLength(blocks) = BlockSize /\ mpc' = "write" /\ next' = next
         /\ At(blocks + 1) <= length /\ readPos = At(blocks + 1)
  <2>1. LET eof == BlockLength(blocks) < BlockSize
        IN /\ mpc' = IF eof THEN "drain" ELSE "write"
           /\ next' = IF eof THEN Larger(blocks + 1 - Slots, 0) ELSE next
    BY <1>1, <1>3, <1>4, <1>7 DEF MainStart
  <2>2. blocks + 1 - Slots = Prior + 1
    BY <1>3, <1>4 DEF Prior
  <2> QED
    BY <1>3, <1>6, <2>1, <2>2
<1>9. \A b \in Nat : Holds(b) => Holds(b)'
  <2>1. \A b \in Nat : b % Slots \in Slot
    BY <1>3, SlotFacts
  <2> QED
    BY <1>1, <1>4, <1>5, <2>1 DEF Holds, BlockLength
<1>10. At(blocks)' = At(blocks + 1) /\ At(blocks - 1)' = At(blocks)
  <2>1. blocks' - 1 = blocks
    BY <1>1, <1>3
  <2> QED
    BY <1>1, <2>1 DEF At
<1>11. StreamType' /\ Reading'
  <2>1. StreamType'
    BY <1>1, <1>3, <1>4, <1>8 DEF StreamType, Larger
  <2>2. Reading'
    BY <1>1, <1>3, <1>6, <1>8, <1>10 DEF Reading
  <2> QED
    BY <2>1, <2>2
<1>12. mpc' = "drain" => ~Stray'
  BY <1>1, <1>3, <1>6, <1>8, <1>10 DEF Stray
<1>13. InFlight'
  <2>1. \A b \in Larger(Prior + 1, 0) .. blocks : b \in Nat /\ Holds(b)'
    BY <1>1, <1>3, <1>4, <1>9 DEF InFlight, Larger
  <2>2. blocks' - 1 = blocks
    BY <1>1, <1>3
  <2> QED
    BY <1>4, <1>8, <1>12, <2>1, <2>2 DEF InFlight
<1>14. Idle'
  <2>1. \A r \in Slot : r >= blocks' => ~busy'[r]
    <3>1. blocks < Slots => s = blocks
      BY <1>2, <1>3, CurrentIs
    <3> QED
      BY <1>1, <1>3, <1>4, <1>5, <3>1 DEF Idle
  <2> QED
    BY <1>4, <1>5, <1>8, <2>1 DEF Idle
<1>15. Output'
  <2>1. /\ Len(fout) = Larger(Prior + 1, 0) /\ Records \in Nat /\ Len(fout) <= Records
        /\ \A i \in 1 .. Len(fout) : i \in Nat /\ i <= Prior + 1 /\ fout[i] = RecordAt(i)
    BY <1>1, <1>3, <1>4 DEF Output, Larger, Records, Prior
  <2>2. \A i \in 1 .. Len(fout) : RecordAt(i)' = RecordAt(i)
    BY <1>1, <1>3, <1>4, <2>1 DEF RecordAt, BlockRecord, BlockLength
  <2>3. mpc' = "drain" => Records' = blocks'
    BY <1>12 DEF Records
  <2>4. Larger(Prior + 1, 0) <= blocks + 1
    BY <1>3, <1>4 DEF Larger
  <2> QED
    BY <1>1, <1>3, <1>4, <1>8, <2>1, <2>2, <2>3, <2>4 DEF Output, Larger
<1>16. Owned'
  BY <1>5, <1>8 DEF Owned
<1> QED
  BY <1>11, <1>13, <1>14, <1>15, <1>16 DEF StreamInv

(* One of the blocks still in flight is written, or there is none left.     *)
LEMMA MainDrainInv ==
  ASSUME StreamInv, MainDrain, UNCHANGED threads
  PROVE  StreamInv'
<1>1. /\ StreamType /\ Reading /\ InFlight /\ Output
      /\ mpc = "drain" /\ PipeInv({}) /\ freed = -1
      /\ UNCHANGED <<length, enc, readPos, blocks, threads>>
  BY DEF StreamInv, MainDrain, Owned, Idle
<1>2. threads \in 1 .. MaxThreads /\ blocks \in Nat /\ next \in Nat /\ fout \in Seq(OutRecord)
  BY <1>1 DEF PipeInv, PipeType, StreamType
<1>3. /\ Slots \in Nat \ {0} /\ Slot = 0 .. Slots - 1 /\ Slots' = Slots /\ Slot' = Slot
      /\ CurrentSlot \in Slot /\ CurrentSlot' = CurrentSlot
      /\ Prior \in Int /\ Prior' = Prior /\ Stray' = Stray
      /\ Records \in Nat /\ Records' = Records
      /\ \A i \in Nat : RecordAt(i)' = RecordAt(i)
      /\ \A b \in Nat : BlockLength(b)' = BlockLength(b)
  BY <1>1, <1>2, Frame
<1>4. mpc' \in {"drain", "end", "failed"}
  BY DEF MainDrain, WriteSlot
<1>5. Reading'
  BY <1>1, <1>4 DEF Reading, At, BlockLength
<1>6. /\ Len(fout) = next + Records - blocks /\ Larger(Prior, 0) <= next /\ next <= blocks
      /\ Records = IF Stray THEN blocks + 1 ELSE blocks
      /\ \A i \in 1 .. Len(fout) : fout[i] = RecordAt(i)
  <2>1. /\ Len(fout) = next + Records - blocks /\ Larger(Prior, 0) <= next /\ next <= blocks
        /\ \A i \in 1 .. Len(fout) : i <= Records => fout[i] = RecordAt(i)
    BY <1>1 DEF Output
  <2> QED
    BY <1>2, <1>3, <2>1 DEF Records
<1>7. CASE next < blocks
  <2>1. PICK s \in Slot : s = next % Slots
    BY <1>2, <1>3, ModFacts
  <2>2. WriteSlot(s, "drain") /\ next' = next + 1
    BY <1>7, <2>1 DEF MainDrain
  <2>3. /\ PipeInv({})' /\ UNCHANGED job
        /\ \/ /\ mpc' = "drain" /\ freed' = freed
              /\ fout' = Append(fout, [n |-> job[s].n, data |-> job[s].raw, count |-> -1])
              /\ fout' \in Seq(OutRecord)
           \/ mpc' = "failed" /\ fout' = fout
    BY <1>1, <1>2, <2>1, <2>2, SlotWritten
  <2>4. StreamType'
    BY <1>1, <1>2, <2>2, <2>3 DEF StreamType
  <2>5. Owned' /\ Idle'
    BY <1>1, <2>3 DEF Owned, Idle
  <2>6. InFlight'
    <3>1. \A b \in next + 1 .. blocks - 1 :
            b \in Nat /\ IF Stray /\ b = Prior THEN HoldsStray(b) ELSE Holds(b)
      BY <1>1, <1>2 DEF InFlight
    <3>2. \A b \in Nat : (Holds(b)' <=> Holds(b)) /\ (HoldsStray(b)' <=> HoldsStray(b))
      BY <1>3, <2>3 DEF Holds, HoldsStray
    <3>3. \A b \in next' .. blocks' - 1 :
            IF Stray' /\ b = Prior' THEN HoldsStray(b)' ELSE Holds(b)'
      BY <1>1, <1>3, <2>2, <3>1, <3>2
    <3> QED
      BY <2>3, <3>3 DEF InFlight
  <2>7. ASSUME mpc' = "failed", fout' = fout PROVE Output'
    <3>1. Len(fout) <= Records
      BY <1>2, <1>3, <1>6
    <3> QED
      BY <1>2, <1>3, <1>6, <2>7, <3>1 DEF Output
  <2>8. ASSUME mpc' = "drain",
               fout' = Append(fout, [n |-> job[s].n, data |-> job[s].raw, count |-> -1])
        PROVE  Output'
    <3>1. PICK i \in Nat : i = Len(fout) + 1
      BY <1>2
    <3>2. next \in next .. blocks - 1
      BY <1>2, <1>7
    <3>3. IF Stray /\ next = Prior THEN HoldsStray(next) ELSE Holds(next)
      BY <1>1, <3>2 DEF InFlight
    <3>4. RecordAt(i) = IF Stray /\ next = Prior THEN StrayRecord(next) ELSE BlockRecord(next)
      <4>1. CASE Stray
        <5>1. i = next + 2 /\ i - 2 = next /\ next >= Prior
          BY <1>2, <1>3, <1>6, <3>1, <4>1 DEF Larger
        <5> QED
          BY <1>2, <1>3, <4>1, <5>1 DEF RecordAt
      <4>2. CASE ~Stray
        <5>1. i - 1 = next
          BY <1>2, <1>3, <1>6, <3>1, <4>2
        <5> QED
          BY <4>2, <5>1 DEF RecordAt
      <4> QED
        BY <4>1, <4>2
    <3>5. fout' = Append(fout, RecordAt(Len(fout) + 1))
      BY <2>1, <2>8, <3>1, <3>3, <3>4 DEF Holds, HoldsStray, BlockRecord, StrayRecord
    <3>6. Len(fout') = Len(fout) + 1 /\ \A j \in 1 .. Len(fout') : fout'[j] = RecordAt(j)
      BY <1>2, <1>6, <3>5, OneMore
    <3>7. /\ Len(fout') = next' + Records' - blocks' /\ Larger(Prior', 0) <= next'
          /\ next' <= blocks'
      BY <1>1, <1>2, <1>3, <1>6, <1>7, <2>2, <3>6 DEF Larger
    <3>8. \A j \in 1 .. Len(fout') : fout'[j] = RecordAt(j)'
      <4>1. \A j \in 1 .. Len(fout') : j \in Nat
        BY <1>2, <3>6
      <4> QED
        BY <1>3, <3>6, <4>1
    <3> QED
      BY <2>8, <3>7, <3>8 DEF Output
  <2> QED
    BY <1>5, <2>3, <2>4, <2>5, <2>6, <2>7, <2>8 DEF StreamInv
<1>8. CASE ~(next < blocks)
  <2>1. /\ mpc' = "end"
        /\ UNCHANGED <<next, fout, job, busy, startEv, doneEv, wpc, wslot, freed>>
    BY <1>8 DEF MainDrain, pipeVars
  <2>2. StreamType' /\ InFlight' /\ Idle'
    BY <1>1, <2>1 DEF StreamType, InFlight, Idle
  <2>3. PipeInv({})'
    BY <1>1, <2>1, PipeStutter DEF pipeVars
  <2>4. Len(fout) = Records
    BY <1>2, <1>3, <1>6, <1>8
  <2>5. Output'
    BY <1>3, <1>6, <2>1, <2>4 DEF Output
  <2> QED
    BY <1>5, <2>1, <2>2, <2>3, <2>5 DEF StreamInv, Owned
<1> QED
  BY <1>7, <1>8

(* The end of the stream is written, or that fails.                         *)
LEMMA MainEndInv ==
  ASSUME StreamInv, MainEnd, UNCHANGED threads
  PROVE  StreamInv'
<1>1. /\ StreamType /\ Reading /\ Output
      /\ mpc = "end" /\ PipeInv({}) /\ freed = -1 /\ freed' = 0
      /\ UNCHANGED <<length, enc, readPos, blocks, next, threads>>
      /\ UNCHANGED <<job, busy, startEv, doneEv, wpc, wslot>>
  BY DEF StreamInv, MainEnd, Owned, Idle
<1>2. threads \in 1 .. MaxThreads /\ blocks \in Nat /\ fout \in Seq(OutRecord)
  BY <1>1 DEF PipeInv, PipeType, StreamType
<1>3. /\ Slots \in Nat \ {0} /\ Slot = 0 .. Slots - 1 /\ Slots' = Slots /\ Slot' = Slot
      /\ CurrentSlot \in Slot /\ CurrentSlot' = CurrentSlot
      /\ Prior \in Int /\ Prior' = Prior /\ Stray' = Stray
      /\ Records \in Nat /\ Records' = Records
      /\ \A i \in Nat : RecordAt(i)' = RecordAt(i)
      /\ \A b \in Nat : BlockLength(b)' = BlockLength(b)
  BY <1>1, <1>2, Frame
<1>4. PICK e : e = EndRecord(IF enc THEN blocks ELSE -1)
  OBVIOUS
<1>5. \/ mpc' = "ok" /\ fout' = Append(fout, e)
      \/ mpc' = "failed" /\ fout' = fout
  BY <1>4 DEF MainEnd
<1>6. e \in OutRecord
  BY <1>1, <1>2, <1>4 DEF EndRecord, OutRecord, NoData, StreamType
<1>7. /\ Len(fout) = Records
      /\ \A i \in 1 .. Records : i \in Nat /\ fout[i] = RecordAt(i)
  BY <1>1, <1>3 DEF Output
<1>8. StreamType'
  <2>1. fout' \in Seq(OutRecord)
    BY <1>2, <1>5, <1>6
  <2> QED
    BY <1>1, <1>5, <2>1 DEF StreamType
<1>9. Reading' /\ InFlight' /\ Idle'
  BY <1>1, <1>5 DEF Reading, InFlight, Idle, At, BlockLength
<1>10. PipeInv({})'
  BY <1>1, DestroyBegins
<1>11. ASSUME mpc' = "failed", fout' = fout PROVE Output'
  BY <1>3, <1>7, <1>11 DEF Output
<1>12. ASSUME mpc' = "ok", fout' = Append(fout, e) PROVE Output'
  <2>1. /\ Len(fout') = Records + 1 /\ fout'[Records + 1] = e
        /\ \A i \in 1 .. Records : fout'[i] = fout[i]
    BY <1>2, <1>3, <1>7, <1>12
  <2>2. \A i \in 1 .. Records : fout'[i] = RecordAt(i)'
    BY <1>3, <1>7, <2>1
  <2>3. fout'[Records + 1] = EndRecord(IF enc' THEN blocks' ELSE -1)
    BY <1>1, <1>4, <2>1
  <2> QED
    BY <1>3, <1>12, <2>1, <2>2, <2>3 DEF Output, EndRecord
<1> QED
  BY <1>5, <1>8, <1>9, <1>10, <1>11, <1>12 DEF StreamInv, Owned

(* The pipeline is destroyed.                                               *)
LEMMA MainFreeInv ==
  ASSUME StreamInv, MainFree, UNCHANGED threads
  PROVE  StreamInv'
<1>1. /\ StreamType /\ Reading /\ Output
      /\ mpc \in {"ok", "failed"} /\ PipeInv({}) /\ (DestroyWait \/ DestroyStop)
      /\ UNCHANGED <<length, enc, readPos, blocks, next, fout, mpc, threads>>
  BY DEF StreamInv, MainFree, Owned, streamVars
<1>2. threads \in 1 .. MaxThreads /\ blocks \in Nat /\ fout \in Seq(OutRecord)
  BY <1>1 DEF PipeInv, PipeType, StreamType
<1>3. /\ Slots \in Nat \ {0} /\ Slot = 0 .. Slots - 1 /\ Slots' = Slots /\ Slot' = Slot
      /\ CurrentSlot \in Slot /\ CurrentSlot' = CurrentSlot
      /\ Prior \in Int /\ Prior' = Prior /\ Stray' = Stray
      /\ Records \in Nat /\ Records' = Records
      /\ \A i \in Nat : RecordAt(i)' = RecordAt(i)
      /\ \A b \in Nat : BlockLength(b)' = BlockLength(b)
  BY <1>1, <1>2, Frame
<1>4. PipeInv({})'
  BY <1>1, DestroyKeeps
<1>5. StreamType' /\ Reading' /\ InFlight' /\ Idle'
  BY <1>1 DEF StreamType, Reading, InFlight, Idle, At, BlockLength
<1>6. Output'
  <2>1. \A i \in 1 .. Len(fout) : i \in Nat
    BY <1>2
  <2> QED
    BY <1>1, <1>3, <2>1 DEF Output
<1> QED
  BY <1>1, <1>4, <1>5, <1>6 DEF StreamInv, Owned

LEMMA NextInv == StreamInv /\ [Next]_vars => StreamInv'
<1> SUFFICES ASSUME StreamInv, [Next]_vars PROVE StreamInv'
  OBVIOUS
<1>1. CASE Main
  BY <1>1, MainWriteInv, MainReadInv, MainStartInv, MainDrainInv, MainEndInv, MainFreeInv DEF Main
<1>2. CASE \E w \in Worker : WorkerStep(w) /\ UNCHANGED streamVars
  BY <1>2, WorkerInv
<1>3. CASE UNCHANGED vars
  BY <1>3, Unchanged
<1> QED
  BY <1>1, <1>2, <1>3 DEF Next

LEMMA Invariant == Spec => []StreamInv
BY InitInv, NextInv, PTL DEF Spec

-----------------------------------------------------------------------------
(* A job is the main thread's or its worker's, never both's.                *)
THEOREM OneOwnerEach == Spec => []JobHasOneOwner
<1>1. StreamInv => JobHasOneOwner
  <2> SUFFICES ASSUME StreamInv PROVE JobHasOneOwner
    OBVIOUS
  <2>1. PICK F : PipeInv(F)
    BY DEF StreamInv, Owned
  <2>2. \A s \in IF mpc \in {"read", "start"} THEN {CurrentSlot} ELSE {} : ~busy[s]
    BY DEF StreamInv, Idle
  <2> QED
    BY <2>1, <2>2, NoTwoOwners DEF JobHasOneOwner
<1> QED
  BY <1>1, Invariant, PTL

-----------------------------------------------------------------------------
(* The blocks of the input are those that begin before its end.             *)
LEMMA BlockCountFacts ==
  ASSUME length \in Nat
  PROVE  /\ BlockCount \in Nat
         /\ \A b \in Nat : b < BlockCount <=> At(b) < length
<1>1. BlockSize \in Nat \ {0}
  BY StreamAssumption
<1>2. PICK a \in Int : a = length + BlockSize - 1
  BY <1>1
<1>3. PICK q \in Int, r \in 0 .. BlockSize - 1 : q = a \div BlockSize /\ a = BlockSize * q + r
  BY <1>1, Divided, Zenon
<1>4. q = BlockCount
  BY <1>2, <1>3 DEF BlockCount
<1>5. q \in Nat /\ At(q) \in Nat /\ length <= At(q) /\ At(q) < length + BlockSize
  <2>1. BlockSize * q >= length /\ BlockSize * q < length + BlockSize
    BY <1>1, <1>2, <1>3
  <2>2. q \in Nat
    <3>1. q < 0 => BlockSize * q <= -BlockSize
      BY <1>1
    <3> QED
      BY <1>1, <2>1, <3>1
  <2> QED
    BY <1>1, <2>1, <2>2 DEF At
<1>6. ASSUME NEW b \in Nat PROVE b < q <=> At(b) < length
  <2>1. b < q => At(b) + BlockSize <= At(q)
    BY <1>5, Ats
  <2>2. q < b => At(q) + BlockSize <= At(b)
    BY <1>5, Ats
  <2>3. At(b) \in Nat
    BY Ats
  <2> QED
    BY <1>1, <1>5, <2>1, <2>2, <2>3
<1> QED
  BY <1>4, <1>5, <1>6

(* What each record of the output is.                                       *)
LEMMA RecordsAre ==
  ASSUME StreamInv
  PROVE  /\ blocks \in Nat /\ Prior \in Int /\ Prior < blocks /\ fout \in Seq(OutRecord)
         /\ Records \in Nat /\ Records = IF Stray THEN blocks + 1 ELSE blocks
         /\ Stray => Prior \in Nat
         /\ \A b \in 0 .. blocks - 1 : b < BlockCount /\ BlockLength(b) > 0
         /\ \A i \in 1 .. Len(fout) : i <= Records =>
              fout[i] = IF Stray /\ i = Prior + 2 THEN StrayRecord(Prior)
                        ELSE BlockRecord(IF Stray /\ i > Prior + 1 THEN i - 2 ELSE i - 1)
         /\ \A i \in 1 .. Len(fout) : i > Records => mpc = "ok" /\ i = Records + 1 /\ fout[i].n = 0
<1>1. StreamType /\ Reading /\ Output /\ (\E F : PipeInv(F))
  BY DEF StreamInv, Owned
<1>2. blocks \in Nat /\ length \in Nat /\ fout \in Seq(OutRecord) /\ threads \in 1 .. MaxThreads
  BY <1>1 DEF StreamType, PipeInv, PipeType
<1>3. Prior \in Int /\ Prior < blocks /\ Records \in Nat
  <2>1. Slots \in Nat \ {0}
    BY <1>2, SlotFacts
  <2> QED
    BY <1>2, <2>1 DEF Prior, Records
<1>4. Stray => Prior \in Nat
  BY <1>2, <1>3, SlotFacts DEF Stray, Prior
<1>5. ASSUME NEW b \in 0 .. blocks - 1 PROVE b < BlockCount /\ BlockLength(b) > 0
  <2>1. blocks - 1 \in Nat /\ At(blocks - 1) < length /\ BlockSize \in Nat
    BY <1>1, <1>2, StreamAssumption DEF Reading
  <2>2. b \in Nat /\ (b = blocks - 1 \/ b < blocks - 1)
    BY <1>2
  <2>3. At(b) \in Nat /\ At(blocks - 1) \in Nat
    BY <2>1, <2>2, Ats
  <2>4. b < blocks - 1 => At(b) + BlockSize <= At(blocks - 1)
    BY <2>1, <2>2, Ats
  <2>5. At(b) < length
    BY <1>2, <2>1, <2>2, <2>3, <2>4
  <2> QED
    BY <1>2, <2>2, <2>5, BlockCountFacts, Lengths
<1>6. ASSUME NEW i \in 1 .. Len(fout), i <= Records
      PROVE  fout[i] = IF Stray /\ i = Prior + 2 THEN StrayRecord(Prior)
                       ELSE BlockRecord(IF Stray /\ i > Prior + 1 THEN i - 2 ELSE i - 1)
  <2>1. fout[i] = RecordAt(i)
    BY <1>1, <1>6 DEF Output
  <2> QED
    BY <1>2, <1>3, <2>1 DEF RecordAt
<1>7. ASSUME NEW i \in 1 .. Len(fout), i > Records
      PROVE  mpc = "ok" /\ i = Records + 1 /\ fout[i].n = 0
  <2>1. Len(fout) \in Nat /\ (mpc # "ok" => Len(fout) <= Records)
    BY <1>1, <1>2, <1>3 DEF Output, StreamType, Larger, Records, Prior
  <2>2. mpc = "ok" /\ Len(fout) = Records + 1 /\ fout[Records + 1].n = 0
    BY <1>1, <1>2, <1>3, <1>7, <2>1 DEF Output, EndRecord
  <2> QED
    BY <1>3, <1>7, <2>2
<1> QED
  BY <1>2, <1>3, <1>5, <1>6, <1>7, <1>4 DEF Records

(* A record holds a block, the stray record aside.                          *)
LEMMA HoldsBlock ==
  ASSUME StreamInv, NEW i \in 1 .. Len(fout), i <= Records, ~(Stray /\ i = Prior + 2)
  PROVE  \E b \in 0 .. blocks - 1 :
           /\ b = IF Stray /\ i > Prior + 1 THEN i - 2 ELSE i - 1
           /\ fout[i].n = BlockLength(b) /\ fout[i].data = b
           /\ fout[i].n > 0 /\ b < BlockCount
<1>1. /\ blocks \in Nat /\ Prior \in Int /\ Prior < blocks
      /\ Records = IF Stray THEN blocks + 1 ELSE blocks
      /\ Stray => Prior \in Nat
      /\ \A b \in 0 .. blocks - 1 : b < BlockCount /\ BlockLength(b) > 0
  BY RecordsAre
<1>2. fout[i] = BlockRecord(IF Stray /\ i > Prior + 1 THEN i - 2 ELSE i - 1)
  BY RecordsAre
<1>3. i \in Nat /\ i >= 1
  BY RecordsAre
<1>4. PICK b \in Int : b = IF Stray /\ i > Prior + 1 THEN i - 2 ELSE i - 1
  BY <1>3
<1>5. b \in 0 .. blocks - 1
  BY <1>1, <1>3, <1>4
<1>6. fout[i] = BlockRecord(b)
  BY <1>2, <1>4
<1> QED
  BY <1>1, <1>4, <1>5, <1>6 DEF BlockRecord

(* The blocks of the output are the first ones of the input, in order.      *)
THEOREM OrderKept == Spec => []BlocksLeaveInOrder
<1>1. StreamInv => BlocksLeaveInOrder
  <2> SUFFICES ASSUME StreamInv, NEW i \in DOMAIN fout, fout[i].n > 0,
                      NEW before, before = Cardinality({k \in 1 .. i - 1 : fout[k].n > 0})
               PROVE  /\ before < BlockCount
                      /\ fout[i].n = BlockLength(before) /\ fout[i].data = before
    BY Zenon DEF BlocksLeaveInOrder
  <2> DEFINE Data == {k \in 1 .. i - 1 : fout[k].n > 0}
  <2>1. /\ blocks \in Nat /\ Prior \in Int /\ Prior < blocks /\ fout \in Seq(OutRecord)
        /\ Records \in Nat /\ (Stray => Prior \in Nat)
        /\ \A k \in 1 .. Len(fout) : k > Records => fout[k].n = 0
    BY RecordsAre
  <2>2. i \in 1 .. Len(fout) /\ i \in Nat /\ i <= Records
    BY <2>1
  <2>3. ~(Stray /\ i = Prior + 2)
    BY <2>2, RecordsAre DEF StrayRecord
  <2>4. PICK b \in 0 .. blocks - 1 :
          /\ b = IF Stray /\ i > Prior + 1 THEN i - 2 ELSE i - 1
          /\ fout[i].n = BlockLength(b) /\ fout[i].data = b /\ b < BlockCount
    BY <2>2, <2>3, HoldsBlock
  <2>5. ASSUME NEW k \in 1 .. i - 1, ~(Stray /\ k = Prior + 2) PROVE fout[k].n > 0
    <3>1. k \in 1 .. Len(fout) /\ k <= Records
      BY <2>1, <2>2
    <3> QED
      BY <2>5, <3>1, HoldsBlock
  <2>6. ASSUME NEW k \in 1 .. i - 1, Stray, k = Prior + 2 PROVE fout[k].n = 0
    <3>1. k \in 1 .. Len(fout) /\ k <= Records
      BY <2>1, <2>2
    <3> QED
      BY <2>6, <3>1, RecordsAre DEF StrayRecord
  <2>7. IsFiniteSet(1 .. i - 1) /\ Cardinality(1 .. i - 1) = i - 1
    <3>1. i - 1 \in Int /\ 1 \in Int /\ 1 <= i
      BY <2>2
    <3>2. PICK e \in Int : e = i - 1
      BY <3>1
    <3>3. IsFiniteSet(1 .. e) /\ Cardinality(1 .. e) = IF 1 > e THEN 0 ELSE e - 1 + 1
      BY FS_Interval
    <3> QED
      BY <2>2, <3>2, <3>3
  <2>8. Cardinality(Data) = b
    <3>1. CASE Stray /\ i > Prior + 1
      <4>1. PICK p \in 1 .. i - 1 : p = Prior + 2
        BY <2>1, <2>2, <2>3, <3>1
      <4>2. Data = (1 .. i - 1) \ {p}
        BY <2>5, <2>6, <3>1, <4>1
      <4>3. Cardinality((1 .. i - 1) \ {p}) = Cardinality(1 .. i - 1) - 1
        BY <2>7, <4>1, FS_RemoveElement
      <4>4. Cardinality((1 .. i - 1) \ {p}) = i - 1 - 1 /\ b = i - 2
        BY <2>4, <2>7, <3>1, <4>3
      <4>5. i - 1 - 1 = i - 2
        BY <2>2
      <4> QED
        BY <4>2, <4>4, <4>5, Zenon
    <3>2. CASE ~(Stray /\ i > Prior + 1)
      <4>1. \A k \in 1 .. i - 1 : ~(Stray /\ k = Prior + 2)
        BY <2>1, <2>2, <3>2
      <4>2. Data = 1 .. i - 1
        BY <2>5, <4>1
      <4> QED
        BY <2>2, <2>4, <2>7, <3>2, <4>2
    <3> QED
      BY <3>1, <3>2
  <2> QED
    BY <2>4, <2>8
<1> QED
  BY <1>1, Invariant, PTL

(* A whole number of blocks.                                                *)
LEMMA WholeBlocks ==
  ASSUME length \in Nat
  PROVE  length % BlockSize = 0 <=> \E q \in Int : length = BlockSize * q
<1>1. BlockSize \in Nat \ {0}
  BY StreamAssumption
<1>2. PICK a \in Int : a = length
  OBVIOUS
<1>3. PICK q \in Int, r \in 0 .. BlockSize - 1 :
        q = a \div BlockSize /\ r = a % BlockSize /\ a = BlockSize * q + r
  BY <1>1, Divided, Zenon
<1>4. r = 0 => \E p \in Int : length = BlockSize * p
  BY <1>1, <1>2, <1>3
<1>5. ASSUME NEW p \in Int, length = BlockSize * p PROVE r = 0
  <2>1. PICK d \in Int : d = p - q
    OBVIOUS
  <2>2. BlockSize * d = r
    BY <1>1, <1>2, <1>3, <1>5, <2>1
  <2>3. d = 0
    BY <1>1, <1>3, <2>2, NoMultipleBetween
  <2> QED
    BY <1>1, <2>2, <2>3
<1> QED
  BY <1>2, <1>3, <1>4, <1>5

(* A success: all blocks were written, and the first record of length 0 is  *)
(* the stray one if there is one, else the end of the stream.               *)
LEMMA WholeOutput ==
  ASSUME StreamInv, mpc = "ok"
  PROVE  /\ BlockCount = blocks /\ blocks \in Nat
         /\ Len(fout) = Records + 1
         /\ fout[Records + 1] = EndRecord(IF enc THEN blocks ELSE -1)
         /\ FirstEnd = IF Stray THEN Prior + 2 ELSE blocks + 1
         /\ FirstEnd \in 1 .. Len(fout)
         /\ \A i \in 1 .. FirstEnd - 1 : fout[i].n = BlockLength(i - 1) /\ fout[i].data = i - 1
<1>1. /\ StreamType /\ Reading /\ Output
      /\ Len(fout) = Records + 1 /\ fout[Records + 1] = EndRecord(IF enc THEN blocks ELSE -1)
  BY DEF StreamInv, Output
<1>2. /\ blocks \in Nat /\ Prior \in Int /\ Prior < blocks /\ fout \in Seq(OutRecord)
      /\ Records \in Nat /\ Records = IF Stray THEN blocks + 1 ELSE blocks
      /\ (Stray => Prior \in Nat) /\ length \in Nat
      /\ \A b \in 0 .. blocks - 1 : b < BlockCount /\ BlockLength(b) > 0
  BY <1>1, RecordsAre DEF StreamType
<1>3. BlockCount = blocks
  <2>1. BlockCount \in Nat /\ ~(blocks < BlockCount)
    <3>1. At(blocks) \in Nat /\ length <= At(blocks)
      BY <1>1, <1>2, Ats DEF Reading
    <3> QED
      BY <1>2, <3>1, BlockCountFacts
  <2>2. blocks > 0 => blocks - 1 < BlockCount
    BY <1>2
  <2> QED
    BY <1>2, <2>1, <2>2
<1>4. PICK e \in Nat : e = IF Stray THEN Prior + 2 ELSE blocks + 1
  BY <1>2
<1>5. e \in 1 .. Len(fout)
  BY <1>1, <1>2, <1>4
<1>6. fout[e].n = 0
  <2>1. CASE Stray
    BY <1>2, <1>4, <1>5, <2>1, RecordsAre DEF StrayRecord
  <2>2. CASE ~Stray
    BY <1>1, <1>2, <1>4, <2>2 DEF EndRecord
  <2> QED
    BY <2>1, <2>2
<1>7. ASSUME NEW i \in 1 .. e - 1
      PROVE  fout[i].n > 0 /\ fout[i].n = BlockLength(i - 1) /\ fout[i].data = i - 1
  <2>1. i \in 1 .. Len(fout) /\ i <= Records /\ ~(Stray /\ i = Prior + 2)
    BY <1>1, <1>2, <1>4, <1>5
  <2>2. ~(Stray /\ i > Prior + 1)
    BY <1>2, <1>4
  <2>3. PICK b \in 0 .. blocks - 1 :
          /\ b = IF Stray /\ i > Prior + 1 THEN i - 2 ELSE i - 1
          /\ fout[i].n = BlockLength(b) /\ fout[i].data = b /\ fout[i].n > 0
    BY <2>1, HoldsBlock
  <2> QED
    BY <2>2, <2>3
<1>8. FirstEnd = e
  <2> DEFINE End(i) == fout[i].n = 0 /\ \A k \in 1 .. i - 1 : fout[k].n # 0
  <2>1. \A k \in 1 .. e - 1 : fout[k].n # 0
    <3>1. ASSUME NEW k \in 1 .. e - 1 PROVE fout[k].n \in Int
      <4>1. k \in 1 .. Len(fout)
        BY <1>2, <1>4, <1>5
      <4>2. fout[k] \in OutRecord
        BY <1>2, <4>1
      <4> QED
        BY <4>2 DEF OutRecord
    <3> QED
      BY <1>7, <3>1
  <2>2. End(e)
    BY <1>6, <2>1
  <2>3. ASSUME NEW f \in 1 .. Len(fout), End(f) PROVE f = e
    <3>1. ~(f < e)
      BY <1>7, <2>1, <2>3
    <3>2. ~(e < f)
      BY <1>5, <1>6, <2>3
    <3> QED
      BY <1>4, <3>1, <3>2
  <2> HIDE DEF End
  <2>4. FirstEnd = CHOOSE i \in 1 .. Len(fout) : End(i)
    BY DEF FirstEnd, End
  <2>5. FirstEnd \in 1 .. Len(fout) /\ End(FirstEnd)
    BY <1>5, <2>2, <2>4
  <2> QED
    BY <2>3, <2>5
<1> QED
  BY <1>1, <1>2, <1>3, <1>4, <1>5, <1>7, <1>8

(* What the records before the first end hold is the input when they are    *)
(* all its blocks.                                                          *)
LEMMA ContentsAreInput ==
  ASSUME StreamInv, mpc = "ok"
  PROVE  Contents(SubSeq(fout, 1, FirstEnd - 1)) = Input <=> FirstEnd - 1 = blocks
<1>1. /\ BlockCount = blocks /\ blocks \in Nat /\ fout \in Seq(OutRecord)
      /\ FirstEnd \in 1 .. Len(fout)
      /\ \A i \in 1 .. FirstEnd - 1 : fout[i].n = BlockLength(i - 1) /\ fout[i].data = i - 1
  BY WholeOutput, RecordsAre
<1>2. PICK e \in Nat : e = FirstEnd - 1 /\ e <= Len(fout)
  BY <1>1
<1>3. Len(SubSeq(fout, 1, e)) = e /\ \A i \in 1 .. e : SubSeq(fout, 1, e)[i] = fout[i]
  BY <1>1, <1>2
<1>4. Contents(SubSeq(fout, 1, e)) = [i \in 1 .. e |-> InputBlock(i - 1)]
  <2>1. ASSUME NEW i \in 1 .. e
        PROVE  [n |-> SubSeq(fout, 1, e)[i].n, data |-> SubSeq(fout, 1, e)[i].data] = InputBlock(i - 1)
    BY <1>1, <1>2, <1>3, <2>1 DEF InputBlock
  <2> QED
    BY <1>3, <2>1 DEF Contents
<1>5. Input = [i \in 1 .. blocks |-> InputBlock(i - 1)]
  BY <1>1 DEF Input
<1>6. ASSUME Contents(SubSeq(fout, 1, e)) = Input PROVE e = blocks
  <2>1. 1 .. e = 1 .. blocks
    BY <1>4, <1>5, <1>6, Zenon
  <2>2. e > 0 => e <= blocks
    BY <1>1, <1>2, <2>1
  <2>3. blocks > 0 => blocks <= e
    BY <1>1, <1>2, <2>1
  <2> QED
    BY <1>1, <1>2, <2>2, <2>3
<1>7. e = blocks => Contents(SubSeq(fout, 1, e)) = Input
  BY <1>4, <1>5
<1> QED
  BY <1>2, <1>6, <1>7

(* Compress' output decompresses to its input unless the loop met the end   *)
(* with an empty read after it wrote the slot (and then with one thread and *)
(* no password only).                                                       *)
THEOREM RoundTripKept == Spec => []RoundTripUnlessWholeBlocks
<1>1. StreamInv => RoundTripUnlessWholeBlocks
  <2> SUFFICES ASSUME StreamInv, mpc = "ok"
               PROVE  Decodes <=> \/ length % BlockSize # 0
                                  \/ BlockCount < Slots
                                  \/ threads = 1 /\ ~enc
    BY DEF RoundTripUnlessWholeBlocks
  <2>1. /\ BlockCount = blocks /\ blocks \in Nat /\ Len(fout) = Records + 1
        /\ fout[Records + 1] = EndRecord(IF enc THEN blocks ELSE -1)
        /\ FirstEnd = IF Stray THEN Prior + 2 ELSE blocks + 1
        /\ Records = IF Stray THEN blocks + 1 ELSE blocks
    BY WholeOutput, RecordsAre
  <2>2. Contents(SubSeq(fout, 1, FirstEnd - 1)) = Input <=> FirstEnd - 1 = blocks
    BY ContentsAreInput
  <2>3. /\ length \in Nat /\ BlockSize \in Nat \ {0} /\ Slots \in Nat \ {0} /\ enc \in BOOLEAN
        /\ threads \in 1 .. MaxThreads /\ Slots = IF threads > 1 THEN 2 * threads ELSE 1
        /\ threads \in Nat /\ length <= At(blocks) /\ (blocks > 0 => At(blocks - 1) < length)
    <3>1. threads \in 1 .. MaxThreads
      BY DEF StreamInv, Owned, PipeInv, PipeType
    <3> QED
      BY <3>1, SlotFacts, StreamAssumption, PipelineAssumption
      DEF StreamInv, StreamType, Reading, Slots
  <2>4. CASE Stray
    <3>1. length % BlockSize = 0 /\ ~(BlockCount < Slots)
      <4>1. length = blocks * BlockSize /\ blocks >= Slots
        BY <2>4 DEF Stray, At
      <4>2. length = BlockSize * blocks
        BY <2>1, <2>3, <4>1
      <4> QED
        BY <2>1, <2>3, <4>1, <4>2, WholeBlocks
    <3>2. FirstEnd = Prior + 2 /\ Records = blocks + 1 /\ Len(fout) = blocks + 2
      BY <2>1, <2>4
    <3>3. FirstEnd - 1 = blocks <=> threads = 1
      BY <2>1, <2>3, <3>2 DEF Prior
    <3>4. FirstEnd # Len(fout)
      BY <2>1, <2>3, <3>2 DEF Prior
    <3> QED
      BY <2>2, <2>3, <3>1, <3>3, <3>4 DEF Decodes
  <2>5. CASE ~Stray
    <3>1. FirstEnd = blocks + 1 /\ Len(fout) = blocks + 1
      BY <2>1, <2>5
    <3>2. Decodes
      BY <2>1, <2>2, <2>3, <2>5, <3>1 DEF Decodes, EndRecord
    <3>3. length % BlockSize # 0 \/ BlockCount < Slots
      <4> SUFFICES ASSUME blocks >= Slots, length % BlockSize = 0 PROVE FALSE
        BY <2>1, <2>3
      <4>1. length # At(blocks)
        BY <2>5 DEF Stray
      <4>2. PICK q \in Int : length = BlockSize * q
        BY <2>3, WholeBlocks
      <4>3. BlockSize * (blocks - 1) < BlockSize * q /\ BlockSize * q < BlockSize * blocks
        BY <2>1, <2>3, <4>1, <4>2 DEF At
      <4> QED
        BY <2>1, <2>3, <4>3, NoMultipleBetween
    <3> QED
      BY <3>2, <3>3
  <2> QED
    BY <2>4, <2>5
<1> QED
  BY <1>1, Invariant, PTL
=============================================================================
