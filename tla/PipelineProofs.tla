--------------------------- MODULE PipelineProofs ---------------------------
(***************************************************************************)
(* What the block pipeline (Pipeline) keeps for every number of threads,   *)
(* whichever main thread drives it.  A client proves that it calls Start   *)
(* on a slot that it may fill, and Finish before it looks at a result; the *)
(* lemmas here then give it that no job has two owners and that a result   *)
(* it looks at was made of the block the slot was filled with.             *)
(***************************************************************************)
EXTENDS Pipeline, TLAPS

Job == [n : Int, raw : Int, good : BOOLEAN, out : Int, ok : BOOLEAN]

PipeType ==
  /\ threads \in 1 .. MaxThreads
  /\ job \in [Slot -> Job]
  /\ busy \in [Slot -> BOOLEAN]
  /\ startEv \in [Slot -> BOOLEAN]
  /\ doneEv \in [Slot -> BOOLEAN]
  /\ wpc \in [Worker -> {"wait", "run", "signal", "ended"}]
  /\ wslot \in [Worker -> Slot]
  /\ freed \in -1 .. 2 * Slots

(* Each worker stays with its two slots. *)
OwnSlots == \A w \in Worker : wslot[w] = w \/ wslot[w] = w + threads

Working(w) == wpc[w] \in {"run", "signal"}

(* The two events of a slot, and who may touch its job. *)
Handshake ==
  /\ \A s \in Slot :
       /\ doneEv[s] => busy[s] /\ ~startEv[s]
       /\ startEv[s] /\ ~busy[s] => job[s].n = Stop /\ freed > Slots
  /\ \A w \in Worker : Working(w) =>
       busy[wslot[w]] /\ ~startEv[wslot[w]] /\ ~doneEv[wslot[w]]

(* Destroy has waited for the slots before freed. *)
Waited == \A s \in Slot : s < freed => ~busy[s]

Made(j) == j.ok => j.good /\ j.out = j.raw

(* The result in a slot that is not being worked on, or filled, is right.   *)
Results(filled) ==
  /\ \A s \in Slot \ filled : ~busy[s] \/ doneEv[s] => Made(job[s])
  /\ \A w \in Worker : wpc[w] = "signal" => Made(job[wslot[w]])

PipeInv(filled) ==
  /\ PipeType /\ OwnSlots /\ Handshake /\ Waited /\ Results(filled)
  /\ \A s \in filled : ~busy[s]

-----------------------------------------------------------------------------
(* Slots are taken in turn.                                                 *)
LEMMA Divided ==
  ASSUME NEW n \in Nat \ {0}, NEW a \in Int
  PROVE  \E q \in Int, r \in 0 .. n - 1 : q = a \div n /\ r = a % n /\ a = n * q + r
<1>1. a = n * (a \div n) + (a % n)
  OBVIOUS
<1>2. a \div n \in Int /\ a % n \in 0 .. n - 1
  OBVIOUS
<1> QED
  BY <1>1, <1>2

LEMMA NoMultipleBetween ==
  ASSUME NEW n \in Nat \ {0}, NEW d \in Int, n * d < n, 0 < n * d + n
  PROVE  d = 0
<1>1. d >= 1 => n * d >= n
  OBVIOUS
<1>2. d <= -1 => n * d <= -n
  OBVIOUS
<1> QED
  BY <1>1, <1>2

LEMMA ModFacts ==
  ASSUME NEW n \in Nat \ {0}, NEW a \in Nat
  PROVE  /\ a % n \in 0 .. n - 1
         /\ a < n => a % n = a
         /\ (a + n) % n = a % n
<1>1. a % n \in 0 .. n - 1
  OBVIOUS
<1>2. a < n => a % n = a
  OBVIOUS
<1>3. (a + n) % n = a % n
  <2>1. PICK q \in Int, r \in 0 .. n - 1 : r = a % n /\ a = n * q + r
    BY Divided
  <2>2. PICK b \in Int : b = a + n
    OBVIOUS
  <2>3. PICK p \in Int, t \in 0 .. n - 1 : t = b % n /\ b = n * p + t
    BY Divided, Zenon
  <2>4. n * (q + 1 - p) = t - r
    <3>1. n * (q + 1 - p) = n * q + n - n * p
      OBVIOUS
    <3> QED
      BY <2>1, <2>2, <2>3, <3>1
  <2>5. q + 1 - p = 0
    BY <2>4, NoMultipleBetween
  <2>6. t = r
    BY <2>4, <2>5
  <2> QED
    BY <2>1, <2>2, <2>3, <2>6
<1> QED
  BY <1>1, <1>2, <1>3

(* Fewer than n numbers in a row have different remainders.                 *)
LEMMA ModDistinct ==
  ASSUME NEW n \in Nat \ {0}, NEW a \in Nat, NEW b \in Nat, a < b, b < a + n
  PROVE  a % n # b % n
<1>0. a \in Int /\ b \in Int
  OBVIOUS
<1>1. PICK q \in Int, r \in 0 .. n - 1 : r = a % n /\ a = n * q + r
  BY <1>0, Divided, Zenon
<1>2. PICK p \in Int, t \in 0 .. n - 1 : t = b % n /\ b = n * p + t
  BY <1>0, Divided, Zenon
<1>3. n * (p - q) = b - a - (t - r)
  <2>1. n * (p - q) = n * p - n * q
    OBVIOUS
  <2> QED
    BY <1>1, <1>2, <2>1
<1>4. t = r => p - q = 0
  BY <1>3, NoMultipleBetween
<1>5. t = r => b - a = 0
  BY <1>3, <1>4
<1> QED
  BY <1>1, <1>2, <1>5

LEMMA SlotFacts ==
  ASSUME threads \in 1 .. MaxThreads
  PROVE  /\ Slots \in Nat \ {0} /\ threads \in Nat \ {0}
         /\ \A w \in Worker : w \in Nat /\ w < threads /\ threads > 1
                            /\ w \in Slot /\ w + threads \in Slot
         /\ \A a \in Nat : a % Slots \in Slot
BY PipelineAssumption, ModFacts DEF Slots, Slot, Worker

(* Of the blocks in flight only the oldest can be in the slot whose turn it *)
(* is.                                                                      *)
LEMMA Turn ==
  ASSUME threads \in 1 .. MaxThreads, NEW k \in Nat
  PROVE  /\ k % Slots \in Slot /\ Slots \in Nat \ {0}
         /\ k < Slots => k % Slots = k
         /\ k >= Slots => k - Slots \in Nat /\ (k - Slots) % Slots = k % Slots
         /\ \A b \in Nat : k - Slots < b /\ b < k => b % Slots # k % Slots
<1>1. PICK n \in Nat \ {0} : n = Slots
  BY SlotFacts
<1>2. k % n \in Slot
  BY <1>1, SlotFacts
<1>3. k < n => k % n = k
  BY ModFacts
<1>4. ASSUME k >= n PROVE k - n \in Nat /\ (k - n) % n = k % n
  <2>1. PICK a \in Nat : a = k - n /\ k = a + n
    BY <1>1, <1>4
  <2>2. (a + n) % n = a % n
    BY ModFacts
  <2> QED
    BY <2>1, <2>2
<1>5. ASSUME NEW b \in Nat, k - n < b, b < k PROVE b % n # k % n
  <2>1. k < b + n
    BY <1>1, <1>5
  <2> QED
    BY <1>5, <2>1, ModDistinct
<1> QED
  BY <1>1, <1>2, <1>3, <1>4, <1>5

LEMMA NextSlotFacts ==
  ASSUME threads \in 1 .. MaxThreads, NEW w \in Worker
  PROVE  NextSlot(w) = w + threads /\ NextSlot(w + threads) = w
<1>1. Slots = 2 * threads /\ threads \in Nat \ {0} /\ w \in 0 .. threads - 1
  BY PipelineAssumption DEF Slots, Worker
<1>2. (w + threads) % (2 * threads) = w + threads
  BY <1>1
<1>3. (w + 2 * threads) % (2 * threads) = w % (2 * threads)
  <2>1. 2 * threads \in Nat \ {0} /\ w \in Nat
    BY <1>1
  <2> QED
    BY <2>1, ModFacts
<1>4. w % (2 * threads) = w
  BY <1>1
<1> QED
  BY <1>1, <1>2, <1>3, <1>4 DEF NextSlot

(* No two workers share a slot.                                             *)
LEMMA OwnSlot ==
  ASSUME PipeType, OwnSlots, NEW w \in Worker, NEW o \in Worker, w # o
  PROVE  wslot[w] # wslot[o]
<1>1. threads \in 1 .. MaxThreads /\ w \in 0 .. threads - 1 /\ o \in 0 .. threads - 1
  BY DEF PipeType, Worker
<1>2. threads \in Int
  BY <1>1
<1> QED
  BY <1>1, <1>2 DEF OwnSlots

LEMMA StopSlotFacts ==
  ASSUME threads \in 1 .. MaxThreads, Worker # {}, NEW k \in 0 .. Slots - 1
  PROVE  StopSlot(k) \in Slot
<1>1. Slots = 2 * threads /\ threads \in Nat /\ k \in 0 .. 2 * threads - 1
  BY PipelineAssumption DEF Slots, Worker
<1>2. k \div 2 \in 0 .. threads - 1 /\ k % 2 \in {0, 1}
  BY <1>1
<1>3. (k % 2) * threads \in {0, threads}
  BY <1>1, <1>2
<1> QED
  BY <1>1, <1>2, <1>3 DEF StopSlot, Slot

-----------------------------------------------------------------------------
LEMMA PipeInitInv == PipeInit => PipeInv({})
<1> SUFFICES ASSUME PipeInit PROVE PipeInv({})
  OBVIOUS
<1>1. threads \in 1 .. MaxThreads
  BY DEF PipeInit
<1>2. PipeType
  BY <1>1, SlotFacts DEF PipeInit, PipeType, Job, NoData
<1> QED
  BY <1>2 DEF PipeInit, PipeInv, OwnSlots, Handshake, Waited, Results, Made, Working

LEMMA PipeStutter ==
  ASSUME NEW F, PipeInv(F), UNCHANGED pipeVars
  PROVE  PipeInv(F)'
<1>1. UNCHANGED <<threads, job, busy, startEv, doneEv, wpc, wslot, freed>>
  BY DEF pipeVars
<1>2. Slots' = Slots /\ Slot' = Slot /\ Worker' = Worker
  BY <1>1 DEF Slots, Slot, Worker
<1> QED
  BY <1>1, <1>2 DEF PipeInv, PipeType, OwnSlots, Handshake, Waited, Results, Working

(* A worker's step.                                                         *)
LEMMA WorkerKeeps ==
  ASSUME NEW F, PipeInv(F), NEW w \in Worker, WorkerStep(w)
  PROVE  /\ PipeInv(F)'
         /\ UNCHANGED <<threads, busy, freed>>
         /\ \A s \in Slot : /\ job'[s].n = job[s].n /\ job'[s].raw = job[s].raw
                            /\ job'[s].good = job[s].good
                            /\ job'[s] = job[s] \/ (busy[s] /\ ~doneEv[s])
<1> USE DEF Working
<1>1. /\ PipeType /\ OwnSlots /\ Handshake /\ Waited /\ Results(F) /\ \A s \in F : ~busy[s]
      /\ UNCHANGED <<threads, busy, freed>>
  BY DEF PipeInv, WorkerStep, WorkerTake, WorkerRun, WorkerSignal
<1>2. Slots' = Slots /\ Slot' = Slot /\ Worker' = Worker
  BY <1>1 DEF Slots, Slot, Worker
<1>3. /\ wslot[w] \in Slot /\ Slot \subseteq Int
      /\ \A o \in Worker : o # w => wslot[o] # wslot[w]
  BY <1>1, OwnSlot DEF PipeType, Slot
<1>4. CASE WorkerTake(w)
  <2>1. /\ wpc[w] = "wait" /\ startEv[wslot[w]]
        /\ startEv' = [startEv EXCEPT ![wslot[w]] = FALSE]
        /\ wpc' = [wpc EXCEPT ![w] = IF job[wslot[w]].n < 0 THEN "ended" ELSE "run"]
        /\ UNCHANGED <<job, busy, doneEv, wslot, freed>>
    BY <1>4 DEF WorkerTake
  <2>2. PipeType' /\ OwnSlots' /\ Waited'
    BY <1>1, <1>2, <2>1 DEF PipeType, OwnSlots, Waited
  <2>3. Results(F)'
    BY <1>1, <1>2, <2>1 DEF PipeType, Results
  <2>4. wpc'[w] = "run" => busy[wslot[w]] /\ ~doneEv[wslot[w]]
    <3>1. wpc'[w] = "run" => ~(job[wslot[w]].n < 0)
      BY <1>1, <2>1 DEF PipeType
    <3>2. job[wslot[w]].n # Stop \/ job[wslot[w]].n < 0
      BY DEF Stop
    <3> QED
      BY <1>1, <1>3, <2>1, <3>1, <3>2 DEF Handshake
  <2>5. Handshake'
    BY <1>1, <1>2, <1>3, <2>1, <2>4 DEF PipeType, Handshake
  <2> QED
    BY <1>1, <2>1, <2>2, <2>3, <2>5 DEF PipeInv
<1>5. CASE WorkerRun(w)
  <2>1. PICK memory \in BOOLEAN : job' = [job EXCEPT ![wslot[w]] = RunJob(@, memory)]
    BY <1>5 DEF WorkerRun
  <2>2. /\ wpc[w] = "run" /\ wpc' = [wpc EXCEPT ![w] = "signal"]
        /\ UNCHANGED <<busy, startEv, doneEv, wslot, freed>>
    BY <1>5 DEF WorkerRun
  <2>3. job[wslot[w]] \in Job /\ job'[wslot[w]] = RunJob(job[wslot[w]], memory)
    BY <1>1, <1>3, <2>1 DEF PipeType
  <2>4. /\ job'[wslot[w]] \in Job /\ Made(job'[wslot[w]])
        /\ job'[wslot[w]].n = job[wslot[w]].n /\ job'[wslot[w]].raw = job[wslot[w]].raw
        /\ job'[wslot[w]].good = job[wslot[w]].good
    BY <2>3 DEF RunJob, Job, Made
  <2>5. \A s \in Slot : s # wslot[w] => job'[s] = job[s]
    BY <1>1, <2>1 DEF PipeType
  <2>6. PipeType' /\ OwnSlots' /\ Waited'
    BY <1>1, <1>2, <2>1, <2>2, <2>4 DEF PipeType, OwnSlots, Waited
  <2>7. busy[wslot[w]] /\ ~doneEv[wslot[w]]
    BY <1>1, <2>2 DEF Handshake
  <2>8. Handshake'
    BY <1>1, <1>2, <2>2, <2>4, <2>5 DEF PipeType, Handshake
  <2>9. Results(F)'
    BY <1>1, <1>2, <1>3, <2>2, <2>4, <2>5, <2>7 DEF PipeType, Results
  <2> QED
    BY <1>1, <2>2, <2>4, <2>5, <2>6, <2>7, <2>8, <2>9 DEF PipeInv
<1>6. CASE WorkerSignal(w)
  <2>1. /\ wpc[w] = "signal" /\ wpc' = [wpc EXCEPT ![w] = "wait"]
        /\ doneEv' = [doneEv EXCEPT ![wslot[w]] = TRUE]
        /\ wslot' = [wslot EXCEPT ![w] = NextSlot(@)]
        /\ UNCHANGED <<job, busy, startEv, freed>>
    BY <1>6 DEF WorkerSignal
  <2>2. threads \in 1 .. MaxThreads
    BY <1>1 DEF PipeType
  <2>3. wslot'[w] \in Slot /\ (wslot'[w] = w \/ wslot'[w] = w + threads)
    BY <1>1, <2>1, <2>2, SlotFacts, NextSlotFacts DEF PipeType, OwnSlots
  <2>4. PipeType' /\ OwnSlots' /\ Waited'
    BY <1>1, <1>2, <2>1, <2>3 DEF PipeType, OwnSlots, Waited
  <2>5. busy[wslot[w]] /\ ~startEv[wslot[w]]
    BY <1>1, <2>1 DEF Handshake
  <2>6. Handshake'
    BY <1>1, <1>2, <1>3, <2>1, <2>5 DEF PipeType, Handshake
  <2>7. Results(F)'
    BY <1>1, <1>2, <2>1 DEF PipeType, Results
  <2> QED
    BY <1>1, <2>1, <2>4, <2>6, <2>7 DEF PipeInv
<1> QED
  BY <1>4, <1>5, <1>6 DEF WorkerStep

(* The main thread's operations.  It fills a slot that is not busy,         *)
LEMMA FillKeeps ==
  ASSUME PipeInv({}), NEW s \in Slot, ~busy[s], freed = -1, NEW v \in Job,
         job' = [job EXCEPT ![s] = v],
         UNCHANGED <<threads, busy, startEv, doneEv, wpc, wslot, freed>>
  PROVE  PipeInv({s})' /\ (Made(v) => PipeInv({})')
<1> USE DEF Working
<1>1. /\ PipeType /\ OwnSlots /\ Handshake /\ Waited /\ Results({})
      /\ Slots' = Slots /\ Slot' = Slot /\ Worker' = Worker
  BY DEF PipeInv, Slots, Slot, Worker
<1>2. job'[s] = v /\ \A r \in Slot : r # s => job'[r] = job[r]
  BY <1>1 DEF PipeType
<1>3. PipeType' /\ OwnSlots' /\ Waited'
  BY <1>1 DEF PipeType, OwnSlots, Waited
<1>4. ~startEv[s]
  BY <1>1, SlotFacts DEF Handshake, PipeType
<1>5. Handshake'
  BY <1>1, <1>2, <1>4 DEF PipeType, Handshake
<1>6. \A w \in Worker : wpc[w] = "signal" => wslot[w] # s
  BY <1>1 DEF Handshake
<1>7. Results({s})' /\ (Made(v) => Results({})')
  BY <1>1, <1>2, <1>6 DEF PipeType, Results
<1> QED
  BY <1>3, <1>5, <1>7 DEF PipeInv

(* starts it,                                                               *)
LEMMA StartKeeps ==
  ASSUME NEW s \in Slot, PipeInv({s}), freed = -1, Start(s), UNCHANGED threads
  PROVE  /\ PipeInv({})'
         /\ freed' = freed /\ \A r \in Slot : r # s => busy'[r] = busy[r]
         /\ \A r \in Slot : /\ job'[r].n = job[r].n /\ job'[r].raw = job[r].raw
                            /\ job'[r].good = job[r].good
<1> USE DEF Working
<1>1. /\ PipeType /\ OwnSlots /\ Handshake /\ Waited /\ Results({s}) /\ ~busy[s]
      /\ Slots' = Slots /\ Slot' = Slot /\ Worker' = Worker
  BY DEF PipeInv, Slots, Slot, Worker
<1>2. CASE threads > 1
  <2>1. /\ busy' = [busy EXCEPT ![s] = TRUE] /\ startEv' = [startEv EXCEPT ![s] = TRUE]
        /\ UNCHANGED <<job, doneEv, wpc, wslot, freed>>
    BY <1>2 DEF Start
  <2>2. PipeType' /\ OwnSlots'
    BY <1>1, <2>1 DEF PipeType, OwnSlots
  <2>3. Waited'
    BY <1>1, <2>1 DEF Waited, Slot
  <2>4. ~doneEv[s]
    BY <1>1 DEF Handshake
  <2>5. Handshake'
    BY <1>1, <2>1, <2>4 DEF PipeType, Handshake
  <2>6. Results({})'
    BY <1>1, <2>1, <2>4 DEF PipeType, Results
  <2> QED
    BY <1>1, <2>1, <2>2, <2>3, <2>5, <2>6 DEF PipeInv, PipeType
<1>3. CASE ~(threads > 1)
  <2>1. PICK memory \in BOOLEAN : job' = [job EXCEPT ![s] = RunJob(@, memory)]
    BY <1>3 DEF Start
  <2>2. UNCHANGED <<busy, startEv, doneEv, wpc, wslot, freed>> /\ Worker = {}
    BY <1>3 DEF Start, Worker
  <2>3. job[s] \in Job /\ job'[s] = RunJob(job[s], memory)
    BY <1>1, <2>1 DEF PipeType
  <2>4. /\ job'[s] \in Job /\ Made(job'[s])
        /\ job'[s].n = job[s].n /\ job'[s].raw = job[s].raw
        /\ job'[s].good = job[s].good
    BY <2>3 DEF RunJob, Job, Made
  <2>5. \A r \in Slot : r # s => job'[r] = job[r]
    BY <1>1, <2>1 DEF PipeType
  <2>6. PipeType' /\ OwnSlots' /\ Waited'
    BY <1>1, <2>1, <2>2, <2>4 DEF PipeType, OwnSlots, Waited
  <2>7. Handshake'
    BY <1>1, <2>2, <2>4, <2>5 DEF PipeType, Handshake
  <2>8. Results({})'
    BY <1>1, <2>2, <2>4, <2>5 DEF PipeType, Results
  <2> QED
    BY <2>2, <2>4, <2>5, <2>6, <2>7, <2>8 DEF PipeInv
<1> QED
  BY <1>2, <1>3

(* waits for it and then has its result,                                    *)
LEMMA FinishKeeps ==
  ASSUME PipeInv({}), NEW s \in Slot, Finish(s), freed <= Slots,
         UNCHANGED <<threads, job, startEv, wpc, wslot>>,
         freed' \in -1 .. 2 * Slots, Waited'
  PROVE  /\ PipeInv({})'
         /\ ~busy'[s] /\ \A r \in Slot : busy'[r] => busy[r]
         /\ Made(job[s])
<1> USE DEF Working
<1>1. /\ PipeType /\ OwnSlots /\ Handshake /\ Results({})
      /\ Slots' = Slots /\ Slot' = Slot /\ Worker' = Worker
  BY DEF PipeInv, Slots, Slot, Worker
<1>2. /\ busy[s] => doneEv[s]
      /\ doneEv' = [doneEv EXCEPT ![s] = @ /\ ~busy[s]]
      /\ busy' = [busy EXCEPT ![s] = FALSE]
  BY DEF Finish
<1>3. /\ ~busy'[s] /\ ~doneEv'[s]
      /\ \A r \in Slot : r # s => busy'[r] = busy[r] /\ doneEv'[r] = doneEv[r]
  BY <1>1, <1>2 DEF PipeType, Handshake
<1>4. PipeType' /\ OwnSlots'
  <2>1. busy' \in [Slot -> BOOLEAN] /\ doneEv' \in [Slot -> BOOLEAN]
    BY <1>1, <1>2 DEF PipeType
  <2> QED
    BY <1>1, <2>1 DEF PipeType, OwnSlots
<1>5. \A w \in Worker : wpc[w] \in {"run", "signal"} => wslot[w] # s
  BY <1>1, <1>2 DEF Handshake
<1>6. \A r \in Slot : startEv[r] => busy[r] /\ ~doneEv[r]
  BY <1>1, SlotFacts DEF Handshake, PipeType
<1>7. Handshake'
  BY <1>1, <1>2, <1>3, <1>5, <1>6 DEF PipeType, Handshake
<1>8. Made(job[s])
  BY <1>1, <1>2 DEF Results
<1>9. Results({})'
  BY <1>1, <1>2, <1>3, <1>8 DEF Results
<1> QED
  BY <1>3, <1>4, <1>7, <1>8, <1>9 DEF PipeInv

(* begins to end the pipeline,                                              *)
LEMMA DestroyBegins ==
  ASSUME PipeInv({}), freed = -1, freed' = 0,
         UNCHANGED <<threads, job, busy, startEv, doneEv, wpc, wslot>>
  PROVE  PipeInv({})'
<1>1. /\ PipeType /\ OwnSlots /\ Handshake /\ Results({})
      /\ Slots' = Slots /\ Slot' = Slot /\ Worker' = Worker
      /\ Slots \in Nat \ {0} /\ Slot = 0 .. Slots - 1
  BY SlotFacts DEF PipeInv, PipeType, Slots, Slot, Worker
<1>2. Waited'
  BY <1>1 DEF Waited
<1>3. Handshake'
  BY <1>1 DEF Handshake, Working
<1> QED
  BY <1>1, <1>2, <1>3 DEF PipeInv, PipeType, OwnSlots, Results

(* and at last ends the workers.                                            *)
LEMMA DestroyKeeps ==
  ASSUME PipeInv({}), DestroyWait \/ DestroyStop, UNCHANGED threads
  PROVE  PipeInv({})' /\ (\A s \in Slot : busy'[s] => busy[s])
         /\ \A s \in Slot : job'[s].good = job[s].good /\ job'[s].ok = job[s].ok
<1> USE DEF Working
<1>1. /\ PipeType /\ OwnSlots /\ Handshake /\ Waited /\ Results({})
      /\ Slots' = Slots /\ Slot' = Slot /\ Worker' = Worker
      /\ Slots \in Nat \ {0} /\ Slot = 0 .. Slots - 1
  BY SlotFacts DEF PipeInv, PipeType, Slots, Slot, Worker
<1>2. CASE DestroyWait
  <2>1. /\ freed \in Slot /\ Finish(freed) /\ UNCHANGED <<job, startEv, wpc, wslot>>
        /\ freed' = freed + 1 \/ (freed + 1 = Slots /\ freed' = 2 * Slots)
    BY <1>2 DEF DestroyWait
  <2>2. freed' \in -1 .. 2 * Slots /\ freed <= Slots
    BY <1>1, <2>1
  <2>3. Waited'
    <3>1. /\ ~busy'[freed] /\ \A r \in Slot : r # freed => busy'[r] = busy[r]
      BY <1>1, <2>1 DEF Finish, PipeType
    <3> QED
      BY <1>1, <2>1, <3>1 DEF Waited
  <2> QED
    BY <2>1, <2>2, <2>3, FinishKeeps
<1>3. CASE DestroyStop
  <2>1. PICK s : s = StopSlot(freed - Slots)
    OBVIOUS
  <2>2. /\ freed \in Slots .. 2 * Slots - 1 /\ Worker # {}
        /\ job' = [job EXCEPT ![s].n = Stop] /\ startEv' = [startEv EXCEPT ![s] = TRUE]
        /\ freed' = freed + 1 /\ UNCHANGED <<busy, doneEv, wpc, wslot>>
    BY <1>3, <2>1 DEF DestroyStop
  <2>3. s \in Slot
    <3>1. freed - Slots \in 0 .. Slots - 1
      BY <1>1, <2>2
    <3> QED
      BY <1>1, <2>1, <2>2, <3>1, StopSlotFacts DEF PipeType
  <2>4. \A r \in Slot : ~busy[r] /\ ~doneEv[r]
    BY <1>1, <2>2 DEF Waited, Handshake
  <2>5. /\ job[s] \in Job /\ job'[s] = [job[s] EXCEPT !.n = Stop]
        /\ \A r \in Slot : r # s => job'[r] = job[r]
    BY <1>1, <2>2, <2>3 DEF PipeType
  <2>6. /\ job'[s] \in Job /\ job'[s].n = Stop
        /\ job'[s].good = job[s].good /\ job'[s].ok = job[s].ok
        /\ job'[s].raw = job[s].raw /\ job'[s].out = job[s].out
    BY <2>5 DEF Job, Stop
  <2>7. freed' \in -1 .. 2 * Slots /\ freed' > Slots
    BY <1>1, <2>2
  <2>8. PipeType' /\ OwnSlots'
    BY <1>1, <2>2, <2>3, <2>6, <2>7 DEF PipeType, OwnSlots
  <2>9. Waited' /\ Results({})'
    <3>1. \A w \in Worker : ~Working(w)
      BY <1>1, <2>4 DEF Handshake, PipeType
    <3> QED
      BY <1>1, <2>2, <2>3, <2>4, <2>5, <2>6, <3>1 DEF Waited, Results, Made
  <2>10. Handshake'
    BY <1>1, <2>2, <2>3, <2>4, <2>5, <2>6, <2>7 DEF PipeType, Handshake
  <2> QED
    BY <2>2, <2>5, <2>6, <2>8, <2>9, <2>10 DEF PipeInv
<1> QED
  BY <1>2, <1>3

(* While a worker works on a job nobody else does, and no slot that the     *)
(* main thread is filling is among them.                                    *)
LEMMA NoTwoOwners ==
  ASSUME NEW F, PipeInv(F), NEW filling, \A s \in filling : ~busy[s]
  PROVE  OneOwner(filling)
BY DEF PipeInv, Handshake, Working, OneOwner
=============================================================================
