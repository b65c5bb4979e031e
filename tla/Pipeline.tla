------------------------------ MODULE Pipeline ------------------------------
(***************************************************************************)
(* The block pipeline of syc (src/src/sycblocks.pas, TPipeline, TWorker,   *)
(* TJob): Slots jobs in a ring, threads worker threads, and a main thread  *)
(* that fills a free slot, starts its job, and later waits for it.  Slot s *)
(* is worked on by thread s mod threads.                                   *)
(*                                                                         *)
(* This module holds the pipeline's state, the workers' steps and the      *)
(* operations the main thread calls; the main thread itself is the         *)
(* specification that EXTENDS this one (StreamCompress, StreamDecompress). *)
(*                                                                         *)
(* A block's bytes are one value, its position in the input, so that a job *)
(* worked on twice, out of turn, or refilled too early shows as a wrong    *)
(* value in the output.  raw is what the job is given, out what it makes   *)
(* of it; good says whether what it is given can be worked on, which a job *)
(* that decompresses finds out (payload, tag and checksum).                *)
(***************************************************************************)
EXTENDS Integers, Sequences

CONSTANT MaxThreads      \* bound: the largest number for -t

ASSUME PipelineAssumption == MaxThreads \in Nat \ {0}

VARIABLES
  threads,    \* -t: the number of worker threads
  job,        \* slot -> its TJob: [n, raw, good, out, ok]
  busy,       \* slot -> started and not yet waited for
  startEv,    \* slot -> the auto-reset event its worker waits for
  doneEv,     \* slot -> the auto-reset event the main thread waits for
  wpc,        \* worker -> "wait" | "run" | "signal" | "ended"
  wslot,      \* worker -> the slot it works on, or waits for
  freed       \* how far TPipeline.Destroy is: see Destroy below

pipeVars == <<threads, job, busy, startEv, doneEv, wpc, wslot, freed>>

(* Two slots for each thread; with one thread no worker runs. *)
Slots == IF threads > 1 THEN 2 * threads ELSE 1
Slot == 0 .. Slots - 1
Worker == IF threads > 1 THEN 0 .. threads - 1 ELSE {}

NoData == -1    \* the value of raw and out before they hold a block
Stop == -1      \* the n of a job that tells its worker to end

PipeInit ==
  /\ threads \in 1 .. MaxThreads
  /\ job = [s \in Slot |-> [n |-> 0, raw |-> NoData, good |-> FALSE,
                          out |-> NoData, ok |-> FALSE]]
  /\ busy = [s \in Slot |-> FALSE]
  /\ startEv = [s \in Slot |-> FALSE]
  /\ doneEv = [s \in Slot |-> FALSE]
  /\ wpc = [w \in Worker |-> "wait"]
  /\ wslot = [w \in Worker |-> w]
  /\ freed = -1

-----------------------------------------------------------------------------
(* RunJob: the block's work.  Bad data, or an allocation that fails, ends   *)
(* it with ok FALSE.                                                        *)
RunJob(j, memory) ==
  [j EXCEPT !.ok = memory /\ j.good, !.out = IF memory /\ j.good THEN j.raw ELSE @]

(* A worker wakes on its slot's event, which resets it, and ends when the   *)
(* job has no block for it.                                                 *)
WorkerTake(w) ==
  /\ wpc[w] = "wait"
  /\ startEv[wslot[w]]
  /\ startEv' = [startEv EXCEPT ![wslot[w]] = FALSE]
  /\ wpc' = [wpc EXCEPT ![w] = IF job[wslot[w]].n < 0 THEN "ended" ELSE "run"]
  /\ UNCHANGED <<job, busy, doneEv, wslot, freed>>

WorkerRun(w) ==
  /\ wpc[w] = "run"
  /\ \E memory \in BOOLEAN : job' = [job EXCEPT ![wslot[w]] = RunJob(@, memory)]
  /\ wpc' = [wpc EXCEPT ![w] = "signal"]
  /\ UNCHANGED <<busy, startEv, doneEv, wslot, freed>>

(* Mistake: the slot beside this one, which is another thread's. *)
NextSlotBeside(s) == (s + 1) % Slots

(* The thread's other slot comes next. *)
NextSlot(s) == (s + threads) % Slots

WorkerSignal(w) ==
  /\ wpc[w] = "signal"
  /\ doneEv' = [doneEv EXCEPT ![wslot[w]] = TRUE]
  /\ wslot' = [wslot EXCEPT ![w] = NextSlot(@)]
  /\ wpc' = [wpc EXCEPT ![w] = "wait"]
  /\ UNCHANGED <<job, busy, startEv, freed>>

WorkerStep(w) ==
  /\ w \in Worker
  /\ WorkerTake(w) \/ WorkerRun(w) \/ WorkerSignal(w)
  /\ UNCHANGED threads

-----------------------------------------------------------------------------
(* Operations of the main thread.                                           *)

(* Start(s): hand the filled slot to its worker; with one thread the main   *)
(* thread does the job itself.                                              *)
Start(s) ==
  IF threads > 1
  THEN /\ busy' = [busy EXCEPT ![s] = TRUE]
       /\ startEv' = [startEv EXCEPT ![s] = TRUE]
       /\ UNCHANGED <<job, doneEv, wpc, wslot, freed>>
  ELSE /\ \E memory \in BOOLEAN : job' = [job EXCEPT ![s] = RunJob(@, memory)]
       /\ UNCHANGED <<busy, startEv, doneEv, wpc, wslot, freed>>

(* Mistake: the slot is taken back without waiting for its event. *)
FinishWithoutWait(s) ==
  /\ doneEv' = [doneEv EXCEPT ![s] = @ /\ ~busy[s]]
  /\ busy' = [busy EXCEPT ![s] = FALSE]

(* Finish(s) returns at once for a slot that is not busy, else when the     *)
(* slot's event is set, and resets it.                                      *)
Finish(s) ==
  /\ busy[s] => doneEv[s]
  /\ doneEv' = [doneEv EXCEPT ![s] = @ /\ ~busy[s]]
  /\ busy' = [busy EXCEPT ![s] = FALSE]

(* Destroy, on success and on an error alike: the jobs still running are    *)
(* waited for, slot by slot (freed = 0 .. Slots - 1), then each worker's    *)
(* two slots get a job that ends it (freed = Slots .. 2 * Slots - 1), then  *)
(* the workers are waited for and everything is freed (freed = 2 * Slots).  *)
StopSlot(k) == (k \div 2) + (k % 2) * threads

DestroyWait ==
  /\ freed \in Slot
  /\ Finish(freed)
  /\ freed' = IF Worker = {} /\ freed + 1 = Slots THEN 2 * Slots ELSE freed + 1
  /\ UNCHANGED <<job, startEv, wpc, wslot>>

DestroyStop ==
  /\ freed \in Slots .. 2 * Slots - 1
  /\ Worker # {}
  /\ LET s == StopSlot(freed - Slots)
     IN /\ job' = [job EXCEPT ![s].n = Stop]
        /\ startEv' = [startEv EXCEPT ![s] = TRUE]
  /\ freed' = freed + 1
  /\ UNCHANGED <<busy, doneEv, wpc, wslot>>

(* The jobs and events may be freed: no thread will touch them again.       *)
Joined == freed = 2 * Slots /\ \A w \in Worker : wpc[w] = "ended"

-----------------------------------------------------------------------------
(* What every client keeps: while a worker works on a job, the job is       *)
(* marked busy, its result is not announced yet, and it is not among the    *)
(* slots that the main thread is filling.                                   *)
OneOwner(filling) ==
  \A w \in Worker : wpc[w] \in {"run", "signal"} =>
    LET s == wslot[w]
    IN busy[s] /\ ~startEv[s] /\ ~doneEv[s] /\ s \notin filling
=============================================================================
