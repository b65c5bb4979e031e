------------------------------ MODULE TaskPool ------------------------------
(***************************************************************************)
(* The task pool of syc (src/src/sycblocks.pas, TTaskPool, TPoolThread):   *)
(* Run(count, proc) has the calling thread and the pool's helper threads   *)
(* take the tasks 0 .. count - 1 from a shared counter, then waits for the *)
(* helpers.  syc a hashes a batch's fragments with it (TAdder.StoreBatch). *)
(***************************************************************************)
EXTENDS Integers

CONSTANTS
  NThreads,     \* -t: the caller and NThreads - 1 helpers
  MaxCount,     \* bound: the most tasks of a Run
  MaxRuns       \* bound: how often Run is called

ASSUME TaskPoolAssumption ==
  NThreads \in Nat \ {0} /\ MaxCount \in Nat \ {0} /\ MaxRuns \in Nat

VARIABLES
  caller,     \* where the caller is
  k,          \* the helper whose event the caller is at
  helper,     \* helper -> "asleep" | "working" | "ended"
  startEv,    \* helper -> its auto-reset start event
  doneEv,     \* helper -> its auto-reset done event
  next,       \* the counter (InterLockedIncrement)
  count,      \* the tasks of this Run
  work,       \* thread -> "out" | "claim" | "task": where it is in Work
  index,      \* thread -> the task it took
  failed,     \* a helper's task raised an exception
  raised,     \* the caller's task raised an exception
  stopping,   \* Destroy was called
  claims,     \* task -> how often it was taken in this Run
  result,     \* task -> "none" | "done" | "failed"
  runs        \* calls of Run so far

poolVars == <<caller, k, helper, startEv, doneEv, next, count, work, index, failed,
              raised, stopping, claims, result, runs>>

Caller == 0
Helper == 1 .. NThreads - 1
Thread == 0 .. NThreads - 1
Task == 0 .. MaxCount - 1

PoolInit ==
  /\ caller = "free"
  /\ k = 1
  /\ helper = [h \in Helper |-> "asleep"]
  /\ startEv = [h \in Helper |-> FALSE]
  /\ doneEv = [h \in Helper |-> FALSE]
  /\ next = 0
  /\ count = 0
  /\ work = [t \in Thread |-> "out"]
  /\ index = [t \in Thread |-> 0]
  /\ failed = FALSE
  /\ raised = FALSE
  /\ stopping = FALSE
  /\ claims = [i \in Task |-> 0]
  /\ result = [i \in Task |-> "none"]
  /\ runs = 0

-----------------------------------------------------------------------------
(* Work, by any thread: take tasks until there are none left. *)
Claim(t) ==
  /\ work[t] = "claim"
  /\ next' = next + 1
  /\ IF next < count
     THEN /\ index' = [index EXCEPT ![t] = next]
          /\ claims' = [claims EXCEPT ![next] = @ + 1]
          /\ work' = [work EXCEPT ![t] = "task"]
     ELSE /\ work' = [work EXCEPT ![t] = "out"]
          /\ UNCHANGED <<index, claims>>
  /\ UNCHANGED <<caller, k, helper, startEv, doneEv, count, failed, raised, stopping, result, runs>>

TaskDone(t) ==
  /\ work[t] = "task"
  /\ result' = [result EXCEPT ![index[t]] = "done"]
  /\ work' = [work EXCEPT ![t] = "claim"]
  /\ UNCHANGED <<caller, k, helper, startEv, doneEv, next, count, index, failed, raised,
                 stopping, claims, runs>>

(* The task raises an exception, which ends Work: a helper notes it, the    *)
(* caller passes it on when the helpers are done.                           *)
TaskFails(t) ==
  /\ work[t] = "task"
  /\ result' = [result EXCEPT ![index[t]] = "failed"]
  /\ work' = [work EXCEPT ![t] = "out"]
  /\ failed' = (failed \/ t # Caller)
  /\ raised' = (raised \/ t = Caller)
  /\ UNCHANGED <<caller, k, helper, startEv, doneEv, next, count, index, stopping, claims, runs>>

Work(t) == Claim(t) \/ TaskDone(t) \/ TaskFails(t)

-----------------------------------------------------------------------------
(* TPoolThread.Execute *)
HelperWake(h) ==
  /\ helper[h] = "asleep"
  /\ startEv[h]
  /\ startEv' = [startEv EXCEPT ![h] = FALSE]
  /\ IF stopping
     THEN /\ helper' = [helper EXCEPT ![h] = "ended"]
          /\ UNCHANGED work
     ELSE /\ helper' = [helper EXCEPT ![h] = "working"]
          /\ work' = [work EXCEPT ![h] = "claim"]
  /\ UNCHANGED <<caller, k, doneEv, next, count, index, failed, raised, stopping, claims, result, runs>>

HelperSignal(h) ==
  /\ helper[h] = "working"
  /\ work[h] = "out"
  /\ doneEv' = [doneEv EXCEPT ![h] = TRUE]
  /\ helper' = [helper EXCEPT ![h] = "asleep"]
  /\ UNCHANGED <<caller, k, startEv, next, count, work, index, failed, raised, stopping, claims, result, runs>>

-----------------------------------------------------------------------------
(* Run: the caller. *)

(* One task, or no helper: the caller does it all. *)
Run(n) ==
  /\ caller \in {"free", "returned", "raised"}
  /\ runs < MaxRuns
  /\ runs' = runs + 1
  /\ count' = n
  /\ next' = 0
  /\ raised' = FALSE
  /\ claims' = [i \in Task |-> 0]
  /\ result' = [i \in Task |-> "none"]
  /\ k' = 1
  /\ IF Helper = {} \/ n = 1
     THEN caller' = "alone" /\ work' = [work EXCEPT ![Caller] = "claim"]
     ELSE caller' = "wake" /\ UNCHANGED work
  /\ UNCHANGED <<helper, startEv, doneEv, index, failed, stopping>>

(* Mistake: the last helper is not woken, though it is waited for. *)
WakeOneLess ==
  /\ caller = "wake"
  /\ startEv' = [startEv EXCEPT ![k] = TRUE]
  /\ k' = k + 1
  /\ caller' = IF k >= NThreads - 2 THEN "clear" ELSE "wake"
  /\ UNCHANGED <<helper, doneEv, next, count, work, index, failed, raised, stopping, claims, result, runs>>

Wake ==
  /\ caller = "wake"
  /\ startEv' = [startEv EXCEPT ![k] = TRUE]
  /\ k' = k + 1
  /\ caller' = IF k = NThreads - 1 THEN "clear" ELSE "wake"
  /\ UNCHANGED <<helper, doneEv, next, count, work, index, failed, raised, stopping, claims, result, runs>>

(* Mistake: the counter too is set after the helpers were woken. *)
ClearNext ==
  /\ caller = "clear"
  /\ failed' = FALSE
  /\ next' = 0
  /\ work' = [work EXCEPT ![Caller] = "claim"]
  /\ k' = 1
  /\ caller' = "wait"
  /\ UNCHANGED <<helper, startEv, doneEv, count, index, raised, stopping, claims, result, runs>>

(* failed := False comes after the helpers were woken. *)
Clear ==
  /\ caller = "clear"
  /\ failed' = FALSE
  /\ work' = [work EXCEPT ![Caller] = "claim"]
  /\ k' = 1
  /\ caller' = "wait"
  /\ UNCHANGED <<helper, startEv, doneEv, next, count, index, raised, stopping, claims, result, runs>>

(* When its own Work is over, whether it ended or raised. *)
Wait ==
  /\ caller = "wait"
  /\ work[Caller] = "out"
  /\ k < NThreads
  /\ doneEv[k]
  /\ doneEv' = [doneEv EXCEPT ![k] = FALSE]
  /\ k' = k + 1
  /\ UNCHANGED <<caller, helper, startEv, next, count, work, index, failed, raised, stopping,
                 claims, result, runs>>

(* Mistake: the last helper is not waited for. *)
ReturnEarly ==
  /\ work[Caller] = "out"
  /\ \/ caller = "alone" /\ caller' = IF raised THEN "raised" ELSE "returned"
     \/ /\ caller = "wait" /\ k >= NThreads - 1
        /\ caller' = IF raised \/ failed THEN "raised" ELSE "returned"
  /\ UNCHANGED <<k, helper, startEv, doneEv, next, count, work, index, failed, raised, stopping,
                 claims, result, runs>>

(* Mistake: an exception of the caller's own task is swallowed. *)
ReturnSwallows ==
  /\ work[Caller] = "out"
  /\ \/ caller = "alone" /\ caller' = "returned"
     \/ /\ caller = "wait" /\ k = NThreads
        /\ caller' = IF failed THEN "raised" ELSE "returned"
  /\ UNCHANGED <<k, helper, startEv, doneEv, next, count, work, index, failed, raised, stopping,
                 claims, result, runs>>

Return ==
  /\ work[Caller] = "out"
  /\ \/ caller = "alone" /\ caller' = IF raised THEN "raised" ELSE "returned"
     \/ /\ caller = "wait" /\ k = NThreads
        /\ caller' = IF raised \/ failed THEN "raised" ELSE "returned"
  /\ UNCHANGED <<k, helper, startEv, doneEv, next, count, work, index, failed, raised, stopping,
                 claims, result, runs>>

(* Destroy *)
Destroy ==
  /\ caller \in {"free", "returned", "raised"}
  /\ stopping' = TRUE
  /\ k' = 1
  /\ caller' = "stop"
  /\ UNCHANGED <<helper, startEv, doneEv, next, count, work, index, failed, raised, claims, result, runs>>

StopHelper ==
  /\ caller = "stop"
  /\ k < NThreads
  /\ startEv' = [startEv EXCEPT ![k] = TRUE]
  /\ k' = k + 1
  /\ UNCHANGED <<caller, helper, doneEv, next, count, work, index, failed, raised, stopping,
                 claims, result, runs>>

(* Each helper is waited for, then freed with its events. *)
Join ==
  /\ caller = "stop"
  /\ k = NThreads
  /\ \A h \in Helper : helper[h] = "ended"
  /\ caller' = "gone"
  /\ UNCHANGED <<k, helper, startEv, doneEv, next, count, work, index, failed, raised, stopping,
                 claims, result, runs>>

CallerStep ==
  \/ \E n \in 1 .. MaxCount : Run(n)
  \/ Wake \/ Clear \/ Work(Caller) \/ Wait \/ Return
  \/ Destroy \/ StopHelper \/ Join

HelperStep(h) == HelperWake(h) \/ Work(h) \/ HelperSignal(h)

PoolNext == CallerStep \/ \E h \in Helper : HelperStep(h)

(* A thread that can run does, sooner or later. *)
PoolFairness == WF_poolVars(CallerStep) /\ \A h \in Helper : WF_poolVars(HelperStep(h))

PoolSpec == PoolInit /\ [][PoolNext]_poolVars /\ PoolFairness

-----------------------------------------------------------------------------
TypeOK ==
  /\ caller \in {"free", "alone", "wake", "clear", "wait", "returned", "raised", "stop", "gone"}
  /\ k \in 1 .. NThreads
  /\ helper \in [Helper -> {"asleep", "working", "ended"}]
  /\ startEv \in [Helper -> BOOLEAN]
  /\ doneEv \in [Helper -> BOOLEAN]
  /\ next \in Nat
  /\ count \in 0 .. MaxCount
  /\ work \in [Thread -> {"out", "claim", "task"}]
  /\ index \in [Thread -> Task]
  /\ failed \in BOOLEAN
  /\ raised \in BOOLEAN
  /\ stopping \in BOOLEAN
  /\ claims \in [Task -> Nat]
  /\ result \in [Task -> {"none", "done", "failed"}]
  /\ runs \in 0 .. MaxRuns

(* No task is done twice in a Run, and no two threads are at one task. *)
EachTaskOnce ==
  /\ \A i \in Task : claims[i] <= 1
  /\ \A t, u \in Thread : work[t] = "task" /\ work[u] = "task" /\ index[t] = index[u] => t = u

(* When Run has ended, returning or raising, no helper is still at work or  *)
(* about to be: the caller may change what the tasks use, and the counter   *)
(* that the next Run resets is not touched by a thread of the last one.     *)
QuietBetweenRuns ==
  caller \in {"free", "alone", "returned", "raised"} =>
    \A h \in Helper : helper[h] = "asleep" /\ work[h] = "out" /\ ~startEv[h] /\ ~doneEv[h]

(* When Run returns, every task was run to its end, done or failed. *)
ReturnMeansAllRun ==
  caller = "returned" => \A i \in 0 .. count - 1 : result[i] # "none"

(* Every Run and the Destroy after the last one end, with the helpers       *)
(* ended: no thread waits for an event that nobody will set.                *)
RunsEnd == <>(caller = "gone" /\ \A h \in Helper : helper[h] = "ended")
=============================================================================
