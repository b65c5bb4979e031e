--------------------------- MODULE ReaderBatches ---------------------------
(***************************************************************************)
(* How syc a reads the files it stores (src/src/sycarc.pas, TAdder:        *)
(* ReadAll, FillBatch, StoreBatch, TReaderThread, Destroy).  A reader      *)
(* thread cuts the files into fragments and fills three batches in turn,   *)
(* ahead of the main thread, which stores each batch and gives it back.    *)
(* With -t 1 the main thread does both.                                    *)
(*                                                                         *)
(* A fragment is its file and its number in it; where the cuts fall is     *)
(* part of the input.                                                      *)
(***************************************************************************)
EXTENDS Integers, Sequences, FiniteSets, SequencesExt

CONSTANTS
  BatchSize,        \* BATCH_SIZE, in units of input
  MaxFiles,         \* bound: files to store
  MaxFragments      \* bound: fragments of a file

ASSUME ReaderAssumption ==
  /\ BatchSize \in Nat \ {0}
  /\ MaxFiles \in Nat
  /\ MaxFragments \in Nat

NumBatches == 3
Batch == 0 .. NumBatches - 1

VARIABLES
  files,      \* the entries that are files: each the sizes of its fragments
  alone,      \* -t 1: there is no reader thread
  entry,      \* rdEntry: the file that is read, or comes next
  at,         \* fragments of it cut so far; -1: it is not open
  size,       \* file -> its entry's size, once it was read
  skipped,    \* files that could not be opened: entries of kind ET_OTHER
  batch,      \* batches[k]: [frags, len, last]
  freeEv,     \* batch -> the auto-reset event the reader waits for
  fullEv,     \* batch -> the auto-reset event the main thread waits for
  rpc,        \* reader: "none" "wait" "fill" "signal" "check" "ended"
  rk,         \* the batch the reader is at
  readError,  \* the reader thread's exception, if any
  terminated, \* reader.Terminate was called
  stored,     \* the fragments stored so far
  mpc,        \* main: "fill" "wait" "store" "return" "until" "join" "ok" "failed"
  mk          \* the batch the main thread is at

readVars == <<entry, at, size, skipped, batch>>
eventVars == <<freeEv, fullEv>>
vars == <<files, alone, readVars, eventVars, rpc, rk, readError, terminated, stored, mpc, mk>>

File == DOMAIN files
NextBatch(k) == (k + 1) % NumBatches
Empty == [frags |-> <<>>, len |-> 0, last |-> FALSE]

(* Every fragment fits a batch: CDC_MAX_LOG is 19, a batch is 8 MiB.        *)
Init ==
  /\ files \in UNION {[1 .. n -> UNION {[1 .. m -> 1 .. BatchSize] : m \in 0 .. MaxFragments}] :
                        n \in 0 .. MaxFiles}
  /\ alone \in BOOLEAN
  /\ entry = 1
  /\ at = -1
  /\ size = [f \in File |-> 0]
  /\ skipped = {}
  /\ batch = [k \in Batch |-> Empty]
  /\ freeEv = [k \in Batch |-> ~alone]
  /\ fullEv = [k \in Batch |-> FALSE]
  /\ rpc = IF alone THEN "none" ELSE "wait"
  /\ rk = 0
  /\ readError = FALSE
  /\ terminated = FALSE
  /\ stored = <<>>
  /\ mpc = IF alone THEN "fill" ELSE "wait"
  /\ mk = 0

-----------------------------------------------------------------------------
(* FillBatch(b), one turn of its loop at a time.                            *)

(* Mistake: the count of fragments is not reset. *)
FillBeginsKeeps(k) == batch' = [batch EXCEPT ![k].len = 0, ![k].last = FALSE]

FillBegins(k) == batch' = [batch EXCEPT ![k] = Empty]

OpenFile ==
  /\ at = -1
  /\ entry <= Len(files)
  /\ at' = 0
  /\ UNCHANGED <<entry, size, skipped, batch>>

(* The file cannot be opened: it is left out, with a warning. *)
SkipFile ==
  /\ at = -1
  /\ entry <= Len(files)
  /\ skipped' = skipped \cup {entry}
  /\ entry' = entry + 1
  /\ UNCHANGED <<at, size, batch>>

(* The file is done: its entry's size becomes what was read. *)
SumOf(s) == FoldSeq(+, 0, s)
CloseFile ==
  /\ at = Len(files[entry])
  /\ size' = [size EXCEPT ![entry] = SumOf(files[entry])]
  /\ entry' = entry + 1
  /\ at' = -1
  /\ UNCHANGED <<skipped, batch>>

Cut == files[entry][at + 1]

AddFragment(k) ==
  /\ at \in 0 .. Len(files[entry]) - 1
  /\ batch[k].len + Cut <= BatchSize
  /\ batch' = [batch EXCEPT ![k].frags = Append(@, <<entry, at + 1>>),
                            ![k].len = @ + Cut]
  /\ at' = at + 1
  /\ UNCHANGED <<entry, size, skipped>>

FillGoesOn(k) ==
  \/ OpenFile
  \/ SkipFile
  \/ at >= 0 /\ (CloseFile \/ AddFragment(k))

(* Full: this fragment starts the next batch.  Or no file is left.          *)
FillEnds(k) ==
  \/ /\ at >= 0
     /\ at < Len(files[entry])
     /\ batch[k].len + Cut > BatchSize
     /\ UNCHANGED readVars
  \/ /\ at = -1
     /\ entry > Len(files)
     /\ batch' = [batch EXCEPT ![k].last = TRUE]
     /\ UNCHANGED <<entry, at, size, skipped>>

-----------------------------------------------------------------------------
(* The reader thread.                                                       *)

ReaderTake ==
  /\ rpc = "wait"
  /\ freeEv[rk]
  /\ freeEv' = [freeEv EXCEPT ![rk] = FALSE]
  /\ \/ terminated /\ rpc' = "ended" /\ UNCHANGED batch
     \/ ~terminated /\ rpc' = "fill" /\ FillBegins(rk)
  /\ UNCHANGED <<entry, at, size, skipped, fullEv, rk, readError>>

ReaderFill ==
  /\ rpc = "fill"
  /\ \/ FillGoesOn(rk) /\ UNCHANGED rpc
     \/ FillEnds(rk) /\ rpc' = "signal"
  /\ UNCHANGED <<eventVars, rk, readError>>

(* An exception ends the reading with a batch of nothing. *)
ReaderFails ==
  /\ rpc = "fill"
  /\ readError' = TRUE
  /\ batch' = [batch EXCEPT ![rk].frags = <<>>, ![rk].last = TRUE]
  /\ rpc' = "signal"
  /\ UNCHANGED <<entry, at, size, skipped, eventVars, rk>>

ReaderSignal ==
  /\ rpc = "signal"
  /\ fullEv' = [fullEv EXCEPT ![rk] = TRUE]
  /\ rpc' = "check"
  /\ UNCHANGED <<readVars, freeEv, rk, readError>>

(* until b.last *)
ReaderCheck ==
  /\ rpc = "check"
  /\ rk' = NextBatch(rk)
  /\ rpc' = IF batch[rk].last THEN "ended" ELSE "wait"
  /\ UNCHANGED <<readVars, eventVars, readError>>

ReaderStep ==
  /\ ReaderTake \/ ReaderFill \/ ReaderFails \/ ReaderSignal \/ ReaderCheck
  /\ UNCHANGED <<files, alone, terminated, stored, mpc, mk>>

-----------------------------------------------------------------------------
(* The main thread.                                                         *)

(* Mistake: Destroy does not wake the reader. *)
FailNoWake ==
  /\ mpc' = "failed"
  /\ terminated' = ~alone
  /\ UNCHANGED freeEv

(* An exception, by way of Destroy: the reader is told to end, and woken    *)
(* from whichever batch it waits for.                                       *)
Fail ==
  /\ mpc' = "failed"
  /\ terminated' = ~alone
  /\ freeEv' = [k \in Batch |-> ~alone]

(* -t 1: FillBatch and StoreBatch in turn, with one batch.                  *)
MainFill ==
  /\ mpc = "fill"
  /\ \/ FillGoesOn(0) /\ UNCHANGED <<mpc, terminated, freeEv>>
     \/ FillEnds(0) /\ mpc' = "store" /\ UNCHANGED <<terminated, freeEv>>
     \/ Fail /\ UNCHANGED readVars
  /\ UNCHANGED <<fullEv, stored, mk>>

(* Mistakes: the batch is given back before it is stored; the reader's      *)
(* exception is not looked at.                                              *)
MainTakeReturns ==
  /\ mpc = "wait"
  /\ fullEv[mk]
  /\ fullEv' = [fullEv EXCEPT ![mk] = FALSE]
  /\ \/ readError /\ Fail
     \/ /\ ~readError
        /\ mpc' = "store"
        /\ freeEv' = [freeEv EXCEPT ![mk] = ~batch[mk].last]
        /\ UNCHANGED terminated
  /\ UNCHANGED <<readVars, stored, mk>>

MainTakeUnchecked ==
  /\ mpc = "wait"
  /\ fullEv[mk]
  /\ fullEv' = [fullEv EXCEPT ![mk] = FALSE]
  /\ mpc' = "store"
  /\ UNCHANGED <<readVars, stored, mk, terminated, freeEv>>

(* The next batch, unless the reader ended with an exception. *)
MainTake ==
  /\ mpc = "wait"
  /\ fullEv[mk]
  /\ fullEv' = [fullEv EXCEPT ![mk] = FALSE]
  /\ \/ readError /\ Fail
     \/ ~readError /\ mpc' = "store" /\ UNCHANGED <<terminated, freeEv>>
  /\ UNCHANGED <<readVars, stored, mk>>

(* The batch's fragments are hashed and stored, or an exception ends it.    *)
MainStore ==
  /\ mpc = "store"
  /\ \/ /\ stored' = stored \o batch[mk].frags
        /\ mpc' = IF alone THEN "until" ELSE "return"
        /\ UNCHANGED <<terminated, freeEv>>
     \/ Fail /\ UNCHANGED stored
  /\ UNCHANGED <<readVars, fullEv, mk>>

(* The batch is given back, unless it was the last. *)
MainReturn ==
  /\ mpc = "return"
  /\ freeEv' = [freeEv EXCEPT ![mk] = @ \/ ~batch[mk].last]
  /\ mpc' = "until"
  /\ UNCHANGED <<readVars, fullEv, terminated, stored, mk>>

(* until b.last, with the batch given back already. *)
MainUntil ==
  /\ mpc = "until"
  /\ IF alone
     THEN /\ mpc' = IF batch[mk].last THEN "ok" ELSE "fill"
          /\ IF batch[mk].last THEN UNCHANGED batch ELSE FillBegins(mk)
          /\ UNCHANGED mk
     ELSE /\ mpc' = IF batch[mk].last THEN "join" ELSE "wait"
          /\ mk' = NextBatch(mk)
          /\ UNCHANGED batch
  /\ UNCHANGED <<entry, at, size, skipped, eventVars, terminated, stored>>

(* reader.WaitFor *)
MainJoin ==
  /\ mpc = "join"
  /\ rpc = "ended"
  /\ mpc' = "ok"
  /\ UNCHANGED <<readVars, eventVars, terminated, stored, mk>>

MainStep ==
  /\ MainFill \/ MainTake \/ MainStore \/ MainReturn \/ MainUntil \/ MainJoin
  /\ UNCHANGED <<files, alone, rpc, rk, readError>>

Next == ReaderStep \/ MainStep

(* Each thread that can run does. *)
Fairness == WF_vars(ReaderStep) /\ WF_vars(MainStep)

Spec == Init /\ [][Next]_vars /\ Fairness
-----------------------------------------------------------------------------
(* A batch is the reader's while it fills it and the main thread's while it *)
(* stores it, never both's, and no event is set for it meanwhile.           *)
BatchHasOneOwner ==
  /\ mpc \in {"store", "return"} =>
       ~freeEv[mk] /\ ~fullEv[mk] /\ ~(rpc \in {"fill", "signal"} /\ rk = mk)
  /\ rpc \in {"fill", "signal"} =>
       ~fullEv[rk] /\ (freeEv[rk] => terminated)

(* The fragments cut so far, in the order of the files. *)
FragmentsOf(f) == [i \in 1 .. IF f = entry THEN at ELSE Len(files[f]) |-> <<f, i>>]
CutFiles == {f \in File : f < entry \/ (f = entry /\ at > 0)} \ skipped
CutSoFar == FlattenSeq([f \in 1 .. Cardinality(File) |->
                          IF f \in CutFiles THEN FragmentsOf(f) ELSE <<>>])

(* "then stored in order: the archive does not depend on the number of      *)
(* threads" (the comment on StoreBatch): what is stored is the beginning of *)
(* what was cut, no fragment missing, repeated or out of turn.              *)
StoredInOrder == IsPrefix(stored, CutSoFar)

(* "every file's data: cut, hashed, stored" (the comment on ReadAll), once  *)
(* it returns.                                                              *)
EveryFragmentStored ==
  mpc = "ok" => entry > Len(files) /\ stored = CutSoFar

(* The batches that the reader announced and the main thread did not take.  *)
Untaken ==
  LET after == NextBatch(mk)
      In(k) == IF fullEv[k] THEN batch[k].frags ELSE <<>>
  IN In(mk) \o In(after) \o In(NextBatch(after))

(* When ReadAll returns every file was read to its end, and no fragment and *)
(* no exception of the reader is lost but those of batches that the main    *)
(* thread left without taking.  It leaves some only if it read b.last of a  *)
(* batch that it had given back already, and that the reader had refilled   *)
(* with the end of the files, or with its exception.                        *)
LossIsUntaken ==
  mpc = "ok" =>
    /\ readError => \E k \in Batch : fullEv[k]
    /\ ~readError => entry > Len(files) /\ stored \o Untaken = CutSoFar

(* ReadAll ends, after an exception on either side as well, and the reader  *)
(* with it: neither waits for a batch that nobody will give it.             *)
Termination ==
  <>(mpc \in {"ok", "failed"} /\ rpc \in {"none", "ended"})
=============================================================================
