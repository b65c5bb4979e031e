--------------------------- MODULE StreamCompress ---------------------------
(***************************************************************************)
(* Compressing a stream (src/src/sycstream.pas, Compress): the main thread *)
(* reads the input block by block into the pipeline's slots, writes each   *)
(* slot's finished block before the slot takes another, then writes the    *)
(* blocks still in flight and the end of the stream.                       *)
(*                                                                         *)
(* The output is a sequence of records.  A block's record holds its raw    *)
(* length n and the block; the end is a record of length 0, which in an    *)
(* encrypted stream also authenticates the number of blocks.               *)
(***************************************************************************)
EXTENDS Pipeline, FiniteSets, SequencesExt

CONSTANTS
  BlockSize,     \* -b, in units of input
  MaxLength      \* bound: the longest input

ASSUME StreamAssumption == BlockSize \in Nat \ {0} /\ MaxLength \in Nat

VARIABLES
  length,     \* the input's length
  enc,        \* a password was given: stream version 5
  readPos,    \* how much of the input was read
  blocks,     \* blocks started
  next,       \* the next block the drain loop writes (b)
  fout,       \* the records written
  mpc         \* main: "write" "read" "start" "drain" "end" "free" "ok" "failed"

streamVars == <<length, enc, readPos, blocks, next, fout, mpc>>
vars == <<pipeVars, streamVars>>

MaxBlocks == MaxLength \div BlockSize + 1
EndRecord(count) == [n |-> 0, data |-> NoData, count |-> count]
Record(j) == [n |-> j.n, data |-> j.out, count |-> -1]

Init ==
  /\ PipeInit
  /\ length \in 0 .. MaxLength
  /\ enc \in BOOLEAN
  /\ readPos = 0
  /\ blocks = 0
  /\ next = 0
  /\ fout = <<>>
  /\ mpc = "write"

-----------------------------------------------------------------------------
CurrentSlot == blocks % Slots
Smaller(a, b) == IF a < b THEN a ELSE b

Larger(a, b) == IF a > b THEN a ELSE b

(* WriteSlot(s): wait for the slot's job and write its record.  The job may *)
(* have failed for want of memory, and the write may fail: either ends the  *)
(* command, by way of the pipeline's Destroy.                               *)
WriteSlot(s, then) ==
  /\ Finish(s)
  /\ UNCHANGED <<job, startEv, wpc, wslot>>
  /\ \/ /\ job[s].ok
        /\ fout' = Append(fout, Record(job[s]))
        /\ mpc' = then
        /\ UNCHANGED freed
     \/ /\ UNCHANGED fout
        /\ mpc' = "failed"
        /\ freed' = 0

(* Mistake: > for >=, so slot 0 is refilled before its first block left. *)
MainWriteLate ==
  /\ mpc = "write"
  /\ IF blocks > Slots
     THEN WriteSlot(CurrentSlot, "read")
     ELSE mpc' = "read" /\ UNCHANGED <<fout, pipeVars>>
  /\ UNCHANGED <<length, enc, readPos, blocks, next>>

(* The loop's head: before a slot takes a new block, its last one leaves. *)
MainWrite ==
  /\ mpc = "write"
  /\ IF blocks >= Slots
     THEN WriteSlot(CurrentSlot, "read")
     ELSE mpc' = "read" /\ UNCHANGED <<fout, pipeVars>>
  /\ UNCHANGED <<length, enc, readPos, blocks, next>>

(* ReadFull into the slot: a full block, or what is left; with nothing left *)
(* the loop ends at once and the slot's raw bytes stay as they were.        *)
MainRead ==
  /\ mpc = "read"
  /\ LET n == Smaller(BlockSize, length - readPos)
     IN /\ job' = [job EXCEPT ![CurrentSlot].n = n,
                              ![CurrentSlot].raw = IF n > 0 THEN blocks ELSE @,
                              ![CurrentSlot].good = TRUE]
        /\ readPos' = readPos + n
        /\ mpc' = IF n = 0 THEN "drain" ELSE "start"
        /\ next' = IF n = 0 THEN Larger(blocks - Slots, 0) ELSE next
  /\ UNCHANGED <<busy, startEv, doneEv, wpc, wslot, freed, length, enc, blocks, fout>>

(* Mistake: the drain begins one block too late. *)
MainStartDrainLate ==
  /\ mpc = "start"
  /\ Start(CurrentSlot)
  /\ blocks' = blocks + 1
  /\ LET eof == job[CurrentSlot].n < BlockSize
     IN /\ mpc' = IF eof THEN "drain" ELSE "write"
        /\ next' = IF eof THEN Larger(blocks' - Slots + 1, 0) ELSE next
  /\ UNCHANGED <<length, enc, readPos, fout>>

(* Start the block; a short one was the last. *)
MainStart ==
  /\ mpc = "start"
  /\ Start(CurrentSlot)
  /\ blocks' = blocks + 1
  /\ LET eof == job[CurrentSlot].n < BlockSize
     IN /\ mpc' = IF eof THEN "drain" ELSE "write"
        /\ next' = IF eof THEN Larger(blocks' - Slots, 0) ELSE next
  /\ UNCHANGED <<length, enc, readPos, fout>>

(* The blocks still in flight. *)
MainDrain ==
  /\ mpc = "drain"
  /\ IF next < blocks
     THEN WriteSlot(next % Slots, "drain") /\ next' = next + 1
     ELSE mpc' = "end" /\ UNCHANGED <<next, fout, pipeVars>>
  /\ UNCHANGED <<length, enc, readPos, blocks>>

(* The end of the stream, in an encrypted one with the number of blocks.    *)
MainEnd ==
  /\ mpc = "end"
  /\ freed' = 0
  /\ \/ /\ fout' = Append(fout, EndRecord(IF enc THEN blocks ELSE -1))
        /\ mpc' = "ok"
     \/ /\ mpc' = "failed"
        /\ UNCHANGED fout
  /\ UNCHANGED <<job, busy, startEv, doneEv, wpc, wslot, length, enc, readPos, blocks, next>>

(* pipe.Free, in the finally part of Compress. *)
MainFree ==
  /\ mpc \in {"ok", "failed"}
  /\ DestroyWait \/ DestroyStop
  /\ UNCHANGED streamVars

Main ==
  /\ MainWrite \/ MainRead \/ MainStart \/ MainDrain \/ MainEnd \/ MainFree
  /\ UNCHANGED threads

Next ==
  \/ Main
  \/ \E w \in Worker : WorkerStep(w) /\ UNCHANGED streamVars

(* Each thread that can run does, sooner or later. *)
Fairness ==
  /\ WF_vars(Main)
  /\ \A w \in 0 .. MaxThreads - 1 : WF_vars(WorkerStep(w) /\ UNCHANGED streamVars)

Spec == Init /\ [][Next]_vars /\ Fairness

-----------------------------------------------------------------------------
(* A job is the main thread's or its worker's, never both's (TPipeline.busy; *)
(* a slot comes back by Finish alone).                                      *)
JobHasOneOwner == OneOwner(IF mpc \in {"read", "start"} THEN {CurrentSlot} ELSE {})

(* The block b of the input. *)
BlockLength(b) == Smaller(BlockSize, length - b * BlockSize)
BlockCount == (length + BlockSize - 1) \div BlockSize
InputBlock(b) == [n |-> BlockLength(b), data |-> b]
Input == [i \in 1 .. BlockCount |-> InputBlock(i - 1)]
Contents(records) == [i \in 1 .. Len(records) |-> [n |-> records[i].n, data |-> records[i].data]]

(* "Blocks leave in order" (the comment in Compress): the blocks written so *)
(* far are the first ones of the input, each once, none missing, and each   *)
(* as it was read, whatever the workers' speeds and failures.               *)
BlocksLeaveInOrder ==
  \A i \in DOMAIN fout : fout[i].n > 0 =>
    LET before == Cardinality({k \in 1 .. i - 1 : fout[k].n > 0})
    IN /\ before < BlockCount
       /\ fout[i].n = BlockLength(before) /\ fout[i].data = before

(* What Decompress makes of the records: blocks up to the first length 0;   *)
(* encrypted, that end must carry the number of blocks and be the last.     *)
FirstEnd == CHOOSE i \in 1 .. Len(fout) :
              fout[i].n = 0 /\ \A k \in 1 .. i - 1 : fout[k].n # 0
Decodes ==
  /\ Contents(SubSeq(fout, 1, FirstEnd - 1)) = Input
  /\ enc => FirstEnd = Len(fout) /\ fout[FirstEnd].count = FirstEnd - 1

(* A compression that reports success wrote a stream that decompresses to   *)
(* its input (.github/test.sh compares the two).                            *)
RoundTrip == mpc = "ok" => Decodes

(* RoundTrip does hold unless the loop of Compress meets the end of the     *)
(* input with an empty read after it wrote the slot: when the input is a    *)
(* whole number of blocks, at least Slots of them.  Unencrypted, one thread *)
(* is safe then too: the stray records follow the last block.               *)
RoundTripUnlessWholeBlocks ==
  mpc = "ok" =>
    (Decodes <=> \/ length % BlockSize # 0
                 \/ BlockCount < Slots
                 \/ threads = 1 /\ ~enc)

(* Compress ends, with every worker ended, after a success and after a      *)
(* failure with jobs still running alike: no thread waits for an event that *)
(* nobody will set.                                                         *)
Termination == <>(mpc \in {"ok", "failed"} /\ Joined)
=============================================================================
