-------------------------- MODULE StreamDecompress --------------------------
(***************************************************************************)
(* Decompressing or testing a stream (src/src/sycstream.pas, Decompress):  *)
(* the main thread reads records into the pipeline's slots and writes each *)
(* slot's decoded block before the slot takes another.                     *)
(*                                                                         *)
(* The input is a stream that Compress wrote, or one that was altered on   *)
(* the way: a record lost, repeated, moved, damaged, or the file cut.  In  *)
(* an encrypted stream a block's seal binds it to its place, and that of   *)
(* the end to the number of blocks.  Reading it may fail at any point.     *)
(***************************************************************************)
EXTENDS Pipeline, FiniteSets, SequencesExt

CONSTANTS
  MaxBlocks,  \* bound: blocks of the stream
  MaxAltered  \* bound: blocks of a stream that is altered

ASSUME MaxBlocksAssumption == MaxBlocks \in Nat

VARIABLES
  count,      \* how many blocks Compress wrote
  stray,      \* after how many of them its empty record is; 0: it has none
  enc,        \* stream version 5: encrypted
  fin,        \* the records of the input
  readPos,    \* the record that is read next
  blocks,     \* blocks started
  next,       \* the next block the drain loop writes (b)
  fout,       \* the blocks written
  mpc,        \* main: "read" "write" "fill" "start" "drain" "ok" "failed"
  code,       \* the exit code: "none" "corrupt" "fatal"
  readFailed  \* whether a read returned an error (not known to the code)

streamVars == <<count, stray, enc, fin, readPos, blocks, next, fout, mpc, code, readFailed>>
vars == <<pipeVars, streamVars>>

Block == 0 .. MaxBlocks - 1

(* A record: a block, with its bytes and whether payload, tag and checksum  *)
(* are as Compress wrote them; or the end, with the number of blocks.       *)
BlockRecord(b) == [kind |-> "block", data |-> b, good |-> TRUE]
EndRecord(n) == [kind |-> "end", data |-> n, good |-> TRUE]
Whole(n) == [i \in 1 .. n |-> BlockRecord(i - 1)] \o <<EndRecord(n)>>

(* Of an input that is a whole number of blocks, at least as many as there  *)
(* are slots, Compress writes an empty record after the block that left its *)
(* slot for the last, empty read (the first finding of StreamCompress).  It *)
(* begins with a length of 0, as the end does.  A pipeline has 1 slot or 2  *)
(* for each of its threads.                                                 *)
StrayRecord == [kind |-> "end", data |-> 0, good |-> FALSE]
StrayAfter(n) == {n - s + 1 : s \in {k \in 1 .. n : k = 1 \/ (k > 2 /\ k % 2 = 0)}}
Written(n, a) == IF a = 0 THEN Whole(n) ELSE InsertAt(Whole(n), a + 1, StrayRecord)

(* What can become of a record: its payload or seal is changed, its header  *)
(* is out of range, its length reads as 0, or the file ends inside it.      *)
Damaged(r) == {[r EXCEPT !.good = FALSE], [r EXCEPT !.kind = "badHeader"],
               [r EXCEPT !.kind = "end", !.good = FALSE]}
CutInside(r) ==
  {[r EXCEPT !.kind = k] :
     k \in IF r.kind = "end" THEN {"cutHeader"} ELSE {"cutHeader", "cutPayload"}}

Altered(s) ==
  LET D == DOMAIN s
  IN UNION {{RemoveAt(s, i) : i \in D},
            {InsertAt(s, i, s[j]) : i \in D, j \in D},
            {Append(s, s[j]) : j \in D},
            {[s EXCEPT ![i] = s[j], ![j] = s[i]] : i \in D, j \in D},
            UNION {{[s EXCEPT ![i] = r] : r \in Damaged(s[i])} : i \in D},
            {SubSeq(s, 1, i - 1) : i \in D},
            UNION {{Append(SubSeq(s, 1, i - 1), r) : r \in CutInside(s[i])} : i \in D}}

Init ==
  /\ PipeInit
  /\ count \in 0 .. MaxBlocks
  /\ stray \in {0} \cup StrayAfter(count)
  /\ enc \in BOOLEAN
  /\ \/ fin = Written(count, stray)
     \/ count <= MaxAltered /\ fin \in Altered(Written(count, stray))
  /\ readPos = 1
  /\ blocks = 0
  /\ next = 0
  /\ fout = <<>>
  /\ mpc = "read"
  /\ code = "none"
  /\ readFailed = FALSE

-----------------------------------------------------------------------------
CurrentSlot == blocks % Slots

(* Fail, or an exception: the command ends, by way of pipe.Free.            *)
Fail(c) ==
  /\ mpc' = "failed"
  /\ code' = c
  /\ freed' = 0

(* WriteSlot(s): wait for the slot's job and write its block.  A job that   *)
(* is not ok means corrupt data to it, whatever the reason.                 *)
WriteSlot(s, then) ==
  /\ Finish(s)
  /\ UNCHANGED <<job, startEv, wpc, wslot>>
  /\ \/ /\ job[s].ok
        /\ fout' = Append(fout, job[s].out)
        /\ mpc' = then
        /\ UNCHANGED <<freed, code>>
     \/ /\ job[s].ok
        /\ Fail("fatal")            \* the write fails
        /\ UNCHANGED fout
     \/ /\ ~job[s].ok
        /\ Fail("corrupt")
        /\ UNCHANGED fout

(* The record that is read next; past the last one, a file that is cut. *)
Current == IF readPos > Len(fin) THEN [kind |-> "cutHeader"] ELSE fin[readPos]

(* Mistake: the end is not bound to the number of blocks. *)
EndUncounted == enc => Current.good

(* The end of an encrypted stream authenticates, with the number of blocks. *)
EndSealed == enc => Current.good /\ Current.data = blocks

(* Nothing comes after it.                                                  *)
EndLast == enc => readPos = Len(fin)

ToDrain == mpc' = "drain" /\ next' = IF blocks > Slots THEN blocks - Slots ELSE 0

(* A read that fails gives less than was asked for, as at the end of the    *)
(* file: the stream is taken for one that is cut.                           *)
ReadFails == readFailed' = TRUE /\ Fail("corrupt")

(* The length and header of the next record, or the end of the stream.      *)
(* When the read that should find nothing after an encrypted end fails, it  *)
(* has found nothing.                                                       *)
MainRead ==
  /\ mpc = "read"
  /\ \/ /\ Current.kind = "end"
        /\ EndSealed
        /\ \/ EndLast /\ UNCHANGED readFailed
           \/ enc /\ readFailed' = TRUE
        /\ ToDrain
        /\ UNCHANGED <<code, freed>>
     \/ /\ Current.kind \in {"block", "cutPayload"}
        /\ mpc' = IF blocks >= Slots THEN "write" ELSE "fill"
        /\ UNCHANGED <<code, freed, next, readFailed>>
     \/ /\ \/ Current.kind \in {"badHeader", "cutHeader"}
           \/ Current.kind = "end" /\ ~(EndSealed /\ EndLast)
        /\ Fail("corrupt")
        /\ UNCHANGED <<next, readFailed>>
     \/ ReadFails /\ UNCHANGED next
  /\ UNCHANGED <<job, busy, startEv, doneEv, wpc, wslot, count, stray, enc, fin, readPos,
                 blocks, fout>>

(* Before a slot takes a new block, its last one leaves. *)
MainWrite ==
  /\ mpc = "write"
  /\ WriteSlot(CurrentSlot, "fill")
  /\ UNCHANGED <<count, stray, enc, fin, readPos, blocks, next, readFailed>>

(* Mistake: a block's seal does not say where the block belongs. *)
AuthenticAnywhere(r) == r.good

(* Mistake: the position is taken after the block is counted. *)
AuthenticNext(r) == r.good /\ (enc => r.data = blocks + 1)

(* OpenJob, or the checksum: the seal of an encrypted block is checked with *)
(* the block's position in this input (job.tag).                            *)
Authentic(r) == r.good /\ (enc => r.data = blocks)

(* Reserve and read the payload. *)
MainFill ==
  /\ mpc = "fill"
  /\ LET r == Current
     IN \/ /\ r.kind = "block"
           /\ job' = [job EXCEPT ![CurrentSlot].n = 1,
                                 ![CurrentSlot].raw = r.data,
                                 ![CurrentSlot].good = Authentic(r)]
           /\ mpc' = "start"
           /\ UNCHANGED <<code, freed, readFailed>>
        \/ /\ r.kind = "cutPayload"
           /\ Fail("corrupt")
           /\ UNCHANGED <<job, readFailed>>
        \/ /\ Fail("fatal")         \* Reserve finds no memory
           /\ UNCHANGED <<job, readFailed>>
        \/ ReadFails /\ UNCHANGED job
  /\ UNCHANGED <<busy, startEv, doneEv, wpc, wslot, count, stray, enc, fin, readPos, blocks,
                 next, fout>>

MainStart ==
  /\ mpc = "start"
  /\ Start(CurrentSlot)
  /\ blocks' = blocks + 1
  /\ readPos' = readPos + 1
  /\ mpc' = "read"
  /\ UNCHANGED <<count, stray, enc, fin, next, fout, code, readFailed>>

(* The blocks still in flight, then the success. *)
MainDrain ==
  /\ mpc = "drain"
  /\ \/ /\ next < blocks
        /\ WriteSlot(next % Slots, "drain")
        /\ next' = next + 1
     \/ /\ next = blocks
        /\ mpc' = "ok"
        /\ freed' = 0
        /\ UNCHANGED <<job, busy, startEv, doneEv, wpc, wslot, next, fout, code>>
  /\ UNCHANGED <<count, stray, enc, fin, readPos, blocks, readFailed>>

(* pipe.Free, in the finally part. *)
MainFree ==
  /\ mpc \in {"ok", "failed"}
  /\ DestroyWait \/ DestroyStop
  /\ UNCHANGED streamVars

Main ==
  /\ MainRead \/ MainWrite \/ MainFill \/ MainStart \/ MainDrain \/ MainFree
  /\ UNCHANGED threads

Next ==
  \/ Main
  \/ \E w \in Worker : WorkerStep(w) /\ UNCHANGED streamVars

(* Each thread that can run does, sooner or later. *)
Fairness ==
  /\ WF_vars(Main)
  /\ \A w \in 0 .. MaxThreads - 1 : WF_vars(WorkerStep(w) /\ UNCHANGED streamVars)

Spec == Init /\ [][Next]_vars /\ Fairness

-----------------------------------------------------------------------------
(* A job is the main thread's or its worker's, never both's.                *)
JobHasOneOwner == OneOwner(IF mpc \in {"fill", "start"} THEN {CurrentSlot} ELSE {})

Original == Written(count, stray)

(* What the records of a plain stream say: the blocks before the first end. *)
BlocksOf(s) ==
  LET ends == {i \in DOMAIN s : s[i].kind = "end"} \cup {Len(s) + 1}
      last == CHOOSE i \in ends : \A j \in ends : i <= j
  IN [i \in 1 .. last - 1 |-> s[i].data]

(* Nothing but the input's blocks in order is ever written, even by a       *)
(* command that fails later (its output may have gone to a pipe).  Of an    *)
(* encrypted stream these are the original blocks, whatever was done to it; *)
(* of a plain one, the undamaged blocks that the records hold.              *)
OutputIsPrefix ==
  /\ enc => IsPrefix(fout, BlocksOf(Whole(count)))
  /\ ~enc => /\ IsPrefix(fout, BlocksOf(fin))
             /\ \A i \in DOMAIN fout : fin[i].good

(* "the end, authenticated with the number of blocks, then nothing": a      *)
(* success on an encrypted stream means that it has all blocks and the end, *)
(* nothing was altered, and all was written; only bytes after the end can   *)
(* be overlooked, if the read that looks for them fails.  On a plain one it *)
(* means that every block up to the end was intact and was written.         *)
SuccessIsWhole ==
  mpc = "ok" =>
    /\ enc => /\ fout = BlocksOf(Whole(count))
              /\ fin = Whole(count) \/ (readFailed /\ IsPrefix(Whole(count), fin))
    /\ ~enc => fout = BlocksOf(fin)

(* A job that could be worked on was, and failed: it found no memory. *)
NoMemory == \E s \in Slot : job[s].good /\ ~job[s].ok /\ ~busy[s]

(* An encrypted stream with an empty record: Decompress takes that for the  *)
(* end, which does not authenticate.                                        *)
Misread == enc /\ stray > 0

(* A stream that is as Compress wrote it is refused as corrupt for one of   *)
(* these three reasons only; no place, order or number of blocks, and no    *)
(* timing of the workers, is taken for an alteration.                       *)
IntactIsAccepted == code = "corrupt" /\ fin = Original => readFailed \/ NoMemory \/ Misread

(* "3 corrupt data, 4 I/O error" (the usage text), "EXIT_FATAL = 4: I/O     *)
(* error, out of memory" (sycblocks): a failed read does not end with 3,    *)
ReadErrorIsFatal == readFailed => code # "corrupt"

(* and neither does a stream that was read as it was written when a job     *)
(* finds no memory.                                                         *)
NoMemoryIsFatal == NoMemory /\ fin = Original /\ ~readFailed /\ ~Misread => code # "corrupt"

(* Decompress ends, with every worker ended.                                *)
Termination == <>(mpc \in {"ok", "failed"} /\ Joined)
=============================================================================
