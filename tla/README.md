# Verification of syc

TLA+ models, model-checking runs and machine-checked proofs for syc, a block
compressor (`syc c`, `d`, `t`) and a versioned, deduplicating, optionally
encrypted archiver (`syc a`, `x`, `l`, `i`, `k`), and for sylz, the LZ codec
both of them use. Every definition is translated from the source under
`src/src/`, the Pascal units and the C kernels of `sylzc.c`; `PROJECT.json`
names the lines each one stands for.

## The system

| Component | State | Operations | Interacts with | Hard behaviour |
|---|---|---|---|---|
| Block pipeline (`sycblocks.pas`: `TPipeline`, `TWorker`, `TJob`) | a ring of jobs, a start and a done event for each, `busy` flags, worker threads | `Start`, `Finish`, `RunJob`, `Destroy` | called by `Compress`, `Decompress`, `TAdder`, `TExtractor`, `TestArchive` | threads, auto-reset events, teardown after an error |
| Stream compression (`sycstream.pas`: `Compress`) | blocks started, the slot in turn, the output | the read/start/write loop, the drain, the end record | pipeline, sealing | ordering, end of input, failing jobs and writes |
| Stream decompression (`Decompress`, raw blocks) | the same, the other way round | | pipeline, sealing | truncated or altered input |
| Stream command (`RunOne`, `ReplaceFile`) | temporary output, exit code | rename, `--rm`, `-f` | the two above | partial failure |
| Task pool (`TTaskPool`, `TPoolThread`) | a shared counter, events, `failed` | `Run`, `Work`, `Destroy` | `TAdder.StoreBatch` hashes with it | threads, exceptions |
| Archive file (`sycarc.pas`: `AddCommand`'s file side, `WriteIndexAndCommit`, `TArchive.Open`, `ScanForward`, `LoadVersion`) | versions, each a head, blocks, an index and a commit record | append, cut, restore after an error, open | the page cache and the disk, other processes | crashes, write-back order, concurrent runs |
| Archive contents (`TAdder`: `Walk`, the comparison with the last version, `Fragment`, `Submit`, `FillBatch`, the reader thread) | entries, the fragment table, three batches | walk, compare, cut, store | pipeline, pool, archive file | files that change or cannot be read, batches in flight |
| Archive reading (`TArchive`, `TExtractor`, `TestArchive`) | access order of blocks | list, extract, test | pipeline | order of blocks, replacing files |
| Index and number formats (`sycfmt.pas`, `EncodeIndex`, `DecodeIndex`) | none | varints, deltas | | numeric edges |
| Key record and `syc k` (`sycenc.pas`, `syckey.pas`) | two slots with generations | wrap, open, change the password | the page cache and the disk | crashes between two writes |
| Sealing (`SealData`, `TStreamSealer`) | keys | seal, open a block | pipeline hooks | binding a block to its place |
| Chunking (`syccdc.pas`), paths and globs (`sycfs.pas`) | none | | `TAdder` | numeric edges |
| sylz decoder (`sylzc.c`: `decode_core`, `decode_safe`) | positions in the control, literal and output buffers | decode a block of known length | a job of the pipeline, with bytes from a file | copies wider than what they copy, at the ends of three buffers; any block |
| sylz compressors (`sylzc.c`: `sylzc_compress_fast`, `_mid`, `_hc`, `sylzc_hc_search`, `sylzc_bt_insert`, `sylzc_opt_*`; `CompressOptCore` in `sylz.pas`) | hash tables, chains and a tree of positions modulo 65536; up to three matches in hand; a table of prices | compress a block at a level from 0 to 10 | a job of the pipeline; the decoder | stale and wrapped table entries, moved and trimmed matches, the ends of the input |
| Hashes of fragments (`sylzc_blake2s_many`) | a message, a counter and flags per lane | hash many messages at once | `TAdder.StoreBatch`, the task pool | lanes that end at different times |
| Entropy coding of literals (`sylzhuf.pas`), ciphers, command line, plugin, bench, tools | | | | not modelled, see below |

What makes each part correct, in short: the pipeline never lets two threads
use one job and never hangs; what leaves a stream is the input in order, once;
the pool runs each task once and is quiet when `Run` ends; an archive always
opens, shows whole versions only and keeps every reported one; a key record
always opens with a password its owner has, and never with a revoked one; the
contents of a version are what was found on the disk, less what could not be
read; what is extracted is what was stored. The codec gives back what it was
given, at every level; it touches no byte outside its buffers, whatever it is
given to decode; a compressor ends, finds the longest match where it promises
to and prices what it writes; a fragment's hash does not depend on what was
hashed beside it.

`PROJECT.json` lists under `hazards` what in this code is hard to test, with
the line where it bites and the properties that would notice.

## The modules

| Module | Models | Extends |
|---|---|---|
| `Pipeline` | state of `TPipeline` and the workers' steps; the operations the main thread calls | |
| `PipelineProofs` | lemmas about `Pipeline`, for any main thread | `Pipeline` |
| `StreamCompress` | `Compress` as the pipeline's main thread | `Pipeline` |
| `StreamCompressProofs` | theorems about `StreamCompress` | `StreamCompress`, `PipelineProofs` |
| `StreamDecompress` | `Decompress` as the pipeline's main thread | `Pipeline` |
| `StreamDecompressProofs` | theorems about `StreamDecompress` | `StreamDecompress`, `PipelineProofs` |
| `TaskPool` | `TTaskPool` with its caller and helpers | |
| `VersionLog` | abstract: an append-only log of versions | |
| `ArchiveFile` | the archive file under `syc a`; implements `VersionLog` | |
| `ArchiveFileProofs` | theorems about `ArchiveFile` | `ArchiveFile` |
| `ReaderBatches` | `ReadAll` with its reader thread and batches | |
| `AdderProofs` | theorems about `ReaderBatches`, `TaskPool` and `HashLanes` | `ReaderBatches`, `TaskPool`, `HashLanes` |
| `KeyRecord` | the key record under `syc k` | |
| `KeyRecordProofs` | theorems about `KeyRecord` | `KeyRecord` |
| `BlockFormat` | tokens, extensions and distances of a sylz block | |
| `LzBlock` | abstract: decoding, a sequence at a time | `BlockFormat` |
| `BlockDecode` | `decode_core` and `decode_safe`; implements `LzBlock` | `BlockFormat` |
| `BlockDecodeProofs` | theorems about `BlockDecode` | `BlockDecode` |
| `BlockInput` | the input of a compressor, and what of it is written | |
| `BlockEmit` | `emit_sequence`, hashes, and the comparison of matches | `BlockInput`, an instance of `BlockFormat` |
| `CompressFast` | levels 0 and 1 | `BlockEmit` |
| `CompressMid` | levels 2 and 3 | `BlockEmit` |
| `ChainParse` | levels 4 to 8: the parse, for any search | `BlockInput` |
| `ChainSearch` | levels 4 to 8: the search of the hash chains; implements what `ChainParse` asks of one | `ChainParse`, `BlockEmit` |
| `BlockRoundTrip` | what the decoder `LzBlock` makes of a block | `BlockEmit`, `LzBlock` |
| `OptParse` | levels 9 and 10: tree, candidates, prices, the way back | `BlockEmit` |
| `BlockEncode` | all compressors, each followed by the decoder `LzBlock` | `CompressFast`, `CompressMid`, `ChainSearch`, `OptParse`, `BlockRoundTrip` |
| `CompressProofs` | theorems about all levels, each and together | `BlockEncode` |
| `HashLanes` | `sylzc_blake2s_many` | |
| `MCBlockDecode`, `MCBlockEncode`, `MCHashLanes` | the blocks, inputs and messages that TLC tries | |

Operators introduced by a comment "Mistake:" are variants of the definition
that follows them, each a plausible slip in that code. They are part of no
specification; `PROJECT.json` pairs each with a property that it breaks, which
shows that the property depends on the code it is about.

### Pipeline, StreamCompress and StreamDecompress

A slot's job holds `n` (its length), `raw` and `out` (which block's bytes are
there) and `ok`. A block's bytes are its position in the input, so a job done
twice, refilled too early, or written out of turn shows as a wrong value.
`startEv` and `doneEv` are the RTL's auto-reset events: setting one that is set
changes nothing, a wait resets it. A worker's step is split where another
thread can act: waking (`WorkerTake`), `RunJob` (`WorkerRun`), announcing
(`WorkerSignal`). A job may fail (`ok` FALSE), which in the code is an
allocation that fails. `Start` and `Finish` are operators that the client's
actions use, as the code calls them; with one thread `Start` does the job
itself. The number of threads, `-t`, is chosen in `Init`.

`StreamCompress` has one action for each part of `Compress` between two calls
that may block: `MainWrite` (the slot's last block leaves), `MainRead`,
`MainStart`, `MainDrain`, `MainEnd`, and `MainFree`, which is `TPipeline.Destroy`
step by step. Every write of a record may fail. The output is a sequence of
records; the layout of a record is left out, except that its length comes
first and that length 0 is the end of the stream, which an encrypted stream
also authenticates with the number of blocks.

`StreamDecompress` reads records: `MainRead` (the length, the header, or the
end), `MainWrite`, `MainFill` (`Reserve` and the payload), `MainStart`,
`MainDrain`, `MainFree`. The input never changes and is chosen in `Init`: what
`Compress` writes for some number of blocks, plain or encrypted, or that with
one record lost, repeated, moved, damaged, or the file cut. What it writes for
an input of a whole number of blocks has the empty record of finding 1
(`StrayRecord`, `StrayAfter`). A record's data is the position the block was
sealed for, so `Authentic` compares it with the number of blocks read, as the
AAD of `OpenJob` does, and `EndSealed` compares that number with the end's.
Plain blocks have a checksum only, so `OutputIsPrefix` and `SuccessIsWhole`
promise less for them.

Three things make `Decompress` report a stream as corrupt that is as `Compress`
wrote it, and `IntactIsAccepted` says that there is no fourth. A read may fail
wherever the code reads (`ReadFails`), and `ReadFull` takes that for the end of
the file; `readFailed` remembers it for the properties. A job may find no
memory (`NoMemory`), and `WriteSlot` sees only that it is not ok. An encrypted
stream may have the empty record (`Misread`). The first two should have ended
with exit code 4 (see Findings). The read that looks for bytes after an
encrypted end may fail too, which counts as finding none.

Fairness: weak fairness of the main thread and of each worker, since the
operating system runs every thread that can run. Nothing is assumed about
their relative speeds.

### TaskPool

The caller's steps in `Run` are separate actions, since helpers wake between
any two of them: `Run` (the fields are set), `Wake` one helper, `Clear`
(`failed := False`), its own `Work`, `Wait` for one helper, `Return`. A task
ends in `TaskDone` or `TaskFails` (an exception), which ends that thread's
`Work`. `Destroy` may come after any `Run`. `claims` and `result` record what
happened to each task; the code has no such variables. Fairness as above.

### ArchiveFile and VersionLog

A version occupies a region of the file with four parts in the order they are
written: head, data, index, commit. A part's value is the number of the run (a
session) that wrote it, `None` past the end of the file, `Junk` where nothing
can be recognised (zeros included), or `Torn` where only the magic and lengths
are right. `cache` is the file as processes see it, `disk` the file as it is on
the disk. `WriteBack` lets the kernel write any part at any time, whole or
damaged; parts before it that have not been written back are holes.
`FlushVersion` and `FlushCommit` are the two `FileFlush` calls.

What a reader finds is an operator on an image of the file: `BackwardOK` is the
walk from the last commit to the first version, `ForwardGood` is `ScanForward`'s
weaker test (block headers are chained, payloads are not read; of a head the
code compares the magic only, `ForwardGood` all of it, which no damage that is
reachable tells apart), `LoadGood` is what `LoadVersion` verifies. A run is
`Read`, `GiveUp` (no changes, an error while walking, or the file cannot be
opened), `OpenForWriting` (with the cut at the end found by `Read`), the four
writes and two flushes, `Report`; `WriteFails` is the exception handler that
cuts the file back, `Kill` and `PowerLoss` may come at any step. A write that is
interrupted may leave its part damaged.

Both opens ask for the mode `fmShareDenyWrite`, and what that does is the
system's: `NotDenied`. On Windows (`DenyWrite`) neither succeeds while a run has
the file open for writing. On Unix the run-time library takes a shared lock
(`flock`, `LOCK_SH`) for that mode, for readers and writers alike, which keeps
nobody out. A lock on a reader's side is left out: on Windows a reader would
also keep a writer from opening the file, which then gives up.

Assumed: two runs that write the same region write parts of the same sizes,
the case in which a mixture is hardest to notice; a checksum never matches
damaged bytes; a flush that succeeds makes the disk equal to the cache.

### ReaderBatches

An entry that is a file is a sequence of fragment sizes, where the cutter would
cut it. `FillBatch` is one action per turn of its loop (`OpenFile`, `SkipFile`,
`CloseFile`, `AddFragment`, and `FillEnds`), taken by the reader thread with
its batch or, with `-t 1`, by the main thread with batch 0. The reader's loop
is `ReaderTake`, the filling, `ReaderSignal` and `ReaderCheck` (`until b.last`
comes after the event); the main thread's is `MainTake`, `MainStore`,
`MainReturn` (the batch is given back) and `MainUntil` (`until b.last`), so
that the other thread may act between any two. `Fail` is an exception in the
main thread with the destructor's `Terminate` and wake-up. `Terminated` is set
and the events are set in one step; the reader's exception may come at any step
of the filling. Storing a batch is one step, since nothing else reads what it
writes: the task pool and the pipeline it uses have their own models. Fairness:
weak fairness of each thread.

### KeyRecord

A slot is its generation and password. `Begin` reads and opens the record (and
refuses the last generation), then the two writes and flushes of `WriteRecord`
follow. `Stopped` is an error or a kill at any step. A slot's write is atomic
on the disk (the record lies in the file's first sector). `known` is the set of
passwords the owner may have to try: the password of the last success and the
new one of every attempt since.

### BlockFormat, LzBlock and BlockDecode

A block has a control stream, a literal stream and the length of what it
decodes to. `BlockFormat` reads a token as the table `SYLZ_TOKENS` does: an
exact pair of lengths, or an escape that lets the literals, the match or both
go on in extension bytes. Every number the format fixes is a parameter: the
shortest match, the longest exact lengths, the exact pairs, the byte an
extension goes on after.

`LzBlock` says what decoding means: whole sequences, each of which takes its
literals and repeats what is at its distance, then the tail; everything else is
refused. `BlockDecode` has one action for each turn of a loop and each way
through a sequence of the code. The fast loop (`Fast...`) reads a token with
everything its margins allow, copies `Wide` (16) or `Half` (8) bytes at a time
and leaves what it copied too much to be overwritten; a match nearer than
`Wide` is copied by halves, one nearer than `Half` is first made into a period
that is at least `Half` long. When a margin is used up the loop leaves the
sequence, and the exact loop (`Safe...`) goes on from there, or from the start
of the sequence. The lengths are of type `intptr_t`, which holds up to
`PtrMax`, and beyond it they wrap (`Wrap`). `dst` is the output with `Junk` where nothing was written, so
that a byte copied before it was written shows. `reach` records how far each
buffer was touched. `last` is where the last sequence ended: with it
`Decodes` is a refinement of `LzBlock`, in which a sequence is one step
whichever loop did it.

`LengthsFit` says that an `intptr_t` holds every length that as many control
bytes as the block has can ask for, at most 255 a byte. With 64 bits that is so
of every block (`MAX_BLOCK` is 512 MiB), with 32 bits of those with up to about
8.4 million control bytes; there the code does what `InBounds` and `Decodes`
say. For the others see Findings (`decode_block_32.cfg`).

### The compressors

`BlockInput` and `BlockEmit` hold what they share. `anchor` is the first input
byte that is not in the block yet, `out` the control and literal streams, and
`reach` how far the input was read to hash it. A hash is any function of the
bytes at a position, a table entry a position modulo `Window` (65536 in the
code, since a distance has two bytes). Memory that the code does not clear for
a block (the chain, the tree's links) starts as `Unset`, with which nothing can
be computed: TLC stops if a search reads an entry that was not set for this
block.

`CompressFast` and `CompressMid` are a turn of the search each, the extension
of a match to both sides, and what is done after it is written. `ChainParse` is
the parse of three matches as the code has it, an action for each way it goes
on (`Found...`), with a search that may answer with any match it could be
asked for; `ChainSearch` is the code's search, a walk through the chain that
tries at most `Attempts` candidates, rejects one that does not begin with the
bytes at the position, extends the others to both sides and keeps the first of
the longest. `SearchImplements` says that it is one that `ChainParse`
allows, so what is proved for `ChainParse` holds of both together (`ChainSpec`). `OptParse`
has the insertion of a position in the binary tree, which also finds the
candidates, the dynamic program forward through the window (`hidden` positions
lie inside a long match and are not tried), the match that is long enough to
end the window at once, and the way back. A price is in bits. `BlockEncode` starts one of
them on one input.

Where the code keeps the first of two ways with the same price, `OptParse`
takes any one of them (`CHOOSE`); the price is the same. Literals cost a byte each (the
entropy-coded levels, which price them by a code, are left out). The
parameters of one level are one assignment of the constants.

A call is sequential, so fairness is only that it runs on (`RunsOn`). Deadlock
is checked, with a stutter when the call has returned, so that this is weak
fairness of `EncodeNext`.

### HashLanes

A hash is kept as what was compressed into it: blocks, each with the counter
and the final flag. `Take` gives the idle lanes the next messages, `Round`
compresses one block of every busy lane, `Rest` finishes a message that has no
other to share the vectors with, and `One` is the build without vectors. Idle
lanes compress zeros, which nothing reads.

## The runs

| Run | Shows | Bounds |
|---|---|---|
| `compress_threads` | jobs have one owner, blocks leave in order, `Compress` ends, the output decodes unless the input is a whole number of blocks, at least `Slots` | no worker, or 2 with 4 slots; inputs of 0 .. 13 units in blocks of 2: fewer blocks than slots, exactly as many, and up to 7, so slots are reused and the last block is short or full |
| `compress_whole_blocks` | violation of `RoundTrip`: finding 1 | as `compress_threads` |
| `decompress` | only the input's blocks are written, in order; a success wrote all of them and, encrypted, means nothing was altered up to the end; an unaltered stream is refused as corrupt only after a failed read, a job without memory or an empty record; `Decompress` ends | no worker, or 2 with 4 slots; 0 .. 6 blocks (none, fewer than slots, exactly as many, two slots reused), one alteration of those with up to 4 |
| `append` | the archive opens, shows whole versions, keeps reported ones, is a log | one run at a time, 3 versions, 4 runs that write: a version can be added, torn, cut and added again |
| `append_overlap` | with two runs at once and a lock that keeps writers out (`DenyWrite`), what one has written stays and ends the file until it ends, and is on the disk when it is reported | 2 processes, 3 versions, 3 runs |
| `pool` | each task once, quiet helpers, everything ends | 3 threads, 1 .. 4 tasks, 2 Runs: more tasks than threads and fewer, a Run after a Run |
| `read_files` | batches have one owner, fragments are stored in order, nothing is lost but batches that are left untaken, `ReadAll` ends | with and without the reader thread; up to 2 files of up to 3 fragments, of 1 or 2 units, in batches of 2: up to 7 batches, so each of the three is refilled, full and not, and the last is empty or not |
| `read_files_lost` | violation of `EveryFragmentStored`: finding 2 | as `read_files` |
| `key_change` | the owner is never locked out, revoked passwords stay revoked, the newer slot is the one to try first | 3 passwords, generations up to 6: five changes in a row, the limit included |
| `decode_block` | the decoder stays inside its buffers and is `LzBlock`, if the lengths fit an `intptr_t` (here they always do, `PtrMax` is 1023) | 2871 control streams of 1 to 3 sequences with every kind of token and distances on both sides of each limit, each whole or cut off, with 0, 8 or 26 literals in the tail, the output as long as asked for, one byte longer, or too short; copies of 3 and 6 bytes, so that a block of 50 bytes goes through the fast loop, leaves it at each of its exits, and ends in the exact one |
| `encode_block` | every level: decodes to the input, ends, hashes inside the input (in the chain and the tree as well), writes true matches in order, emits nothing but literals and matches that repeat (levels 9 and 10 emit a window at a time, which `RoundTrip` covers); the searches find the longest match; the optimal parse prices what it writes | all 8192 inputs of 14 letters out of two that begin with 0, and 46 of 22 letters that make the parse of three matches take its rarer ways; `Window` 9, so that every table wraps and half of the matches are too far; a hash with collisions; 8 attempts and 10 tree nodes, enough to visit a whole window, as `FindsLongest` needs; a match of 4 is enough to end the lazy parse (`OptimalML`), windows of 6 positions in the optimal one |
| `hash_lanes` | each hash is that of its message alone | lists of up to 5 messages of 6 lengths around one and two blocks, with and without a key, 3 lanes or none: lanes that end in one round or in different ones, that take another message, and the last that ends alone |

The stream, pool, decoder and hash runs do not check for deadlock, since the
program stops when it is done; for the first two `Termination` (of the pool, `RunsEnd`) says that it
stops only there. `encode_block` does check for it.

The mutants were run against these bounds, each under the configuration of its
run: the case that tells the mutant from the code is one that TLC meets.

## Findings

1. `Compress` loses data when the input is a whole number of blocks and at
   least `Slots` of them. Each slot is written before it takes a block; if the
   read that follows is empty, the drain loop writes that slot again, with
   length 0, which readers take for the end. With several threads the blocks
   in flight after it are lost; with one thread a plain stream still decodes
   (the stray record follows the last block) and an encrypted one does not
   authenticate. `syc c` reports success, and `--rm` then deletes the input.
   `RoundTripUnlessWholeBlocks` shows that these are the only inputs.
2. `ReadAll` reads `b.last` once more after it has given the batch back. If the
   reader refills that batch with the end of the files in between, the loop ends
   and the two full batches after it are never stored; if the reader ends with
   an exception, that is not reported. `syc a` succeeds, but the sizes of the
   entries were set by the reader and do not match their fragments, so
   `LoadVersion` refuses the archive from then on. `LossIsUntaken` shows that
   this is the only way to lose anything.

Other disagreements. The first four have a configuration of their own, in which
TLC finds the property named violated; they are no runs of the project. The
others show when a condition of a run is changed.

- The decoder adds extension bytes to lengths of type `intptr_t` without a
  bound. With 32 bits, some 8.4 million extension bytes of 255 make a length,
  or the sum of the two, negative, and a negative length passes the checks that
  should leave the sequence (`sylzc.c:234-235`) or refuse it (`165`, `171`): the
  copies then go on outside the buffers, although `sylz.pas:172-173` says that
  decoding is "safe on corrupt input: never reads or writes out of bounds". No
  block that the compressor writes has such lengths. (`decode_block_32.cfg`,
  `StaysInside`: blocks with extensions of up to 30 bytes and lengths of 9 bits
  with the sign. `InBounds` and `Decodes` state what holds.)
- `ReadFull` takes a read that fails for the end of the file
  (`sycblocks.pas:267`), and an `EReadError` is turned into the same
  (`sycstream.pas:347-349`), so `Decompress` reports a stream that cannot be
  read as truncated, with exit code 3. The usage text (`syccli.pas:181`) has "3
  corrupt data, 4 I/O error". (`decompress_read_error.cfg`,
  `ReadErrorIsFatal`.)
- A job says only whether it is ok, so `Decompress` reports one that found no
  memory as corrupt data (`sycstream.pas:253`), with exit code 3; `EXIT_FATAL`
  is for "I/O error, out of memory" (`sycblocks.pas:25`).
  (`decompress_no_memory.cfg`, `NoMemoryIsFatal`.)
- Two overlapping `syc a` on one archive: the file is cut where it ended when
  it was read, before the walk (`sycarc.pas:1534`, `1650`), so the second run
  drops what the first one has committed in between, although "the old versions
  are never rewritten" (`1463-1465`). On Unix nothing keeps the second out while
  the first still writes (`append_unlocked.cfg`, `OldVersionsKept`); with the
  lock of Windows it happens once the first has reported its version
  (`append_overlap.cfg` with `OldVersionsKept`).
- The result of `FileFlush` is not looked at, so a commit record can be on the
  disk without its version (`append_serial.cfg` with `FlushMayFail = TRUE`: after a
  power loss `OpenNeverCorrupt` fails).
- `TTaskPool.Run` clears `failed` after waking the helpers; a helper that
  fails first is forgotten, and `Run` reports success (`pool.cfg`; in
  `TaskPool`, a task that failed before `Clear`).
- The comment on top of `syckey.pas` says that an interrupted `syc k` leaves a
  file that opens with the old password or the new one. After a kill before the
  flush and, during the next change, a power loss, it may open with an older one
  only; `NeverLockedOut` states what holds.

## What is proved

By TLAPS, for all values of the constants.

- `AdderProofs`, about `ReaderBatches`: `BatchHasOneOwner`, `StoredInOrder` and
  `LossIsUntaken`, for any files, any cuts and any size of a batch. The
  invariant (`ReadInv`) has four parts besides the types. `OwnerInv` and
  `LastInv` say whose a batch is and what `last` means. `Shape` says that the
  reader goes round behind the main thread: of the three batches, in the order
  in which the main thread comes to them, those before the reader's are not
  free and those after it are not in use. `OrderInv` says that what is stored,
  then what is pending in the batches in that order (`Pending`), is what was
  cut; after an exception of the reader it is a beginning of it. A step moves a
  fragment from the files to the last batch in use, or a whole batch to
  `stored`, and `Shape` is needed for both: without it the batch the reader
  fills need not be the last one pending. `FlattenSeq` is a recursive function,
  so what it does with one more fragment is proved by a least counterexample
  (`LeastNat`, `FlattenAppend`).
- `AdderProofs`, about `TaskPool`: `TypeOK`, `EachTaskOnce`, `QuietBetweenRuns`
  and `ReturnMeansAllRun`, for any number of threads and tasks. The inductive
  invariant (`PoolInv`) says for each helper how its state, its two events and the
  caller's position `k` in the loops that wake and wait go together, and that
  a task below the counter was claimed by exactly one thread. Without it
  `QuietBetweenRuns` does not rule out an event left set by an earlier `Run`.
- `AdderProofs`, about `HashLanes`: `HashedAsAlone`, for any messages, any size
  of a block and any number of lanes from two. The invariant (`HashInv`) says
  that a busy lane is the record a message has after `j` of its blocks
  (`LaneAt`), `j` short of all of them, whatever was in the lane before, and
  that every message that was taken is in a lane or written. The rest is
  arithmetic and counting: how many blocks a message has (`CeilIs`), that a
  round compresses exactly the next one and ends with the last
  (`CompressedIs`), that what `b2s_finish` does from any `j` gives the same
  blocks (`FinishIs`), and that idle lanes, by their ranks, take the next
  messages, each once, with an idle lane left over only when none is left
  (`Ranked`). The last makes "fewer than two busy lanes" mean that all messages
  were taken, which needs two lanes: with one the messages behind the first
  would be lost.
- `PipelineProofs`: what the ring of jobs keeps for any number of threads and
  any main thread that calls `Start` on a slot it may fill and waits (`Finish`)
  before it looks at a result. `Handshake` says how `busy`, the two events of a
  slot and its worker's position exclude each other, `Waited` how far `Destroy`
  has come, `PipeInv` adds that a result was made of the block the slot was
  filled with and that the main thread's slots are nobody else's. There is one
  lemma for each operation and each worker's step; both clients cite them.
- `StreamCompressProofs`: `JobHasOneOwner`, `BlocksLeaveInOrder` and
  `RoundTripUnlessWholeBlocks`, for any number of threads, any block size and
  any length of input. The invariant gives the whole output as a function of
  how many records were written (`RecordAt`), the stray record of finding 1
  included, and says which block each slot holds at each point of the loop: in
  the main loop the slots behind the current one, in the drain the same ones
  counted from where the drain began. That the input is a whole number of
  blocks, `Slots` of them or more, is then exactly when the stray record is
  there, so the property's "unless" is proved in both directions.
- `StreamDecompressProofs`: `JobHasOneOwner`, `OutputIsPrefix`,
  `SuccessIsWhole` and `IntactIsAccepted`, for any number of threads and
  streams of any length, altered in any of the ways of `Init` or not, whichever
  read, write or job fails. The invariant
  relates `fin`, the slots in flight and `fout`: each block read is that record
  of `fin`, the blocks before the oldest in flight are written and were intact.
  Of what was done to the stream it needs one thing only (`Genuine`): a record
  that authenticates at its place is the one `Compress` wrote there. `Blame`
  keeps why exit code 3 was chosen until `Destroy` has ended.
- `ArchiveFileProofs`: for any number of processes, versions and runs.
  `TypeOK` holds without a condition. `WrittenStays` holds if flushes do not
  fail and the lock keeps other writers out (`DenyWrite`), for any number of
  runs at once, or if runs do not overlap (`Serial`). Its invariant (`Locked`)
  says that one process writes at most (`Exclusive`), that what it has written
  and what follows is as its position says, and that cache and disk are equal
  when it reports.
  `OpenNeverCorrupt`, `FoundVersionsWhole`, `AckedReadable`, the action property
  `OldVersionsKept` and the refinement `ImplementsLog` have in addition the
  hypothesis that runs do not overlap (`Serial`). Both
  are needed (see overlapping runs and `FileFlush` under Findings). The invariant splits the file at two points:
  versions `1 .. n` are equal on the disk and in the cache, versions `1 .. m`
  are whole in the cache, `m` is `n` or, while the last commit is not on the
  disk, `n + 1`; beyond `m` there is no commit in the cache, beyond `n` none on
  the disk; and the process under way has written the parts its position says.
  `FoundIs` derives from the layout that `Open` finds exactly `m` versions.
  The refinement rests on it: the log is the writers of the first `m` versions
  (`LogIs`), so every step is an `Add` (`m` grows by one, at the commit's
  write), a `Report`, a `Lose` (a power loss while `m = n + 1`) or leaves the
  log alone (`NextMoves`); `AckTop` says that the last reported version is a
  maximum, which makes `LastAcked` mean what its name says.
- `KeyRecordProofs`: `TypeOK`, `NeverLockedOut`, `OldPasswordsRevoked` and
  `NewestFirst`, for any passwords and any last generation. The invariant
  relates the record in the cache to that on the disk at each step of a change.
  For `NewestFirst` it also says that the generations of the two slots differ
  in both (`GensDiffer`) and that during a change the slot with the new
  password is above the other (`NewAbove`).
- `BlockDecodeProofs`: `InBounds` and the refinement `Decodes`, for any block
  whatever its bytes, any width of an `intptr_t` that holds its lengths
  (`LengthsFit`), any table of exact tokens and any widths of the copies with `Wide >=
  ExactLL` and `2 * Wide >= MinMatch + ExactM` (16 >= 15 and 32 >= 32 in the
  code, so the second holds exactly). For `InBounds` the invariant says at each
  point of the fast loop how much room is left: four copies when a token is
  read, three after the literals' start, two where a match starts, one behind
  its end; `InBounds` alone says nothing of what the next copy needs. That no length
  wraps is an invariant of its own (`Short`): the lengths read so far are at most what
  the control bytes read so far can ask for. For
  `Decodes` a second invariant (`DInv`) relates the step in hand to the
  sequence that `LzBlock` decodes at once: the lengths read so far are those of
  the sequence (`ReadingLL`, `ReadingML`, `ReadWhole`, in both loops), the
  literals copied so far are its literals (`LiteralsTaken`), and the match
  copied so far is periodic with the distance as its period (`Repeats`). A copy
  of 16, 8 or 1 bytes keeps that because the place it reads from is a multiple
  of the distance before the place it writes to, and not nearer than it is wide
  (`Repeating`): `RepeatsFurther` is that lemma, `PeriodIs` gives the multiple
  the code takes from a table for distances below 8, and the lemmas on
  remainders say that a multiple of the distance further the period is the
  same. What a copy wrote too much lies behind `op` and is not in the output.
  `FitsIs` says that the checks of either loop refuse exactly the sequences
  that do not fit. Every action then is a step of `LzBlock` or none (the lemmas
  `...Dec`).
- `CompressProofs`, about levels 4 to 8: `MatchesTrue`, `EmittedInOrder` and
  `SearchesForward` of the parse, for any input, window and minimal match length
  (at least 3; `SearchesForward` at least 4, the code's), and any search. The
  invariant says for each `state` which of the three matches can still be
  written (true, at or after `anchor`, long enough), in which order they
  start, and what the search may be asked. The match the parse took over from
  (`first`) must stay true although it overlaps the one in hand, since it may
  be written in its place after all. `SearchImplements` says that the code's
  search is one of these, so `ChainSpec` implements `ChainParse` and the first
  two hold of it too. It needs that the entries of the ring that belong to
  positions already inserted hold distances of at most `MaxDist` (`TablesOK`),
  whatever the others hold (`Unset`), and that questions lie inside the input
  (`Inside`). The tables with the positions inserted and the walk through a
  chain are recursive functions: that they exist, and what holds at each of
  their arguments, is proved by a least counterexample (`InsertionExists`,
  `InsertedToOK`, `FollowedExists`, `CandidatesInReach`). `ThroughIs` puts the
  match together from what is compared before, at and after the position, and
  `FirstOfGreatestExists` says that one is kept.
- `CompressProofs`, about levels 0 to 3: `ReadsInside` and `EmitsRepeats`, for any
  input, window, hash with values in the table (`HashAssumption`) and
  acceleration. The invariants (`FastInv`, `MidInv`) need nothing of what the
  tables hold except that it is numbers: a distance is always in `1 .. Window`
  (`FastDistIs`), and a candidate counts only if it is not before the input and
  its first bytes are compared. From then on the match in hand repeats, starts
  at `anchor` or later and before `Limit`, through every extension
  (`Extended`, `ExtendedBack`) and every later one that replaces it. `EmitsRepeats` is
  proved of levels 4 to 8 as well; with the code's search it implies
  `EmittedInOrder`, which therefore is proved but not run.
- `CompressProofs`, about levels 0 to 8 (and the codes of 9 and 10): `RoundTrip`, what is written decodes to
  the input, for any input, window, hash, table of exact tokens and escape
  codes (`TokenAssumption`; two bytes must hold a distance of `Window`, 65536).
  The lemmas from `PutExtIs` to `SequenceRead` say that `LzBlock` reads back the
  two lengths and the distance from the bytes `emit_sequence` was given them
  for, whichever of the four forms of token it chose; those from `PartIs` to
  `RepeatIs`, that repeating the last bytes at a distance gives what is in the
  input when it repeats there, also where the copy overlaps itself. The
  invariant (`Codes`) says that there are points in the two streams and the
  input, from the start to where the block ends now, such that the bytes
  between two of them are those of a sequence which repeats. A step that emits
  as `EmitsRepeats` says adds a point (`CodesStep`), so the invariant follows
  from what is proved of each level before. The decoder goes from point to
  point (`DecodeFollows`), in no more steps than there are control bytes
  (`DecodedIs`). The decoder in `RoundTrip` is a recursive function; that it is
  the one the points describe is again proved by a least counterexample.
- `CompressProofs`, about levels 9 and 10: `RoundTrip` and that every candidate
  is a true match inside input and window (`OptCandidatesTrue`), for any input,
  hash, window, cut of the walks, length they compare, prices and table of
  tokens. The tree is where this is hard. A walk (`WalkStep`) believes that
  `Known` bytes are equal at the next node, because the position sorts between
  two nodes it went past that both begin with them; nothing checks those bytes
  again. The walk may be cut off, links are reused in a ring of `Window` pairs,
  and a link may hold what the block before left. The invariant of the tree
  (`TreeOK`) therefore speaks of the positions that are still inside the
  window only, and of sets, not of the nodes one reaches: there is a set of
  positions for each node (`B`) that includes it, and each of its two links leads
  out of the window or to an earlier node whose set is part of this one and
  sorts, as far as is compared, on that side of it. The sets may be larger than
  what one reaches, as after an insertion that is cut off, which drops parts of
  the tree. During an insertion two links, the holes, are
  without a value, and the walk's invariant (`Walked`) says between which bounds
  everything sorts that may still be put there. That the ring of links
  (`Pair`) gives no two nodes of the window the same pair is a lemma. Position by position the
  order of bytes is not total here, since two positions can be equal as far as
  they are compared: the order used (`NotAfter`) is the negation of "sorts
  after", and how far two such facts go together is a lemma. `FindAll` then only
  lengthens what already repeats. The dynamic program and the way back are
  recursive functions: every node that was given a price by a match has one of
  the candidates of the position the match starts at (`OptInv`), whatever the
  prices are, so the path consists of true matches one after the other, and
  what `Written` makes of it adds a point to `Codes` per match.
- `CompressProofs`, `PriceIsSize` of levels 9 and 10: the price of a window's
  end is, to the bit, that of the bytes, the pending literals and the penalties
  of the way there. Prices are kept per node and bytes are written per
  sequence, so the proof needs an account of a way that can be carried on by a
  node (`Accounted`): what the node has cost, and what the run before the
  window had cost already (`PendingCost`), is `Scale` for every control byte
  and every literal of the way, plus its penalties, plus what the literals
  pending at its end have cost besides their bytes. `LiteralPays` and
  `MatchPays` say that one literal, and one match with any of the four forms of
  token, keep that balance: the literal that makes a run need an extension
  pays for it, and a match after such a run does not pay again. That a match
  far above the table of prices (`MtabCols`) costs as one in it is part of
  `MatchPays`. The way to a node goes back through nodes that have been given
  their price before they were used, and that do not change any more
  (`StepsBack`); the positions that are passed over (`hidden`) are never on it.
  For that no node on it may be left at `High(Int32)`: a position that is not
  hidden is the next after one that is not, or the end of the longest candidate
  of one (`HiddenOK`), the longest is always tried at its full length since the
  candidates get longer one by one (`Rising`, an invariant of the walk through
  the tree), and a way costs at most `4 * Scale + PSeq + PEsc + PShort` a
  position (`PriceCap`), which is where the assumption on `Inf` comes from: a
  window of so many positions must stay below `High(Int32)`. The code's 4096
  positions at 8 bits a byte and penalties of a few bits are far below it.
- `CompressProofs`, about all levels in one (`EncodeSpec`, what the run checks):
  `RoundTrip`, `ReadsInside`, `EmitsRepeats`, `PriceIsSize`, `MatchesTrue`,
  `SearchImplements` and `SearchesForward`. The invariant (`EncodeInv`) has an alternative for each
  kind of level, the invariant proved of it before; `StepsApart` says that a
  level's state allows no step of another. For `ReadsInside` of levels 4 to 10 it
  needs where the parse may ask a search (`Inside`: a match as long as `MinMatch`
  still fits there) and which positions the optimal parse inserts; the hash of a
  position is of the first `MinMatch` bytes at it (`ChainReads`, `BtReadsInside`).

Only model-checked:

- every liveness property (`Termination` of the pipeline's clients, of `ReadAll`
  and of the parse, `RunsEnd` of the pool): the prover has no rules for fairness
  here;
- `FindsLongest`: it holds only with attempts and nodes enough for a whole
  window (8 and 10 for a window of 9 in the run). The code has from 2 to 256 for
  65536 positions, so a theorem would have a hypothesis no level satisfies.

## What is not modelled

- The assembler versions of the match finders on x86_64, which the source says
  give the same results as the C ones.
- The entropy coding of literals (`sylzhuf.pas`, `CompressOptEC`, format 3) and
  the prices it gives the optimal parse: bit-level arithmetic on code lengths.
- The rounds of BLAKE2s, XChaCha20-Poly1305, Argon2id and CRC-32: arithmetic on
  words, which test vectors check better than a model checker.
- Prefetches, and the sizes of tables beyond what decides which entries are
  kept. The way of the parse in which the third match starts where the second
  did is in `ChainParse` and in its proofs, but not met by the inputs of
  `encode_block`.
- The command line, the plugin, benchmarks, tools and tests keep no state worth
  a model. Raw blocks, the walk and the comparison with the last version,
  deduplication, extraction and output files are next (see the plan).

## Plan

1. `AdderDiff`: `Walk`, the comparison with the last version and `ApplyVersion`;
   a reference definition says what the next state is.
2. `Extract`: blocks decoded ahead in access order through `Pipeline`, and what
   happens to each file.
3. `OutputFile`: temporary output, rename, `--rm`, creation of an archive by two
   runs at once.
4. Pure operators: `Dedup`, `Cdc`, index and number formats, `VersionsUntil`,
   globs and stored paths, each against a reference definition.
5. Proofs: the safety of the components of 1 to 4.
