# duckdb-openzl: specifications and proofs

TLA+ specifications of the duckdb-openzl extension (`src/`), TLC
configurations that check them on small instances, and theorems about them
that the TLA+ proof system checks for every value of the constants. Source
positions below are relative to the repository.

## The system

The extension stores tables as OpenZL archives (`.zl`). DuckDB calls into it
from many threads; it calls OpenZL to compress and decompress, and the local
file system directly.

| Part | State | Operations | Talks to | What makes it correct |
|---|---|---|---|---|
| Archive format (`src/openzl_bridge.cpp:24-130,199-221`) | the file: a plain frame, or magic, frames, index, count, magic | `ReadContainerIndex`, `ChunkCount`, `DecompressChunkToBuffer`, `DecompressToBuffer` | read by the file system and by `Glob` | a file is read as what was written or refused; no read outside the file |
| Archive writer (`ChunkedArchiveWriter`) | `first_`, `out_`, `ranges_`, `pos_`, `num_chunks_`, `finished_`, the file | `Append`, `Finish`, `Abort`, destructor | owned by a COPY | a reader never gets some of the chunks; an aborted archive leaves nothing |
| `openzl://` reads (`src/openzl_file_system.cpp`) | the archive cache (weak references, stamps, one mutex), open handles | `OpenFile`, `Glob`, `Read`, destruction of a handle | bridge; writers through the disk only | no stale, freed or changing bytes; one buffer per archive; no lock kept |
| `openzl://` writes (same file) | the write buffer, `<path>.openzl_tmp` | `OpenFile`, `Write`, `Truncate`, `Close` | bridge | a reader never sees half an archive |
| Staging buffers (`OpenzlBufferFileSystem`) | the registry of buffers, a path counter | `GenerateUniquePath`, `OpenFile`, `Write`, `PeekSize`, `TakeBuffer` | COPY, DuckDB's parquet writer | COPYs do not see each other's bytes |
| `COPY ... (FORMAT OPENZL)` (`src/openzl_extension.cpp:681-1016`) | bind data, current chunk, parquet state, archive writer, staging target, fallback count | bind, init, sink (with rotation), combine, finalize | all of the above, DuckDB | every row once and in order; all or nothing at the target; staging cleaned up |
| Compression of one input (`src/openzl_bridge.cpp:227-397`) | none | `CompressParquet*`, option checks | OpenZL | the limits and modes the options name |
| Scalar functions, `read_openzl` | none | `openzl_compress`, `openzl_decompress`, `openzl_chunk_count` | bridge | as the bridge |
| Training (`src/openzl_train_bridge.cpp`, `src/openzl_extension.cpp:282-482`) | the rows kept by bind, an offset, files of candidates | bind (selection, search, benchmark, files), execution | OpenZL's trainer, the file system | sample limits, one file per candidate, rows that agree with the files |
| `openzl_promote`, `openzl_restore` | the chosen types, a nested query and its result | bind (analysis), scan, restore | DuckDB | what the analysis saw converts and comes back |
| DuckLake packing (`scripts/ducklake_pack.py`) | catalog rows, source files, archives, a pool of tasks | `pack_one`, `main` | DuckLake catalog, COPY | every catalog row names a readable file with the same rows |

What is hard in it: scan threads and writers that meet only through a cache
and `stat`; a writer that may fail or die at every byte; COPYs that share a
registry of buffers and a counter; callbacks after which DuckDB may never
call again; unsigned arithmetic on words read from a file; types chosen by one
query and used by another; a script that moves the only copy of a table and
may die anywhere. `PROJECT.json` lists each hazard at its line with the
properties that cover it, or says why none does.

## Modules

| Module | Models | Run by |
|---|---|---|
| `ChunkContainer` | the layout of an archive, what a prefix of it is, and the functions that read it, as operators | `writer`, `writer_lost`, `damage` |
| `ChunkedArchiveWriter` | the writer and the bytes on disk, with failures of open, write and close | `writer`, `writer_lost` |
| `ArchiveScan` | `Glob` and the opens of the chunks it lists, composed with the writer | `writer` |
| `ArchiveDamage` | an archive whose words are overwritten and whose end is lost | `damage` (`MCArchiveDamage`) |
| `ArchiveCache` | `OpenFile` for reading, the cache, and the archive's writers | `cache`, `cache_coarse` (`MCArchiveCache`) |
| `AtomicCopy` | the abstract specification of a COPY | through `OpenzlCopy` |
| `OpenzlCopy` | COPY with its staging buffers, over an abstract archive writer | `copy` (`MCOpenzlCopy`) |
| `GraphOptions` | from the `openzl_*` settings to `GraphOptions`, their validation, and what a compression may return, as operators | `write`, `write_shared`, `options` |
| `ArchiveStore` | the abstract specification of a store of archives | through `OpenzlWrite` |
| `OpenzlWrite` | the write side of `openzl://`: handles, `Close`, moves, removals, crashes | `write`, `write_shared` (`MCOpenzlWrite`) |
| `CompressOptions` | what COPY and `openzl_compress` make of settings, options, compressor file and input file | `options` (`MCCompressOptions`) |
| `Train` | `openzl_train`: selection of samples, candidates and their files, and the rows of repeated executions | `train` (`MCTrain`) |
| `Promote` | `openzl_promote` and `openzl_restore` over a table that others change | `promote` (`MCPromote`) |
| `DuckLakePack` | the packing script over a catalog, with DuckLake beside it | `pack` |
| `ChunkContainerProofs`, `ArchiveCacheProofs`, `OpenzlCopyProofs`, `GraphOptionsProofs`, `OpenzlWriteProofs`, `CompressOptionsProofs`, `ToolsProofs`, `PromoteProofs` | theorems | tlapm |

Operators named "Mutant of ..." stand before the definition they vary: each
is a plausible slip in that piece of code, and with it in place the property
named for it in `PROJECT.json` fails. They are in no next-state relation.

### ChunkContainer

A file is its size, the words that matter by the offset where they start,
and the frames by the offset where they start. Contents of a frame are its
name and length. A read of any other word gives `Payload`, a word that is not
the magic: a compressed frame that contains the eight bytes of the magic
exactly where a truncated file would end is outside the model. `uint64_t`
arithmetic is taken modulo `WordModulus`, so that the checks of
`ReadContainerIndex` can wrap as the code's would. `decompressSerial` is
OpenZL's and external: it accepts exactly the bytes of one frame.

### ChunkedArchiveWriter

`stream` is what has been given to the `std::ofstream`, `disk` what the file
holds. `Flush` lets any further prefix reach the file whenever the stream is
used; a killed process leaves just what `disk` holds, so an invariant about
`disk` is also one about crashes (of the process: loss of written pages by
the machine is not modelled, the code never syncs). `phase` is where the
owner is. A call that throws is followed by the destructor only, because
`OpenzlEndChunk` and `OpenzlCopyFinalize` rethrow.

### ArchiveScan

A scan of `openzl://<archive>` is `Glob`, which reads the index and lists one
path for each chunk, and then an open for each path, in any order. An open
reads the file twice: the index, to check the number and find the range, and
the frame. `ArchiveScan` lets the writer take any of its steps between these
four kinds of read. Buffers are left to `ArchiveCache`: here every open
decompresses, which is what a cache that is never hit does.

The paths carry a number and nothing of the archive they were made from. If
an archive of several chunks is replaced under a scan, the chunks opened
before and after may be of two archives (TLC finds a scan that returns an old
chunk and a new one, although the new archive is not finished). No text of
the repository promises otherwise; `replaced` marks these scans and
`ScanReturnsOneArchive` speaks of the others. A single frame is no exception
to it: it is read in one piece, whatever happens to its name.

### ArchiveCache

Each thread runs `OpenFile` in the steps between which other threads or
writers can act: stat; lock and look up; first open (index); second open
(data), entry and return. Locks and weak pointers are as in the code:
`entryData` is cleared when the last holder of a buffer closes, and buffer
names are used again. Writers are external: rename into place, truncate and
write in place, or removal. `Stamps` are the (size, mtime) pairs; with
`StampsDiffer` no two states of the file have the same one.

### OpenzlCopy and AtomicCopy

One row stands for a batch of rows and for one unit of bytes. The parquet
writer is DuckDB's: it buffers rows and flushes row groups. A COPY moves
through `pc`; `OpenzlEndChunk` is split where another COPY or a failure can
come between: take the staged bytes, compress (or fall back and compress),
append, and start the next chunk. DuckDB's part is external: the `tmp_`
sibling when the target exists, the rename, errors and cancellation between
callbacks, and destruction of the states. The archive writer is abstracted
to what `ChunkedArchiveWriter` shows of it: nothing at the path during the
first chunk, an unreadable file from the second on, the whole archive after
`Finish`. The close that `WriteFile` does not check is in that module only;
here a `Finish` that returns has written its bytes.

`AtomicCopy` says what a reader of the target may get: nothing readable or
the old archive, then the whole table, and success only after that.
`OpenzlCopy` implements it under the mapping of `target` to the rows a scan
returns.

### GraphOptions, OpenzlWrite and ArchiveStore

`GraphOptions` keeps the widths: a setting is an int64, `format_version` an
`int` after a cast that drops the high bits, `parquet_chunk_bytes` a `size_t`
whose largest value means "automatic". `CompressBytesImpl` gives the set of
outcomes of a compression: an error where a check throws or the file is not
what the profile needs, a frame where it is accepted, both where OpenZL may do
either. Whether a file is canonical parquet is whether it has no `Hole`, the
zeros that `Truncate` and a write past the end leave.

In `OpenzlWrite` a file has two parts, so that a failure, a crash or another
writer can come between them. A stream writes to the file it opened: `out`
says where that file is, and follows it through `rename`, or is `Unlinked`
once the name is gone. `OpenFile`, `Write`, `Truncate`, `TryRemoveFile` and
`MoveFile` are one action each, because they touch only the handle or make one
system call. `Close` is cut at each call to the file system: compress, open
the temporary file, write, rename, remove. `AttemptFails` is its inner catch,
which tries the serial profile once for a small file, and its outer one.
`Crash` ends the process with any handles in any of these steps, and the next
process finds the files.

Left out because nothing can tell the difference: the handle's position (a
write at any location is allowed, and `Seek` could have led there), opens that
are refused, and a second `Close`, which returns at once. `std::remove` is
assumed to succeed on a file that exists.

Two constants name what a run assumes of the surroundings. `SharedPaths =
FALSE`: no handle is opened for a path that another one is still writing.
`TailCanBeLost = FALSE`: the destructor of `WriteFile`'s stream writes what it
still buffers. With the second one TRUE, `ExistingArchivesAreWhole` fails for
the reason that `writer_lost` shows in the archive writer.

`ArchiveStore` keeps, for each path, the bytes a reader gets. A `Close` that
returns has stored the buffer it was called on, one that throws has changed
nothing, and a crash changes nothing. `OpenzlWrite` implements it with
`stored` read out of the files and `asked` the path and the buffer of a
`Close` in progress, which `Rename` turns into the stored file in one step.

### CompressOptions

One connection runs one statement at a time; between any two of its steps
others may `SET` a setting, write the compressor file or write the input file.

`OpenzlCopyBind` is one action: it makes the bind data from options and
settings (`CopyGraph`, `ParquetOptions`) or refuses (`Bindable`). The settings
are read there and nowhere else; the compressor file is read again for every
chunk. `OpenzlEndChunk` compresses what DuckDB's parquet writer has staged
under the options that bind gave it: canonical if it may not compress or use a
dictionary, otherwise with a `Hole`. Its three outcomes are `Compress`,
`FallBack` (`FALLBACK_TO_GENERIC`, counted) and `CompressFails`. `archive`
holds a frame for each chunk with a mark whether a trained compressor made it.

`openzl_compress` is two actions, because it checks the size of the file with
`stat` and reads it later: `CompressParquet` (a path, `''` and NULL included) or
`CompressParquetWithCompressorBytes` (a blob), then `ReadInput`.

The bytes of a compressor are a sequence: empty for none, one element for a
trained compressor (the chunk size it carries) or for bytes that are none.
`given`, `countBefore` and the members `asked`, `limit` of `output` are history
that only the properties read.

Left out: the compression level, row group size and field ids, which are passed
through; where the output goes (`OpenzlCopy`, `ChunkedArchiveWriter`). A chunk
is staged in memory here. One staged in a file is refused for its size before
compression, and `OpenzlCopy` has that path.

### Train

Everything that trains is in the bind of the statement
(`src/openzl_extension.cpp:327-431`): executions return the rows that bind has
kept, so `openzl_train` in a prepared statement trains once. `pc` follows the
bind from `OpenzlTrainBind` (parameters, files exist) through the selection
(one `SelectSamplePath` for each path, until a limit ends it), the reading of
the samples and the search to the candidates. Each of these is measured, moved
into its row and written to its file before the next. `OpenzlTrainFunction`
returns a vector of rows, `OpenzlTrainInitGlobal` begins a new execution.
Samples are replaced or removed between any two of these steps until they have
been read. One that is gone when its size is asked for has the size of
`tellg()` on a stream that is not open: -1, as a `size_t`. It exceeds every
limit, so the file is skipped and training goes on without it; only a sample
that goes after its selection makes an error.

`TailCanBeLost` is the assumption known from `OpenzlWrite`, and FALSE in the
run. One training at a time writes to an output path. `WriteFile` writes in
place, so a COPY that reads a compressor file meanwhile can see it empty, and
an empty compressor file is taken for none (see below).

### Promote

A column is the set of its values, since neither the analysis nor a cast can
tell rows with equal values apart. A text that is a number is its parts (sign,
leading zeros, digits, point, fraction, trailing zeros): they are what the
regular expressions, the casts and `lpad` look at, and a conversion is
modelled by what it does to them. Everything else is a word. DuckDB's CAST is
external: exact where the number fits, an error or another value where it does
not.

`OpenzlPromoteBind` analyses the committed table and chooses; each
`OpenzlPromoteFunction` is a nested query with a snapshot of its own, so a
prepared statement casts rows that no analysis has seen. `result` is what the
last scan made of each value and is forgotten at the next step.
`AnalysedRowsComeBack` speaks of values that the analysis saw. Of others it
does not hold and nothing promises it: with a column that was all integers,
`1.55` may be read as the BIGINT 2, or fail. `OpenzlRestore` pads every
DECIMAL of scale 0 it finds, as the code does, which also pads a column that
was a DECIMAL from the start; the property is about promoted ones.

### DuckLakePack

A file stands for its catalog row, its parquet file and the archive beside it;
the name of the archive is made from that of the parquet file. The workers run
`pack_one` cut at each call: field ids, COPY (with a partial archive in
between), verification, the logical size. A COPY that returns may have left a
truncated archive or other rows, which is what verification is for. The main
thread counts a failure, or repoints the row (nothing happens when the row has
gone) and removes the parquet file. An exception in it leaves the pool, which
waits for its tasks; a crash does not. DuckLake adds rows, drops them
(compaction, expiry) and cleans up what a dropped row named.

Left out: two parquet files whose archives would have one name, the temporary
parquet file from which the logical size is taken, two scripts at once.

## Runs

| Run | Bounds | Shows |
|---|---|---|
| `writer` | 3 chunks of 1 or 2 bytes, old archive of one or two chunks or none, one scan | `NeverServesPartOfTheTable`, `FinishedReadsBack`, `AbortLeavesNoPartialFile`, `ScanReturnsOneArchive` |
| `damage` | archives of 1 and 2 chunks, 2 damages, words modulo 72 | `IndexInBounds` |
| `cache` | 2 threads, archive and one chunk path, 2 rewrites, 3 stamps, 3 opens, fair | `NeverStale`, `OneBufferPerArchive`, `LiveEntries`, `HeldBuffersAreImmutable`, `EveryOpenReturns` |
| `copy` | 2 COPYs of 0, 3 or 5 rows, row groups of 2, chunks of 1, 2 or all rows, limit 4 | `RowsConserved`, `BufferIsOwn`, `ChunksBounded`, `ChunkLeavesNoStaging`, `FallbacksCounted`, `ImplementsAtomicCopy` |
| `write` | one handle after another on 1 path, moves to a second, files of at most 2 blocks (1 is small), 7 settings | `ExistingArchivesAreWhole`, `OnlySmallFilesFallBack`, `FramesAreWritable`, `TmpOnlyWhileClosing`, `ImplementsArchiveStore` |
| `options` | 5 settings, 12 sets of options, 3 compressor files, chunks and files of at most 2 blocks, 2 chunks, 2 fallbacks | `AcceptedCopyIsNeverDoomed`, `ArchiveIsAsAsked`, `GenericOnlyWhenAsked`, `NeverOverTheLimit` |
| `train` | 3 samples of which 2 are one file, 3 sizes, 5 sets of parameters, 3 candidates, vectors of 2 rows, 2 statements | `SelectionIsMaximalPrefix`, `CandidatesAreDelivered` |
| `promote` | a VARCHAR column and another, 2 values in each, 15 numerals, 6 sets of parameters, 3 digits | `AnalysedRowsComeBack` |
| `pack` | 3 files of which 1 cannot be packed, 2 workers, the script started twice, fair | `CatalogNamesItsRows`, `DoneIsTrue`, `EveryRunEnds` |
| `writer_lost`, `cache_coarse`, `write_shared` | as above (`cache_coarse`: 3 threads, 4 opens, stamps may repeat; `write_shared`: 2 handles on 1 path) | a statement of the repository that the code does not keep, see below |

Why the bounds are enough. Three chunks give the writer each of its cases
(held in memory, file opened late, appended to an open file). A word modulus
just above the file size makes every wrong count, offset and length wrap,
which 2^64 would do only for words the state space cannot hold; two damages
let a count and a range be wrong together. The cache properties relate two
handles, or a handle and an entry; a second rewrite lets an entry be newer,
equal or older than what a thread saw, and each of the two threads can open
again. In `copy`, row groups of two against chunk sizes of one and two make a
chunk overshoot, fill exactly and end short; five rows exceed the limit when
not chunked; one COPY has every option and the other shares the registry and
the counter with it. In `write`, handles with different paths share no state
and two on one path exclude each other by assumption, so one handle that is
opened again and again meets what they could leave for each other: a temporary
file after a crash, an archive to replace, a name that has been moved. The
theorems cover any number of handles. A file of one block may fall back and
one of two may not; the two are also the limit of `openzl_max_compress_bytes`.
The settings hold each profile and an unknown one, permissive mode, an old
version with chunks, a version that becomes an old one when it is cast (with
automatic chunks) and a chunk size above an `int`. In `options`, two settings
differ in nothing but the limit, so that a `SET` between check and use matters;
each option is there alone, the combinations are those that bind must refuse
or that reach the fallback; two chunks let one be trained and one fall back.
In `train`, the list names a file twice, the limits bind one at a time, and
three candidates make a vector full and the next one short; the second
statement runs over files of the first. In `promote`, the numerals lie on both
sides of each limit (of the regular expressions, of three digits, of a
fraction that would be rounded), with signs, leading and trailing zeros; the
choice is about all values of a column and two values suffice to make it fail.
In `pack`, two workers leave a third task waiting, a file that always fails
stands beside two that may, and the second run meets what the first has left,
which the theorems extend to any number.

Deadlock is checked in `copy`, whose model loops when every COPY has ended:
this shows that the buffer a COPY takes is always registered. It is checked in
`write`, `options` and `promote` too, where a next step is always left. In the
other runs the system really stops: the writer is used once, the damage, the
opens, the statements that train and the runs of the script are bounded.

Fairness: `FairSpec` of `ArchiveCache` assumes that a thread inside
`OpenFile` keeps running, which is the scheduler's promise. It assumes
nothing of writers, callers or closers. Opens are bounded, so weak fairness
is enough for a thread that waits for the lock; under an endless stream of
opens `std::mutex` promises no more than the model would. `FairSpec` of
`DuckLakePack` assumes that the programs which a task or the main thread has
started return (with a failure, perhaps), as `subprocess.run` without a
timeout does. It assumes nothing of DuckLake, of crashes or of a new run.

## What the code does not do

Each of these runs checks a statement of the repository and finds it violated.

- `cache_coarse`: an archive rewritten at the same size within the second is
  served from an old handle's buffer (`src/openzl_file_system.cpp:41` says
  never).
- `writer_lost`: `WriteFile` does not look at what closing the file did, so a
  single-chunk archive can be truncated without an error (`README.md:90`).
- `write_shared`: `Close` names its temporary file after the destination only,
  so the second of two handles that close at one path empties the file which
  the first is about to rename; a path then holds an empty or mixed file
  (`src/openzl_file_system.cpp:169` says a reader never sees a half-written
  archive). The two may be in different processes.

Three more remarks, which the models have and no run is kept for. A `Finish`
that throws leaves its partial file (`src/include/openzl_bridge.hpp:140` says
it is removed); the file does not read as a table, which
`NeverServesPartOfTheTable` covers. A COPY that fails while rows are being sunk
leaves its staging file, or its buffer in the registry (`README.md:92`);
`ChunkLeavesNoStaging` says what does hold. An empty compressor file is taken
for no compressor at all, with no error and no count
(`src/include/openzl_bridge.hpp:178`); `options` therefore assumes that
compressor files are not empty.

## Proofs

`ChunkContainerProofs`: `DamagedIndexInBounds`, for every word modulus,
archive and amount of damage. The argument is that each unsigned operation
of `ReadContainerIndex` is exact because of a check before it: `SubExact`
and `MulExact` say when wrapping arithmetic agrees with the integers,
`IndexStartExact` that the count check is what multiplication and
subtraction need, `AcceptedRangeInside` that the three comparisons then bound
`offset + length`. The invariant is the type invariant (`DamageTypeOK`): a
word read from a file is a word. From: `ContainerAssumption`,
`DamageAssumption`.

The same module proves the writer and the scan over it, for any number of
chunks and any frame sizes.

- About the layout, without a state: `Unfinished` says of a file that it is
  the magic and frames where the ranges say, with nothing after them, and
  `Sealed` that the trailer follows. `MagicFirst`, `ChunkAppended` and
  `TrailerSeals` are the three writes, `TrailerIs` finds each range in the
  words that `Finish` writes, and `SealedReads`, `UnfinishedIsRefused` and
  `CutOffIsRefused` say what `ReadContainerIndex` and the decompression make of
  a whole archive, of one without a trailer and of one that is cut off
  anywhere. The last is the heart: eight bytes before any such end there is
  part of a frame, an offset, a length or a count, none of which is the magic.
- `WInv` is inductive: the stream is empty or one frame (`SingleInv`), or
  `Unfinished` until `Finish` and `Sealed` after (`SeveralInv`), the disk holds
  what was there, nothing or a prefix of the stream (`DiskInv`), and a failed
  step leaves `is_open` and `finished_` such that `Abort` removes what was
  begun. The properties speak of the disk alone and cannot say what the next
  write makes of it. `PartReads` and `DiskReads` read each such disk. It gives
  `WriterTypeOK`, `WriterNeverServesPart`, `WriterFinishedReadsBack` and
  `WriterAbortLeavesNoPartialFile`.
- `SInv` says that a scan has read nothing yet of a plain frame, or, as long
  as its archive was not replaced, has read those of its chunks it has from
  what is still on disk. A scan that returns has all of them, and when one of
  them was the new archive's, `Append` is over and no chunk is added any more
  (`ChunksSettled`). It gives `ScanOfOneArchive`.

From: `ContainerAssumption`, `WriterAssumption`, and `SizesAssumption`, that
the magic, read as a number (about 3.5 * 10^18), is larger than an archive; an
archive whose size, offset or count were that number could be cut off there
unnoticed. `WriterFinishedReadsBack` assumes besides that `NoFile` is not a
file, which the type of a constant does not say.

`ArchiveCacheProofs`: for any number of threads, paths, buffers, stamps and
rewrites.

- `BufferInv` (types, `HandlesHold`, `LiveEntries`) is inductive. It says who
  holds what: exactly the open handles hold buffers and an entry's buffer has
  a holder. `LiveEntries` alone is not inductive, because closing a handle
  must know that no call in flight holds its buffer. It gives `CacheTypeOK`,
  `CacheLiveEntries`, and `CacheHeldBuffersAreImmutable` (a new buffer is one
  nobody holds).
- `FreshInv` adds versions: the current stamp belongs to the current version,
  a running call's stamp still names the version its stat saw, and an entry's
  buffer is at least as new as the stamp beside it. A hit compares two
  stamps, and the last two parts turn equal stamps into an order of versions.
  It gives `CacheNeverStale`, under `StampsDiffer`; `cache_coarse` shows the
  assumption is needed.
- `ShareInv` is about who shares a buffer. While no writer has come into a
  call, a call has the file's present stamp, the entry of a path leads to every
  handle with that stamp (`EntriesLead`), and a call that missed is alone,
  because it holds the lock (`CallsAreCurrent`). `OneBufferPerArchive` alone
  does not say what the next open will find. It gives
  `CacheOneBufferPerArchive`, under `StampsDiffer`.

`OpenzlCopyProofs`: for any number of COPYs, tables, row groups, options and
limits. `IInv` is inductive and has five parts.

- `StageInv`: types, and who has what of the registry and of the staging files
  at each place of a COPY. A path is below the counter from which the next one
  is made, so a new buffer is nobody's. It gives `CopyTypeOK`,
  `CopyBufferIsOwn` and `CopyChunkLeavesNoStaging`.
- `CountInv`: the shared counter has grown by at least what this COPY has
  stored with the generic graph, and by one more while it retries a chunk. It
  gives `CopyFallbacksCounted`.
- `RowsInv`: the archive, the chunk being compressed and the staged rows are
  in this order the rows sunk so far (`Conserved`), and those without a place
  at `pc` are empty. `RowsConserved` speaks of the end only. It gives
  `CopyRowsConserved`.
- `SizesInv`: the staged chunk was below the chunk size before its last row
  group, and is not empty unless it is the first. It gives `CopyChunksBounded`.
- `OutInv`: what is at the target and at its `tmp_` sibling, at each `pc`. With
  the other parts it gives the refinement, `CopyImplementsAtomicCopy`: the
  steps that publish are `Finish` (when the target was free) and `MoveTmpFile`,
  and all others leave what a reader gets.

What `FlattenSeq` returns is defined by recursion, and that the recursion has a
solution is induction over data. `Flattens` says that it has one for the
archive at hand; the invariant carries it, since it is true of no chunks and
`FlattensAppend` extends it by one. From: `CopyAssumption`.

`OpenzlWriteProofs`: for any handles, paths, settings, limits and versions.

- `IInv` is inductive: the options of an open handle have the right types,
  only a small buffer is compressed a second time, and a frame exists only
  from its compression until the file is written. The two properties it ends
  in are not inductive alone, because they must know what `Compress` is given.
  With the lemmas of `GraphOptionsProofs` (`ToIntInRange`, `SettingsAreRead`,
  `ValidFrames`) it gives `WriteFramesAreWritable` and
  `WriteOnlySmallFilesFallBack`. Validation runs on the options of each
  attempt, and this is why a retry that changes the profile stays writable.
- `WInv` is about the files: at most one busy handle has a path, a stream has the
  temporary file of its own path open, the parts it has written hold its
  frame, both are there when `Close` is about to rename, and the archives are
  whole. `ExistingArchivesAreWhole` alone says nothing of the file that
  `Rename` moves into place. It gives `WriteArchivesAreWhole`, under
  `~SharedPaths` and `~TailCanBeLost`; `write_shared` shows that the first is
  needed.
- `TInv` says what files and streams hold and what a handle has at each place
  (`HandleOf`): a buffer until it is compressed, a frame until it is written,
  a stream while it writes. It gives `WriteTypeOK`, and with `StreamInv` (a
  handle's stream never comes to be on the temporary file of another path)
  `WriteTmpOnlyWhileClosing`. Neither needs an assumption on shared paths or
  lost tails.
- `DInv` follows the data: the buffer that a `Close` was called on, the frame,
  the parts of the temporary file and the archive are of the same bytes
  (`DataOf`), and every archive is of some buffer. With `WInv` it gives the
  refinement, `WriteImplementsArchiveStore`: no step of a `Close` but `Rename`
  changes what a reader gets; a removal and a move are steps of the store.

From: `GraphAssumption`, `WriteAssumption`, `SettingsAssumption`,
`NamesAssumption`, `NoFileAssumption`.

`CompressOptionsProofs`: for any settings, options, compressors and bounds.
`CInv` says that a COPY keeps what bind made of its options and the settings of
that time (`BoundInv`), and that each frame of its archive is what those bind
data ask for (`EntriesInv`). The properties speak of frames and of `given`
alone, and are not inductive: the settings in force when a chunk is compressed
need not be those at bind time, so a step must know that `bind_data` still
holds them.

- `AcceptedCopiesAreNeverDoomed`: `StagedCompresses` goes through
  `CompressBytesImpl` check by check, and shows that bind has made each one
  already or has arranged the staging so that it passes.
- `ArchivesAreAsAsked`: the cast of the version and of the chunk size and the
  sentinel for "automatic" lose nothing of a value that validation admits.
- `CompressNeverOverTheLimit`: the size is checked again on the bytes read.

- `CompressTypeOK`: what bind makes of options that it accepts are graph
  options with fields of the right width, and every frame is of a known
  profile because each compression validates again.
- `GenericOnlyIfAsked`: `CountInv` says that the counter has grown in this
  COPY by exactly the number of its generic frames if it has a trained
  compressor, a cardinality that each append must move by one or not at all.
  It assumes that compressor files are not empty, as the run does; see the
  third remark above.

From: `GraphAssumption`, `OptionsAssumption`, `NullAssumption`.

`ToolsProofs` is about the two tools beside COPY, `Train` and `DuckLakePack`.

`openzl_train`, for any samples, sizes, parameters, candidates and statements:

- `SelectInv` follows the loop. Until a limit ends it, it has taken every file
  it looked at that is not too large (`Eligible`), and has kept the number and
  the total; `SelectionIsMaximalPrefix` speaks of the end only. `total` is
  recursive, so `Adds` says that the recursion has one solution for the files
  at hand, true of none and carried by `SumOfAppend` to one more. It gives
  `TrainSelectsByItsLimits`. The sizes are those that the loop saw, so other
  programs that replace the samples cannot disturb it.
- `OutputsInv`, `CandidatesInv` and `EmittedInv` say of each row which
  candidate it is of (`RowOf`), which candidates still have their bytes, and
  that what an execution has returned is a prefix of the rows. A row is
  measured before its bytes are moved away, and this is where that order
  counts. With `BindInv` (types, a statement has a number) they give
  `TrainTypes`.
- `FilesInv` says at each `pc` what the files hold: `Written(n)`, the first n
  candidates over what was there at bind, with one file a part between
  `OpenFile` and `WriteFile`. `NextWritten` makes n one more. The property alone
  has some n, and the step must know which. It gives `TrainDelivers`, under
  `~TailCanBeLost`; the other two theorems do not need that.

From: `TrainAssumption`. Limits are in MB and exact; the code multiplies them
by 2^20, which wraps from 2^44 MB on.

The packing script, for any files, workers and runs: `PackInv` adds three
parts to the properties. `TasksInv`: while a task works on a file, the row
names the parquet file or has gone, so what the task does to the archive hurts
nobody, and what it has verified stays so. `CurrentInv`: what the main thread
is about to name was verified, and what it is about to remove is named no
more. `ReportInv` is `DoneIsTrue` from the first result on, except for the
file in hand. Neither property is inductive: `Update` and `RemoveParquet` must
know what happened to their file in other threads. It gives `PackTypeOK`,
`PackCatalogNamesItsRows` and `PackDoneIsTrue`. From: `PackAssumption`.

`PromoteProofs`: for any columns, texts, number of digits and parameters.
`PromoteInv` says that each type fits every value the analysis saw (`Fits`),
by the digits of its two parts. `ChoiceFits` gets this from the regular
expressions, `FittingValuesComeBack` that a value which fits casts to its
number and that printing or padding it gives the text back. The first needs
that bind bounds the sum of the digits before and after the point. It gives
`PromoteAnalysedRowsComeBack` and `PromoteTypeOK`. From: `TextAssumption`,
`OptionsAssumption` (of `Promote`).

Every invariant, action property and refinement that a passing run checks is
proved. Liveness under fairness (`EveryOpenReturns`, `EveryRunEnds`) is out of
the prover's reach and stays with TLC.

## Plan

What the runs check of safety is proved. What could still be added:

1. `Promote`: a column whose type changes between bind and a scan
   (`src/openzl_extension.cpp:605`); columns keep their types in the model.
2. Theorems that bound what does go wrong where no property holds: that the
   staging files a COPY leaves behind when it ends between two callbacks are
   its own last chunk and no more, and that `ToInt` changes no
   `openzl_format_version` within 32 bits.

## Not modelled

The compression itself and the search for compressors (OpenZL); DuckDB's
parquet reader and writer beyond when they write, its casts beyond whether a
value fits, and the quoting of names in the queries that `openzl_promote` and
`openzl_restore` put together; `Read`, `Seek` and the attributes of an open
handle, which only index bytes that never change
(`HeldBuffersAreImmutable`); the methods of the staging file system that COPY
never calls; the output of `openzl_compress`, `openzl_decompress` and
`openzl_chunk_count`, one bridge function each, and the `read_openzl` macro; the
registration of settings and functions (declarative); the build. Two COPYs, two
trainings or two scripts at one output path are outside the runs that pass; for
handles of `openzl://`, `write_shared` shows what then happens.
