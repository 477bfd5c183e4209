----------------------------- MODULE OpenzlCopy -----------------------------
(***************************************************************************)
(* COPY ... TO ... (FORMAT OPENZL) of src/src/openzl_extension.cpp, with   *)
(* the staging buffers of src/src/openzl_file_system.cpp that it shares    *)
(* with every other COPY of the process.                                   *)
(*                                                                         *)
(* DuckDB calls init, sink once per batch of rows, combine and finalize,   *)
(* from one thread per COPY; a call may throw, and the query may be        *)
(* cancelled between two calls.  DuckDB's own parquet writer does the      *)
(* staging: it keeps rows in its local state and flushes a row group at a  *)
(* time.  One row stands for one batch of rows and for one unit of bytes.  *)
(***************************************************************************)
EXTENDS Integers, Sequences, SequencesExt, FiniteSets

CONSTANTS
    Copies,       \* COPY statements, each with a target of its own
    Options,      \* the option records each COPY may be given
    RowCounts,    \* how many rows a table may have
    RowGroup,     \* rows the parquet writer keeps before it flushes them
    MaxCompress,  \* openzl_max_compress_bytes
    NoFile,       \* nothing exists at a path
    Partial,      \* a file that no reader accepts
    Before,       \* the archive at a target before its COPY
    Nothing       \* what a read of a missing or unreadable archive gives

ASSUME CopyAssumption ==
    /\ RowCounts \subseteq Nat
    /\ RowGroup \in Nat \ {0}
    /\ MaxCompress \in Nat
    /\ \A c \in Copies :
          Options[c] \subseteq [in_memory : BOOLEAN, chunk_size_bytes : Nat,
                                trained : BOOLEAN, fallback_to_generic : BOOLEAN]
    /\ \A f \in {NoFile, Partial, Before} : f \notin Seq(Seq(Nat))
    /\ Before \notin {NoFile, Partial}

VARIABLES
    rows,         \* rows of the source query
    bind_data,    \* the COPY's options
    pc,           \* where the COPY is
    sunk,         \* rows DuckDB has given to sink
    localState,   \* rows in the parquet writer's local state
    path,         \* tmp_parquet_path: the number of the staging buffer
    canonical_bytes, \* the staged chunk being compressed
    archive,      \* chunks appended to the ChunkedArchiveWriter
    target,       \* what the COPY's target path holds
    tmpFile,      \* what the tmp_ sibling holds that DuckDB may write instead
    stagingFile,  \* <target>.openzl_staging.parquet
    Buffers,      \* OpenzlBufferFileSystem::Buffers(), number -> rows
    counter,      \* of GenerateUniquePath
    g_fallback_chunks,
    countBefore,  \* history: g_fallback_chunks when the COPY started
    fellBack      \* history: chunks of the COPY the generic graph compressed

source   == << rows, bind_data >>
parquet  == << sunk, localState >>
registry == << Buffers, counter >>
output   == << target, tmpFile >>
counts   == << g_fallback_chunks, countBefore, fellBack >>
vars == << source, pc, parquet, path, canonical_bytes, archive, output,
           stagingFile, registry, counts >>

Init ==
    /\ rows \in [Copies -> RowCounts]
    /\ bind_data \in [Copies -> UNION {Options[c] : c \in Copies}]
    /\ \A c \in Copies : bind_data[c] \in Options[c]
    /\ target \in [Copies -> {NoFile, Before}]
    /\ pc = [c \in Copies |-> "bound"]
    /\ sunk = [c \in Copies |-> 0]
    /\ localState = [c \in Copies |-> << >>]
    /\ path = [c \in Copies |-> -1]
    /\ canonical_bytes = [c \in Copies |-> << >>]
    /\ archive = [c \in Copies |-> << >>]
    /\ tmpFile = [c \in Copies |-> NoFile]
    /\ stagingFile = [c \in Copies |-> NoFile]
    /\ Buffers = << >>
    /\ counter = 0
    /\ g_fallback_chunks = 0
    /\ countBefore = [c \in Copies |-> 0]
    /\ fellBack = [c \in Copies |-> 0]

At(c, here) == pc[c] = here

Goto(c, there) == pc' = [pc EXCEPT ![c] = there]

-----------------------------------------------------------------------------
(* The staging target: a buffer of the registry or a file.                 *)

InMemory(c) == bind_data[c].in_memory

Staged(c) == IF InMemory(c) THEN Buffers[path[c]] ELSE stagingFile[c]

\* The parquet writer writes rs to the staging target.
WriteStaged(c, rs) ==
    IF InMemory(c)
    THEN Buffers' = [Buffers EXCEPT ![path[c]] = @ \o rs] /\ UNCHANGED stagingFile
    ELSE stagingFile' = [stagingFile EXCEPT ![c] = @ \o rs] /\ UNCHANGED Buffers

\* OpenFile of the registry: an entry that is there is opened as it is.
OpenBuffer(b) ==
    Buffers' = [p \in DOMAIN Buffers \cup {b} |->
                   IF p \in DOMAIN Buffers THEN Buffers[p] ELSE << >>]

\* A buffer is taken out of the registry, whatever follows.
TakeBuffer(b) == Buffers' = [p \in DOMAIN Buffers \ {b} |-> Buffers[p]]

\* Mutant of OpenzlStartChunk: every in-memory chunk has the same path.
StartChunkSamePath(c) ==
    IF InMemory(c)
    THEN /\ path' = [path EXCEPT ![c] = counter]
         /\ OpenBuffer(counter)
         /\ UNCHANGED << counter, stagingFile >>
    ELSE /\ stagingFile' = [stagingFile EXCEPT ![c] = << >>]
         /\ UNCHANGED << path, registry >>

\* A fresh buffer path, or the COPY's staging path again; the parquet writer
\* opens it, which registers an empty buffer or truncates the file.
OpenzlStartChunk(c) ==
    IF InMemory(c)
    THEN /\ path' = [path EXCEPT ![c] = counter]
         /\ counter' = counter + 1
         /\ OpenBuffer(counter)
         /\ UNCHANGED stagingFile
    ELSE /\ stagingFile' = [stagingFile EXCEPT ![c] = << >>]
         /\ UNCHANGED << path, registry >>

RemoveStagingFile(c) == stagingFile' = [stagingFile EXCEPT ![c] = NoFile]

-----------------------------------------------------------------------------
(* Init, sink and combine.                                                 *)

\* Mutant of OpenzlCopyInitGlobal: every COPY starts the count anew.
InitGlobalResetsCount(c) ==
    /\ At(c, "bound")
    /\ OpenzlStartChunk(c)
    /\ countBefore' = [countBefore EXCEPT ![c] = g_fallback_chunks]
    /\ g_fallback_chunks' = 0
    /\ Goto(c, "sinking")
    /\ UNCHANGED << source, parquet, canonical_bytes, archive, output, fellBack >>

OpenzlCopyInitGlobal(c) ==
    /\ At(c, "bound")
    /\ OpenzlStartChunk(c)
    /\ countBefore' = [countBefore EXCEPT ![c] = g_fallback_chunks]
    /\ Goto(c, "sinking")
    /\ UNCHANGED << source, parquet, canonical_bytes, archive, output,
                    g_fallback_chunks, fellBack >>

\* Mutant of NeedsNewChunk: a chunk of exactly the size is not full.
NeedsNewChunkLate(c) ==
    /\ bind_data[c].chunk_size_bytes > 0
    /\ Len(Staged(c)) > bind_data[c].chunk_size_bytes

NeedsNewChunk(c) ==
    /\ bind_data[c].chunk_size_bytes > 0
    /\ Len(Staged(c)) >= bind_data[c].chunk_size_bytes

\* The parquet writer adds the next row to its local state, and flushes a
\* full row group.
OpenzlCopySink(c) ==
    LET rs == Append(localState[c], sunk[c] + 1)
        full == Len(rs) >= RowGroup
    IN  /\ At(c, "sinking") /\ sunk[c] < rows[c] /\ ~ NeedsNewChunk(c)
        /\ sunk' = [sunk EXCEPT ![c] = @ + 1]
        /\ localState' = [localState EXCEPT ![c] = IF full THEN << >> ELSE rs]
        /\ WriteStaged(c, IF full THEN rs ELSE << >>)
        /\ UNCHANGED << source, pc, path, canonical_bytes, archive, output,
                        counter, counts >>

\* Mutant of CloseParquet: a rotation forgets to combine the local state.
CloseWithoutCombine(c) ==
    /\ localState' = [localState EXCEPT ![c] = << >>]
    /\ Goto(c, "taking")
    /\ UNCHANGED << source, sunk, path, canonical_bytes, archive, output,
                    stagingFile, registry, counts >>

\* combine flushes the last rows, finalize closes the parquet file.
CloseParquet(c) ==
    /\ WriteStaged(c, localState[c])
    /\ localState' = [localState EXCEPT ![c] = << >>]
    /\ Goto(c, "taking")
    /\ UNCHANGED << source, sunk, path, canonical_bytes, archive, output, counter, counts >>

\* A sink that finds the chunk full first ends it, before its row is written.
RotateChunk(c) ==
    /\ At(c, "sinking") /\ sunk[c] < rows[c] /\ NeedsNewChunk(c)
    /\ CloseParquet(c)

\* combine and finalize end the last chunk.
OpenzlCopyFinalize(c) ==
    /\ At(c, "sinking") /\ sunk[c] = rows[c]
    /\ CloseParquet(c)

-----------------------------------------------------------------------------
(* OpenzlEndChunk: take the staged bytes, compress them, append the frame. *)

StagedTooLarge(c) == ~ InMemory(c) /\ Len(stagingFile[c]) > MaxCompress

\* TakeBuffer throws when its path is not registered; the model then stops.
TakeStaged(c) ==
    /\ At(c, "taking") /\ ~ StagedTooLarge(c)
    /\ InMemory(c) => path[c] \in DOMAIN Buffers
    /\ canonical_bytes' = [canonical_bytes EXCEPT ![c] = Staged(c)]
    /\ IF InMemory(c) THEN TakeBuffer(path[c]) ELSE UNCHANGED Buffers
    /\ Goto(c, "compressing")
    /\ UNCHANGED << source, parquet, path, archive, output, stagingFile, counter, counts >>

\* A staging file that cannot be opened is refused like one that is too large.
RefuseStaged(c) ==
    /\ At(c, "taking") /\ ~ InMemory(c)
    /\ RemoveStagingFile(c)
    /\ Goto(c, "threw")
    /\ UNCHANGED << source, parquet, path, canonical_bytes, archive, output,
                    registry, counts >>

TooLarge(c) == Len(canonical_bytes[c]) > MaxCompress

MayFallBack(c) == bind_data[c].trained /\ bind_data[c].fallback_to_generic

\* Mutant of Compress: the staging file is removed only when it fails.
CompressKeepsStaging(c) ==
    /\ At(c, "compressing") /\ ~ TooLarge(c)
    /\ Goto(c, "appending")
    /\ UNCHANGED << source, parquet, path, canonical_bytes, archive, output,
                    stagingFile, registry, counts >>

\* The staging file goes before the frame is appended.
Compress(c) ==
    /\ At(c, "compressing") /\ ~ TooLarge(c)
    /\ RemoveStagingFile(c)
    /\ Goto(c, "appending")
    /\ UNCHANGED << source, parquet, path, canonical_bytes, archive, output,
                    registry, counts >>

\* The trained compressor failed on the chunk.
FallBack(c) ==
    /\ At(c, "compressing") /\ MayFallBack(c)
    /\ g_fallback_chunks' = g_fallback_chunks + 1
    /\ Goto(c, "retrying")
    /\ UNCHANGED << source, parquet, path, canonical_bytes, archive, output,
                    stagingFile, registry, countBefore, fellBack >>

CompressGeneric(c) ==
    /\ At(c, "retrying") /\ ~ TooLarge(c)
    /\ fellBack' = [fellBack EXCEPT ![c] = @ + 1]
    /\ RemoveStagingFile(c)
    /\ Goto(c, "appending")
    /\ UNCHANGED << source, parquet, path, canonical_bytes, archive, output,
                    registry, g_fallback_chunks, countBefore >>

CompressFails(c) ==
    /\ (At(c, "compressing") /\ ~ MayFallBack(c)) \/ At(c, "retrying")
    /\ RemoveStagingFile(c)
    /\ Goto(c, "threw")
    /\ UNCHANGED << source, parquet, path, canonical_bytes, archive, output,
                    registry, counts >>

\* DuckDB has the tmp_ sibling written when the target exists.
WriteOutput(c, f) ==
    IF target[c] = Before
    THEN tmpFile' = [tmpFile EXCEPT ![c] = f] /\ UNCHANGED target
    ELSE target' = [target EXCEPT ![c] = f] /\ UNCHANGED tmpFile

\* ChunkedArchiveWriter::Append: the second chunk opens the output file, and
\* a chunk is counted before it is written.
AppendChunk(c) ==
    /\ At(c, "appending")
    /\ archive' = [archive EXCEPT ![c] = Append(@, canonical_bytes[c])]
    /\ canonical_bytes' = [canonical_bytes EXCEPT ![c] = << >>]
    /\ IF archive[c] # << >> THEN WriteOutput(c, Partial) ELSE UNCHANGED output
    /\ UNCHANGED << source, parquet, counts >>

\* The rest of a sink that rotated.
AppendThenStartChunk(c) ==
    /\ sunk[c] < rows[c]
    /\ AppendChunk(c)
    /\ OpenzlStartChunk(c)
    /\ Goto(c, "sinking")

\* After the last chunk finalize goes on to Finish.
AppendLast(c) ==
    /\ sunk[c] = rows[c]
    /\ AppendChunk(c)
    /\ Goto(c, "finishing")
    /\ UNCHANGED << path, stagingFile, registry >>

AppendFails(c) ==
    /\ archive[c] # << >>
    /\ AppendChunk(c)
    /\ Goto(c, "threw")
    /\ UNCHANGED << path, stagingFile, registry >>

-----------------------------------------------------------------------------
(* Finish and what DuckDB does after it.                                   *)

Finish(c) ==
    /\ At(c, "finishing")
    /\ WriteOutput(c, archive[c])
    /\ Goto(c, "finished")
    /\ UNCHANGED << source, parquet, path, canonical_bytes, archive,
                    stagingFile, registry, counts >>

\* A file of several chunks is closed by then, and one of a single chunk was
\* never the writer's: nothing removes it.
FinishFails(c) ==
    /\ At(c, "finishing")
    /\ WriteOutput(c, Partial)
    /\ Goto(c, "finishThrew")
    /\ UNCHANGED << source, parquet, path, canonical_bytes, archive,
                    stagingFile, registry, counts >>

\* DuckDB renames the tmp_ sibling over the target.
MoveTmpFile(c) ==
    /\ At(c, "finished") /\ tmpFile[c] # NoFile
    /\ target' = [target EXCEPT ![c] = tmpFile[c]]
    /\ tmpFile' = [tmpFile EXCEPT ![c] = NoFile]
    /\ UNCHANGED << source, pc, parquet, path, canonical_bytes, archive,
                    stagingFile, registry, counts >>

Succeed(c) ==
    /\ At(c, "finished") /\ tmpFile[c] = NoFile
    /\ Goto(c, "ok")
    /\ UNCHANGED << source, parquet, path, canonical_bytes, archive, output,
                    stagingFile, registry, counts >>

-----------------------------------------------------------------------------
(* Failure.                                                                *)

\* The source query or a call of the parquet writer throws, or the query is
\* cancelled, while a chunk is open.
Throw(c) ==
    /\ At(c, "sinking")
    /\ Goto(c, "threw")
    /\ UNCHANGED << source, parquet, path, canonical_bytes, archive, output,
                    stagingFile, registry, counts >>

\* Mutant of Destroy: the destructor finishes the archive instead.
DestroyFinishes(c) ==
    /\ At(c, "threw") \/ At(c, "finishThrew")
    /\ IF At(c, "threw") /\ Len(archive[c]) > 1
       THEN WriteOutput(c, archive[c])
       ELSE UNCHANGED output
    /\ localState' = [localState EXCEPT ![c] = << >>]
    /\ archive' = [archive EXCEPT ![c] = << >>]
    /\ canonical_bytes' = [canonical_bytes EXCEPT ![c] = << >>]
    /\ Goto(c, "error")
    /\ UNCHANGED << source, sunk, path, stagingFile, registry, counts >>

\* DuckDB destroys the COPY's states: the archive writer aborts and removes
\* the file it has open.  No destructor looks at the staging target.
Destroy(c) ==
    /\ At(c, "threw") \/ At(c, "finishThrew")
    /\ IF At(c, "threw") /\ Len(archive[c]) > 1
       THEN WriteOutput(c, NoFile)
       ELSE UNCHANGED output
    /\ localState' = [localState EXCEPT ![c] = << >>]
    /\ archive' = [archive EXCEPT ![c] = << >>]
    /\ canonical_bytes' = [canonical_bytes EXCEPT ![c] = << >>]
    /\ Goto(c, "error")
    /\ UNCHANGED << source, sunk, path, stagingFile, registry, counts >>

Step(c) ==
    \/ OpenzlCopyInitGlobal(c)
    \/ OpenzlCopySink(c) \/ RotateChunk(c) \/ OpenzlCopyFinalize(c)
    \/ TakeStaged(c) \/ RefuseStaged(c)
    \/ Compress(c) \/ FallBack(c) \/ CompressGeneric(c) \/ CompressFails(c)
    \/ AppendThenStartChunk(c) \/ AppendLast(c) \/ AppendFails(c)
    \/ Finish(c) \/ FinishFails(c) \/ MoveTmpFile(c) \/ Succeed(c)
    \/ Throw(c) \/ Destroy(c)

Ended(c) == At(c, "ok") \/ At(c, "error")

\* Every COPY has ended; any other state without a successor is a deadlock.
AllEnded == (\A c \in Copies : Ended(c)) /\ UNCHANGED vars

Next == (\E c \in Copies : Step(c)) \/ AllEnded

Spec == Init /\ [][Next]_vars

-----------------------------------------------------------------------------
(* Properties.                                                             *)

Rows == Nat \ {0}
Places == {"bound", "sinking", "taking", "compressing", "retrying", "appending",
           "finishing", "finished", "threw", "finishThrew", "ok", "error"}

\* The type invariant of COPY.
TypeOK ==
    /\ rows \in [Copies -> RowCounts]
    /\ \A c \in Copies : bind_data[c] \in Options[c]
    /\ pc \in [Copies -> Places]
    /\ sunk \in [Copies -> Nat] /\ localState \in [Copies -> Seq(Rows)]
    /\ path \in [Copies -> Nat \cup {-1}]
    /\ canonical_bytes \in [Copies -> Seq(Rows)]
    /\ archive \in [Copies -> Seq(Seq(Rows))]
    /\ target \in [Copies -> Seq(Seq(Rows)) \cup {NoFile, Partial, Before}]
    /\ tmpFile \in [Copies -> Seq(Seq(Rows)) \cup {NoFile, Partial}]
    /\ stagingFile \in [Copies -> Seq(Rows) \cup {NoFile}]
    /\ DOMAIN Buffers \subseteq 0 .. counter - 1 /\ counter \in Nat
    /\ \A b \in DOMAIN Buffers : Buffers[b] \in Seq(Rows)
    /\ g_fallback_chunks \in Nat
    /\ countBefore \in [Copies -> Nat] /\ fellBack \in [Copies -> Nat]

ChunkOpen(c) == pc[c] \in {"sinking", "taking"}

\* No row is lost, repeated or moved between the chunks, the chunk being
\* compressed, the staging target and the parquet writer, however the COPY
\* rotates chunks and whatever the other COPYs do to the registry.
RowsConserved ==
    \A c \in Copies : pc[c] \notin {"bound", "threw", "finishThrew", "error"} =>
        FlattenSeq(archive[c]) \o canonical_bytes[c]
            \o (IF ChunkOpen(c) THEN Staged(c) ELSE << >>) \o localState[c]
        = [i \in 1 .. sunk[c] |-> i]

\* A COPY with an open in-memory chunk has a buffer of its own in the registry:
\* the one lock and the counter keep COPYs that stage at once apart.
BufferIsOwn ==
    \A c \in Copies : InMemory(c) /\ ChunkOpen(c) =>
        /\ path[c] \in DOMAIN Buffers
        /\ \A d \in Copies \ {c} : InMemory(d) /\ ChunkOpen(d) => path[d] # path[c]

\* A chunk overshoots CHUNK_SIZE_BYTES by less than a row group, and when a
\* COPY has written several chunks none of them is empty.
ChunksBounded ==
    \A c \in Copies : LET size == bind_data[c].chunk_size_bytes IN
        size > 0 => \A i \in 1 .. Len(archive[c]) :
            /\ Len(archive[c][i]) < size + RowGroup
            /\ Len(archive[c]) > 1 => archive[c][i] # << >>

\* Past the compression of a chunk neither its staging file nor its buffer is
\* left, whether it succeeded or not, so a COPY that succeeds leaves nothing.
ChunkLeavesNoStaging ==
    \A c \in Copies : pc[c] \in {"appending", "finishing", "finished", "finishThrew", "ok"} =>
        stagingFile[c] = NoFile /\ (InMemory(c) => path[c] \notin DOMAIN Buffers)

\* What openzl_fallback_chunks() returns grows by at least the chunks of a
\* COPY that fell back, from the start of the COPY to any point after it.
FallbacksCounted ==
    \A c \in Copies : ~ At(c, "bound") =>
        g_fallback_chunks - countBefore[c] >= fellBack[c]

\* What a reader of the target gets.
Readable(c) ==
    CASE target[c] \in {NoFile, Partial} -> Nothing
      [] target[c] = Before -> Before
      [] OTHER -> FlattenSeq(target[c])

Status(c) == IF Ended(c) THEN pc[c] ELSE "running"

AC == INSTANCE AtomicCopy
        WITH table <- [c \in Copies |-> Readable(c)],
             status <- [c \in Copies |-> Status(c)]

\* COPY implements the abstract specification: a reader of the target never
\* gets part of the table or rows out of order, through every rotation,
\* fallback, failure and rename, and a COPY that returns has published it.
ImplementsAtomicCopy == AC!Spec
=============================================================================
