--------------------------- MODULE CompressOptions ---------------------------
(***************************************************************************)
(* The compressing statements of one connection, from the settings and the *)
(* options to the frames: COPY ... (FORMAT OPENZL), which is bound before  *)
(* its first row and compresses a chunk at a time, and openzl_compress,    *)
(* which reads a parquet file (src/src/openzl_extension.cpp and            *)
(* src/src/openzl_bridge.cpp).                                             *)
(*                                                                         *)
(* Other connections change the settings, and other programs the           *)
(* compressor file and the input file, between any two steps.  How rows    *)
(* become chunks and chunks an archive is the subject of OpenzlCopy.       *)
(***************************************************************************)
EXTENDS GraphOptions, FiniteSets

CONSTANTS
    Settings,         \* values of the openzl_* settings
    CopyOptions,      \* options that a COPY may be given
    CompressorFiles,  \* what the file of a compressor may hold
    Block,            \* a block of canonical parquet
    NoFile,           \* no such file
    MaxSize,          \* bound: blocks in a chunk or a file
    MaxChunks,        \* bound: chunks of a COPY
    MaxFallbacks      \* bound: no COPY starts after as many fallbacks

VARIABLES
    settings,           \* the settings in force
    compressor_file,    \* the file that TRAINED_COMPRESSOR names
    input_file,         \* the file that openzl_compress reads
    pc,                 \* "idle", "copying" or "reading"
    bind_data,          \* OpenzlCopyBindData of the COPY
    archive,            \* the frames it has appended
    g_fallback_chunks,
    call,               \* arguments of the CompressParquet in progress
    output,             \* what the last statement, an openzl_compress, wrote
    given,              \* history: options and settings when COPY was bound
    countBefore         \* history: g_fallback_chunks at that time

copyVars == << bind_data, archive, given, countBefore >>
vars == << settings, compressor_file, input_file, pc, copyVars,
           g_fallback_chunks, call, output >>

Inputs == UNION { [1 .. n -> {Block, Hole}] : n \in 1 .. MaxSize }

Frames == [data : Inputs, profile : Profiles, version : Versions,
           chunk : 0 .. IntMax]

\* An option is an int64 as a setting is.
ASSUME OptionsAssumption ==
    /\ MaxSize \in Nat /\ MaxChunks \in Nat /\ MaxFallbacks \in Nat
    /\ Block # Hole /\ Error \notin Frames
    /\ NoFile \notin Inputs /\ NoFile \notin CompressorFiles /\ NoFile # << >>
    /\ CompressorFiles \subseteq Seq({Error} \cup 0 .. IntMax)
    /\ \A s \in Settings :
          /\ SettingTyped(s)
          /\ s.max_compress_bytes \in Nat /\ s.chunk_size_bytes \in Nat
    /\ \A o \in CopyOptions :
          /\ SettingTyped(o)
          /\ o.chunk_size_bytes = NULL \/ o.chunk_size_bytes \in Int
          /\ o.trained_compressor \in BOOLEAN /\ o.fallback_to_generic \in BOOLEAN

Init ==
    /\ settings \in Settings
    /\ compressor_file = NoFile
    /\ input_file = NoFile
    /\ pc = "idle"
    /\ bind_data = NULL /\ archive = << >> /\ given = NULL
    /\ g_fallback_chunks = 0 /\ countBefore = 0
    /\ call = NULL /\ output = NoFile

-----------------------------------------------------------------------------
(* What others do.                                                         *)

Set(s) ==
    /\ settings' = s
    /\ UNCHANGED << compressor_file, input_file, pc, copyVars,
                    g_fallback_chunks, call, output >>

WriteCompressor(b) ==
    /\ compressor_file' = b
    /\ UNCHANGED << settings, input_file, pc, copyVars, g_fallback_chunks,
                    call, output >>

WriteInput(f) ==
    /\ input_file' = f
    /\ UNCHANGED << settings, compressor_file, pc, copyVars,
                    g_fallback_chunks, call, output >>

-----------------------------------------------------------------------------
(* COPY: bind.                                                             *)

Given(option, default) == IF option = NULL THEN default ELSE option

\* The options of the COPY replace the settings one by one.
CopyGraph(o, s) ==
    LET g == OpenzlDefaultGraphOptions(s)
    IN  [format_version |-> Given(o.format_version, g.format_version),
         profile |-> Given(o.profile, g.profile),
         permissive |-> IF o.permissive = NULL THEN g.permissive
                        ELSE IF o.permissive THEN 1 ELSE 0,
         parquet_chunk_bytes |->
            Given(o.parquet_chunk_bytes, g.parquet_chunk_bytes)]

\* Mutant of Bindable: the options are validated when the first chunk is.
BindableUnchecked(o, s) == TRUE

\* GetValue<int32_t> throws for a version that is no int, where the cast of
\* the setting would not.
Bindable(o, s) ==
    LET g == CopyGraph(o, s)
    IN  /\ o.format_version # NULL =>
              o.format_version \in -IntMax - 1 .. IntMax
        /\ o.chunk_size_bytes # NULL => o.chunk_size_bytes >= 0
        /\ o.parquet_chunk_bytes # NULL => o.parquet_chunk_bytes >= 0
        /\ ValidateGraphOptions(g)
        /\ o.trained_compressor => g.profile = "parquet"

\* Mutant of ParquetOptions: the user's COMPRESSION is passed through.
ParquetOptionsOfUser(o) ==
    [compression |-> Given(o.compression, "uncompressed"),
     dictionary_size_limit |-> 0]

\* The user's COMPRESSION is dropped.
ParquetOptions(o) ==
    [compression |-> "uncompressed", dictionary_size_limit |-> 0]

\* A refused COPY changes nothing.
OpenzlCopyBind(o) ==
    /\ pc = "idle" /\ g_fallback_chunks < MaxFallbacks
    /\ Bindable(o, settings)
    /\ bind_data' =
          [graph |-> CopyGraph(o, settings),
           parquet |-> ParquetOptions(o),
           trained_compressor |-> o.trained_compressor,
           fallback_to_generic |-> o.fallback_to_generic,
           chunk_size_bytes |->
              Given(o.chunk_size_bytes, settings.chunk_size_bytes),
           max_compress_bytes |-> settings.max_compress_bytes]
    /\ given' = [options |-> o, settings |-> settings]
    /\ countBefore' = g_fallback_chunks
    /\ pc' = "copying" /\ output' = NoFile
    /\ UNCHANGED << settings, compressor_file, input_file, archive,
                    g_fallback_chunks, call >>

-----------------------------------------------------------------------------
(* COPY: one chunk after another.                                          *)

\* A chunk of n blocks as DuckDB's parquet writer has staged it.
Staged(n) ==
    [i \in 1 .. n |->
        IF /\ bind_data.parquet.compression = "uncompressed"
           /\ bind_data.parquet.dictionary_size_limit = 0
        THEN Block ELSE Hole]

\* No path, no bytes; a path to nothing is an error.
LoadCompressorFile(named) == IF named THEN compressor_file ELSE << >>

\* Mutant of ChunkGraph: the settings are read again for every chunk.
ChunkGraphOfSettings == CopyGraph(given.options, settings)

ChunkGraph == bind_data.graph

CompressWith(input, compressor) ==
    IF compressor = NoFile THEN {Error}
    ELSE CompressBytesImpl(input, bind_data.max_compress_bytes, ChunkGraph,
                           compressor)

FirstAttempt(n) ==
    CompressWith(Staged(n), LoadCompressorFile(bind_data.trained_compressor))

MayFallBack ==
    bind_data.fallback_to_generic /\ bind_data.trained_compressor

\* Mutant of FallBack: the chunk is not counted.
FallBackUncounted(n) ==
    /\ Error \in FirstAttempt(n) /\ MayFallBack
    /\ g_fallback_chunks' = g_fallback_chunks
    /\ \E f \in CompressWith(Staged(n), << >>) \ {Error} :
          archive' = Append(archive, [frame |-> f, trained |-> FALSE])
    /\ UNCHANGED << pc, bind_data, given, countBefore >>

Compress(n) ==
    /\ \E f \in FirstAttempt(n) \ {Error} :
          archive' = Append(archive,
             [frame |-> f,
              trained |-> IsTrained(
                 LoadCompressorFile(bind_data.trained_compressor))])
    /\ UNCHANGED << pc, bind_data, given, countBefore, g_fallback_chunks >>

FallBack(n) ==
    /\ Error \in FirstAttempt(n) /\ MayFallBack
    /\ g_fallback_chunks' = g_fallback_chunks + 1
    /\ \E f \in CompressWith(Staged(n), << >>) \ {Error} :
          archive' = Append(archive, [frame |-> f, trained |-> FALSE])
    /\ UNCHANGED << pc, bind_data, given, countBefore >>

\* The COPY is over, with its archive or without.
CopyEnds ==
    /\ pc' = "idle" /\ bind_data' = NULL
    /\ archive' = << >> /\ given' = NULL /\ countBefore' = 0

\* As for a chunk staged in memory; one staged in a file is refused for its
\* size before it gets here, and not counted.
CompressFails(n) ==
    /\ Error \in FirstAttempt(n)
    /\ \/ ~MayFallBack /\ UNCHANGED g_fallback_chunks
       \/ /\ MayFallBack /\ Error \in CompressWith(Staged(n), << >>)
          /\ g_fallback_chunks' = g_fallback_chunks + 1
    /\ CopyEnds

OpenzlEndChunk(n) ==
    /\ pc = "copying" /\ Len(archive) < MaxChunks
    /\ Compress(n) \/ FallBack(n) \/ CompressFails(n)
    /\ UNCHANGED << settings, compressor_file, input_file, call, output >>

OpenzlCopyFinalize ==
    /\ pc = "copying"
    /\ CopyEnds
    /\ UNCHANGED << settings, compressor_file, input_file, g_fallback_chunks,
                    call, output >>

-----------------------------------------------------------------------------
(* openzl_compress.  "asked" says that a trained compressor was named.     *)

Call(compressor, asked) ==
    /\ pc = "idle"
    /\ input_file # NoFile
    /\ Len(input_file) <= settings.max_compress_bytes
    /\ call' = [compressor |-> compressor, asked |-> asked,
                max_input_bytes |-> settings.max_compress_bytes,
                graph |-> OpenzlDefaultGraphOptions(settings)]
    /\ pc' = "reading" /\ output' = NoFile
    /\ UNCHANGED << settings, compressor_file, input_file, copyVars,
                    g_fallback_chunks >>

\* A path, which may be '' or NULL.
CompressParquet(named) ==
    /\ LoadCompressorFile(named) # NoFile
    /\ Call(LoadCompressorFile(named), named)

\* A blob, which may not be empty.
CompressParquetWithCompressorBytes(blob) ==
    /\ IsTrained(blob)
    /\ Call(blob, TRUE)

\* Mutant of ReadOutcomes: the size that was checked before is trusted.
ReadOutcomesUnchecked ==
    IF input_file = NoFile THEN {Error}
    ELSE CompressBytesImpl(input_file, MaxSize, call.graph, call.compressor)

ReadOutcomes ==
    IF input_file = NoFile THEN {Error}
    ELSE CompressBytesImpl(input_file, call.max_input_bytes, call.graph,
                           call.compressor)

\* The file may be another one than that whose size was checked.
ReadInput ==
    /\ pc = "reading"
    /\ \/ \E f \in ReadOutcomes \ {Error} :
             output' = [frame |-> f, trained |-> IsTrained(call.compressor),
                        asked |-> call.asked, limit |-> call.max_input_bytes]
       \/ Error \in ReadOutcomes /\ UNCHANGED output
    /\ pc' = "idle" /\ call' = NULL
    /\ UNCHANGED << settings, compressor_file, input_file, copyVars,
                    g_fallback_chunks >>

-----------------------------------------------------------------------------
Next ==
    \/ \E s \in Settings : Set(s)
    \/ \E b \in CompressorFiles \cup {NoFile} : WriteCompressor(b)
    \/ \E f \in Inputs \cup {NoFile} : WriteInput(f)
    \/ \E o \in CopyOptions : OpenzlCopyBind(o)
    \/ \E n \in 1 .. MaxSize : OpenzlEndChunk(n)
    \/ OpenzlCopyFinalize
    \/ \E named \in BOOLEAN : CompressParquet(named)
    \/ \E b \in CompressorFiles \cup {<< >>} :
          CompressParquetWithCompressorBytes(b)
    \/ ReadInput

Spec == Init /\ [][Next]_vars

-----------------------------------------------------------------------------
(* Properties.                                                             *)

BindData ==
    [graph : GraphOptionsType, parquet : { ParquetOptions(o) : o \in CopyOptions },
     trained_compressor : BOOLEAN, fallback_to_generic : BOOLEAN,
     chunk_size_bytes : Nat, max_compress_bytes : Nat]

Calls ==
    [compressor : CompressorFiles \cup {<< >>}, asked : BOOLEAN,
     max_input_bytes : Nat, graph : GraphOptionsType]

Requests == [options : CopyOptions, settings : Settings]

ASSUME NullAssumption ==
    NULL \notin BindData /\ NULL \notin Calls /\ NULL \notin Requests

\* Each variable holds what its part of a statement can, and a COPY and a call
\* of openzl_compress have their data exactly while they run.
TypeOK ==
    /\ settings \in Settings
    /\ compressor_file \in CompressorFiles \cup {NoFile}
    /\ input_file \in Inputs \cup {NoFile}
    /\ pc \in {"idle", "copying", "reading"}
    /\ pc = "copying" <=> bind_data # NULL
    /\ pc = "copying" <=> given # NULL
    /\ bind_data \in BindData \cup {NULL}
    /\ given \in Requests \cup {NULL}
    /\ \A k \in DOMAIN archive : archive[k].frame \in Frames
    /\ pc # "copying" => archive = << >>
    /\ g_fallback_chunks \in Nat /\ countBefore \in Nat
    /\ pc = "reading" <=> call # NULL
    /\ call \in Calls \cup {NULL}
    /\ output # NoFile => output.frame \in Frames

\* Some attempt of the COPY at a chunk can succeed.
ChunkMaySucceed(n) ==
    \/ FirstAttempt(n) # {Error}
    \/ MayFallBack /\ CompressWith(Staged(n), << >>) # {Error}

\* The named compressor does for the COPY now, if it has to.
CompressorServes ==
    \/ ~bind_data.trained_compressor \/ bind_data.fallback_to_generic
    \/ /\ compressor_file # NoFile
       /\ IsTrained(compressor_file) =>
             Loads(compressor_file, bind_data.graph)

\* OpenzlCopyBind refuses what cannot be written before the first row is sunk:
\* a COPY that it accepts does not fail at a chunk for its options, for
\* settings changed since, or for the form of the parquet it staged itself,
\* only for the chunk's size, for its compressor file or inside OpenZL.
AcceptedCopyIsNeverDoomed ==
    pc = "copying" =>
        \A n \in 1 .. MaxSize :
            n <= given.settings.max_compress_bytes /\ CompressorServes =>
                ChunkMaySucceed(n)

\* The README's tables of settings and COPY options: every frame of an
\* archive, also of a chunk that fell back, has the version and the profile
\* that the options or else the settings at bind time ask for, and a frame of
\* the generic graph has the chunk size.
ArchiveIsAsAsked ==
    \A k \in DOMAIN archive :
        LET o == given.options
            s == given.settings
            f == archive[k].frame
            version == Given(Given(o.format_version, s.format_version), 0)
            profile == Given(Given(o.profile, s.profile), "parquet")
            size == Given(Given(o.parquet_chunk_bytes, s.parquet_chunk_bytes), -1)
        IN  /\ version = 0 => f.version = ZL_MAX_FORMAT_VERSION
            /\ version \in Versions => f.version = version
            /\ f.profile = profile
            /\ size >= 0 /\ profile = "parquet" /\ ~archive[k].trained =>
                  f.chunk = size

\* A statement that names a trained compressor uses it, or counts the chunk in
\* openzl_fallback_chunks(): the generic graph never steps in unseen.
GenericOnlyWhenAsked ==
    /\ pc = "copying" /\ bind_data.trained_compressor =>
          Cardinality({ k \in DOMAIN archive : ~archive[k].trained })
             = g_fallback_chunks - countBefore
    /\ output # NoFile => (output.asked => output.trained)

\* openzl_max_compress_bytes: no call hands OpenZL more than the limit in
\* force when its statement began, whatever becomes of the file it reads.
NeverOverTheLimit ==
    /\ \A k \in DOMAIN archive :
          Len(archive[k].frame.data) <= given.settings.max_compress_bytes
    /\ output # NoFile => Len(output.frame.data) <= output.limit
=============================================================================
