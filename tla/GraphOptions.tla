---------------------------- MODULE GraphOptions ----------------------------
(***************************************************************************)
(* openzl_bridge::GraphOptions: how a compression is configured, from the  *)
(* openzl_* settings through validation to the parameters of the call.     *)
(*                                                                         *)
(* Sizes count blocks.  An int ranges over -IntMax - 1 .. IntMax and a     *)
(* size_t over 0 .. SizeMax; a setting is an int64 and wider than an int.  *)
(***************************************************************************)
EXTENDS Integers, Sequences

CONSTANTS
    ZL_MIN_FORMAT_VERSION, ZL_MAX_FORMAT_VERSION,  \* what the build can write
    ZL_CHUNK_VERSION_MIN,       \* the first version with chunks in a frame
    kDefaultParquetChunkBytes,
    ProfileNames,               \* what may be given as a profile
    IntMax,                     \* std::numeric_limits<int>::max()
    SizeMax,                    \* the largest size_t
    NULL,                       \* a setting without a value
    Error,                      \* openzl_bridge::Error is thrown
    Hole                        \* a block of a file that holds no parquet

ASSUME GraphAssumption ==
    /\ ZL_MIN_FORMAT_VERSION \in Nat \ {0}
    /\ ZL_MAX_FORMAT_VERSION \in Nat
    /\ ZL_CHUNK_VERSION_MIN \in Nat
    /\ {"parquet", "serial"} \subseteq ProfileNames
    /\ IntMax \in Nat /\ SizeMax \in Nat /\ SizeMax > IntMax
    /\ kDefaultParquetChunkBytes \in 1 .. IntMax
    /\ ZL_MIN_FORMAT_VERSION <= ZL_MAX_FORMAT_VERSION
    /\ ZL_MAX_FORMAT_VERSION <= IntMax

kAutoParquetChunkBytes == SizeMax

Profiles == {"parquet", "serial"}

Versions == ZL_MIN_FORMAT_VERSION .. ZL_MAX_FORMAT_VERSION

GraphOptionsType ==
    [format_version : -IntMax - 1 .. IntMax, profile : ProfileNames,
     permissive : {-1, 0, 1}, parquet_chunk_bytes : 0 .. SizeMax]

\* What a setting may hold: an int64 is less than the largest size_t.
SettingTyped(s) ==
    /\ s.format_version = NULL \/ s.format_version \in Int
    /\ s.profile = NULL \/ s.profile \in ProfileNames
    /\ s.permissive = NULL \/ s.permissive \in BOOLEAN
    /\ \/ s.parquet_chunk_bytes = NULL
       \/ s.parquet_chunk_bytes \in Int /\ s.parquet_chunk_bytes < SizeMax

\* static_cast<int> keeps the low bits of a wider value.
ToInt(v) == ((v + IntMax + 1) % (2 * (IntMax + 1))) - (IntMax + 1)

-----------------------------------------------------------------------------
(* Reading the settings.                                                   *)

\* The settings that the user or the defaults have given; NULL leaves the
\* member of GraphOptions at its initial value.
OpenzlDefaultGraphOptions(s) ==
    [format_version |->
        IF s.format_version = NULL THEN 0 ELSE ToInt(s.format_version),
     profile |-> IF s.profile = NULL THEN "parquet" ELSE s.profile,
     permissive |->
        IF s.permissive = NULL THEN -1 ELSE IF s.permissive THEN 1 ELSE 0,
     parquet_chunk_bytes |->
        IF s.parquet_chunk_bytes = NULL \/ s.parquet_chunk_bytes < 0
        THEN kAutoParquetChunkBytes
        ELSE s.parquet_chunk_bytes]

-----------------------------------------------------------------------------
(* Validation.                                                             *)

EffectiveVersion(g) ==
    IF g.format_version = 0 THEN ZL_MAX_FORMAT_VERSION ELSE g.format_version

\* Mutant of ResolveParquetChunkBytes: the default whatever the version.
ResolveParquetChunkBytesAnyVersion(g) ==
    IF g.parquet_chunk_bytes # kAutoParquetChunkBytes
    THEN g.parquet_chunk_bytes
    ELSE kDefaultParquetChunkBytes

ResolveParquetChunkBytes(g) ==
    IF g.parquet_chunk_bytes # kAutoParquetChunkBytes
    THEN g.parquet_chunk_bytes
    ELSE IF EffectiveVersion(g) >= ZL_CHUNK_VERSION_MIN
         THEN kDefaultParquetChunkBytes
         ELSE 0

ExplicitChunkBytes(g) == g.parquet_chunk_bytes # kAutoParquetChunkBytes

KnownProfile(g) == g.profile \in Profiles

VersionInRange(g) ==
    g.format_version = 0
    \/ g.format_version \in ZL_MIN_FORMAT_VERSION .. ZL_MAX_FORMAT_VERSION

VersionHasChunks(g) ==
    ExplicitChunkBytes(g) /\ g.parquet_chunk_bytes > 0 /\ g.profile = "parquet"
        => EffectiveVersion(g) >= ZL_CHUNK_VERSION_MIN

ChunkBytesFitInt(g) ==
    ExplicitChunkBytes(g) => g.parquet_chunk_bytes <= IntMax

\* It throws for anything else.
ValidateGraphOptions(g) ==
    KnownProfile(g) /\ VersionInRange(g) /\ VersionHasChunks(g)
    /\ ChunkBytesFitInt(g)

-----------------------------------------------------------------------------
(* Compression.                                                            *)

Canonical(input) == input # << >> /\ \A i \in DOMAIN input : input[i] # Hole

\* The bytes of a compressor: none for the generic graph, or what a trained one
\* carries, the chunk size it was trained with, or Error for bytes that are no
\* compressor at all.
IsTrained(compressor) == compressor # << >>

Permissive(g, compressor) ==
    IF g.permissive < 0 THEN IsTrained(compressor) ELSE g.permissive # 0

\* What the frame says of how it was written.  The chunk size reaches the
\* parquet graph as an int; the serial graph keeps its own segment size.
Frame(input, g) ==
    [data |-> input, profile |-> g.profile, version |-> EffectiveVersion(g),
     chunk |-> IF g.profile = "serial" THEN 0
               ELSE ToInt(ResolveParquetChunkBytes(g))]

\* The parquet graph takes canonical parquet, or anything in permissive mode;
\* the serial graph takes anything.
Accepts(input, g, compressor) ==
    g.profile = "serial" \/ Canonical(input) \/ Permissive(g, compressor)

\* A trained graph that splits its input needs a format with chunks.
Loads(compressor, g) ==
    /\ compressor[1] # Error
    /\ compressor[1] > 0 => EffectiveVersion(g) >= ZL_CHUNK_VERSION_MIN

\* A codec may need a newer format than the one asked for, or memory that is
\* not there, so that compression may fail for any input.
compressSerial(input, g, compressor) ==
    {Error} \cup
        IF ~Accepts(input, g, compressor) THEN {}
        ELSE IF ~IsTrained(compressor) THEN {Frame(input, g)}
        ELSE IF Loads(compressor, g)
             THEN {[Frame(input, g) EXCEPT !.chunk = compressor[1]]}
        ELSE {}

CompressBytesImpl(input, max_input_bytes, g, compressor) ==
    IF \/ ~ValidateGraphOptions(g)
       \/ IsTrained(compressor) /\ g.profile # "parquet"
       \/ Len(input) > max_input_bytes
    THEN {Error}
    ELSE compressSerial(input, g, compressor)
=============================================================================
