------------------------ MODULE GraphOptionsProofs ------------------------
(***************************************************************************)
(* What reading the settings, validation and compression give, for every   *)
(* version, profile, chunk size and width of the integers.                 *)
(***************************************************************************)
EXTENDS GraphOptions, TLAPS

\* static_cast<int> gives an int and leaves an int as it is.
LEMMA ToIntInRange ==
    ASSUME NEW v \in Int
    PROVE  /\ ToInt(v) \in -IntMax - 1 .. IntMax
           /\ v \in 0 .. IntMax => ToInt(v) = v
<1>1. IntMax \in Nat
  BY GraphAssumption
<1>2. DEFINE w == 2 * (IntMax + 1)
<1>3. w \in Nat \ {0}
  BY <1>1
<1>4. (v + IntMax + 1) % w \in 0 .. w - 1
  BY <1>1, <1>3
<1>5. v \in 0 .. IntMax => (v + IntMax + 1) % w = v + IntMax + 1
  BY <1>1, <1>3
<1>6. QED
  BY <1>1, <1>4, <1>5 DEF ToInt

\* Whatever the settings, they are read into a GraphOptions of the right types.
LEMMA SettingsAreRead ==
    ASSUME NEW s, SettingTyped(s)
    PROVE  OpenzlDefaultGraphOptions(s) \in GraphOptionsType
<1>1. 0 \in -IntMax - 1 .. IntMax /\ kAutoParquetChunkBytes \in 0 .. SizeMax
  BY GraphAssumption DEF kAutoParquetChunkBytes
<1>2. s.format_version # NULL =>
          ToInt(s.format_version) \in -IntMax - 1 .. IntMax
  BY ToIntInRange DEF SettingTyped
<1>3. ~(s.parquet_chunk_bytes = NULL \/ s.parquet_chunk_bytes < 0) =>
          s.parquet_chunk_bytes \in 0 .. SizeMax
  BY GraphAssumption DEF SettingTyped
<1>4. s.profile # NULL => s.profile \in ProfileNames
  BY DEF SettingTyped
<1>5. "parquet" \in ProfileNames
  BY GraphAssumption
<1>6. s.permissive # NULL => s.permissive \in BOOLEAN
  BY DEF SettingTyped
<1>7. QED
  BY <1>1, <1>2, <1>3, <1>4, <1>5, <1>6
     DEF GraphOptionsType, OpenzlDefaultGraphOptions

Writable(f) ==
    /\ f.version \in Versions
    /\ f.chunk \in 0 .. IntMax
    /\ f.chunk > 0 => f.version >= ZL_CHUNK_VERSION_MIN

\* ValidateGraphOptions admits only options whose frame can be written.
LEMMA ValidFrames ==
    ASSUME NEW g \in GraphOptionsType, NEW input,
           ValidateGraphOptions(g)
    PROVE  Writable(Frame(input, g))
<1>1. EffectiveVersion(g) \in Versions
  BY GraphAssumption
     DEF EffectiveVersion, ValidateGraphOptions, VersionInRange, Versions
<1>2. ResolveParquetChunkBytes(g) \in 0 .. IntMax
  BY GraphAssumption
     DEF ResolveParquetChunkBytes, ValidateGraphOptions, ChunkBytesFitInt,
         ExplicitChunkBytes, GraphOptionsType
<1>3. ToInt(ResolveParquetChunkBytes(g)) = ResolveParquetChunkBytes(g)
  <2>1. ResolveParquetChunkBytes(g) \in Int
    BY <1>2, GraphAssumption
  <2>2. QED
    BY <1>2, <2>1, ToIntInRange
<1>4. g.profile = "parquet" /\ ResolveParquetChunkBytes(g) > 0 =>
          EffectiveVersion(g) >= ZL_CHUNK_VERSION_MIN
  BY DEF ResolveParquetChunkBytes, ValidateGraphOptions, VersionHasChunks,
         ExplicitChunkBytes
<1>5. g.profile \in {"parquet", "serial"}
  BY DEF ValidateGraphOptions, KnownProfile, Profiles
<1>6. CASE g.profile = "serial"
  BY <1>1, <1>6, GraphAssumption DEF Frame, Writable
<1>7. CASE g.profile = "parquet"
  BY <1>1, <1>2, <1>3, <1>4, <1>7 DEF Frame, Writable
<1>8. QED
  BY <1>5, <1>6, <1>7

\* A compression that succeeds had valid options and an input in the limit,
\* and its frame says what it is of.
LEMMA CompressedFrames ==
    ASSUME NEW input, NEW limit, NEW g, NEW compressor,
           NEW f \in CompressBytesImpl(input, limit, g, compressor), f # Error
    PROVE  /\ ValidateGraphOptions(g)
           /\ ~(Len(input) > limit)
           /\ f.data = input
           /\ f.profile = g.profile
           /\ f.version = EffectiveVersion(g)
           /\ ~IsTrained(compressor) => f = Frame(input, g)
<1>1. ValidateGraphOptions(g) /\ ~(Len(input) > limit)
      /\ f \in compressSerial(input, g, compressor)
  BY DEF CompressBytesImpl
<1>2. \/ f = Frame(input, g)
      \/ /\ IsTrained(compressor)
         /\ f = [Frame(input, g) EXCEPT !.chunk = compressor[1]]
  BY <1>1 DEF compressSerial
<1>3. f.data = input /\ f.profile = g.profile /\ f.version = EffectiveVersion(g)
  BY <1>2 DEF Frame
<1>4. QED
  BY <1>1, <1>2, <1>3
=============================================================================
