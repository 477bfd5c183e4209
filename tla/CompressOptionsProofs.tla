----------------------- MODULE CompressOptionsProofs -----------------------
(***************************************************************************)
(* Proofs about CompressOptions for any settings, options, compressors and *)
(* bounds.  A COPY works with what it was bound with, and what bind has    *)
(* accepted can be compressed.                                             *)
(***************************************************************************)
EXTENDS CompressOptions, GraphOptionsProofs, SequenceTheorems, FiniteSetTheorems

-----------------------------------------------------------------------------
(* The invariant.                                                          *)

\* The COPY keeps what bind made of its options and the settings of that time.
BoundInv ==
    pc = "copying" =>
        /\ given.options \in CopyOptions /\ given.settings \in Settings
        /\ Bindable(given.options, given.settings)
        /\ bind_data.graph = CopyGraph(given.options, given.settings)
        /\ bind_data.parquet = ParquetOptions(given.options)
        /\ bind_data.trained_compressor = given.options.trained_compressor
        /\ bind_data.max_compress_bytes = given.settings.max_compress_bytes

\* A frame of the archive, in the terms of the COPY's bind data.
AsBound(e) ==
    /\ e.frame.profile = bind_data.graph.profile
    /\ e.frame.version = EffectiveVersion(bind_data.graph)
    /\ ~e.trained => e.frame = Frame(e.frame.data, bind_data.graph)
    /\ Len(e.frame.data) <= bind_data.max_compress_bytes

EntriesInv ==
    /\ pc # "copying" => archive = << >>
    /\ \E S : archive \in Seq(S)
    /\ \A k \in 1 .. Len(archive) : AsBound(archive[k])

FilesInv ==
    /\ settings \in Settings
    /\ compressor_file \in CompressorFiles \cup {NoFile}
    /\ input_file \in Inputs \cup {NoFile}

OutputInv ==
    /\ pc = "reading" => call.max_input_bytes \in Nat
    /\ output # NoFile => Len(output.frame.data) <= output.limit

CInv == BoundInv /\ EntriesInv /\ FilesInv /\ OutputInv

\* An input is a sequence of blocks.
LEMMA InputsHaveLengths ==
    ASSUME NEW x \in Inputs
    PROVE  x \in Seq({Block, Hole}) /\ Len(x) \in Nat
<1>1. PICK n \in 1 .. MaxSize : x \in [1 .. n -> {Block, Hole}]
  BY DEF Inputs
<1>2. n \in Nat
  BY OptionsAssumption
<1>3. x \in Seq({Block, Hole})
  BY <1>1, <1>2, SeqDef
<1>4. QED
  BY <1>3, LenProperties

\* A staged chunk of n blocks is an input of that length.
LEMMA StagedIsInput ==
    ASSUME NEW n \in 1 .. MaxSize
    PROVE  Staged(n) \in Inputs /\ Len(Staged(n)) = n
<1>1. Staged(n) \in [1 .. n -> {Block, Hole}]
  BY DEF Staged
<1>2. n \in Nat /\ DOMAIN Staged(n) = 1 .. n
  BY <1>1, OptionsAssumption
<1>3. Staged(n) \in Inputs
  BY <1>1 DEF Inputs
<1>4. Len(Staged(n)) = n
  BY <1>1, <1>2
<1>5. QED
  BY <1>3, <1>4

\* No statement runs at first.
LEMMA InitCInv == Init => CInv
<1> SUFFICES ASSUME Init
             PROVE  CInv
  OBVIOUS
<1>1. archive = << >> /\ << >> \in Seq({}) /\ Len(<< >>) = 0
  BY DEF Init
<1>2. QED
  BY <1>1 DEF Init, CInv, BoundInv, EntriesInv, FilesInv, OutputInv

\* A step that leaves the COPY and its archive alone.
LEMMA CopyUntouched ==
    ASSUME CInv, UNCHANGED << bind_data, archive, given >>,
           pc' = pc \/ (pc' # "copying" /\ pc # "copying")
    PROVE  BoundInv' /\ EntriesInv'
<1>1. BoundInv'
  BY DEF CInv, BoundInv
<1>2. EntriesInv'
  BY DEF CInv, EntriesInv, AsBound
<1>3. QED
  BY <1>1, <1>2

\* A COPY that is over keeps nothing.
LEMMA EndedCopy ==
    ASSUME CopyEnds
    PROVE  BoundInv' /\ EntriesInv'
<1>1. archive' = << >> /\ pc' = "idle" /\ << >> \in Seq({}) /\ Len(<< >>) = 0
  BY DEF CopyEnds
<1>2. QED
  BY <1>1 DEF BoundInv, EntriesInv

\* A frame that an attempt has produced is appended.
LEMMA AppendedFrame ==
    ASSUME CInv, pc = "copying", UNCHANGED << pc, bind_data, given >>,
           NEW n \in 1 .. MaxSize, NEW compressor,
           NEW f \in CompressWith(Staged(n), compressor), f # Error,
           archive' = Append(archive,
                         [frame |-> f, trained |-> IsTrained(compressor)])
    PROVE  BoundInv' /\ EntriesInv'
<1> DEFINE e == [frame |-> f, trained |-> IsTrained(compressor)]
<1>1. BoundInv'
  BY DEF CInv, BoundInv
<1>2. f \in CompressBytesImpl(Staged(n), bind_data.max_compress_bytes,
                              bind_data.graph, compressor)
  BY DEF CompressWith, ChunkGraph
<1>3. AsBound(e)
  <2>1. bind_data.max_compress_bytes \in Nat
    BY OptionsAssumption DEF CInv, BoundInv
  <2>2. ~(Len(Staged(n)) > bind_data.max_compress_bytes) =>
            Len(Staged(n)) <= bind_data.max_compress_bytes
    BY <2>1, StagedIsInput, OptionsAssumption
  <2>3. QED
    BY <1>2, <2>2, CompressedFrames DEF AsBound
<1>4. PICK S : archive \in Seq(S)
  BY DEF CInv, EntriesInv
<1>5. /\ archive' \in Seq(S \cup {e})
      /\ Len(archive') = Len(archive) + 1
      /\ \A k \in 1 .. Len(archive') :
            archive'[k] = IF k = Len(archive) + 1 THEN e ELSE archive[k]
  <2> HIDE DEF e
  <2>1. archive \in Seq(S \cup {e}) /\ e \in S \cup {e}
    BY <1>4, SeqDef
  <2>2. archive' = Append(archive, e)
    BY DEF e
  <2>3. QED
    BY <2>1, <2>2, AppendProperties
<1>6. \A k \in 1 .. Len(archive') : AsBound(archive'[k])
  <2> SUFFICES ASSUME NEW k \in 1 .. Len(archive')
               PROVE  AsBound(archive'[k])
    OBVIOUS
  <2> HIDE DEF e
  <2>1. CASE k = Len(archive) + 1
    BY <1>3, <1>5, <2>1
  <2>2. CASE k # Len(archive) + 1
    <3>1. Len(archive) \in Nat
      BY <1>4, LenProperties
    <3>2. k \in 1 .. Len(archive)
      BY <1>5, <2>2, <3>1
    <3>3. QED
      BY <1>5, <2>2, <3>2 DEF CInv, EntriesInv
  <2>3. QED
    BY <2>1, <2>2
<1>7. EntriesInv'
  <2>1. \E T : archive' \in Seq(T)
    BY <1>5
  <2>2. pc' = "copying"
    OBVIOUS
  <2>3. QED
    BY <1>6, <2>1, <2>2 DEF EntriesInv, AsBound
<1>8. QED
  BY <1>1, <1>7

\* A chunk is appended as bound, or the COPY is over.
LEMMA EndChunkCInv ==
    ASSUME CInv, NEW n \in 1 .. MaxSize, OpenzlEndChunk(n)
    PROVE  BoundInv' /\ EntriesInv'
<1> pc = "copying"
  BY DEF OpenzlEndChunk
<1>1. CASE Compress(n)
  <2> DEFINE c == LoadCompressorFile(bind_data.trained_compressor)
  <2>1. PICK f \in FirstAttempt(n) \ {Error} :
           archive' = Append(archive, [frame |-> f, trained |-> IsTrained(c)])
    BY <1>1 DEF Compress
  <2>2. f \in CompressWith(Staged(n), c) /\ f # Error
    BY <2>1 DEF FirstAttempt
  <2>3. UNCHANGED << pc, bind_data, given >>
    BY <1>1 DEF Compress
  <2> HIDE DEF c
  <2>4. QED
    BY <2>1, <2>2, <2>3, AppendedFrame
<1>2. CASE FallBack(n)
  <2>1. PICK f \in CompressWith(Staged(n), << >>) \ {Error} :
           archive' = Append(archive, [frame |-> f, trained |-> FALSE])
    BY <1>2 DEF FallBack
  <2>2. IsTrained(<< >>) = FALSE
    BY DEF IsTrained
  <2>3. UNCHANGED << pc, bind_data, given >>
    BY <1>2 DEF FallBack
  <2>4. QED
    BY <2>1, <2>2, <2>3, AppendedFrame
<1>3. CASE CompressFails(n)
  BY <1>3, EndedCopy DEF CompressFails
<1>4. QED
  BY <1>1, <1>2, <1>3 DEF OpenzlEndChunk

\* Every step keeps the invariant.
LEMMA NextCInv == CInv /\ [Next]_vars => CInv'
<1> SUFFICES ASSUME CInv, [Next]_vars
             PROVE  CInv'
  OBVIOUS
<1> USE DEF CInv
<1>1. CASE UNCHANGED vars
  <2>1. BoundInv' /\ EntriesInv'
    BY <1>1, CopyUntouched DEF vars, copyVars
  <2>2. QED
    BY <1>1, <2>1 DEF vars, FilesInv, OutputInv
<1>2. ASSUME NEW s \in Settings, Set(s)
      PROVE  CInv'
  <2>1. BoundInv' /\ EntriesInv'
    BY <1>2, CopyUntouched DEF Set, copyVars
  <2>2. QED
    BY <1>2, <2>1 DEF Set, FilesInv, OutputInv
<1>3. ASSUME NEW b \in CompressorFiles \cup {NoFile}, WriteCompressor(b)
      PROVE  CInv'
  <2>1. BoundInv' /\ EntriesInv'
    BY <1>3, CopyUntouched DEF WriteCompressor, copyVars
  <2>2. QED
    BY <1>3, <2>1 DEF WriteCompressor, FilesInv, OutputInv
<1>4. ASSUME NEW f \in Inputs \cup {NoFile}, WriteInput(f)
      PROVE  CInv'
  <2>1. BoundInv' /\ EntriesInv'
    BY <1>4, CopyUntouched DEF WriteInput, copyVars
  <2>2. QED
    BY <1>4, <2>1 DEF WriteInput, FilesInv, OutputInv
<1>5. ASSUME NEW o \in CopyOptions, OpenzlCopyBind(o)
      PROVE  CInv'
  <2>1. BoundInv'
    BY <1>5 DEF OpenzlCopyBind, BoundInv, FilesInv
  <2>2. EntriesInv'
    <3>1. archive' = << >> /\ << >> \in Seq({}) /\ Len(<< >>) = 0
      BY <1>5 DEF OpenzlCopyBind, EntriesInv
    <3>2. pc' = "copying"
      BY <1>5 DEF OpenzlCopyBind
    <3>3. QED
      BY <3>1, <3>2 DEF EntriesInv
  <2>3. QED
    BY <1>5, <2>1, <2>2 DEF OpenzlCopyBind, FilesInv, OutputInv
<1>6. ASSUME NEW n \in 1 .. MaxSize, OpenzlEndChunk(n)
      PROVE  CInv'
  <2>1. BoundInv' /\ EntriesInv'
    BY <1>6, EndChunkCInv
  <2>2. pc' # "reading"
    BY <1>6 DEF OpenzlEndChunk, Compress, FallBack, CompressFails, CopyEnds
  <2>3. QED
    BY <1>6, <2>1, <2>2 DEF OpenzlEndChunk, FilesInv, OutputInv
<1>7. CASE OpenzlCopyFinalize
  <2>1. BoundInv' /\ EntriesInv'
    BY <1>7, EndedCopy DEF OpenzlCopyFinalize
  <2>2. QED
    BY <1>7, <2>1 DEF OpenzlCopyFinalize, CopyEnds, FilesInv, OutputInv
<1>8. ASSUME NEW compressor, NEW asked, Call(compressor, asked)
      PROVE  CInv'
  <2>1. BoundInv' /\ EntriesInv'
    BY <1>8, CopyUntouched DEF Call, copyVars
  <2>2. settings.max_compress_bytes \in Nat
    BY OptionsAssumption DEF FilesInv
  <2>3. QED
    BY <1>8, <2>1, <2>2 DEF Call, FilesInv, OutputInv
<1>9. CASE ReadInput
  <2>1. BoundInv' /\ EntriesInv'
    BY <1>9, CopyUntouched DEF ReadInput, copyVars
  <2>2. OutputInv'
    <3>1. CASE UNCHANGED output
      BY <1>9, <3>1 DEF ReadInput, OutputInv
    <3>2. ASSUME NEW f \in ReadOutcomes \ {Error},
                 output' = [frame |-> f, trained |-> IsTrained(call.compressor),
                            asked |-> call.asked,
                            limit |-> call.max_input_bytes]
          PROVE  OutputInv'
      <4>1. f \in CompressBytesImpl(input_file, call.max_input_bytes,
                                    call.graph, call.compressor)
        BY <3>2 DEF ReadOutcomes
      <4>2. f.data = input_file /\ ~(Len(input_file) > call.max_input_bytes)
        BY <3>2, <4>1, CompressedFrames
      <4>3. Len(input_file) <= call.max_input_bytes
        <5>1. input_file \in Inputs
          BY <3>2 DEF ReadOutcomes, FilesInv
        <5>2. Len(input_file) \in Nat /\ call.max_input_bytes \in Nat
          BY <1>9, <5>1, InputsHaveLengths DEF ReadInput, OutputInv
        <5>3. QED
          BY <4>2, <5>2
      <4>4. pc' # "reading"
        BY <1>9 DEF ReadInput
      <4>5. QED
        BY <3>2, <4>2, <4>3, <4>4 DEF OutputInv
    <3>3. QED
      BY <1>9, <3>1, <3>2 DEF ReadInput
  <2>3. QED
    BY <1>9, <2>1, <2>2 DEF ReadInput, FilesInv
<1>10. QED
  BY <1>1, <1>2, <1>3, <1>4, <1>5, <1>6, <1>7, <1>8, <1>9
     DEF Next, CompressParquet, CompressParquetWithCompressorBytes

\* The invariant holds in every state of Spec.
THEOREM CompressInv == Spec => []CInv
BY InitCInv, NextCInv, PTL DEF Spec

-----------------------------------------------------------------------------
(* What the invariant gives.                                               *)

\* openzl_max_compress_bytes bounds what OpenZL is given, for every input,
\* also one that changes between the check and the read.
THEOREM CompressNeverOverTheLimit == Spec => []NeverOverTheLimit
<1>1. CInv => NeverOverTheLimit
  <2> SUFFICES ASSUME CInv
               PROVE  NeverOverTheLimit
    OBVIOUS
  <2>1. ASSUME NEW k \in DOMAIN archive
        PROVE  Len(archive[k].frame.data) <= given.settings.max_compress_bytes
    <3>1. k \in 1 .. Len(archive)
      BY LenProperties DEF CInv, EntriesInv
    <3>2. pc = "copying"
      BY <3>1 DEF CInv, EntriesInv
    <3>3. QED
      BY <3>1, <3>2 DEF CInv, EntriesInv, BoundInv, AsBound
  <2>2. QED
    BY <2>1 DEF CInv, OutputInv, NeverOverTheLimit
<1>2. QED
  BY CompressInv, <1>1, PTL

\* The options and settings of a bound COPY make a GraphOptions.
LEMMA CopyGraphTyped ==
    ASSUME NEW o \in CopyOptions, NEW s \in Settings, Bindable(o, s)
    PROVE  CopyGraph(o, s) \in GraphOptionsType
<1> DEFINE g == OpenzlDefaultGraphOptions(s)
<1>1. g \in GraphOptionsType
  BY OptionsAssumption, SettingsAreRead
<1>2. SettingTyped(o)
  BY OptionsAssumption
<1>3. Given(o.format_version, g.format_version) \in -IntMax - 1 .. IntMax
  BY <1>1 DEF Bindable, Given, GraphOptionsType
<1>4. Given(o.profile, g.profile) \in ProfileNames
  BY <1>1, <1>2 DEF Given, GraphOptionsType, SettingTyped
<1>5. Given(o.parquet_chunk_bytes, g.parquet_chunk_bytes) \in 0 .. SizeMax
  BY <1>1, <1>2, GraphAssumption
     DEF Bindable, Given, GraphOptionsType, SettingTyped
<1>6. (IF o.permissive = NULL THEN g.permissive
       ELSE IF o.permissive THEN 1 ELSE 0) \in {-1, 0, 1}
  BY <1>1, <1>2 DEF GraphOptionsType, SettingTyped
<1> HIDE DEF g
<1>7. CopyGraph(o, s) =
         [format_version |-> Given(o.format_version, g.format_version),
          profile |-> Given(o.profile, g.profile),
          permissive |-> IF o.permissive = NULL THEN g.permissive
                         ELSE IF o.permissive THEN 1 ELSE 0,
          parquet_chunk_bytes |->
             Given(o.parquet_chunk_bytes, g.parquet_chunk_bytes)]
  BY DEF CopyGraph, g
<1>8. QED
  BY <1>3, <1>4, <1>5, <1>6, <1>7 DEF GraphOptionsType

\* The generic graph takes what the COPY has staged, and so does a trained
\* compressor that can be loaded.
LEMMA StagedCompresses ==
    ASSUME BoundInv, pc = "copying", NEW n \in 1 .. MaxSize,
           n <= bind_data.max_compress_bytes,
           NEW compressor \in CompressorFiles \cup {<< >>},
           IsTrained(compressor) =>
               /\ bind_data.trained_compressor
               /\ Loads(compressor, bind_data.graph)
    PROVE  CompressWith(Staged(n), compressor) # {Error}
<1> DEFINE g == bind_data.graph
           input == Staged(n)
           f == Frame(input, g)
           h == [f EXCEPT !.chunk = compressor[1]]
<1>1. g \in GraphOptionsType /\ ValidateGraphOptions(g)
  BY CopyGraphTyped DEF BoundInv, Bindable
<1>2. bind_data.trained_compressor => g.profile = "parquet"
  BY DEF BoundInv, Bindable
<1>3. ~(Len(input) > bind_data.max_compress_bytes)
  <2>1. bind_data.max_compress_bytes \in Nat
    BY OptionsAssumption DEF BoundInv
  <2>2. QED
    BY <2>1, StagedIsInput, OptionsAssumption
<1>4. Canonical(input)
  <2>1. input = [i \in 1 .. n |-> Block]
    BY DEF Staged, BoundInv, ParquetOptions
  <2>2. Len(input) = n /\ n # 0
    BY StagedIsInput, OptionsAssumption
  <2>3. input # << >>
    BY <2>2
  <2>4. QED
    BY <2>1, <2>3, OptionsAssumption DEF Canonical
<1>5. Writable(f)
  BY <1>1, ValidFrames
<1>6. f \in Frames
  <2>1. input \in Inputs
    BY StagedIsInput
  <2>2. g.profile \in Profiles
    BY <1>1 DEF ValidateGraphOptions, KnownProfile
  <2>3. QED
    BY <1>5, <2>1, <2>2 DEF Frame, Frames, Writable
<1>7. CompressWith(input, compressor) =
          compressSerial(input, g, compressor)
  BY <1>1, <1>2, <1>3, OptionsAssumption
     DEF CompressWith, CompressBytesImpl, ChunkGraph
<1>8. CASE ~IsTrained(compressor)
  <2>1. f \in compressSerial(input, g, compressor)
    BY <1>4, <1>8 DEF compressSerial, Accepts
  <2>2. f # Error
    BY <1>6, OptionsAssumption
  <2>3. QED
    BY <1>7, <2>1, <2>2
<1>9. CASE IsTrained(compressor)
  <2>1. h \in compressSerial(input, g, compressor)
    BY <1>4, <1>9 DEF compressSerial, Accepts
  <2>2. compressor[1] \in 0 .. IntMax
    <3>1. compressor \in Seq({Error} \cup 0 .. IntMax) /\ compressor # << >>
      BY <1>9, OptionsAssumption DEF IsTrained
    <3>2. compressor[1] \in {Error} \cup 0 .. IntMax
      BY <3>1
    <3>3. QED
      BY <1>9, <3>2 DEF Loads
  <2>3. h \in Frames
    <3> HIDE DEF f
    <3>1. QED
      BY <1>6, <2>2 DEF Frames
  <2>4. h # Error
    BY <2>3, OptionsAssumption
  <2>5. QED
    BY <1>7, <2>1, <2>4
<1>10. QED
  BY <1>8, <1>9

\* Whatever the options and the settings, and however these change later, a
\* COPY that bind accepts can compress each of its chunks.
THEOREM AcceptedCopiesAreNeverDoomed == Spec => []AcceptedCopyIsNeverDoomed
<1>1. CInv => AcceptedCopyIsNeverDoomed
  <2> SUFFICES ASSUME CInv, pc = "copying", NEW n \in 1 .. MaxSize,
                      n <= given.settings.max_compress_bytes, CompressorServes
               PROVE  ChunkMaySucceed(n)
    BY DEF AcceptedCopyIsNeverDoomed
  <2> BoundInv /\ n <= bind_data.max_compress_bytes
    BY DEF CInv, BoundInv
  <2>1. CompressWith(Staged(n), << >>) # {Error}
    BY StagedCompresses DEF IsTrained
  <2>2. CASE ~bind_data.trained_compressor
    BY <2>1, <2>2 DEF ChunkMaySucceed, FirstAttempt, LoadCompressorFile
  <2>3. CASE bind_data.trained_compressor /\ bind_data.fallback_to_generic
    BY <2>1, <2>3 DEF ChunkMaySucceed, MayFallBack
  <2>4. CASE bind_data.trained_compressor /\ ~bind_data.fallback_to_generic
    <3>1. compressor_file \in CompressorFiles
          /\ (IsTrained(compressor_file) =>
                 Loads(compressor_file, bind_data.graph))
      BY <2>4 DEF CompressorServes, CInv, FilesInv
    <3>2. CompressWith(Staged(n), compressor_file) # {Error}
      BY <2>4, <3>1, StagedCompresses
    <3>3. QED
      BY <2>4, <3>2 DEF ChunkMaySucceed, FirstAttempt, LoadCompressorFile
  <2>5. QED
    BY <2>2, <2>3, <2>4
<1>2. QED
  BY CompressInv, <1>1, PTL

\* Every frame of an archive has the version, the profile and, of the generic
\* graph, the chunk size that the options or else the settings at bind time
\* ask for.
THEOREM ArchivesAreAsAsked == Spec => []ArchiveIsAsAsked
<1>1. CInv => ArchiveIsAsAsked
  <2> SUFFICES ASSUME CInv
               PROVE  ArchiveIsAsAsked
    OBVIOUS
  <2> SUFFICES ASSUME NEW k \in DOMAIN archive
               PROVE  LET o == given.options
                          s == given.settings
                          f == archive[k].frame
                          version ==
                             Given(Given(o.format_version, s.format_version), 0)
                          profile == Given(Given(o.profile, s.profile), "parquet")
                          size == Given(Given(o.parquet_chunk_bytes,
                                              s.parquet_chunk_bytes), -1)
                      IN  /\ version = 0 => f.version = ZL_MAX_FORMAT_VERSION
                          /\ version \in Versions => f.version = version
                          /\ f.profile = profile
                          /\ size >= 0 /\ profile = "parquet"
                             /\ ~archive[k].trained => f.chunk = size
    BY DEF ArchiveIsAsAsked
  <2> DEFINE o == given.options
             s == given.settings
             f == archive[k].frame
             g == bind_data.graph
             version == Given(Given(o.format_version, s.format_version), 0)
             profile == Given(Given(o.profile, s.profile), "parquet")
             size == Given(Given(o.parquet_chunk_bytes, s.parquet_chunk_bytes), -1)
  <2>1. pc = "copying" /\ AsBound(archive[k])
    <3>1. k \in 1 .. Len(archive)
      BY LenProperties DEF CInv, EntriesInv
    <3>2. QED
      BY <3>1 DEF CInv, EntriesInv
  <2>2. /\ o \in CopyOptions /\ s \in Settings /\ Bindable(o, s)
        /\ g = CopyGraph(o, s)
    BY <2>1 DEF CInv, BoundInv
  <2>3. ValidateGraphOptions(g) /\ SettingTyped(o) /\ SettingTyped(s)
    BY <2>2, OptionsAssumption DEF Bindable
  <2>4. /\ g.format_version = Given(o.format_version,
              IF s.format_version = NULL THEN 0 ELSE ToInt(s.format_version))
        /\ g.profile = profile
        /\ g.parquet_chunk_bytes = Given(o.parquet_chunk_bytes,
              IF s.parquet_chunk_bytes = NULL \/ s.parquet_chunk_bytes < 0
              THEN kAutoParquetChunkBytes ELSE s.parquet_chunk_bytes)
    BY <2>2 DEF CopyGraph, OpenzlDefaultGraphOptions, Given
  <2>5. version \in 0 .. IntMax => g.format_version = version
    BY <2>3, <2>4, ToIntInRange, GraphAssumption DEF Given, SettingTyped
  <2>6. /\ f.version = EffectiveVersion(g) /\ f.profile = g.profile
        /\ ~archive[k].trained => f = Frame(f.data, g)
    BY <2>1 DEF AsBound
  <2>7. version = 0 => f.version = ZL_MAX_FORMAT_VERSION
    BY <2>5, <2>6, GraphAssumption DEF EffectiveVersion
  <2>8. version \in Versions => f.version = version
    BY <2>5, <2>6, GraphAssumption DEF EffectiveVersion, Versions
  <2>9. ASSUME size >= 0, profile = "parquet", ~archive[k].trained
        PROVE  f.chunk = size
    <3>1. /\ g.parquet_chunk_bytes = size
          /\ size \in Int /\ size # kAutoParquetChunkBytes
      BY <2>3, <2>4, <2>9, GraphAssumption
         DEF Given, SettingTyped, kAutoParquetChunkBytes
    <3>2. size \in 0 .. IntMax
      BY <2>3, <2>9, <3>1, GraphAssumption
         DEF ValidateGraphOptions, ChunkBytesFitInt, ExplicitChunkBytes
    <3>3. f.chunk = ToInt(ResolveParquetChunkBytes(g))
      BY <2>4, <2>6, <2>9 DEF Frame
    <3>4. QED
      BY <3>1, <3>2, <3>3, ToIntInRange, GraphAssumption
         DEF ResolveParquetChunkBytes
  <2>10. QED
    BY <2>4, <2>6, <2>7, <2>8, <2>9
<1>2. QED
  BY CompressInv, <1>1, PTL

-----------------------------------------------------------------------------
(* The types, and the count of generic frames.                             *)

\* The chunks that the generic graph has compressed.
Generic == { k \in DOMAIN archive : ~archive[k].trained }

\* A statement that names a compressor: each generic chunk of a COPY has been
\* counted, and openzl_compress has a trained compressor.
CountInv ==
    pc = "copying" /\ bind_data.trained_compressor =>
        Cardinality(Generic) = g_fallback_chunks - countBefore

AskedInv ==
    /\ pc = "reading" => (call.asked => IsTrained(call.compressor))
    /\ output # NoFile => (output.asked => output.trained)

TInv == CInv /\ TypeOK

\* What bind has accepted is the data of a COPY.
LEMMA BoundIsTyped ==
    ASSUME NEW o \in CopyOptions, NEW s \in Settings, Bindable(o, s)
    PROVE  [graph |-> CopyGraph(o, s), parquet |-> ParquetOptions(o),
            trained_compressor |-> o.trained_compressor,
            fallback_to_generic |-> o.fallback_to_generic,
            chunk_size_bytes |-> Given(o.chunk_size_bytes, s.chunk_size_bytes),
            max_compress_bytes |-> s.max_compress_bytes] \in BindData
<1>1. CopyGraph(o, s) \in GraphOptionsType
  BY CopyGraphTyped
<1>2. /\ o.trained_compressor \in BOOLEAN /\ o.fallback_to_generic \in BOOLEAN
      /\ o.chunk_size_bytes = NULL \/ o.chunk_size_bytes \in Int
      /\ s.max_compress_bytes \in Nat /\ s.chunk_size_bytes \in Nat
  BY OptionsAssumption
<1>3. Given(o.chunk_size_bytes, s.chunk_size_bytes) \in Nat
  BY <1>2 DEF Given, Bindable
<1> QED  BY <1>1, <1>2, <1>3 DEF BindData

\* A compression of an input that succeeds gives a frame.
LEMMA CompressedIsFrame ==
    ASSUME NEW input \in Inputs, NEW limit, NEW g \in GraphOptionsType,
           NEW compressor \in CompressorFiles \cup {<< >>},
           NEW f \in CompressBytesImpl(input, limit, g, compressor), f # Error
    PROVE  f \in Frames
<1> DEFINE F == Frame(input, g)
<1>1. ValidateGraphOptions(g) /\ f \in compressSerial(input, g, compressor)
  BY DEF CompressBytesImpl
<1>2. Writable(F) /\ g.profile \in Profiles
  BY <1>1, ValidFrames DEF ValidateGraphOptions, KnownProfile
<1>3. F \in Frames
  BY <1>2 DEF Frame, Frames, Writable
<1>4. CASE f = F
  BY <1>3, <1>4
<1>5. CASE IsTrained(compressor) /\ Loads(compressor, g) /\ f = [F EXCEPT !.chunk = compressor[1]]
  <2>1. compressor \in Seq({Error} \cup 0 .. IntMax) /\ compressor # << >>
    BY <1>5, OptionsAssumption DEF IsTrained
  <2>2. compressor[1] \in {Error} \cup 0 .. IntMax
    BY <2>1
  <2>3. compressor[1] \in 0 .. IntMax
    BY <1>5, <2>2 DEF Loads
  <2> HIDE DEF F
  <2> QED  BY <1>3, <1>5, <2>3 DEF Frames
<1> QED  BY <1>1, <1>4, <1>5 DEF compressSerial

\* What an Append makes of the archive.
LEMMA AppendedEntries ==
    ASSUME EntriesInv, NEW e, archive' = Append(archive, e)
    PROVE  /\ Len(archive) \in Nat /\ DOMAIN archive = 1 .. Len(archive)
           /\ DOMAIN archive' = DOMAIN archive \cup {Len(archive) + 1}
           /\ \A k \in DOMAIN archive : archive'[k] = archive[k]
           /\ archive'[Len(archive) + 1] = e
<1>1. PICK S : archive \in Seq(S)
  BY DEF EntriesInv
<1>2. archive \in Seq(S \cup {e}) /\ e \in S \cup {e}
  BY <1>1, SeqDef
<1>3. /\ Len(archive) \in Nat /\ DOMAIN archive = 1 .. Len(archive)
  BY <1>1, LenProperties
<1>4. /\ archive' \in Seq(S \cup {e}) /\ Len(archive') = Len(archive) + 1
      /\ \A k \in 1 .. Len(archive) : archive'[k] = archive[k]
      /\ archive'[Len(archive) + 1] = e
  BY <1>2, AppendProperties
<1>5. DOMAIN archive' = 1 .. Len(archive) + 1
  BY <1>4, LenProperties
<1> QED  BY <1>3, <1>4, <1>5

\* The number of generic chunks after an Append.
LEMMA AppendedGeneric ==
    ASSUME EntriesInv, NEW e, archive' = Append(archive, e)
    PROVE  /\ Cardinality(Generic) \in Nat
           /\ e.trained => Generic' = Generic
           /\ ~e.trained => Cardinality(Generic') = Cardinality(Generic) + 1
<1> DEFINE n == Len(archive)
<1>1. /\ n \in Nat /\ DOMAIN archive = 1 .. n
      /\ DOMAIN archive' = DOMAIN archive \cup {n + 1}
      /\ \A k \in DOMAIN archive : archive'[k] = archive[k]
      /\ archive'[n + 1] = e
  BY AppendedEntries
<1>2. IsFiniteSet(1 .. n)
  BY <1>1, FS_Interval
<1>3. IsFiniteSet(Generic) /\ n + 1 \notin Generic
  BY <1>1, <1>2, FS_Subset DEF Generic
<1>4. Cardinality(Generic) \in Nat
  BY <1>3, FS_CardinalityType
<1>5. ASSUME e.trained PROVE Generic' = Generic
  BY <1>1, <1>5 DEF Generic
<1>6. ASSUME ~e.trained PROVE Generic' = Generic \cup {n + 1}
  BY <1>1, <1>6 DEF Generic
<1>7. ASSUME ~e.trained PROVE Cardinality(Generic') = Cardinality(Generic) + 1
  BY <1>3, <1>6, <1>7, FS_AddElement
<1> QED  BY <1>4, <1>5, <1>7

\* A chunk is compressed, falls back or fails.
LEMMA EndChunkTyped ==
    ASSUME TInv, NEW n \in 1 .. MaxSize, OpenzlEndChunk(n)
    PROVE  TypeOK'
<1> USE DEF copyVars
<1>1. /\ TypeOK /\ CInv /\ EntriesInv /\ pc = "copying"
      /\ bind_data \in BindData /\ given \in Requests
      /\ UNCHANGED << settings, compressor_file, input_file, call, output >>
  BY DEF TInv, CInv, TypeOK, OpenzlEndChunk
<1>2. Staged(n) \in Inputs /\ ChunkGraph \in GraphOptionsType
  BY <1>1, StagedIsInput DEF ChunkGraph, BindData
<1>3. ASSUME NEW c \in CompressorFiles \cup {<< >>, NoFile},
             NEW f \in CompressWith(Staged(n), c) \ {Error}, NEW t,
             archive' = Append(archive, [frame |-> f, trained |-> t]),
             UNCHANGED << pc, bind_data, given, countBefore >>, g_fallback_chunks' \in Nat
      PROVE  TypeOK'
  <2>1. c # NoFile
    BY <1>3 DEF CompressWith
  <2>2. f \in Frames
    BY <1>2, <1>3, <2>1, CompressedIsFrame DEF CompressWith
  <2>3. \A k \in DOMAIN archive' : archive'[k].frame \in Frames
    BY <1>1, <1>3, <2>2, AppendedEntries DEF TypeOK
  <2> QED  BY <1>1, <1>3, <2>3 DEF TypeOK
<1>4. LoadCompressorFile(bind_data.trained_compressor)
         \in CompressorFiles \cup {<< >>, NoFile}
  BY <1>1 DEF TypeOK, LoadCompressorFile
<1>5. g_fallback_chunks \in Nat /\ g_fallback_chunks + 1 \in Nat
  BY <1>1 DEF TypeOK
<1>6. CASE Compress(n)
  BY <1>3, <1>4, <1>5, <1>6 DEF Compress, FirstAttempt
<1>7. CASE FallBack(n)
  BY <1>3, <1>5, <1>7 DEF FallBack
<1>8. CASE CompressFails(n)
  <2>1. /\ pc' = "idle" /\ bind_data' = NULL /\ archive' = << >> /\ given' = NULL
        /\ countBefore' = 0 /\ g_fallback_chunks' \in Nat
    BY <1>5, <1>8 DEF CompressFails, CopyEnds
  <2> QED  BY <1>1, <2>1 DEF TypeOK
<1> QED  BY <1>6, <1>7, <1>8 DEF OpenzlEndChunk

\* Every step keeps the types.
LEMMA NextTyped == TInv /\ [Next]_vars => TInv'
<1> SUFFICES ASSUME TInv, [Next]_vars PROVE TInv'
  OBVIOUS
<1> USE DEF copyVars
<1>a. TypeOK /\ CInv /\ CInv'
  BY NextCInv DEF TInv
<1> SUFFICES TypeOK'
  BY <1>a DEF TInv
<1>1. CASE UNCHANGED vars
  BY <1>a, <1>1 DEF vars, TypeOK
<1>2. ASSUME NEW s \in Settings, Set(s) PROVE TypeOK'
  BY <1>a, <1>2 DEF Set, TypeOK
<1>3. ASSUME NEW b \in CompressorFiles \cup {NoFile}, WriteCompressor(b) PROVE TypeOK'
  BY <1>a, <1>3 DEF WriteCompressor, TypeOK
<1>4. ASSUME NEW f \in Inputs \cup {NoFile}, WriteInput(f) PROVE TypeOK'
  BY <1>a, <1>4 DEF WriteInput, TypeOK
<1>5. ASSUME NEW o \in CopyOptions, OpenzlCopyBind(o) PROVE TypeOK'
  <2>1. bind_data' \in BindData /\ bind_data' # NULL
    BY <1>a, <1>5, BoundIsTyped, NullAssumption DEF OpenzlCopyBind, TypeOK
  <2>2. given' \in Requests /\ given' # NULL
    BY <1>a, <1>5, NullAssumption DEF OpenzlCopyBind, TypeOK, Requests
  <2>3. /\ pc' = "copying" /\ pc = "idle" /\ output' = NoFile
        /\ countBefore' = g_fallback_chunks
        /\ UNCHANGED << settings, compressor_file, input_file, archive,
                        g_fallback_chunks, call >>
    BY <1>5 DEF OpenzlCopyBind
  <2> QED  BY <1>a, <2>1, <2>2, <2>3 DEF TypeOK
<1>6. ASSUME NEW n \in 1 .. MaxSize, OpenzlEndChunk(n) PROVE TypeOK'
  BY <1>6, EndChunkTyped
<1>7. CASE OpenzlCopyFinalize
  BY <1>a, <1>7 DEF OpenzlCopyFinalize, CopyEnds, TypeOK
<1>8. ASSUME NEW c \in CompressorFiles \cup {<< >>}, NEW asked \in BOOLEAN, Call(c, asked)
      PROVE  TypeOK'
  <2>1. /\ OpenzlDefaultGraphOptions(settings) \in GraphOptionsType
        /\ settings.max_compress_bytes \in Nat
    BY <1>a, SettingsAreRead, OptionsAssumption DEF TypeOK
  <2>2. call' \in Calls /\ call' # NULL
    BY <1>8, <2>1, NullAssumption DEF Call, Calls
  <2> QED  BY <1>a, <1>8, <2>2 DEF Call, TypeOK
<1>9. CASE ReadInput
  <2>1. call \in Calls
    BY <1>a, <1>9 DEF ReadInput, TypeOK
  <2>2. output' # NoFile => output'.frame \in Frames
    <3>1. CASE UNCHANGED output
      BY <1>a, <3>1 DEF TypeOK
    <3>2. ASSUME NEW f \in ReadOutcomes \ {Error}, output'.frame = f
          PROVE  output'.frame \in Frames
      <4>1. input_file \in Inputs
            /\ f \in CompressBytesImpl(input_file, call.max_input_bytes, call.graph, call.compressor)
        BY <1>a, <3>2 DEF ReadOutcomes, TypeOK
      <4> QED  BY <2>1, <3>2, <4>1, CompressedIsFrame DEF Calls
    <3> QED  BY <1>9, <3>1, <3>2 DEF ReadInput
  <2> QED  BY <1>a, <1>9, <2>2 DEF ReadInput, TypeOK
<1>10. ASSUME NEW named \in BOOLEAN, CompressParquet(named) PROVE TypeOK'
  BY <1>a, <1>8, <1>10 DEF CompressParquet, LoadCompressorFile, TypeOK
<1> QED
  BY <1>1, <1>2, <1>3, <1>4, <1>5, <1>6, <1>7, <1>8, <1>9, <1>10
     DEF Next, CompressParquetWithCompressorBytes

\* No statement runs at first.
LEMMA InitTyped == Init => TInv /\ CountInv /\ AskedInv
<1> SUFFICES ASSUME Init PROVE TypeOK /\ CountInv /\ AskedInv
  BY InitCInv DEF TInv
<1>1. DOMAIN archive = {}
  BY DEF Init
<1> QED  BY <1>1 DEF Init, TypeOK, CountInv, AskedInv

\* A COPY and a call of openzl_compress have their data exactly while they
\* run, and what they have written are frames, for any options and settings.
THEOREM CompressTypeOK == Spec => []TypeOK
<1>1. TInv => TypeOK
  BY DEF TInv
<1> QED  BY InitTyped, NextTyped, <1>1, PTL DEF Spec

\* A step that leaves the COPY, its archive and the count alone.
LEMMA CountKept ==
    ASSUME CountInv, UNCHANGED << bind_data, archive, countBefore, g_fallback_chunks >>,
           pc' = pc \/ pc' # "copying"
    PROVE  CountInv'
BY DEF CountInv, Generic

\* A chunk that the named compressor has not compressed is counted.
LEMMA EndChunkCounted ==
    ASSUME TInv, CountInv, << >> \notin CompressorFiles,
           NEW n \in 1 .. MaxSize, OpenzlEndChunk(n)
    PROVE  CountInv'
<1>1. /\ EntriesInv /\ pc = "copying" /\ g_fallback_chunks \in Nat /\ countBefore \in Nat
      /\ compressor_file \in CompressorFiles \cup {NoFile}
  BY DEF TInv, CInv, TypeOK, OpenzlEndChunk
<1>2. CASE Compress(n)
  <2> DEFINE c == LoadCompressorFile(bind_data.trained_compressor)
  <2>1. PICK f \in FirstAttempt(n) \ {Error} :
           archive' = Append(archive, [frame |-> f, trained |-> IsTrained(c)])
    BY <1>2 DEF Compress
  <2>2. UNCHANGED << pc, bind_data, countBefore, g_fallback_chunks >>
    BY <1>2 DEF Compress
  <2>3. ASSUME bind_data.trained_compressor PROVE IsTrained(c)
    <3>1. c = compressor_file /\ c # NoFile
      BY <2>1, <2>3 DEF LoadCompressorFile, FirstAttempt, CompressWith
    <3> QED  BY <1>1, <3>1 DEF IsTrained
  <2>4. ASSUME bind_data.trained_compressor PROVE Generic' = Generic
    <3> DEFINE e == [frame |-> f, trained |-> IsTrained(c)]
    <3>1. e.trained
      BY <2>3, <2>4
    <3> HIDE DEF c, e
    <3>2. archive' = Append(archive, e)
      BY <2>1 DEF e
    <3> QED  BY <1>1, <3>1, <3>2, AppendedGeneric
  <2> QED  BY <2>2, <2>4 DEF CountInv
<1>3. CASE FallBack(n)
  <2>1. PICK f \in CompressWith(Staged(n), << >>) \ {Error} :
           archive' = Append(archive, [frame |-> f, trained |-> FALSE])
    BY <1>3 DEF FallBack
  <2>2. /\ UNCHANGED << pc, bind_data, countBefore >>
        /\ g_fallback_chunks' = g_fallback_chunks + 1
    BY <1>3 DEF FallBack
  <2>3. Cardinality(Generic') = Cardinality(Generic) + 1 /\ Cardinality(Generic) \in Nat
    BY <1>1, <2>1, AppendedGeneric
  <2>4. ASSUME bind_data.trained_compressor
        PROVE  Cardinality(Generic') = g_fallback_chunks' - countBefore'
    BY <1>1, <2>2, <2>3, <2>4 DEF CountInv
  <2> QED  BY <2>2, <2>4 DEF CountInv
<1>4. CASE CompressFails(n)
  BY <1>4 DEF CompressFails, CopyEnds, CountInv
<1> QED  BY <1>2, <1>3, <1>4 DEF OpenzlEndChunk

\* Every step keeps the count and what openzl_compress was asked for.
LEMMA NextCounted ==
    ASSUME << >> \notin CompressorFiles
    PROVE  TInv /\ CountInv /\ AskedInv /\ [Next]_vars => CountInv' /\ AskedInv'
<1> SUFFICES ASSUME TInv, CountInv, AskedInv, [Next]_vars PROVE CountInv' /\ AskedInv'
  OBVIOUS
<1> USE DEF copyVars
<1>a. compressor_file \in CompressorFiles \cup {NoFile} /\ g_fallback_chunks \in Nat
  BY DEF TInv, TypeOK
<1>1. CASE UNCHANGED vars
  <2>1. CountInv'
    BY <1>1, CountKept DEF vars
  <2> QED  BY <1>1, <2>1 DEF vars, AskedInv
<1>2. ASSUME NEW s, Set(s) \/ WriteCompressor(s) \/ WriteInput(s)
      PROVE  CountInv' /\ AskedInv'
  <2>1. UNCHANGED << pc, bind_data, archive, countBefore, g_fallback_chunks, call, output >>
    BY <1>2 DEF Set, WriteCompressor, WriteInput
  <2>2. CountInv'
    BY <2>1, CountKept
  <2> QED  BY <2>1, <2>2 DEF AskedInv
<1>3. ASSUME NEW o \in CopyOptions, OpenzlCopyBind(o) PROVE CountInv' /\ AskedInv'
  <2>1. /\ archive' = << >> /\ countBefore' = g_fallback_chunks'
        /\ pc' = "copying" /\ output' = NoFile /\ UNCHANGED g_fallback_chunks
    BY <1>3 DEF OpenzlCopyBind, TInv, TypeOK
  <2>2. Generic' = {}
    BY <2>1 DEF Generic
  <2>3. Cardinality(Generic') = 0
    BY <2>2, FS_EmptySet
  <2>4. CountInv'
    BY <1>a, <2>1, <2>3 DEF CountInv
  <2> QED  BY <2>1, <2>4 DEF AskedInv
<1>4. ASSUME NEW n \in 1 .. MaxSize, OpenzlEndChunk(n) PROVE CountInv' /\ AskedInv'
  <2>1. UNCHANGED << call, output >> /\ pc' # "reading"
    BY <1>4 DEF OpenzlEndChunk, Compress, FallBack, CompressFails, CopyEnds
  <2> QED  BY <1>4, <2>1, EndChunkCounted DEF AskedInv
<1>5. CASE OpenzlCopyFinalize
  BY <1>5 DEF OpenzlCopyFinalize, CopyEnds, CountInv, AskedInv
<1>6. ASSUME NEW c, NEW asked, Call(c, asked), asked => IsTrained(c)
      PROVE  CountInv' /\ AskedInv'
  <2>1. CountInv'
    BY <1>6, CountKept DEF Call
  <2> QED  BY <1>6, <2>1 DEF Call, AskedInv
<1>7. CASE ReadInput
  <2>1. CountInv'
    BY <1>7, CountKept DEF ReadInput
  <2>2. /\ pc = "reading" /\ pc' = "idle"
        /\ \/ UNCHANGED output
           \/ output'.asked = call.asked /\ output'.trained = IsTrained(call.compressor)
    BY <1>7 DEF ReadInput
  <2> QED  BY <2>1, <2>2 DEF AskedInv
<1>8. ASSUME NEW named \in BOOLEAN, CompressParquet(named) PROVE CountInv' /\ AskedInv'
  <2>1. named => IsTrained(LoadCompressorFile(named))
    BY <1>a, <1>8 DEF CompressParquet, LoadCompressorFile, IsTrained
  <2> QED  BY <1>6, <1>8, <2>1 DEF CompressParquet
<1> QED
  BY <1>1, <1>2, <1>3, <1>4, <1>5, <1>6, <1>7, <1>8
     DEF Next, CompressParquetWithCompressorBytes

\* The generic graph never steps in unseen: a statement that names a trained
\* compressor uses it or counts the chunk, if no compressor file is empty.
THEOREM GenericOnlyIfAsked ==
    ASSUME << >> \notin CompressorFiles
    PROVE  Spec => []GenericOnlyWhenAsked
<1>1. CountInv /\ AskedInv => GenericOnlyWhenAsked
  BY DEF CountInv, AskedInv, Generic, GenericOnlyWhenAsked
<1>2. TInv /\ CountInv /\ AskedInv /\ [Next]_vars => CountInv' /\ AskedInv'
  BY NextCounted
<1> QED  BY InitTyped, NextTyped, <1>1, <1>2, PTL DEF Spec
=============================================================================
